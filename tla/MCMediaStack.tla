---------------------------- MODULE MCMediaStack ----------------------------
(***************************************************************************)
(* Instances of MediaStack for TLC: a rollout over three tiers, and the    *)
(* rename of an app whose child of the old name is left over.              *)
(***************************************************************************)
EXTENDS MediaStack

RolloutTier     == [jellyfin |-> 0, sabnzbd |-> 1, seerr |-> 3]
RolloutIdentity == [c \in DOMAIN RolloutTier |-> c]
RolloutApps     == DOMAIN RolloutTier

RenameTier     == [seerr |-> 3, overseerr |-> 3]
RenameIdentity == [c \in DOMAIN RenameTier |-> "seerr"]
RenameApps     == DOMAIN RenameTier
=============================================================================
