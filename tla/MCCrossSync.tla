---------------------------- MODULE MCCrossSync ----------------------------
(* A pair of Sonarrs that shares its Secret, two that do not, a Sonarr and a  *)
(* Radarr, one of which may name no Secret, and what fills Maintainerr's       *)
(* slots: two Seerrs, or one and a Tautulli.  The hubs name the Secret they    *)
(* read, another one, or none.                                                 *)
EXTENDS CrossSync

MCRank == [a \in {"one", "two"} |-> IF a = "one" THEN 1 ELSE 2]

Both(k) == [a \in {"one", "two"} |-> k]
Own == [a \in {"one", "two"} |-> a]

Pair == [kindOf |-> Both("sonarr"), keyOf |-> Both("one")]
Twins == [kindOf |-> Both("sonarr"), keyOf |-> Own]
Mixed == [kindOf |-> [Both("sonarr") EXCEPT !["two"] = "radarr"], keyOf |-> Own]
Keyless == [Mixed EXCEPT !.keyOf["two"] = Unset]
Seerrs == [kindOf |-> Both("seerr"), keyOf |-> Own]
Slots == [kindOf |-> [Both("seerr") EXCEPT !["two"] = "tautulli"], keyOf |-> Own]

Scene(h, n, s) == [hub |-> [kind |-> h, auto |-> TRUE, named |-> n], setup |-> s]

MCScenes == {
  Scene("Prowlarr", Hub, Pair), Scene("Seerr", Other, Mixed),
  Scene("Bazarr", Unset, Twins), Scene("Bazarr", Other, Mixed),
  Scene("Maintainerr", Unset, Mixed), Scene("Maintainerr", Other, Mixed),
  Scene("Maintainerr", Hub, Seerrs), Scene("Maintainerr", Hub, Slots),
  Scene("Cleanuparr", Hub, Mixed), Scene("Cleanuparr", Unset, Mixed),
  Scene("Houndarr", Unset, Mixed), Scene("Houndarr", Hub, Keyless)}
=============================================================================
