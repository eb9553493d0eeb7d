----------------------------- MODULE MCSelfHeal -----------------------------
(***************************************************************************)
(* Instances of SelfHeal for TLC: all torrents in one download directory,  *)
(* or each in one of its own.                                              *)
(***************************************************************************)
EXTENDS SelfHeal

OneDir  == [t \in Torrents |-> "downloads"]
OneEach == [t \in Torrents |-> IF t = "t1" THEN "downloads" ELSE "music"]

OneDirOrOneEach == {OneDir, OneEach}
=============================================================================
