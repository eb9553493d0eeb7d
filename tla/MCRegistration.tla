--------------------------- MODULE MCRegistration ---------------------------
(***************************************************************************)
(* Instances of Registration for TLC: both hubs register one app.          *)
(***************************************************************************)
EXTENDS Registration

ServesAll == [h \in Hub |-> App]
RemoveAll == [h \in Hub |-> TRUE]
=============================================================================
