------------------------------ MODULE KeyOnce ------------------------------
(***************************************************************************)
(* What the operator promises about generated API keys: a Secret that      *)
(* holds none gets one that was never handed out before, and one that      *)
(* holds a key keeps it until it is removed.  Nothing writes over a key.   *)
(***************************************************************************)
EXTENDS Naturals

CONSTANT Names   \* the Secrets

VARIABLES key,   \* the key each Secret holds; 0 is none
          drawn  \* how many each was given so far

TypeOK == key \in [Names -> Nat] /\ drawn \in [Names -> Nat]

Init == key = [n \in Names |-> 0] /\ drawn = [n \in Names |-> 0]

\* A Secret without a key gets a new one.
Draw(n) ==
  /\ key[n] = 0
  /\ drawn' = [drawn EXCEPT ![n] = @ + 1]
  /\ key' = [key EXCEPT ![n] = drawn[n] + 1]

\* Secrets are removed, by a user or with their owner.
Remove(S) ==
  /\ key' = [n \in Names |-> IF n \in S THEN 0 ELSE key[n]]
  /\ UNCHANGED drawn

Next == (\E n \in Names : Draw(n)) \/ (\E S \in SUBSET Names : Remove(S))

Spec == Init /\ [][Next]_<<key, drawn>>
=============================================================================
