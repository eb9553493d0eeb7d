------------------------------ MODULE Rollout ------------------------------
(***************************************************************************)
(* What the MediaStack controller promises about the children of a stack.  *)
(*                                                                         *)
(* It works in passes.  A pass fixes the children that are wanted.  It     *)
(* creates one of them only once it has settled every wanted child of a    *)
(* lower tier: it found that child ready, or gave up on it.  It removes    *)
(* only what it does not want.  What it reports, it found out itself, in   *)
(* one pass; and a child is found ready or given up on, never both.        *)
(*                                                                         *)
(* A pass may end at any time without a report.  When a child is given up  *)
(* on, and how long that takes, is left open.                              *)
(***************************************************************************)
EXTENDS Integers

CONSTANTS App,  \* the children a stack may have
          Tier  \* the rollout tier of each

VARIABLES child,    \* each child is "absent", "live" or "terminating"
          up,       \* the children that are ready
          want,     \* of the current pass: what is wanted,
          seen,     \*   what was found ready,
          givenUp,  \*   and what was given up on
          report    \* what the stack's status says: ready and bypassed children

pass == <<want, seen, givenUp>>
vars == <<child, up, pass, report>>

Nothing == [ready |-> {}, bypassed |-> {}]

Init ==
  /\ child \in [App -> {"absent", "live"}] /\ up = {}
  /\ want = {} /\ seen = {} /\ givenUp = {}
  /\ report = Nothing

Over == want' = {} /\ seen' = {} /\ givenUp' = {}

Start(W) ==
  /\ want = {}
  /\ want' = W
  /\ UNCHANGED <<child, up, seen, givenUp, report>>

Settled == seen \union givenUp

Create(c) ==
  /\ c \in want /\ child[c] = "absent"
  /\ \A d \in want : Tier[d] < Tier[c] => d \in Settled
  /\ child' = [child EXCEPT ![c] = "live"]
  /\ UNCHANGED <<up, pass, report>>

FindReady(c) ==
  /\ c \in want \ givenUp /\ c \in up
  /\ seen' = seen \union {c}
  /\ UNCHANGED <<child, up, want, givenUp, report>>

GiveUp(S) ==
  /\ S \subseteq want \ seen
  /\ givenUp' = givenUp \union S
  /\ UNCHANGED <<child, up, want, seen, report>>

\* A child with finalizers lingers, and is gone when the last one is removed.
Leave(c) ==
  /\ child' = [child EXCEPT ![c] = "absent"]
  /\ up' = up \ {c}

Remove(c) ==
  /\ c \notin want /\ child[c] = "live"
  /\ \/ Leave(c)
     \/ child' = [child EXCEPT ![c] = "terminating"] /\ UNCHANGED up
  /\ UNCHANGED <<pass, report>>

Gone(c) ==
  /\ child[c] = "terminating"
  /\ Leave(c)
  /\ UNCHANGED <<pass, report>>

\* Children become ready and unready by themselves.
Turn(c) ==
  /\ child[c] = "live"
  /\ up' \in {up \union {c}, up \ {c}}
  /\ UNCHANGED <<child, pass, report>>

Report ==
  /\ report' = [ready |-> seen, bypassed |-> givenUp]
  /\ Over
  /\ UNCHANGED <<child, up>>

\* What the stack asks for makes no sense: nothing is wanted, nothing reported.
Reject ==
  /\ want = {}
  /\ report' = Nothing
  /\ UNCHANGED <<child, up, pass>>

Abandon == Over /\ UNCHANGED <<child, up, report>>

Next ==
  \/ \E W \in SUBSET App : Start(W) \/ GiveUp(W)
  \/ \E c \in App : Create(c) \/ FindReady(c) \/ Remove(c) \/ Gone(c) \/ Turn(c)
  \/ Report \/ Reject \/ Abandon

Spec == Init /\ [][Next]_vars
=============================================================================
