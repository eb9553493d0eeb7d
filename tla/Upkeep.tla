------------------------------- MODULE Upkeep -------------------------------
(***************************************************************************)
(* What the reconcile of an app promises about the objects built from it.  *)
(*                                                                         *)
(* It works in passes, each by one spec that the app had.  A pass builds   *)
(* what its spec wants and leaves alone what it does not; some objects it  *)
(* only creates.  It takes over a Deployment of the app's name that        *)
(* selects by the right label, whoever made it, and deletes one, which it  *)
(* has looked at before, only if it is the app's own and selects by        *)
(* another label, or has been replaced since it was looked at.  It reports *)
(* the generation of its spec once it has been through all of it.          *)
(*                                                                         *)
(* A pass may end at any time without a report.  In which order it builds, *)
(* and what runs in the meantime, is left open.                            *)
(***************************************************************************)
EXTENDS Naturals

CONSTANTS Variants,  \* the specs an app may have
          Objects,   \* what is built beside the Deployment
          Once,      \* of these, what is created and never touched again
          Wants,     \* Wants[v]: the objects that spec v wants
          Labels,
          Label      \* Label[v]: what its Deployment selects by

VARIABLES app,     \* the spec of the app and its generation,
          known,   \*   and those the controller knows
          held,    \* of each object, if it exists, the generation it was built from
          main,    \* the Deployment, if there is one,
          last,    \*   and the last uid that one had
          pass,    \* the spec a pass works by, if one is on
          target,  \*   the uid of the Deployment it is about to delete,
          done,    \*   and what it has been through
          report   \* the generation the app's status names

cluster == <<held, main, last>>
own == <<pass, target, done>>
vars == <<app, known, cluster, own, report>>

Deployed(uid, mine, label, gen) == [uid |-> uid, mine |-> mine, label |-> label, gen |-> gen]

Over == pass' = {} /\ target' = {} /\ done' = {}

Init ==
  /\ \E v \in Variants : app = [variant |-> v, gen |-> 1]
  /\ known = app
  /\ held = [o \in Objects |-> {}]
  /\ main = {} \/ \E l \in Labels : main = {Deployed(0, FALSE, l, 0)}
  /\ last = 0
  /\ pass = {} /\ target = {} /\ done = {}
  /\ report = 0

-----------------------------------------------------------------------------
(* Users, and the watch.                                                   *)

Edit ==
  /\ \E v \in Variants : app' = [variant |-> v, gen |-> app.gen + 1]
  /\ UNCHANGED <<known, cluster, own, report>>

Learn == known' = app /\ UNCHANGED <<app, cluster, own, report>>

\* What a user writes was built from no spec.
MeddleObject(o) ==
  /\ held[o] # {}
  /\ held' \in {[held EXCEPT ![o] = {0}], [held EXCEPT ![o] = {}]}
  /\ UNCHANGED <<app, known, main, last, own, report>>

MeddleDeployment ==
  /\ main # {}
  /\ \/ main' \in {{[d EXCEPT !.gen = 0] : d \in main}, {}} /\ last' = last
     \/ \E l \in Labels : main' = {Deployed(last', FALSE, l, 0)} /\ last' = last + 1
  /\ UNCHANGED <<app, known, held, own, report>>

-----------------------------------------------------------------------------
(* The pass.                                                               *)

Start ==
  /\ pass = {}
  /\ pass' = {known}
  /\ UNCHANGED <<app, known, cluster, target, done, report>>

Condemn ==
  /\ pass # {}
  /\ target' = {d.uid : d \in main}
  /\ UNCHANGED <<app, known, cluster, pass, done, report>>

Remove ==
  /\ target # {}
  /\ \A s \in pass, d \in main : d.uid \in target => d.mine /\ d.label # Label[s.variant]
  /\ main' = {} /\ target' = {}
  /\ UNCHANGED <<app, known, held, last, pass, done, report>>

Deploy(s) ==
  /\ s \in pass /\ target = {}
  /\ \A d \in main : d.label = Label[s.variant]
  /\ last' = IF main = {} THEN last + 1 ELSE last
  /\ main' = {Deployed(last', TRUE, Label[s.variant], s.gen)}
  /\ done' = done \cup {"Deployment"}
  /\ UNCHANGED <<app, known, held, pass, target, report>>

Build(s, o) ==
  /\ s \in pass /\ o \in Wants[s.variant]
  /\ held' = [held EXCEPT ![o] = IF o \in Once /\ @ # {} THEN @ ELSE {s.gen}]
  /\ done' = done \cup {o}
  /\ UNCHANGED <<app, known, main, last, pass, target, report>>

Report(s) ==
  /\ s \in pass
  /\ {"Deployment"} \cup Wants[s.variant] \subseteq done
  /\ report' = s.gen
  /\ Over
  /\ UNCHANGED <<app, known, cluster>>

Abandon == Over /\ UNCHANGED <<app, known, cluster, report>>

Next ==
  \/ Edit \/ Learn \/ MeddleDeployment \/ \E o \in Objects : MeddleObject(o)
  \/ Start \/ Condemn \/ Remove \/ Abandon
  \/ \E s \in pass : Deploy(s) \/ Report(s) \/ \E o \in Objects : Build(s, o)

Spec == Init /\ [][Next]_vars
=============================================================================
