----------------------------- MODULE Membership -----------------------------
(***************************************************************************)
(* What the controller promises about the registrations of apps in hubs.   *)
(*                                                                         *)
(* A hub gains an app only from a pass of its own that found the app, and  *)
(* loses one only to a pass that did not find it, where its owner allows   *)
(* that, or to the cleanup of an app that was deleted.  A deleted app may  *)
(* owe cleanups.  It owes one less when it is seen out of a hub, or the    *)
(* hub is not on, and is gone only when it owes none.                      *)
(*                                                                         *)
(* Of an app that was created again under its name nothing is promised     *)
(* but that its registrations come and go in these ways.                   *)
(***************************************************************************)

CONSTANTS App, Hub,
          Serves,      \* Serves[h]: the apps that hub h registers
          AutoRemove   \* AutoRemove[h]: may its passes unregister

VARIABLES obj,        \* obj[a]: the app is "absent", "live" or "terminating"
          used, again,   \* names that had an app, and those that had two
          on,         \* the hubs that are on
          reg,        \* reg[h]: the apps registered in h
          due,        \* due[a]: hubs that a deleted app is still to be cleaned up in
          seen,       \* seen[h]: apps that the pass of h found and may register
          unseen      \* unseen[h]: apps it did not find and may unregister

apps == <<obj, used, again>>
passes == <<seen, unseen>>
vars == <<apps, on, reg, due, passes>>

Init ==
  /\ obj \in [App -> {"absent", "live"}]
  /\ used = {a \in App : obj[a] = "live"} /\ again = {}
  /\ on \in SUBSET Hub
  /\ reg = [h \in Hub |-> {}]
  /\ due = [a \in App |-> {}]
  /\ seen = [h \in Hub |-> {}] /\ unseen = [h \in Hub |-> {}]

Create(a) ==
  /\ obj[a] = "absent"
  /\ obj' = [obj EXCEPT ![a] = "live"]
  /\ used' = used \union {a}
  /\ again' = again \union (used \cap {a})
  /\ due' = [due EXCEPT ![a] = {}]
  /\ UNCHANGED <<on, reg, passes>>

Delete(a, hubs) ==
  /\ obj[a] = "live"
  /\ obj' = [obj EXCEPT ![a] = IF hubs = {} THEN "absent" ELSE "terminating"]
  /\ due' = [due EXCEPT ![a] = hubs]
  /\ UNCHANGED <<used, again, on, reg, passes>>

\* The app of a name that is not live is taken out of a hub, which may settle what it owes.
CleanUp(a, h) ==
  /\ obj[a] = "live" => a \in again
  /\ reg' \in {reg, [reg EXCEPT ![h] = @ \ {a}]}
  /\ \/ due' = due
     \/ /\ a \notin reg'[h] \/ h \notin on
        /\ due' = [due EXCEPT ![a] = @ \ {h}]
  /\ UNCHANGED <<apps, on, passes>>

Vanish(a) ==
  /\ obj[a] = "terminating"
  /\ due[a] = {} \/ a \in again
  /\ obj' = [obj EXCEPT ![a] = "absent"]
  /\ UNCHANGED <<used, again, on, reg, due, passes>>

Switch(hubs) == on' = hubs /\ UNCHANGED <<apps, reg, due, passes>>

\* A pass finds apps that exist, not always all of them.
Find(h, found) ==
  /\ h \in on
  /\ found \subseteq {a \in Serves[h] : obj[a] # "absent"}
  /\ seen' = [seen EXCEPT ![h] = found]
  /\ unseen' = [unseen EXCEPT ![h] = IF AutoRemove[h] THEN App \ found ELSE {}]
  /\ UNCHANGED <<apps, on, reg, due>>

\* It leaves apps as they are, for any reason, ...
Narrow(h, S, T) ==
  /\ S \subseteq seen[h] /\ T \subseteq unseen[h]
  /\ seen' = [seen EXCEPT ![h] = S]
  /\ unseen' = [unseen EXCEPT ![h] = T]
  /\ UNCHANGED <<apps, on, reg, due>>

\* ... or registers one that it found, or unregisters one that it did not find.
Register(h, a) ==
  /\ a \in seen[h]
  /\ reg' = [reg EXCEPT ![h] = @ \union {a}]
  /\ seen' = [seen EXCEPT ![h] = @ \ {a}]
  /\ UNCHANGED <<apps, on, due, unseen>>

Purge(h, a) ==
  /\ a \in unseen[h]
  /\ reg' = [reg EXCEPT ![h] = @ \ {a}]
  /\ unseen' = [unseen EXCEPT ![h] = @ \ {a}]
  /\ UNCHANGED <<apps, on, due, seen>>

Next ==
  \/ \E a \in App : Create(a) \/ Vanish(a) \/ \E hubs \in SUBSET Hub : Delete(a, hubs)
  \/ \E hubs \in SUBSET Hub : Switch(hubs)
  \/ \E h \in Hub, a \in App : CleanUp(a, h) \/ Register(h, a) \/ Purge(h, a)
  \/ \E h \in Hub, S \in SUBSET App :
       Find(h, S) \/ \E T \in SUBSET App : Narrow(h, S, T)

Spec == Init /\ [][Next]_vars
=============================================================================
