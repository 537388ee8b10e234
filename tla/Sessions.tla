------------------------------ MODULE Sessions ------------------------------
(***************************************************************************)
(* What `create` and `delete` promise about machines, whatever they do to  *)
(* keep the promise: a run, called a session here, comes to owe machines,  *)
(* by making them or by finding them; it touches no machine but one it     *)
(* owes, one change of a machine at a time; and it does not settle before  *)
(* it has told its operator of every machine it owes and that still is.    *)
(* Module Provisioning implements this (Provisioning!Implements).          *)
(***************************************************************************)
EXTENDS FiniteSets

CONSTANTS Ops, VMIDs, None

VARIABLES
  exists,  \* the machines there are
  lock,    \* the session on whose behalf a machine is being changed, or None
  phase,   \* "kept" is the end of a session that may leave its machines unsaid
  owed,    \* the machines each session answers for
  told     \* the machines each session has told of

vars == <<exists, lock, phase, owed, told>>

Init ==
  /\ exists = {} /\ lock = [v \in VMIDs |-> None]
  /\ phase = [o \in Ops |-> "off"]
  /\ owed = [o \in Ops |-> {}] /\ told = [o \in Ops |-> {}]

Open(o) == phase[o] = "open"
\* The session tells of machines, or of none, along with whatever it does.
Tells(o) == \E S \in SUBSET VMIDs : told' = [told EXCEPT ![o] = @ \cup S]

Begin(o) ==
  /\ ~Open(o)
  /\ phase' = [phase EXCEPT ![o] = "open"]
  /\ owed' = [owed EXCEPT ![o] = {}] /\ told' = [told EXCEPT ![o] = {}]
  /\ UNCHANGED <<exists, lock>>
Find(o) ==
  /\ Open(o)
  /\ \E S \in SUBSET exists : owed' = [owed EXCEPT ![o] = S]
  /\ UNCHANGED <<exists, lock, phase, told>>
Make(o, v) ==
  /\ Open(o) /\ v \notin exists
  /\ exists' = exists \cup {v} /\ lock' = [lock EXCEPT ![v] = o]
  /\ owed' = [owed EXCEPT ![o] = @ \cup {v}]
  /\ Tells(o) /\ UNCHANGED phase
Change(o, v) ==
  /\ Open(o) /\ v \in owed[o] \cap exists /\ lock[v] = None
  /\ lock' = [lock EXCEPT ![v] = o]
  /\ Tells(o) /\ UNCHANGED <<exists, phase, owed>>
Tell(o) == Open(o) /\ Tells(o) /\ UNCHANGED <<exists, lock, phase, owed>>
Settle(o) ==
  /\ Open(o) /\ owed[o] \subseteq told[o]
  /\ phase' = [phase EXCEPT ![o] = "settled"]
  /\ UNCHANGED <<exists, lock, owed, told>>
Keep(o) ==
  /\ Open(o) /\ phase' = [phase EXCEPT ![o] = "kept"]
  /\ UNCHANGED <<exists, lock, owed, told>>
Die(o) ==
  /\ Open(o) /\ phase' = [phase EXCEPT ![o] = "off"]
  /\ owed' = [owed EXCEPT ![o] = {}] /\ told' = [told EXCEPT ![o] = {}]
  /\ UNCHANGED <<exists, lock>>

\* A change is over; the machine may be gone, and then nobody owes it.
Changed(v) ==
  /\ lock[v] # None /\ lock' = [lock EXCEPT ![v] = None]
  /\ \/ UNCHANGED <<exists, owed>>
     \/ exists' = exists \ {v} /\ owed' = [o \in Ops |-> owed[o] \ {v}]
  /\ UNCHANGED <<phase, told>>

Next ==
  \/ \E o \in Ops : Begin(o) \/ Find(o) \/ Tell(o) \/ Settle(o) \/ Keep(o) \/ Die(o)
  \/ \E o \in Ops, v \in VMIDs : Make(o, v) \/ Change(o, v)
  \/ \E v \in VMIDs : Changed(v)
Spec == Init /\ [][Next]_vars
=============================================================================
