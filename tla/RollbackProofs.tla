--------------------------- MODULE RollbackProofs ---------------------------
(***************************************************************************)
(* A proof that the rollback of a failed create leaves no more than it has *)
(* to, for one terminal under every kind and amount of trouble, and for    *)
(* any cluster: the VM that was being made, and one more for each trouble  *)
(* there was while it rolled back.                                         *)
(*                                                                         *)
(* The nodes to be rolled back are running VMs that no task locks, so to   *)
(* stop and destroy one needs no luck; what it fails at is paid for.       *)
(***************************************************************************)
EXTENDS ProvisioningProofs, FiniteSetTheorems

USE DEF CreateSteps, DeleteSteps, Steps, Ended

\* There is one terminal.
Alone == \A o, p \in Ops : o = p

\* The troubles since the CreateNode of terminal o failed.
Since(o) == op[o].rest - trouble
Up(m)   == m.st = "running" /\ m.task = None
Down(m) == m.st = "stopped" /\ m.task = None

Building(r) == r.pc \in CreateSteps \cup {"list", "next"}
\* The VM that a create is making exists.
Holding(r) == r.pc \in {"config", "resize", "start"} \/ (r.pc = "clone" /\ r.req \in {"running", "ok"})
\* One trouble of the k there were is not yet used to excuse a failure.
Credit(r, k) == Cardinality(r.failed) + 1 <= k

\* What a create r keeps for the rollback, of the VMs m, is up...
Keeps(r, m, k) ==
  /\ IsFiniteSet(r.failed) /\ Cardinality(r.failed) <= k
  /\ Building(r) => r.failed = {} /\ \A v \in r.made : Up(m[v])
  /\ r.pc = "list" => r.made = {}
  /\ Holding(r) => r.vmid \notin r.made
  /\ r.pc \in DeleteSteps \cup {"drain"} => r.vmid \notin r.queue /\ \A v \in r.queue : Up(m[v])
\* ... and of the one in hand it knows that it is up or down, or has a trouble
\* to excuse what will come.
Handles(r, m, k) ==
  /\ r.pc = "start" /\ r.req = "ok" => Up(m[r.vmid])
  /\ r.pc = "stop" /\ r.req = "unsent" => Up(m[r.vmid])
  /\ r.pc = "stop" /\ r.req = "ok" => Down(m[r.vmid])
  /\ r.pc = "destroy" /\ r.req = "unsent" => Down(m[r.vmid]) \/ Credit(r, k)
  /\ r.pc \in DeleteSteps /\ r.req = "err" => Credit(r, k)
Pays(r, m, k) == r.cmd = "create" => Keeps(r, m, k) /\ Handles(r, m, k)
Paid ==
  /\ \A v \in VMIDs : vm[v].st = "free" => vm[v] = FreeVM
  /\ \A o \in Ops : Since(o) \in Nat /\ Pays(op[o], vm, Since(o))

-----------------------------------------------------------------------------
(* One run, with k troubles so far                                          *)

LEMMA Difference ==
  ASSUME NEW m \in Nat, NEW n \in Nat, m <= n PROVE n - m \in Nat /\ m - m = 0
OBVIOUS

\* Trouble is counted, and never less.
LEMMA SinceCounts ==
  ASSUME ConstantsOK, TypeOK, NEW o \in Ops, op'[o].rest = op[o].rest, Since(o) \in Nat
  PROVE  /\ \A kind : Hits(kind) => Since(o)' = Since(o) + 1
         /\ UNCHANGED trouble => Since(o)' = Since(o)
<1>1. op[o].rest \in Nat /\ trouble \in Nat
  BY DEF ConstantsOK, TypeOK, Run
<1>2. Since(o)' = op[o].rest - trouble'
  BY DEF Since
<1>. QED  BY <1>1, <1>2 DEF Since, Hits

\* More trouble excuses no less.
LEMMA PaysMore ==
  ASSUME NEW r, NEW m, NEW k \in Nat, Pays(r, m, k) PROVE Pays(r, m, k + 1)
<1>. SUFFICES ASSUME r.cmd = "create" PROVE Keeps(r, m, k + 1) /\ Handles(r, m, k + 1)
  BY DEF Pays
<1>1. Keeps(r, m, k) /\ Handles(r, m, k) /\ Cardinality(r.failed) \in Nat
  BY FS_CardinalityType DEF Pays, Keeps
<1>2. Cardinality(r.failed) <= k + 1 /\ (Credit(r, k) => Credit(r, k + 1))
  BY <1>1 DEF Keeps, Credit
<1>. QED  BY <1>1, <1>2 DEF Keeps, Handles

\* CreateNode failed: the rollback starts with nothing to excuse.
LEMMA PaysGiveUp ==
  ASSUME ConstantsOK, NEW r \in Run, NEW m, NEW k \in Nat, Keeps(r, m, k),
         r.pc \in CreateSteps \cup {"next"}, NEW s, s = GiveUp(r)
  PROVE  Pays(s, m, 0) /\ s.rest = trouble'
<1>1. /\ s.pc = "drain" /\ s.req = "unsent" /\ s.vmid = None /\ s.queue = r.made
      /\ s.failed = r.failed /\ s.rest = trouble'
  BY DEF GiveUp, Run
<1>0. s.failed = {} /\ IsFiniteSet({}) /\ Cardinality({}) = 0
  BY <1>1, FS_EmptySet DEF Keeps, Building
<1>2. None \notin r.made
  BY DEF Run, ConstantsOK
<1>. QED  BY <1>0, <1>1, <1>2 DEF Pays, Keeps, Handles, Building, Holding

\* DeleteNode failed: there is a trouble that excuses it.
LEMMA PaysSkip ==
  ASSUME ConstantsOK, NEW r \in Run, NEW m, NEW k \in Nat, Keeps(r, m, k),
         r.pc \in DeleteSteps, Credit(r, k), NEW s, s = Skip(r)
  PROVE  Pays(s, m, k)
<1>1. /\ s.pc = "drain" /\ s.req = "unsent" /\ s.vmid = None /\ s.queue = r.queue
      /\ s.failed = r.failed \cup {r.vmid}
  BY DEF Skip, Run
<1>2. None \notin r.queue
  BY DEF Run, ConstantsOK
<1>3. IsFiniteSet(s.failed) /\ Cardinality(s.failed) <= k
  <2>1. IsFiniteSet(r.failed) /\ Cardinality(r.failed) \in Nat
    BY FS_CardinalityType DEF Keeps
  <2>. DEFINE F == r.failed
  <2>2. IsFiniteSet(F) /\ Cardinality(F) \in Nat
    BY <2>1
  <2>. HIDE DEF F
  <2>3. /\ IsFiniteSet(F \cup {r.vmid})
        /\ Cardinality(F \cup {r.vmid}) = Cardinality(F)
           \/ Cardinality(F \cup {r.vmid}) = Cardinality(F) + 1
    BY <2>2, FS_AddElement
  <2>. QED  BY <1>1, <2>2, <2>3 DEF Credit, F
<1>. QED  BY <1>1, <1>2, <1>3 DEF Pays, Keeps, Handles, Building, Holding

\* A step of CreateNode or DeleteNode is over, or its stop is given up.
LEMMA PaysAdvance ==
  ASSUME ConstantsOK, NEW r \in Run, NEW m, NEW k \in Nat, Keeps(r, m, k), Handles(r, m, k),
         r.pc \in Steps, r.pc # "stop" => r.req = "ok",
         r.pc = "stop" => Down(m[r.vmid]) \/ Credit(r, k), NEW s, s = Advance(r)
  PROVE  Pays(s, m, k)
<1>1. /\ s.pc = After(r.pc) /\ s.req = "unsent" /\ s.made = Returned(r) /\ s.queue = r.queue
      /\ s.failed = r.failed
      /\ s.vmid = IF r.pc \in {"start", "destroy"} THEN None ELSE r.vmid
  BY DEF Advance, Run
<1>2. CASE r.pc \in {"clone", "config", "resize"}
  <2>1. s.pc \in {"config", "resize", "start"} /\ s.made = r.made /\ s.vmid = r.vmid /\ Holding(r)
    BY <1>1, <1>2 DEF After, Returned, Holding
  <2>. QED  BY <1>1, <1>2, <2>1 DEF Pays, Keeps, Handles, Building, Holding
<1>3. CASE r.pc = "start"
  <2>1. s.pc = "next" /\ s.made = r.made \cup {r.vmid} /\ Up(m[r.vmid])
    BY <1>1, <1>3 DEF After, Returned, Handles
  <2>. QED  BY <1>1, <1>3, <2>1 DEF Pays, Keeps, Handles, Building, Holding
<1>4. CASE r.pc = "stop"
  <2>1. s.pc = "destroy" /\ s.vmid = r.vmid
    BY <1>1, <1>4 DEF After
  <2>. QED  BY <1>1, <1>4, <2>1 DEF Pays, Keeps, Handles, Building, Holding, Credit
<1>5. CASE r.pc = "destroy"
  <2>1. s.pc = "drain" /\ s.vmid = None /\ None \notin r.queue
    BY <1>1, <1>5 DEF After, Run, ConstantsOK
  <2>. QED  BY <1>1, <1>5, <2>1 DEF Pays, Keeps, Handles, Building, Holding
<1>. QED  BY <1>2, <1>3, <1>4, <1>5

\* VM v changes, which is not kept for the rollback.
LEMMA KeepsOthers ==
  ASSUME NEW r \in Run, NEW m, NEW k, NEW n, NEW v, NEW x, m \in [VMIDs -> VM],
         n = [m EXCEPT ![v] = x], Keeps(r, m, k),
         Building(r) => v \notin r.made, r.pc \in DeleteSteps \cup {"drain"} => v \notin r.queue
  PROVE  Keeps(r, n, k)
<1>1. \A w \in VMIDs : w # v => n[w] = m[w]
  OBVIOUS
<1>2. r.made \subseteq VMIDs /\ r.queue \subseteq VMIDs
  BY DEF Run
<1>. QED  BY <1>1, <1>2 DEF Keeps

-----------------------------------------------------------------------------
(* The steps                                                                *)

\* A step of one terminal that touches no VM.
LEMMA PaidRunStep ==
  ASSUME TypeOK, Paid, Alone, NEW o \in Ops, op' = [op EXCEPT ![o] = op'[o]], UNCHANGED vm,
         NEW k \in Nat, Since(o)' = k, Pays(op'[o], vm, k)
  PROVE  Paid'
<1>1. \A p \in Ops : p = o
  BY DEF Alone
<1>. QED  BY <1>1 DEF Paid

\* The lists and the loops.
LEMMA PaidWalks ==
  ASSUME ConstantsOK, TypeOK, Paid, Alone, NEW o \in Ops,
         \/ Start(o) \/ ListCreate(o) \/ ListDelete(o) \/ ListFails(o)
         \/ PickVMID(o) \/ PickFails(o) \/ AllCreated(o)
         \/ WaitReady(o) \/ WaitTimeout(o) \/ AllReady(o)
         \/ DeleteNext(o) \/ Drained(o) \/ Interrupt(o) \/ Crash(o)
  PROVE  Paid'
<1>. DEFINE k == Since(o)
<1>1. /\ op[o] \in Run /\ Pays(op[o], vm, k) /\ op \in [Ops -> Run] /\ k \in Nat
      /\ op[o].req # "unsent" => op[o].pc \in Steps
      /\ None \notin VMIDs
  BY DEF TypeOK, Paid, ConstantsOK
<1>. HIDE DEF k
<1>0. UNCHANGED trouble \/ Hits("reject") \/ Hits("slow") \/ Hits("crash")
  BY DEF Start, ListCreate, ListDelete, ListFails, PickVMID, PickFails, AllCreated, WaitReady,
     WaitTimeout, AllReady, DeleteNext, Drained, Interrupt, Crash
<1>2. trouble' \in Nat /\ trouble' <= MaxTrouble /\ MaxTrouble \in Nat
  BY <1>0, ConstantsOK DEF Hits, ConstantsOK, TypeOK
<1>3. IsFiniteSet({}) /\ Cardinality({}) = 0
  BY FS_EmptySet
<1>4. op' = [op EXCEPT ![o] = op'[o]] /\ UNCHANGED vm
  BY <1>1 DEF Start, ListCreate, ListDelete, ListFails, PickVMID, PickFails, AllCreated,
     WaitReady, WaitTimeout, AllReady, DeleteNext, Drained, Interrupt, Crash
<1>12. ASSUME op'[o].rest = op[o].rest, Pays(op'[o], vm, k) PROVE Paid'
  <2>1. Since(o)' \in {k, k + 1}
    BY <1>0, <1>1, <1>12, ConstantsOK, SinceCounts DEF k
  <2>2. Pays(op'[o], vm, k + 1) /\ k + 1 \in Nat
    BY <1>1, <1>12, PaysMore
  <2>3. ASSUME NEW j \in Nat, Since(o)' = j, Pays(op'[o], vm, j) PROVE Paid'
    BY <1>4, <2>3, PaidRunStep
  <2>. QED  BY <1>1, <1>12, <2>1, <2>2, <2>3
<1>5. CASE Start(o) \/ Crash(o)
  <2>1. PICK cmd : op'[o] = [Fresh(cmd) EXCEPT !.pc = "list"] \/ op'[o] = Fresh(cmd)
    BY <1>1, <1>5 DEF Start, Crash
  <2>2. /\ op'[o].pc \in {"idle", "list"} /\ op'[o].failed = {} /\ op'[o].made = {}
        /\ op'[o].rest = MaxTrouble
    BY <2>1 DEF Fresh
  <2>. DEFINE j == MaxTrouble - trouble'
  <2>3. j \in Nat /\ Since(o)' = j
    <3>1. Since(o)' = op'[o].rest - trouble'
      BY DEF Since
    <3>2. j \in Nat
      BY <1>2, Difference
    <3>. QED  BY <2>2, <3>1, <3>2
  <2>. HIDE DEF j
  <2>4. Pays(op'[o], vm, j)
    BY <1>3, <2>2, <2>3 DEF Pays, Keeps, Handles, Building, Holding
  <2>. QED  BY <1>4, <2>3, <2>4, PaidRunStep
<1>6. CASE ListDelete(o)
  <2>1. op[o].cmd = "delete" /\ op'[o] = [op[o] EXCEPT
          !.pc = IF Listed(ClusterOf[o]) = {} THEN "done" ELSE "drain", !.queue = Listed(ClusterOf[o])]
    BY <1>1, <1>6 DEF ListDelete
  <2>2. op'[o].cmd = "delete" /\ op'[o].rest = op[o].rest
    BY <1>1, <2>1 DEF Run
  <2>. QED  BY <1>12, <2>2 DEF Pays
<1>7. CASE PickFails(o)
  <2>1. op[o].pc = "next" /\ op'[o] = GiveUp(op[o])
    BY <1>1, <1>7 DEF PickFails
  <2>2. op'[o].cmd = op[o].cmd /\ op'[o].rest = trouble'
    BY <1>1, <2>1 DEF GiveUp, Run
  <2>3. Since(o)' = 0
    BY <1>2, <2>2 DEF Since
  <2>4. Pays(op'[o], vm, 0)
    BY <1>1, <2>1, <2>2, PaysGiveUp, ConstantsOK DEF Pays
  <2>. QED  BY <1>4, <2>3, <2>4, PaidRunStep
<1>8. CASE DeleteNext(o)
  <2>1. PICK v \in op[o].queue : op'[o] = VictimRun(op[o], v)
    BY <1>1, <1>8 DEF DeleteNext, Victims, VictimRun
  <2>2. op[o].pc = "drain" /\ op[o].req = "unsent"
    BY <1>1, <1>8 DEF DeleteNext, Run
  <2>3. /\ op'[o].pc = "stop" /\ op'[o].vmid = v /\ op'[o].queue = op[o].queue \ {v}
        /\ op'[o].failed = op[o].failed /\ op'[o].cmd = op[o].cmd /\ op'[o].req = "unsent"
        /\ op'[o].rest = op[o].rest
    BY <1>1, <2>1, <2>2 DEF VictimRun, Run
  <2>4. Pays(op'[o], vm, k)
    BY <1>1, <2>2, <2>3 DEF Pays, Keeps, Handles, Building, Holding
  <2>. QED  BY <1>12, <2>3, <2>4
<1>9. CASE ListCreate(o) \/ PickVMID(o)
  <2>1. /\ op'[o].pc \in {"next", "clone"} /\ op'[o].failed = op[o].failed
        /\ op'[o].made = op[o].made /\ op'[o].cmd = op[o].cmd /\ op'[o].req = "unsent"
        /\ op[o].pc \in {"list", "next"} /\ op'[o].rest = op[o].rest
    <3>1. CASE ListCreate(o)
      <4>1. op[o].pc = "list" /\ op'[o] = [op[o] EXCEPT !.pc = "next", !.seen = Listed(ClusterOf[o]),
                                             !.todo = Missing(ClusterOf[o], Listed(ClusterOf[o]))]
        BY <1>1, <3>1 DEF ListCreate
      <4>. QED  BY <1>1, <4>1 DEF Run
    <3>2. CASE PickVMID(o)
      <4>1. PICK n \in op[o].todo, v \in FreeIds : op'[o] = PickedRun(op[o], n, v)
        BY <1>1, <3>2 DEF PickVMID, PickedRun
      <4>2. op[o].pc = "next" /\ op[o].req = "unsent"
        BY <1>1, <3>2 DEF PickVMID
      <4>. QED  BY <1>1, <4>1, <4>2 DEF PickedRun, Run
    <3>. QED  BY <1>9, <3>1, <3>2
  <2>2. Pays(op'[o], vm, k)
    BY <1>1, <2>1 DEF Pays, Keeps, Handles, Building, Holding
  <2>. QED  BY <1>12, <2>1, <2>2
<1>10. CASE \/ ListFails(o) \/ AllCreated(o) \/ WaitReady(o) \/ WaitTimeout(o) \/ AllReady(o)
            \/ Drained(o)
  <2>1. /\ op'[o].pc \in {"failed", "ready", "unready", "done"}
        /\ op'[o].failed = op[o].failed /\ op'[o].cmd = op[o].cmd /\ op'[o].rest = op[o].rest
    <3>1. CASE AllCreated(o)
      BY <1>1, <3>1 DEF AllCreated, Run
    <3>2. CASE WaitReady(o)
      <4>1. op[o].pc = "ready" /\ \E v : op'[o] = [op[o] EXCEPT !.queue = op[o].queue \ {v}]
        BY <1>1, <3>2 DEF WaitReady
      <4>. QED  BY <1>1, <4>1 DEF Run
    <3>3. CASE ListFails(o) \/ WaitTimeout(o) \/ AllReady(o) \/ Drained(o)
      <4>1. PICK pc \in {"failed", "unready", "done"} : op'[o] = [op[o] EXCEPT !.pc = pc]
        BY <1>1, <3>3 DEF ListFails, WaitTimeout, AllReady, Drained
      <4>. QED  BY <1>1, <4>1 DEF Run
    <3>. QED  BY <1>10, <3>1, <3>2, <3>3
  <2>2. Pays(op'[o], vm, k)
    BY <1>1, <2>1 DEF Pays, Keeps, Handles, Building, Holding
  <2>. QED  BY <1>12, <2>1, <2>2
<1>11. CASE Interrupt(o)
  <2>1. op'[o] = [op[o] EXCEPT !.cancelled = TRUE]
    BY <1>1, <1>11 DEF Interrupt
  <2>2. /\ op'[o].pc = op[o].pc /\ op'[o].failed = op[o].failed /\ op'[o].made = op[o].made
        /\ op'[o].cmd = op[o].cmd /\ op'[o].req = op[o].req /\ op'[o].vmid = op[o].vmid
        /\ op'[o].queue = op[o].queue /\ op'[o].rest = op[o].rest
    BY <1>1, <2>1 DEF Run
  <2>3. Building(op'[o]) = Building(op[o]) /\ Holding(op'[o]) = Holding(op[o])
    BY <2>2 DEF Building, Holding
  <2>4. ASSUME op[o].cmd = "create" PROVE Keeps(op'[o], vm, k)
    BY <1>1, <2>2, <2>3, <2>4 DEF Pays, Keeps
  <2>5. ASSUME op[o].cmd = "create" PROVE Handles(op'[o], vm, k)
    BY <1>1, <2>2, <2>5 DEF Pays, Handles, Credit
  <2>. QED  BY <1>12, <2>2, <2>4, <2>5 DEF Pays
<1>. QED  BY <1>5, <1>6, <1>7, <1>8, <1>9, <1>10, <1>11

\* The answers to its calls.
LEMMA PaidAnswers ==
  ASSUME ConstantsOK, TypeOK, Paid, Alone, NEW o \in Ops,
         SendRefused(o) \/ AlreadyStopped(o) \/ PollOk(o) \/ PollFails(o)
  PROVE  Paid'
<1>. DEFINE k == Since(o)
<1>1. /\ op[o] \in Run /\ Pays(op[o], vm, k) /\ op \in [Ops -> Run] /\ k \in Nat
      /\ op[o].pc \in Steps /\ op[o].vmid \in VMIDs
      /\ op' = [op EXCEPT ![o] = op'[o]] /\ UNCHANGED vm
  BY DEF TypeOK, Paid, SendRefused, AlreadyStopped, NotRunning, PollOk, PollFails
<1>. HIDE DEF k
<1>2. /\ trouble' \in Nat
      /\ op'[o].rest = op[o].rest =>
           \/ UNCHANGED trouble /\ Since(o)' = k
           \/ (Hits("reject") \/ Hits("poll")) /\ Since(o)' = k + 1
  <2>1. trouble' \in Nat
    BY ConstantsOK, HitsType DEF ConstantsOK, TypeOK, SendRefused, AlreadyStopped, PollOk, PollFails
  <2>2. ASSUME op'[o].rest = op[o].rest
        PROVE  \/ UNCHANGED trouble /\ Since(o)' = k
               \/ (Hits("reject") \/ Hits("poll")) /\ Since(o)' = k + 1
    BY <1>1, <2>2, SinceCounts DEF k, SendRefused, AlreadyStopped, PollOk, PollFails
  <2>. QED  BY <2>1, <2>2
<1>3. /\ Advance(op[o]).cmd = op[o].cmd /\ Advance(op[o]).rest = op[o].rest
      /\ Skip(op[o]).cmd = op[o].cmd /\ Skip(op[o]).rest = op[o].rest
      /\ GiveUp(op[o]).cmd = op[o].cmd /\ GiveUp(op[o]).rest = trouble'
  BY <1>1 DEF Advance, GiveUp, Skip, Run
\* It goes on, or gives a node up, with as much to its credit as there was; or
\* it starts to roll back.
<1>4. ASSUME NEW j \in Nat, Since(o)' = j, Pays(op'[o], vm, j) PROVE Paid'
  BY <1>1, <1>4, PaidRunStep
<1>5. CASE op'[o] = GiveUp(op[o]) /\ op[o].pc \in CreateSteps
  <2>1. Since(o)' = 0
    BY <1>2, <1>3, <1>5 DEF Since
  <2>2. Pays(op'[o], vm, 0)
    <3>1. CASE op[o].cmd = "create"
      BY <1>1, <1>5, <3>1, ConstantsOK, PaysGiveUp DEF Pays
    <3>2. CASE op[o].cmd # "create"
      BY <1>3, <1>5, <3>2 DEF Pays
    <3>. QED  BY <3>1, <3>2
  <2>. QED  BY <1>4, <2>1, <2>2
<1>6. CASE op'[o].rest = op[o].rest /\ op[o].cmd # "create" /\ op'[o].cmd = op[o].cmd
  <2>1. Since(o)' \in {k, k + 1}
    BY <1>2, <1>6
  <2>. QED  BY <1>1, <1>4, <1>6, <2>1 DEF Pays
<1>7. CASE /\ op'[o].rest = op[o].rest /\ op[o].cmd = "create"
           /\ op'[o] = Advance(op[o]) \/ (op'[o] = Skip(op[o]) /\ op[o].pc \in DeleteSteps)
  <2>. DEFINE j == Since(o)'
  <2>0. j \in {k, k + 1} /\ j \in Nat
    BY <1>1, <1>2, <1>7
  <2>1. Keeps(op[o], vm, k) /\ Handles(op[o], vm, k) /\ Cardinality(op[o].failed) \in Nat
    BY <1>1, <1>7, FS_CardinalityType DEF Pays, Keeps
  <2>2. Keeps(op[o], vm, j) /\ Handles(op[o], vm, j)
    BY <1>1, <1>7, <2>0, PaysMore DEF Pays
  <2>. HIDE DEF j
  <2>3. op[o].pc \in DeleteSteps => ~Dead(o)
    BY <1>7 DEF Dead, RollingBack
  <2>4. \/ UNCHANGED trouble /\ ~Hits("reject") /\ ~Hits("poll")
        \/ Credit(op[o], j)
    <3>1. UNCHANGED trouble => ~Hits("reject") /\ ~Hits("poll")
      BY ConstantsOK DEF Hits, TypeOK, ConstantsOK
    <3>2. Since(o)' = k + 1 => Credit(op[o], j)
      BY <1>1, <2>1 DEF j, Keeps, Credit
    <3>. QED  BY <1>2, <1>7, <3>1, <3>2
  <2>8. Pays(op'[o], vm, j) => Paid'
    BY <1>4, <2>0 DEF j
  <2>5. CASE SendRefused(o)
    <3>1. op'[o] = Skip(op[o]) /\ op[o].pc \in DeleteSteps /\ op[o].req = "unsent"
      <4>1. op'[o] = CallFailed(op[o]) /\ op[o].req = "unsent"
        BY <1>1, <2>5 DEF SendRefused
      <4>2. op[o].pc \notin DeleteSteps => op'[o].pc = "drain" /\ op'[o] # Advance(op[o])
        <5>1. GiveUp(op[o]).pc = "drain" /\ Advance(op[o]).pc = After(op[o].pc)
          BY <1>1 DEF GiveUp, Advance, Run
        <5>. QED  BY <1>1, <4>1, <5>1 DEF CallFailed, After
      <4>3. op[o].pc \in DeleteSteps
        BY <1>7, <4>2
      <4>. QED  BY <4>1, <4>3 DEF CallFailed
    <3>2. Credit(op[o], j)
      <4>1. CASE ~UNCHANGED trouble
        BY <2>4, <4>1
      <4>2. CASE UNCHANGED trouble /\ op[o].pc = "stop"
        <5>1. Up(vm[op[o].vmid]) /\ ~Dead(o)
          BY <2>1, <2>3, <3>1, <4>2 DEF Handles
        <5>2. Accepts(op[o].pc, op[o].vmid)
          BY <4>2, <5>1 DEF Accepts, Up
        <5>. QED  BY <2>4, <2>5, <5>1, <5>2 DEF SendRefused
      <4>3. CASE UNCHANGED trouble /\ op[o].pc = "destroy"
        BY <2>1, <2>2, <2>3, <2>4, <2>5, <3>1, <4>3 DEF SendRefused, Handles, Down, Accepts
      <4>. QED  BY <3>1, <4>1, <4>2, <4>3
    <3>. QED  BY <1>1, <2>0, <2>2, <2>8, <3>1, <3>2, ConstantsOK, PaysSkip
  <2>6. CASE AlreadyStopped(o) \/ PollOk(o)
    <3>1. /\ op'[o] = Advance(op[o])
          /\ op[o].pc # "stop" => op[o].req = "ok"
          /\ op[o].pc = "stop" => Down(vm[op[o].vmid])
      <4>1. CASE AlreadyStopped(o)
        BY <1>1, <4>1 DEF AlreadyStopped, NotRunning, Down
      <4>2. CASE PollOk(o)
        BY <1>1, <2>1, <4>2 DEF PollOk, Handles
      <4>. QED  BY <2>6, <4>1, <4>2
    <3>. QED  BY <1>1, <2>0, <2>2, <2>8, <3>1, ConstantsOK, PaysAdvance
  <2>7. CASE PollFails(o)
    <3>1. op'[o] = WaitFailed(op[o])
      BY <1>1, <2>7 DEF PollFails
    <3>2. op[o].pc \in DeleteSteps => Credit(op[o], j)
      BY <2>2, <2>3, <2>4, <2>7 DEF PollFails, Handles
    <3>3. CASE op[o].pc = "stop"
      BY <1>1, <2>0, <2>2, <2>8, <3>1, <3>2, <3>3, ConstantsOK, PaysAdvance DEF WaitFailed
    <3>4. CASE op[o].pc = "destroy"
      BY <1>1, <2>0, <2>2, <2>8, <3>1, <3>2, <3>4, ConstantsOK, PaysSkip DEF WaitFailed, CallFailed
    <3>5. CASE op[o].pc \in CreateSteps
      BY <1>5, <3>1, <3>5 DEF WaitFailed, CallFailed
    <3>. QED  BY <1>1, <3>3, <3>4, <3>5
  <2>. QED  BY <2>5, <2>6, <2>7
<1>8. \/ op'[o] = GiveUp(op[o]) /\ op[o].pc \in CreateSteps
      \/ op'[o] = Advance(op[o]) \/ (op'[o] = Skip(op[o]) /\ op[o].pc \in DeleteSteps)
  BY <1>1 DEF SendRefused, AlreadyStopped, PollOk, PollFails, WaitFailed, CallFailed
<1>. QED  BY <1>3, <1>5, <1>6, <1>7, <1>8

\* A call is accepted: on an id that nobody holds, or on the VM in hand.
LEMMA PaidAccept ==
  ASSUME ConstantsOK, TypeOK, Paid, Alone, NEW o \in Ops, Accept(o)
  PROVE  /\ \A v \in VMIDs : vm'[v].st = "free" => vm'[v] = FreeVM
         /\ op[o].cmd = "create" =>
              /\ Keeps(op[o], vm', Since(o))
              /\ op[o].pc \in CreateSteps => op[o].vmid \notin op[o].made
<1>. SUFFICES ASSUME NEW v, v = op[o].vmid, NEW x, x = Locked(o, v, op[o].pc)
              PROVE  /\ \A w \in VMIDs : vm'[w].st = "free" => vm'[w] = FreeVM
                     /\ op[o].cmd = "create" =>
                          /\ Keeps(op[o], vm', Since(o))
                          /\ op[o].pc \in CreateSteps => v \notin op[o].made
  OBVIOUS
<1>1. /\ v \in VMIDs /\ op[o] \in Run /\ op[o].pc \in Steps /\ vm[v] \in VM /\ Accepts(op[o].pc, v)
      /\ vm' = [vm EXCEPT ![v] = x] /\ vm \in [VMIDs -> VM]
  BY DEF Accept, TypeOK
<1>2. x.st # "free"
  <2>1. CASE op[o].pc = "clone"
    BY <2>1 DEF Locked, FreeVM
  <2>2. CASE op[o].pc # "clone"
    <3>1. vm[v].st # "free"
      BY <1>1, <2>2 DEF Accepts
    <3>. QED  BY <1>1, <2>2, <3>1 DEF Locked, VM
  <2>. QED  BY <2>1, <2>2
<1>3. \A w \in VMIDs : vm'[w].st = "free" => vm'[w] = FreeVM
  BY <1>1, <1>2 DEF Paid
<1>4. ASSUME op[o].cmd = "create"
      PROVE  Keeps(op[o], vm', Since(o)) /\ (op[o].pc \in CreateSteps => v \notin op[o].made)
  <2>1. Keeps(op[o], vm, Since(o))
    BY <1>4 DEF Paid, Pays
  <2>2. op[o].pc \in CreateSteps => v \notin op[o].made
    <3>1. CASE op[o].pc = "clone"
      BY <1>1, <2>1, <3>1 DEF Accepts, Keeps, Building, Up
    <3>2. CASE op[o].pc # "clone"
      BY <2>1, <3>2 DEF Keeps, Holding
    <3>. QED  BY <3>1, <3>2
  <2>3. /\ Building(op[o]) => v \notin op[o].made
        /\ op[o].pc \in DeleteSteps \cup {"drain"} => v \notin op[o].queue
    BY <1>1, <2>1, <2>2 DEF Keeps, Building
  <2>. QED  BY <1>1, <2>1, <2>2, <2>3, KeepsOthers
<1>. QED  BY <1>3, <1>4

\* Its answer arrives, or is lost.
LEMMA PaidSend ==
  ASSUME ConstantsOK, TypeOK, Paid, Alone, NEW o \in Ops, Send(o) \/ SendLost(o)
  PROVE  Paid'
<1>1. /\ op[o] \in Run /\ op \in [Ops -> Run] /\ op[o].pc \in Steps /\ Accept(o)
      /\ Since(o) \in Nat /\ Pays(op[o], vm, Since(o))
  BY DEF TypeOK, Paid, Send, SendLost, Accept
<1>2. /\ \A v \in VMIDs : vm'[v].st = "free" => vm'[v] = FreeVM
      /\ op[o].cmd = "create" =>
           /\ Keeps(op[o], vm', Since(o))
           /\ op[o].pc \in CreateSteps => op[o].vmid \notin op[o].made
  BY <1>1, ConstantsOK, PaidAccept
<1>5. ASSUME NEW k \in Nat, Since(o)' = k, Pays(op'[o], vm', k) PROVE Paid'
  <2>1. \A p \in Ops : p = o
    BY DEF Alone
  <2>. QED  BY <1>2, <1>5, <2>1 DEF Paid
<1>3. CASE Send(o)
  <2>1. op'[o] = [op[o] EXCEPT !.req = "running"]
    BY <1>1, <1>3 DEF Send
  <2>0. Since(o)' = Since(o)
    <3>1. op'[o].rest = op[o].rest
      BY <1>1, <2>1 DEF Run
    <3>. QED  BY <1>1, <1>3, <3>1, SinceCounts DEF Send
  <2>2. /\ op'[o].pc = op[o].pc /\ op'[o].failed = op[o].failed /\ op'[o].made = op[o].made
        /\ op'[o].cmd = op[o].cmd /\ op'[o].req = "running" /\ op'[o].vmid = op[o].vmid
        /\ op'[o].queue = op[o].queue
    BY <1>1, <2>1 DEF Run
  <2>3. op[o].cmd = "create" => Keeps(op'[o], vm', Since(o))
    BY <1>1, <1>2, <2>1, <2>2 DEF Keeps, Building, Holding
  <2>4. Handles(op'[o], vm', Since(o))
    BY <2>2 DEF Handles
  <2>5. Pays(op'[o], vm', Since(o))
    BY <2>2, <2>3, <2>4 DEF Pays
  <2>. QED  BY <1>1, <1>5, <2>0, <2>5
<1>4. CASE SendLost(o)
  <2>1. op'[o] = CallFailed(op[o]) /\ trouble' \in Nat
    BY <1>1, <1>4, ConstantsOK, HitsType DEF SendLost, ConstantsOK
  <2>2. CASE op[o].pc \in CreateSteps
    <3>1. op'[o] = GiveUp(op[o])
      BY <2>1, <2>2 DEF CallFailed
    <3>2. op'[o].cmd = op[o].cmd /\ op'[o].rest = trouble'
      BY <1>1, <3>1 DEF GiveUp, Run
    <3>3. Since(o)' = 0
      <4>1. Since(o)' = op'[o].rest - trouble'
        BY DEF Since
      <4>2. trouble' - trouble' = 0
        <5>1. trouble' <= trouble'
          BY <2>1
        <5>. QED  BY <2>1, <5>1, Difference
      <4>. QED  BY <3>2, <4>1, <4>2
    <3>4. Pays(op'[o], vm', 0)
      <4>1. ASSUME op[o].cmd = "create" PROVE Pays(op'[o], vm', 0)
        BY <1>1, <1>2, <2>2, <3>1, <4>1, ConstantsOK, PaysGiveUp
      <4>. QED  BY <3>2, <4>1 DEF Pays
    <3>. QED  BY <1>5, <3>3, <3>4
  <2>3. CASE op[o].pc \in DeleteSteps
    <3>1. op'[o] = Skip(op[o])
      BY <2>1, <2>3 DEF CallFailed
    <3>2. op'[o].cmd = op[o].cmd /\ op'[o].rest = op[o].rest
      BY <1>1, <3>1 DEF Skip, Run
    <3>3. Since(o)' = Since(o) + 1
      BY <1>1, <1>4, <3>2, SinceCounts DEF SendLost
    <3>. DEFINE k == Since(o)  j == k + 1
    <3>0. k \in Nat /\ j \in Nat
      BY <1>1
    <3>4. Pays(op'[o], vm', j)
      <4>1. ASSUME op[o].cmd = "create" PROVE Pays(op'[o], vm', j)
        <5>1. Keeps(op[o], vm', k) /\ Cardinality(op[o].failed) \in Nat
          BY <1>2, <4>1, FS_CardinalityType DEF Keeps
        <5>. HIDE DEF k
        <5>2. Keeps(op[o], vm', j) /\ Credit(op[o], j)
          BY <3>0, <5>1 DEF Keeps, Credit
        <5>. HIDE DEF j
        <5>. QED  BY <1>1, <2>3, <3>0, <3>1, <5>2, ConstantsOK, PaysSkip
      <4>. QED  BY <3>2, <4>1 DEF Pays
    <3>. QED  BY <1>5, <3>0, <3>3, <3>4
  <2>. QED  BY <1>1, <2>2, <2>3
<1>. QED  BY <1>3, <1>4

\* A task ends: what is kept is not locked, so it is another VM's.
LEMMA PaidFinish ==
  ASSUME ConstantsOK, TypeOK, Paid, NEW v \in VMIDs, vm[v].task # None,
         NEW x, NEW q \in {"ok", "err"}, Finish(v, x, q),
         \/ q = "ok" /\ x = TaskDone(vm[v]) /\ UNCHANGED trouble
         \/ q = "err" /\ x = TaskFailed(vm[v]) /\ Hits("task")
  PROVE  Paid'
<1>1. /\ vm[v] \in VM /\ vm \in [VMIDs -> VM] /\ vm' = [vm EXCEPT ![v] = x]
      /\ vm[v].st # "free"
  BY DEF TypeOK, Finish, Paid, FreeVM
<1>0. ASSUME NEW o \in Ops
      PROVE  /\ Since(o) \in Nat /\ Since(o)' \in Nat /\ Since(o)' \in {Since(o), Since(o) + 1}
             /\ q = "err" => Since(o)' = Since(o) + 1
  <2>1. op[o] \in Run /\ (op'[o] = op[o] \/ op'[o] = [op[o] EXCEPT !.req = q])
    BY DEF Finish, TypeOK
  <2>2. op'[o].rest = op[o].rest /\ Since(o) \in Nat
    BY <2>1 DEF Run, Paid
  <2>. QED  BY <2>2, ConstantsOK, SinceCounts
<1>2. /\ x.st = "free" => x = FreeVM
      /\ q = "ok" /\ vm[v].task = "start" => Up(x)
      /\ q = "ok" /\ vm[v].task = "stop" => Down(x)
  <2>. DEFINE u == Unlocked(vm[v])
  <2>1. /\ u.st = vm[v].st /\ u.task = None
        /\ u \in [st : {"free", "stopped", "running"}, name : Names \cup {None},
                  tag : Clusters \cup {None}, task : Steps \cup {None}, by : Ops \cup {None}]
    BY <1>1 DEF Unlocked, VM
  <2>. HIDE DEF u
  <2>2. CASE q = "ok"
    <3>1. \/ x = FreeVM /\ vm[v].task = "destroy"
          \/ x = [u EXCEPT !.tag = ClusterOf[vm[v].by]] /\ vm[v].task = "config"
          \/ x = [u EXCEPT !.st = "running"] /\ vm[v].task = "start"
          \/ x = [u EXCEPT !.st = "stopped"] /\ vm[v].task = "stop"
          \/ x = u /\ vm[v].task \notin {"start", "stop"}
      BY <2>2 DEF TaskDone, u
    <3>. QED  BY <1>1, <2>1, <2>2, <3>1 DEF Up, Down
  <2>3. CASE q = "err"
    BY <1>1, <2>1, <2>3 DEF TaskFailed, u
  <2>. QED  BY <2>2, <2>3
<1>3. \A w \in VMIDs : vm'[w].st = "free" => vm'[w] = FreeVM
  BY <1>1, <1>2 DEF Paid
<1>4. ASSUME NEW o \in Ops, op[o].cmd = "create" PROVE Pays(op'[o], vm', Since(o)')
  <2>. DEFINE k == Since(o)  j == Since(o)'
  <2>0. k \in Nat /\ j \in Nat /\ j \in {k, k + 1} /\ (q = "err" => j = k + 1)
    BY <1>0
  <2>1. /\ op[o] \in Run /\ Keeps(op[o], vm, k) /\ Handles(op[o], vm, k)
        /\ Cardinality(op[o].failed) \in Nat
        /\ op[o].pc \in Steps => op[o].vmid \in VMIDs
    BY <1>4, FS_CardinalityType DEF TypeOK, Paid, Pays, Keeps
  <2>. HIDE DEF k, j
  <2>2. Keeps(op[o], vm', k)
    <3>1. /\ Building(op[o]) => v \notin op[o].made
          /\ op[o].pc \in DeleteSteps \cup {"drain"} => v \notin op[o].queue
      BY <2>1 DEF Keeps, Up
    <3>. QED  BY <1>1, <2>1, <3>1, KeepsOthers
  <2>3. Keeps(op[o], vm', j) /\ (Credit(op[o], k) => Credit(op[o], j))
    BY <2>0, <2>1, <2>2 DEF Keeps, Credit
  <2>4. CASE ~Awaits(o, v)
    <3>1. op'[o] = op[o]
      BY <2>4 DEF Finish
    <3>2. /\ Up(vm[op[o].vmid]) /\ op[o].pc \in Steps => Up(vm'[op[o].vmid])
          /\ Down(vm[op[o].vmid]) /\ op[o].pc \in Steps => Down(vm'[op[o].vmid])
      BY <1>1, <2>1 DEF Up, Down
    <3>3. Handles(op[o], vm', j)
      BY <2>1, <2>3, <3>2 DEF Handles
    <3>. QED  BY <2>3, <3>1, <3>3 DEF Pays, j
  <2>5. CASE Awaits(o, v)
    <3>1. /\ op'[o] = [op[o] EXCEPT !.req = q] /\ op[o].vmid = v /\ op[o].req = "running"
          /\ vm[v].task = op[o].pc
      BY <2>5 DEF Finish, Awaits
    <3>2. /\ op'[o].pc = op[o].pc /\ op'[o].failed = op[o].failed /\ op'[o].made = op[o].made
          /\ op'[o].cmd = op[o].cmd /\ op'[o].req = q /\ op'[o].vmid = v
          /\ op'[o].queue = op[o].queue
      BY <2>1, <3>1 DEF Run
    <3>3. Keeps(op'[o], vm', j)
      BY <2>3, <3>1, <3>2 DEF Keeps, Building, Holding
    <3>4. Handles(op'[o], vm', j)
      <4>1. vm'[v] = x
        BY <1>1
      <4>2. q = "err" => Credit(op'[o], j)
        BY <2>0, <2>1, <3>2 DEF Keeps, Credit
      <4>. QED  BY <1>2, <3>1, <3>2, <4>1, <4>2 DEF Handles
    <3>. QED  BY <3>3, <3>4 DEF Pays, j
  <2>. QED  BY <2>4, <2>5
<1>5. ASSUME NEW o \in Ops, op[o].cmd # "create" PROVE Pays(op'[o], vm', Since(o)')
  <2>1. op'[o].cmd = op[o].cmd
    <3>1. op[o] \in Run /\ (op'[o] = op[o] \/ op'[o] = [op[o] EXCEPT !.req = q])
      BY DEF Finish, TypeOK
    <3>. QED  BY <3>1 DEF Run
  <2>. QED  BY <1>5, <2>1 DEF Pays
<1>. QED  BY <1>0, <1>3, <1>4, <1>5 DEF Paid

\* Every step.
LEMMA PaidStep ==
  ASSUME ConstantsOK, TypeOK, Paid, Alone, [Next]_vars PROVE Paid'
<1>1. ASSUME NEW o \in Ops, Start(o) \/ Progress(o) \/ Interrupt(o) \/ Crash(o) PROVE Paid'
  BY <1>1, ConstantsOK, PaidWalks, PaidAnswers, PaidSend DEF Progress
<1>2. ASSUME NEW v \in VMIDs, TaskSucceeds(v) PROVE Paid'
  BY <1>2, ConstantsOK, PaidFinish DEF TaskSucceeds
<1>3. ASSUME NEW v \in VMIDs, TaskFails(v) PROVE Paid'
  BY <1>3, ConstantsOK, PaidFinish DEF TaskFails
<1>4. CASE UNCHANGED vars
  BY <1>4 DEF vars, Paid, Since
<1>. QED  BY <1>1, <1>2, <1>3, <1>4 DEF Next

\* Where there is one terminal, a create that failed, under whatever trouble,
\* leaves no more VMs behind than the one it was making and one for each
\* trouble there was while it rolled back (RollbackLeak, create.go:254, for
\* every instance).
THEOREM LeakIsPaid == ASSUME Alone PROVE Spec => []RollbackLeak
<1>1. Init => Paid
  <2>. SUFFICES ASSUME Init PROVE Paid
    OBVIOUS
  <2>1. \A v \in VMIDs : vm[v] = FreeVM
    BY DEF Init
  <2>2. \A o \in Ops : op[o].pc = "idle" /\ op[o].failed = {}
    BY DEF Init, Fresh
  <2>5. ASSUME NEW o \in Ops PROVE Since(o) = 0
    <3>1. op[o].rest = MaxTrouble /\ trouble = MaxTrouble /\ MaxTrouble \in Nat
      BY ConstantsOK DEF Init, Fresh, ConstantsOK
    <3>. QED  BY <3>1 DEF Since
  <2>3. IsFiniteSet({}) /\ Cardinality({}) = 0 /\ \A o \in Ops : Since(o) = 0
    BY <2>5, FS_EmptySet
  <2>4. ASSUME NEW o \in Ops PROVE Pays(op[o], vm, 0)
    <3>1. /\ op[o].pc = "idle" /\ IsFiniteSet(op[o].failed) /\ Cardinality(op[o].failed) = 0
      BY <2>2, <2>3
    <3>2. 0 <= 0
      OBVIOUS
    <3>. QED  BY <3>1, <3>2 DEF Pays, Keeps, Handles, Building, Holding
  <2>. QED  BY <2>1, <2>3, <2>4 DEF Paid
<1>2. TypeOK /\ Paid /\ [Next]_vars => Paid'
  BY ConstantsOK, PaidStep
<1>3. TypeOK /\ Paid /\ Accounted => RollbackLeak
  <2>. SUFFICES ASSUME TypeOK, Paid, Accounted, NEW o \in Ops,
                       op[o].cmd = "create", op[o].pc = "failed"
                PROVE  Cardinality(owed[o] \ {op[o].left}) <= op[o].rest - trouble
    BY DEF RollbackLeak
  <2>1. /\ IsFiniteSet(op[o].failed) /\ Cardinality(op[o].failed) <= Since(o)
        /\ owed[o] \ {op[o].left} \subseteq op[o].failed
    BY DEF Paid, Pays, Keeps, Accounted, AnswersFor
  <2>2. Cardinality(owed[o] \ {op[o].left}) <= Cardinality(op[o].failed)
        /\ IsFiniteSet(owed[o] \ {op[o].left})
    BY <2>1, FS_Subset
  <2>3. /\ Cardinality(owed[o] \ {op[o].left}) \in Nat /\ Cardinality(op[o].failed) \in Nat
        /\ Since(o) \in Nat
    BY <2>1, <2>2, FS_CardinalityType DEF Paid
  <2>. HIDE DEF Since
  <2>4. Cardinality(owed[o] \ {op[o].left}) <= Since(o)
    BY <2>1, <2>2, <2>3
  <2>. QED  BY <2>4 DEF Since
<1>. QED  BY <1>1, <1>2, <1>3, TypeCorrect, AllAccounted, PTL DEF Spec
=============================================================================
