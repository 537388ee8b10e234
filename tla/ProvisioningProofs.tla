------------------------- MODULE ProvisioningProofs -------------------------
(* Proofs about Provisioning, for every number of terminals, clusters,      *)
(* names and ids, and every kind and amount of trouble.                     *)
EXTENDS Provisioning, TLAPS

USE DEF CreateSteps, DeleteSteps, Steps, Ended

-----------------------------------------------------------------------------
(* The helpers keep a run a run and a VM a VM.                              *)

\* A well-shaped run: the run of TypeOK.
Shaped(r) ==
  /\ r \in Run
  /\ r.pc \in Steps => r.vmid \in VMIDs
  /\ r.req # "unsent" => r.pc \in Steps

\* GiveUp returns such a run.
LEMMA GiveUpType ==
  ASSUME trouble' \in 0 .. MaxTrouble, NEW r \in Run PROVE Shaped(GiveUp(r))
BY DEF GiveUp, Shaped, Run, PCs

\* So do Advance, Skip and what is built from them.
LEMMA RunHelpersType ==
  ASSUME trouble' \in 0 .. MaxTrouble, NEW r, Shaped(r), r.pc \in Steps
  PROVE  Shaped(Advance(r)) /\ Shaped(CallFailed(r)) /\ Shaped(WaitFailed(r))
<1>1. Shaped(Advance(r))
  <2>1. CASE r.pc \in {"start", "destroy"}
    BY <2>1 DEF Advance, Returned, After, Shaped, Run, PCs
  <2>2. CASE r.pc \notin {"start", "destroy"}
    BY <2>2 DEF Advance, Returned, After, Shaped, Run, PCs
  <2>. QED  BY <2>1, <2>2
<1>2. Shaped(CallFailed(r))
  <2>1. Shaped(Skip(r))
    BY DEF Skip, Shaped, Run, PCs
  <2>2. r \in Run
    BY DEF Shaped
  <2>. QED  BY <2>1, <2>2, GiveUpType DEF CallFailed
<1>. QED  BY <1>1, <1>2 DEF WaitFailed

\* The head of the two loops: the next name to create, the next VM to delete.
PickedRun(r, n, v) ==
  [r EXCEPT !.pc = "clone", !.name = n, !.vmid = v, !.todo = r.todo \ {n}]
VictimRun(r, v) == [r EXCEPT !.pc = "stop", !.vmid = v, !.queue = r.queue \ {v}]
\* PickVMID leaves a well-shaped run.
LEMMA PickedRunType ==
  ASSUME NEW r \in Run, NEW v \in VMIDs, NEW n \in Names
  PROVE  PickedRun(r, n, v) \in Run
BY DEF PickedRun, Run, PCs
\* DeleteNext leaves a well-shaped run.
LEMMA VictimRunType ==
  ASSUME NEW r \in Run, NEW v \in VMIDs PROVE VictimRun(r, v) \in Run
BY DEF VictimRun, Run, PCs

\* A VM stays a VM when a call is accepted on it and when its task ends.
LEMMA VMHelpersType ==
  ASSUME ConstantsOK, NEW m \in VM
  PROVE  /\ FreeVM \in VM
         /\ m.by \in Ops => TaskDone(m) \in VM /\ TaskDone(m).task = None
         /\ TaskFailed(m) \in VM /\ TaskFailed(m).task = None
<1>1. FreeVM \in VM
  BY DEF FreeVM, VM
<1>2. Unlocked(m) \in VM /\ Unlocked(m).task = None /\ FreeVM.task = None
  BY DEF Unlocked, VM, FreeVM
<1>3. ASSUME m.by \in Ops PROVE TaskDone(m) \in VM /\ TaskDone(m).task = None
  <2>. DEFINE u == Unlocked(m)
  <2>1. u \in VM /\ u.task = None /\ ClusterOf[m.by] \in Clusters
    BY <1>2, <1>3 DEF ConstantsOK
  <2>. HIDE DEF u
  <2>2. /\ [u EXCEPT !.tag = ClusterOf[m.by]] \in VM
        /\ [u EXCEPT !.tag = ClusterOf[m.by]].task = None
    BY <2>1 DEF VM
  <2>3. /\ [u EXCEPT !.st = "running"] \in VM /\ [u EXCEPT !.st = "running"].task = None
        /\ [u EXCEPT !.st = "stopped"] \in VM /\ [u EXCEPT !.st = "stopped"].task = None
    BY <2>1 DEF VM
  <2>. QED  BY <1>1, <1>2, <2>2, <2>3 DEF TaskDone, u
<1>4. TaskFailed(m) \in VM /\ TaskFailed(m).task = None
  BY <1>1, <1>2 DEF TaskFailed
<1>. QED  BY <1>1, <1>3, <1>4

\* A step that gives terminal o another well-shaped run, and touches no VM.
LEMMA RunStepType ==
  ASSUME TypeOK, NEW o \in Ops, op' = [op EXCEPT ![o] = op'[o]], Shaped(op'[o]),
         UNCHANGED vm, owed' \in [Ops -> SUBSET VMIDs],
         trouble' \in 0 .. MaxTrouble
  PROVE  TypeOK'
<1>1. \A p \in Ops : Shaped(op'[p])
  BY DEF TypeOK, Shaped
<1>2. op' \in [Ops -> Run]
  BY <1>1 DEF TypeOK, Shaped
<1>. QED  BY <1>1, <1>2 DEF TypeOK, Shaped

\* Trouble is a countdown.
LEMMA HitsType ==
  ASSUME ConstantsOK, TypeOK, NEW kind, Hits(kind) PROVE trouble' \in 0 .. MaxTrouble
BY DEF ConstantsOK, TypeOK, Hits

\* An accepted call locks one VM.
LEMMA AcceptType ==
  ASSUME ConstantsOK, TypeOK, NEW o \in Ops, Accept(o)
  PROVE  /\ vm' \in [VMIDs -> VM]
         /\ \A v \in VMIDs : vm'[v].task # None => vm'[v].by \in Ops
         /\ owed' \in [Ops -> SUBSET VMIDs]
         /\ op[o].vmid \in VMIDs /\ op[o].pc \in Steps
<1>. DEFINE v == op[o].vmid
<1>1. v \in VMIDs /\ op[o].pc \in Steps /\ op[o] \in Run /\ vm[v] \in VM
  BY DEF Accept, TypeOK
<1>2. Locked(o, v, op[o].pc) \in VM /\ Locked(o, v, op[o].pc).by = o
  <2>1. CASE op[o].pc = "clone"
    BY <1>1, <2>1 DEF Locked, FreeVM, VM, Run
  <2>2. CASE op[o].pc # "clone"
    BY <1>1, <2>2 DEF Locked, VM
  <2>. QED  BY <2>1, <2>2
<1>3. vm' = [vm EXCEPT ![v] = Locked(o, v, op[o].pc)]
  BY DEF Accept
<1>4. owed' \in [Ops -> SUBSET VMIDs]
  BY <1>1 DEF Accept, TypeOK
<1>. HIDE DEF v
<1>5. vm' \in [VMIDs -> VM] /\ \A w \in VMIDs : vm'[w].task # None => vm'[w].by \in Ops
  BY <1>1, <1>2, <1>3 DEF TypeOK
<1>. QED  BY <1>1, <1>3, <1>4, <1>5 DEF v, TypeOK

\* The end of a task unlocks or frees one VM.
LEMMA FinishType ==
  ASSUME TypeOK, NEW v \in VMIDs, NEW m \in VM, m.task = None,
         NEW outcome \in {"ok", "err"}, Finish(v, m, outcome),
         trouble' \in 0 .. MaxTrouble
  PROVE  TypeOK'
<1>1. \A o \in Ops : Shaped(op'[o])
  <2>. TAKE o \in Ops
  <2>1. CASE Awaits(o, v)
    <3>1. op'[o] = [op[o] EXCEPT !.req = outcome] /\ Shaped(op[o]) /\ op[o].pc \in Steps
      BY <2>1 DEF Finish, Awaits, TypeOK, Shaped
    <3>. QED  BY <3>1 DEF Shaped, Run
  <2>2. CASE ~Awaits(o, v)
    BY <2>2 DEF Finish, TypeOK, Shaped
  <2>. QED  BY <2>1, <2>2
<1>2. op' \in [Ops -> Run]
  BY <1>1 DEF Finish, Shaped
<1>3. owed' \in [Ops -> SUBSET VMIDs]
  BY DEF Finish, TypeOK
<1>4. vm' \in [VMIDs -> VM] /\ \A w \in VMIDs : vm'[w].task # None => vm'[w].by \in Ops
  BY DEF Finish, TypeOK
<1>. QED  BY <1>1, <1>2, <1>3, <1>4 DEF Finish, TypeOK, Shaped

\* Every step, of a run, of the operator or of Proxmox, keeps the types.
LEMMA TypeStep == ASSUME ConstantsOK, TypeOK, [Next]_vars PROVE TypeOK'
<1>1. ASSUME NEW o \in Ops PROVE Shaped(op[o])
  BY <1>1 DEF TypeOK, Shaped
<1>2. ASSUME NEW o \in Ops, Start(o) PROVE TypeOK'
  <2>1. PICK cmd \in Cmds[o] : op' = [op EXCEPT ![o] = [Fresh(cmd) EXCEPT !.pc = "list"]]
    BY <1>2 DEF Start
  <2>2. op' = [op EXCEPT ![o] = op'[o]] /\ op'[o] = [Fresh(cmd) EXCEPT !.pc = "list"]
    BY <2>1 DEF TypeOK
  <2>3. cmd \in {"create", "delete"}
    BY ConstantsOK DEF ConstantsOK
  <2>4. [Fresh(cmd) EXCEPT !.pc = "list"] \in Run
    <3>1. MaxTrouble \in 0 .. MaxTrouble
      BY ConstantsOK DEF ConstantsOK
    <3>. QED  BY <2>3, <3>1 DEF Fresh, Run, PCs
  <2>5. Shaped(op'[o])
    BY <2>2, <2>4 DEF Fresh, Shaped
  <2>. QED  BY <1>2, <2>2, <2>5, RunStepType DEF Start, TypeOK
<1>3. ASSUME NEW o \in Ops, ListCreate(o) PROVE TypeOK'
  <2>1. op' = [op EXCEPT ![o] = op'[o]]
        /\ op'[o] = [op[o] EXCEPT !.pc = "next", !.seen = Listed(ClusterOf[o]),
                                 !.todo = Missing(ClusterOf[o], Listed(ClusterOf[o]))]
    BY <1>3 DEF ListCreate, TypeOK
  <2>2. op[o] \in Run /\ op[o].req = "unsent" /\ op[o].pc \notin Steps
        /\ "next" \in PCs \ Steps /\ Listed(ClusterOf[o]) \in SUBSET VMIDs
        /\ Missing(ClusterOf[o], Listed(ClusterOf[o])) \in SUBSET Names
    BY <1>1, <1>3, ConstantsOK DEF ListCreate, Listed, Missing, PCs, ConstantsOK, Shaped, Run
  <2>3. op'[o] \in Run
    BY <2>1, <2>2 DEF Run, PCs
  <2>4. Shaped(op'[o])
    BY <2>1, <2>2, <2>3 DEF Shaped, Run
  <2>. QED  BY <1>3, <2>1, <2>4, RunStepType DEF ListCreate, TypeOK
<1>4. ASSUME NEW o \in Ops, ListDelete(o) PROVE TypeOK'
  <2>1. op' = [op EXCEPT ![o] = op'[o]]
        /\ op'[o] = [op[o] EXCEPT !.pc = IF Listed(ClusterOf[o]) = {} THEN "done" ELSE "drain",
                                 !.queue = Listed(ClusterOf[o])]
    BY <1>4 DEF ListDelete, TypeOK
  <2>2. op[o] \in Run /\ op[o].req = "unsent" /\ op[o].pc \notin Steps
        /\ "drain" \in PCs \ Steps /\ "done" \in PCs \ Steps
        /\ Listed(ClusterOf[o]) \in SUBSET VMIDs
    BY <1>1, <1>4 DEF ListDelete, Listed, PCs, Shaped, Run
  <2>3. op'[o] \in Run
    BY <2>1, <2>2 DEF Run, PCs
  <2>4. Shaped(op'[o])
    BY <2>1, <2>2, <2>3 DEF Shaped, Run
  <2>. QED  BY <1>4, <2>1, <2>4, RunStepType DEF ListDelete, Listed, TypeOK
<1>5. ASSUME NEW o \in Ops, ListFails(o) PROVE TypeOK'
  <2>1. op' = [op EXCEPT ![o] = op'[o]] /\ op'[o] = [op[o] EXCEPT !.pc = "failed"]
    BY <1>5 DEF ListFails, TypeOK
  <2>2. op[o] \in Run /\ op[o].req = "unsent" /\ op[o].pc \notin Steps
        /\ "failed" \in PCs \ Steps
    BY <1>1, <1>5 DEF ListFails, PCs, Shaped, Run
  <2>3. op'[o] \in Run
    BY <2>1, <2>2 DEF Run, PCs
  <2>4. Shaped(op'[o])
    BY <2>1, <2>2, <2>3 DEF Shaped, Run
  <2>. QED  BY <1>5, <2>1, <2>4, RunStepType, HitsType DEF ListFails, TypeOK
<1>6. ASSUME NEW o \in Ops, PickVMID(o) PROVE TypeOK'
  <2>1. op \in [Ops -> Run] /\ op[o] \in Run /\ op[o].req = "unsent"
    BY <1>1, <1>6 DEF PickVMID, TypeOK, Shaped
  <2>2. op' = [op EXCEPT ![o] = op'[o]]
    BY <1>6, <2>1 DEF PickVMID
  <2>3. PICK n \in op[o].todo, v \in FreeIds :
          op'[o] = PickedRun(op[o], n, v)
    BY <1>6, <2>1 DEF PickVMID, PickedRun
  <2>4. n \in Names /\ v \in VMIDs
    BY <2>1 DEF FreeIds, Run
  <2>5. op'[o] \in Run
    <3>1. op[o] \in Run
      BY <2>1
    <3>. QED  BY <3>1, <2>3, <2>4, PickedRunType
  <2>6. Shaped(op'[o])
    BY <2>1, <2>3, <2>4, <2>5 DEF PickedRun, Shaped, Run
  <2>. QED  BY <1>6, <2>2, <2>6, RunStepType DEF PickVMID, TypeOK
<1>7. ASSUME NEW o \in Ops, PickFails(o) PROVE TypeOK'
  <2>1. op' = [op EXCEPT ![o] = op'[o]] /\ op'[o] = GiveUp(op[o])
    BY <1>7 DEF PickFails, TypeOK
  <2>2. trouble' \in 0 .. MaxTrouble
    BY <1>7, HitsType DEF PickFails, TypeOK
  <2>3. Shaped(op'[o])
    BY <1>1, <1>7, <2>1, <2>2, GiveUpType DEF PickFails, Shaped
  <2>. QED  BY <1>7, <2>1, <2>2, <2>3, RunStepType DEF PickFails, TypeOK
<1>8. ASSUME NEW o \in Ops, AllCreated(o) PROVE TypeOK'
  <2>1. op' = [op EXCEPT ![o] = op'[o]]
        /\ op'[o] = [op[o] EXCEPT !.pc = "ready", !.queue = ToAwait(op[o])]
    BY <1>8 DEF AllCreated, TypeOK
  <2>2. op[o] \in Run /\ op[o].req = "unsent" /\ op[o].pc \notin Steps
        /\ "ready" \in PCs \ Steps /\ ToAwait(op[o]) \in SUBSET VMIDs
    BY <1>1, <1>8 DEF AllCreated, ToAwait, PCs, Shaped, Run
  <2>3. op'[o] \in Run
    BY <2>1, <2>2 DEF Run, PCs
  <2>4. Shaped(op'[o])
    BY <2>1, <2>2, <2>3 DEF Shaped, Run
  <2>. QED  BY <1>8, <2>1, <2>4, RunStepType DEF AllCreated, TypeOK
<1>9. ASSUME NEW o \in Ops, AlreadyStopped(o) PROVE TypeOK'
  <2>1. op' = [op EXCEPT ![o] = op'[o]] /\ op'[o] = Advance(op[o])
    BY <1>9 DEF AlreadyStopped, TypeOK
  <2>2. trouble' \in 0 .. MaxTrouble
    BY <1>9, HitsType DEF AlreadyStopped, TypeOK
  <2>3. Shaped(op'[o])
    BY <1>1, <1>9, <2>1, <2>2, RunHelpersType DEF AlreadyStopped, NotRunning, Shaped
  <2>. QED  BY <1>9, <2>1, <2>2, <2>3, RunStepType DEF AlreadyStopped, TypeOK
<1>10. ASSUME NEW o \in Ops, SendRefused(o) PROVE TypeOK'
  <2>1. op' = [op EXCEPT ![o] = op'[o]] /\ op'[o] = CallFailed(op[o])
    BY <1>10 DEF SendRefused, TypeOK
  <2>2. trouble' \in 0 .. MaxTrouble
    BY <1>10, HitsType DEF SendRefused, TypeOK
  <2>3. Shaped(op'[o])
    BY <1>1, <1>10, <2>1, <2>2, RunHelpersType DEF SendRefused, Shaped
  <2>. QED  BY <1>10, <2>1, <2>2, <2>3, RunStepType DEF SendRefused, TypeOK
<1>11. ASSUME NEW o \in Ops, PollOk(o) PROVE TypeOK'
  <2>1. op' = [op EXCEPT ![o] = op'[o]] /\ op'[o] = Advance(op[o])
    BY <1>11 DEF PollOk, TypeOK
  <2>2. trouble' \in 0 .. MaxTrouble
    BY <1>11, HitsType DEF PollOk, TypeOK
  <2>3. Shaped(op'[o])
    BY <1>1, <1>11, <2>1, <2>2, RunHelpersType DEF PollOk, Shaped
  <2>. QED  BY <1>11, <2>1, <2>2, <2>3, RunStepType DEF PollOk, TypeOK
<1>12. ASSUME NEW o \in Ops, PollFails(o) PROVE TypeOK'
  <2>1. op' = [op EXCEPT ![o] = op'[o]] /\ op'[o] = WaitFailed(op[o])
    BY <1>12 DEF PollFails, TypeOK
  <2>2. trouble' \in 0 .. MaxTrouble
    BY <1>12, HitsType DEF PollFails, TypeOK
  <2>3. Shaped(op'[o])
    BY <1>1, <1>12, <2>1, <2>2, RunHelpersType DEF PollFails, Shaped
  <2>. QED  BY <1>12, <2>1, <2>2, <2>3, RunStepType DEF PollFails, TypeOK
<1>13. ASSUME NEW o \in Ops, WaitReady(o) PROVE TypeOK'
  <2>1. PICK v \in op[o].queue :
          op' = [op EXCEPT ![o] = [op[o] EXCEPT !.queue = op[o].queue \ {v}]]
    BY <1>13 DEF WaitReady
  <2>2. op' = [op EXCEPT ![o] = op'[o]]
        /\ op'[o] = [op[o] EXCEPT !.queue = op[o].queue \ {v}]
    BY <2>1 DEF TypeOK
  <2>3. op[o] \in Run /\ op[o].req = "unsent" /\ op[o].pc \notin Steps
        /\ op[o].queue \ {v} \in SUBSET VMIDs /\ "ready" \in PCs \ Steps
    BY <1>1, <1>13 DEF WaitReady, Shaped, Run, PCs
  <2>4. op'[o] \in Run
    BY <2>2, <2>3 DEF Run, PCs
  <2>5. Shaped(op'[o])
    BY <2>2, <2>3, <2>4 DEF Shaped, Run
  <2>. QED  BY <1>13, <2>2, <2>5, RunStepType DEF WaitReady, TypeOK
<1>14. ASSUME NEW o \in Ops, WaitTimeout(o) PROVE TypeOK'
  <2>1. op' = [op EXCEPT ![o] = op'[o]] /\ op'[o] = [op[o] EXCEPT !.pc = "unready"]
    BY <1>14 DEF WaitTimeout, TypeOK
  <2>2. op[o] \in Run /\ op[o].req = "unsent" /\ op[o].pc \notin Steps
        /\ "unready" \in PCs \ Steps
    BY <1>1, <1>14 DEF WaitTimeout, PCs, Shaped, Run
  <2>3. op'[o] \in Run
    BY <2>1, <2>2 DEF Run, PCs
  <2>4. Shaped(op'[o])
    BY <2>1, <2>2, <2>3 DEF Shaped, Run
  <2>. QED  BY <1>14, <2>1, <2>4, RunStepType, HitsType DEF WaitTimeout, TypeOK
<1>15. ASSUME NEW o \in Ops, AllReady(o) PROVE TypeOK'
  <2>1. op' = [op EXCEPT ![o] = op'[o]] /\ op'[o] = [op[o] EXCEPT !.pc = "done"]
    BY <1>15 DEF AllReady, TypeOK
  <2>2. op[o] \in Run /\ op[o].req = "unsent" /\ op[o].pc \notin Steps
        /\ "done" \in PCs \ Steps
    BY <1>1, <1>15 DEF AllReady, PCs, Shaped, Run
  <2>3. op'[o] \in Run
    BY <2>1, <2>2 DEF Run, PCs
  <2>4. Shaped(op'[o])
    BY <2>1, <2>2, <2>3 DEF Shaped, Run
  <2>. QED  BY <1>15, <2>1, <2>4, RunStepType DEF AllReady, TypeOK
<1>16. ASSUME NEW o \in Ops, DeleteNext(o) PROVE TypeOK'
  <2>1. op \in [Ops -> Run] /\ op[o] \in Run /\ op[o].req = "unsent"
    BY <1>1, <1>16 DEF DeleteNext, TypeOK, Shaped
  <2>2. op' = [op EXCEPT ![o] = op'[o]]
    BY <1>16, <2>1 DEF DeleteNext
  <2>3. PICK v \in Victims(o) :
          op'[o] = VictimRun(op[o], v)
    BY <1>16, <2>1 DEF DeleteNext, VictimRun
  <2>4. v \in VMIDs
    BY <2>1 DEF Victims, Run
  <2>5. op'[o] \in Run
    <3>1. op[o] \in Run
      BY <2>1
    <3>. QED  BY <3>1, <2>3, <2>4, VictimRunType
  <2>6. Shaped(op'[o])
    BY <2>1, <2>3, <2>4, <2>5 DEF VictimRun, Shaped, Run
  <2>. QED  BY <1>16, <2>2, <2>6, RunStepType DEF DeleteNext, TypeOK
<1>17. ASSUME NEW o \in Ops, Drained(o) PROVE TypeOK'
  <2>1. op' = [op EXCEPT ![o] = op'[o]]
        /\ op'[o] = [op[o] EXCEPT !.pc = IF op[o].cmd = "delete" /\ op[o].failed = {}
                                        THEN "done" ELSE "failed"]
    BY <1>17 DEF Drained, TypeOK
  <2>2. op[o] \in Run /\ op[o].req = "unsent" /\ op[o].pc \notin Steps
        /\ "failed" \in PCs \ Steps /\ "done" \in PCs \ Steps
    BY <1>1, <1>17 DEF Drained, PCs, Shaped, Run
  <2>3. op'[o] \in Run
    BY <2>1, <2>2 DEF Run, PCs
  <2>4. Shaped(op'[o])
    BY <2>1, <2>2, <2>3 DEF Shaped, Run
  <2>. QED  BY <1>17, <2>1, <2>4, RunStepType DEF Drained, TypeOK
<1>18. ASSUME NEW o \in Ops, Interrupt(o) PROVE TypeOK'
  <2>1. op' = [op EXCEPT ![o] = op'[o]] /\ op'[o] = [op[o] EXCEPT !.cancelled = TRUE]
    BY <1>18 DEF Interrupt, TypeOK
  <2>2. op[o] \in Run
    BY <1>1, <1>18 DEF Shaped, Run
  <2>3. op'[o] \in Run
    BY <2>1, <2>2 DEF Run, PCs
  <2>4. Shaped(op'[o])
    BY <2>1, <2>2, <2>3, <1>1 DEF Shaped, Run
  <2>. QED  BY <1>18, <2>1, <2>4, RunStepType DEF Interrupt, TypeOK
<1>19. ASSUME NEW o \in Ops, Crash(o) PROVE TypeOK'
  <2>1. op' = [op EXCEPT ![o] = op'[o]] /\ Shaped(op'[o])
    BY <1>1, <1>19 DEF Crash, Fresh, TypeOK, Shaped, Run, PCs
  <2>. QED  BY <1>19, <2>1, RunStepType, HitsType DEF Crash, TypeOK
<1>20. ASSUME NEW o \in Ops, Send(o) PROVE TypeOK'
  <2>1. Accept(o) /\ op' = [op EXCEPT ![o] = [op[o] EXCEPT !.req = "running"]]
    BY <1>20 DEF Send, TypeOK
  <2>2. Shaped([op[o] EXCEPT !.req = "running"])
    <3>1. op[o].vmid \in VMIDs /\ op[o].pc \in Steps /\ op[o] \in Run
      BY <1>1, <2>1, ConstantsOK, AcceptType DEF Shaped
    <3>2. [op[o] EXCEPT !.req = "running"] \in Run
      BY <3>1 DEF Run
    <3>. QED  BY <3>1, <3>2 DEF Shaped, Run
  <2>3. \A p \in Ops : Shaped(op'[p])
    BY <1>1, <2>1, <2>2 DEF TypeOK
  <2>4. op' \in [Ops -> Run]
    BY <2>1, <2>3 DEF TypeOK, Shaped
  <2>. QED  BY <1>20, <2>1, <2>3, <2>4, AcceptType DEF Send, TypeOK, Shaped
<1>21. ASSUME NEW o \in Ops, SendLost(o) PROVE TypeOK'
  <2>1. Accept(o) /\ op' = [op EXCEPT ![o] = CallFailed(op[o])]
    BY <1>21 DEF SendLost, TypeOK
  <2>0. trouble' \in 0 .. MaxTrouble
    BY <1>21, HitsType DEF SendLost
  <2>2. Shaped(CallFailed(op[o]))
    BY <1>1, <2>0, <2>1, AcceptType, RunHelpersType
  <2>3. \A p \in Ops : Shaped(op'[p])
    BY <1>1, <2>1, <2>2 DEF TypeOK
  <2>4. op' \in [Ops -> Run]
    BY <2>1, <2>3 DEF TypeOK, Shaped
  <2>. QED  BY <1>21, <2>0, <2>1, <2>3, <2>4, AcceptType DEF SendLost, TypeOK, Shaped
<1>22. ASSUME NEW v \in VMIDs, TaskSucceeds(v) PROVE TypeOK'
  <2>1. vm[v] \in VM /\ vm[v].by \in Ops /\ trouble' \in 0 .. MaxTrouble
    BY <1>22 DEF TaskSucceeds, TypeOK
  <2>. QED  BY <1>22, <2>1, VMHelpersType, FinishType DEF TaskSucceeds
<1>23. ASSUME NEW v \in VMIDs, TaskFails(v) PROVE TypeOK'
  <2>1. vm[v] \in VM
    BY DEF TypeOK
  <2>. QED  BY <1>23, <2>1, VMHelpersType, FinishType, HitsType DEF TaskFails
<1>24. CASE UNCHANGED vars
  BY <1>24 DEF vars, TypeOK
<1>. QED
  BY <1>2, <1>3, <1>4, <1>5, <1>6, <1>7, <1>8, <1>9, <1>10, <1>11, <1>12, <1>13,
     <1>14, <1>15, <1>16, <1>17, <1>18, <1>19, <1>20, <1>21, <1>22, <1>23, <1>24
     DEF Next, Progress

\* Every reachable state is well formed: machines, runs, what is owed.
THEOREM TypeCorrect == Spec => []TypeOK
<1>1. Init => TypeOK
  BY ConstantsOK DEF Init, TypeOK, FreeVM, Fresh, VM, Run, PCs, ConstantsOK
<1>2. TypeOK /\ [Next]_vars => TypeOK'
  BY ConstantsOK, TypeStep
<1>. QED  BY <1>1, <1>2, PTL DEF Spec
-----------------------------------------------------------------------------
(* Every VM a run answers for is accounted for                              *)

\* What one terminal's part of Ledger says, apart from what it polls.
Booked(r, S) == AnswersFor(r, S) /\ Books(r, S)

\* A VM that is gone needs no place in the books.
LEMMA BookedShrinks ==
  ASSUME NEW r, NEW S, Booked(r, S), NEW T \in SUBSET S PROVE Booked(r, T)
BY DEF Booked, AnswersFor, Books

\* CreateNode fails: what was returned goes to the rollback, and the VM in
\* progress is the half-made one.
LEMMA BookedGiveUp ==
  ASSUME NEW r \in Run, NEW S, Booked(r, S), r.pc \in CreateSteps \cup {"next"}
  PROVE  Booked(GiveUp(r), S)
<1>1. S \subseteq r.made \cup {r.vmid}
  BY DEF Booked, Books
<1>2. /\ GiveUp(r).pc = "drain" /\ GiveUp(r).queue = r.made /\ GiveUp(r).left = r.vmid
      /\ GiveUp(r).vmid = None
  BY DEF GiveUp, Run
<1>. QED  BY <1>1, <1>2 DEF Booked, AnswersFor, Books

\* A call fails: GiveUp, or DeleteNode notes its VM and goes on.
LEMMA BookedCallFailed ==
  ASSUME NEW r \in Run, NEW S, Booked(r, S), r.pc \in Steps
  PROVE  Booked(CallFailed(r), S)
<1>1. CASE r.pc \in CreateSteps
  BY <1>1, BookedGiveUp DEF CallFailed
<1>2. CASE r.pc \in DeleteSteps
  <2>1. S \subseteq r.queue \cup r.failed \cup {r.left, r.vmid}
    BY <1>2 DEF Booked, Books
  <2>2. /\ Skip(r).pc = "drain" /\ Skip(r).queue = r.queue /\ Skip(r).left = r.left
        /\ Skip(r).vmid = None /\ Skip(r).failed = r.failed \cup {r.vmid}
    BY DEF Skip, Run
  <2>3. Booked(Skip(r), S)
    BY <2>1, <2>2 DEF Booked, AnswersFor, Books
  <2>. QED  BY <1>2, <2>3 DEF CallFailed
<1>. QED  BY <1>1, <1>2

\* A call succeeds; after a destroy the VM is gone.
LEMMA BookedAdvance ==
  ASSUME NEW r \in Run, NEW S, Booked(r, S), r.pc \in Steps,
         r.pc = "destroy" => r.vmid \notin S
  PROVE  Booked(Advance(r), S)
<1>1. /\ Advance(r).pc = After(r.pc) /\ Advance(r).req = "unsent"
      /\ Advance(r).made = Returned(r) /\ Advance(r).cmd = r.cmd
      /\ Advance(r).queue = r.queue /\ Advance(r).failed = r.failed
      /\ Advance(r).left = r.left
      /\ Advance(r).vmid = IF r.pc \in {"start", "destroy"} THEN None ELSE r.vmid
  BY DEF Advance, Run
<1>2. CASE r.pc \in {"clone", "config", "resize"}
  BY <1>1, <1>2 DEF After, Returned, Booked, AnswersFor, Books
<1>3. CASE r.pc = "start"
  BY <1>1, <1>3 DEF After, Returned, Booked, AnswersFor, Books
<1>4. CASE r.pc = "stop"
  BY <1>1, <1>4 DEF After, Returned, Booked, AnswersFor, Books
<1>5. CASE r.pc = "destroy"
  BY <1>1, <1>5 DEF After, Returned, Booked, AnswersFor, Books
<1>. QED  BY <1>2, <1>3, <1>4, <1>5

\* A wait fails: as a call that fails, except that a stop goes on.
LEMMA BookedWaitFailed ==
  ASSUME NEW r \in Run, NEW S, Booked(r, S), r.pc \in Steps
  PROVE  Booked(WaitFailed(r), S)
BY BookedAdvance, BookedCallFailed DEF WaitFailed

\* A step of terminal o that touches no VM keeps the books of the others.
LEMMA LedgerOfOthers ==
  ASSUME TypeOK, Ledger, NEW o \in Ops, op' = [op EXCEPT ![o] = op'[o]], UNCHANGED vm,
         owed' \in [Ops -> SUBSET VMIDs], \A p \in Ops \ {o} : owed'[p] = owed[p],
         Booked(op'[o], owed'[o]), op'[o].req # "running"
  PROVE  Ledger'
<1>. SUFFICES ASSUME NEW p \in Ops PROVE Booked(op'[p], owed'[p]) /\ Polls(p)'
  BY DEF Ledger, Booked
<1>1. CASE p = o
  BY <1>1 DEF Polls
<1>2. CASE p # o
  <2>1. op'[p] = op[p] /\ owed'[p] = owed[p]
    BY <1>2 DEF TypeOK
  <2>. QED  BY <2>1 DEF Ledger, Booked, Polls
<1>. QED  BY <1>1, <1>2

\* A call accepted on a VM: its lock keeps the other terminals' calls apart.
LEMMA LedgerAccept ==
  ASSUME ConstantsOK, TypeOK, Ledger, NEW o \in Ops, Accept(o),
         op' = [op EXCEPT ![o] = op'[o]]
  PROVE  /\ Booked(op[o], owed'[o])
         /\ vm'[op[o].vmid].task = op[o].pc /\ vm'[op[o].vmid].by = o
         /\ \A p \in Ops \ {o} : Booked(op'[p], owed'[p]) /\ Polls(p)'
<1>. DEFINE v == op[o].vmid
<1>1. v \in VMIDs /\ op[o].pc \in Steps /\ op[o].req = "unsent" /\ vm[v].task = None
  BY DEF Accept, Accepts, TypeOK
<1>2. vm' = [vm EXCEPT ![v] = Locked(o, v, op[o].pc)]
  BY DEF Accept
<1>3. Booked(op[o], owed'[o])
  <2>1. CASE op[o].pc = "clone"
    <3>1. owed'[o] = owed[o] \cup {v}
      BY <2>1 DEF Accept, TypeOK
    <3>. QED  BY <2>1, <3>1 DEF Ledger, Booked, AnswersFor, Books
  <2>2. CASE op[o].pc # "clone"
    BY <2>2 DEF Accept, Ledger, Booked
  <2>. QED  BY <2>1, <2>2
<1>4. Locked(o, v, op[o].pc).task = op[o].pc /\ Locked(o, v, op[o].pc).by = o
  <2>1. CASE op[o].pc = "clone"
    BY <2>1 DEF Locked, FreeVM
  <2>2. CASE op[o].pc # "clone"
    BY <1>1, <2>2 DEF Locked, TypeOK, VM
  <2>. QED  BY <2>1, <2>2
<1>5. vm'[v].task = op[o].pc /\ vm'[v].by = o
  BY <1>1, <1>2, <1>4 DEF TypeOK
<1>6. ASSUME NEW p \in Ops \ {o} PROVE Booked(op'[p], owed'[p]) /\ Polls(p)'
  <2>1. op'[p] = op[p] /\ owed'[p] = owed[p]
    BY <1>6 DEF Accept, TypeOK
  <2>2. Polls(p)'
    <3>1. SUFFICES ASSUME op[p].req = "running"
                   PROVE  vm'[op[p].vmid].task = op[p].pc /\ vm'[op[p].vmid].by = p
      BY <2>1 DEF Polls
    <3>2. op[p].pc \in Steps /\ op[p].vmid \in VMIDs
      BY <3>1 DEF TypeOK
    <3>3. vm[op[p].vmid].task = op[p].pc /\ vm[op[p].vmid].by = p
      BY <3>1 DEF Ledger, Polls
    <3>4. op[p].vmid # v
      BY <1>1, <3>2, <3>3 DEF ConstantsOK
    <3>. QED  BY <1>1, <1>2, <3>2, <3>3, <3>4 DEF TypeOK
  <2>. QED  BY <2>1, <2>2 DEF Ledger, Booked
<1>. QED  BY <1>3, <1>5, <1>6

\* The end of a task: the run that polls it learns how it ended, and a VM
\* that is gone leaves the books.
LEMMA LedgerFinish ==
  ASSUME ConstantsOK, TypeOK, Ledger, NEW v \in VMIDs, NEW m, NEW outcome \in {"ok", "err"},
         Finish(v, m, outcome), vm[v].task = "destroy" /\ outcome = "ok" => m = FreeVM
  PROVE  Ledger'
<1>. SUFFICES ASSUME NEW p \in Ops PROVE Booked(op'[p], owed'[p]) /\ Polls(p)'
  BY DEF Ledger, Booked
<1>1. owed'[p] \subseteq owed[p] /\ (m = FreeVM => v \notin owed'[p])
  BY DEF Finish, TypeOK
<1>2. Booked(op[p], owed'[p]) /\ op[p] \in Run
  BY <1>1, BookedShrinks DEF Ledger, Booked, TypeOK
<1>3. CASE Awaits(p, v)
  <2>1. op'[p] = [op[p] EXCEPT !.req = outcome] /\ op[p].vmid = v /\ vm[v].task = op[p].pc
    BY <1>3 DEF Finish, Awaits
  <2>2. /\ op'[p].req = outcome /\ op'[p].pc = op[p].pc /\ op'[p].vmid = v
        /\ op'[p].cmd = op[p].cmd /\ op'[p].made = op[p].made /\ op'[p].queue = op[p].queue
        /\ op'[p].failed = op[p].failed /\ op'[p].left = op[p].left
    BY <1>2, <2>1 DEF Run
  <2>3. Booked(op'[p], owed'[p])
    BY <1>1, <1>2, <2>1, <2>2 DEF Booked, AnswersFor, Books
  <2>. QED  BY <2>2, <2>3 DEF Polls
<1>4. CASE ~Awaits(p, v)
  <2>1. op'[p] = op[p]
    BY <1>4 DEF Finish
  <2>2. ASSUME op[p].req = "running"
        PROVE  vm'[op[p].vmid].task = op[p].pc /\ vm'[op[p].vmid].by = p
    <3>1. vm[op[p].vmid].task = op[p].pc /\ vm[op[p].vmid].by = p
      BY <2>2 DEF Ledger, Polls
    <3>2. op[p].vmid # v /\ op[p].vmid \in VMIDs
      BY <1>4, <2>2, <3>1 DEF Awaits, TypeOK
    <3>. QED  BY <3>1, <3>2 DEF Finish, TypeOK
  <2>. QED  BY <1>2, <2>1, <2>2 DEF Polls
<1>. QED  BY <1>3, <1>4

\* Every step keeps the books of every terminal.
LEMMA LedgerStep == ASSUME ConstantsOK, TypeOK, Ledger, [Next]_vars PROVE Ledger'
<1>1. ASSUME NEW o \in Ops
      PROVE  /\ op[o] \in Run /\ Booked(op[o], owed[o])
             /\ owed[o] \subseteq VMIDs /\ None \notin owed[o]
             /\ op[o].req # "unsent" => op[o].pc \in Steps
  BY <1>1 DEF TypeOK, Ledger, Booked, ConstantsOK
<1>2. ASSUME NEW o \in Ops, Start(o) PROVE Ledger'
  <2>1. op' = [op EXCEPT ![o] = op'[o]] /\ op'[o].req # "running"
    BY <1>1, <1>2 DEF Start, Fresh, TypeOK, Run
  <2>2. Booked(op'[o], owed'[o])
    BY <1>1, <1>2 DEF Start, Fresh, Booked, AnswersFor, Books, TypeOK, Run
  <2>. QED  BY <1>2, <2>1, <2>2, LedgerOfOthers, ConstantsOK DEF Start, TypeOK
<1>3. ASSUME NEW o \in Ops, ListCreate(o) PROVE Ledger'
  <2>1. op' = [op EXCEPT ![o] = op'[o]] /\ op'[o].req # "running"
    <3>1. op' = [op EXCEPT ![o] = op'[o]] /\ op[o] \in Run /\ op[o].req # "running"
      BY <1>1, <1>3 DEF ListCreate, TypeOK
    <3>2. op'[o] = [op[o] EXCEPT !.pc = "next", !.seen = Listed(ClusterOf[o]),
                        !.todo = Missing(ClusterOf[o], Listed(ClusterOf[o]))]
      BY <1>3 DEF ListCreate, TypeOK
    <3>3. op'[o].req = op[o].req
      <4>1. op[o] \in Run
        BY <3>1
      <4>. QED  BY <3>2, <4>1 DEF Run
    <3>. QED  BY <3>1, <3>3
  <2>2. Booked(op'[o], owed'[o])
    BY <1>1, <1>3 DEF ListCreate, Booked, AnswersFor, Books, TypeOK, Run
  <2>. QED  BY <1>3, <2>1, <2>2, LedgerOfOthers, ConstantsOK DEF ListCreate, TypeOK
<1>4. ASSUME NEW o \in Ops, ListDelete(o) PROVE Ledger'
  <2>1. op' = [op EXCEPT ![o] = op'[o]] /\ op'[o].req # "running"
    <3>1. op' = [op EXCEPT ![o] = op'[o]] /\ op[o] \in Run /\ op[o].req # "running"
      BY <1>1, <1>4 DEF ListDelete, TypeOK
    <3>2. op'[o] = [op[o] EXCEPT !.pc = IF Listed(ClusterOf[o]) = {} THEN "done" ELSE "drain",
                        !.queue = Listed(ClusterOf[o])]
      BY <1>4 DEF ListDelete, TypeOK
    <3>3. op'[o].req = op[o].req
      <4>1. op[o] \in Run
        BY <3>1
      <4>. QED  BY <3>2, <4>1 DEF Run
    <3>. QED  BY <3>1, <3>3
  <2>2. Booked(op'[o], owed'[o])
    BY <1>1, <1>4 DEF ListDelete, Booked, AnswersFor, Books, TypeOK, Run
  <2>. QED  BY <1>4, <2>1, <2>2, LedgerOfOthers, ConstantsOK DEF ListDelete, Listed, TypeOK
<1>5. ASSUME NEW o \in Ops, ListFails(o) PROVE Ledger'
  <2>1. op' = [op EXCEPT ![o] = op'[o]] /\ op'[o].req # "running"
    BY <1>1, <1>5 DEF ListFails, TypeOK, Run
  <2>2. Booked(op'[o], owed'[o])
    BY <1>1, <1>5 DEF ListFails, Booked, AnswersFor, Books, TypeOK, Run
  <2>. QED  BY <1>5, <2>1, <2>2, LedgerOfOthers, ConstantsOK DEF ListFails, TypeOK
<1>6. ASSUME NEW o \in Ops, PickVMID(o) PROVE Ledger'
  <2>1. op' = [op EXCEPT ![o] = op'[o]] /\ op'[o].req # "running"
    BY <1>1, <1>6 DEF PickVMID, TypeOK, Run
  <2>2. Booked(op'[o], owed'[o])
    BY <1>1, <1>6 DEF PickVMID, Booked, AnswersFor, Books, TypeOK, Run
  <2>. QED  BY <1>6, <2>1, <2>2, LedgerOfOthers, ConstantsOK DEF PickVMID, TypeOK
<1>7. ASSUME NEW o \in Ops, PickFails(o) PROVE Ledger'
  <2>1. op' = [op EXCEPT ![o] = op'[o]] /\ op'[o] = GiveUp(op[o])
    BY <1>7 DEF PickFails, TypeOK
  <2>2. Booked(op'[o], owed'[o])
    BY <1>1, <1>7, <2>1, BookedGiveUp DEF PickFails, Ledger, Books
  <2>3. op'[o].req # "running"
    BY <1>1, <2>1 DEF Advance, CallFailed, WaitFailed, Skip, GiveUp, Run
  <2>. QED  BY <1>7, <2>1, <2>2, <2>3, LedgerOfOthers DEF PickFails, TypeOK
<1>8. ASSUME NEW o \in Ops, AllCreated(o) PROVE Ledger'
  <2>1. op' = [op EXCEPT ![o] = op'[o]] /\ op'[o].req # "running"
    <3>1. op' = [op EXCEPT ![o] = op'[o]] /\ op[o] \in Run /\ op[o].req # "running"
      BY <1>1, <1>8 DEF AllCreated, TypeOK
    <3>2. op'[o] = [op[o] EXCEPT !.pc = "ready", !.queue = ToAwait(op[o])]
      BY <1>8 DEF AllCreated, TypeOK
    <3>3. op'[o].req = op[o].req
      <4>1. op[o] \in Run
        BY <3>1
      <4>. QED  BY <3>2, <4>1 DEF Run
    <3>. QED  BY <3>1, <3>3
  <2>2. Booked(op'[o], owed'[o])
    BY <1>1, <1>8 DEF AllCreated, Booked, AnswersFor, Books, TypeOK, Run
  <2>. QED  BY <1>8, <2>1, <2>2, LedgerOfOthers, ConstantsOK DEF AllCreated, TypeOK
<1>9. ASSUME NEW o \in Ops, AlreadyStopped(o) PROVE Ledger'
  <2>1. op' = [op EXCEPT ![o] = op'[o]] /\ op'[o] = Advance(op[o])
    BY <1>9 DEF AlreadyStopped, TypeOK
  <2>2. Booked(op'[o], owed'[o])
    BY <1>1, <1>9, <2>1, BookedAdvance DEF AlreadyStopped, NotRunning, Ledger, Books
  <2>3. op'[o].req # "running"
    BY <1>1, <2>1 DEF Advance, CallFailed, WaitFailed, Skip, GiveUp, Run
  <2>. QED  BY <1>9, <2>1, <2>2, <2>3, LedgerOfOthers DEF AlreadyStopped, TypeOK
<1>10. ASSUME NEW o \in Ops, SendRefused(o) PROVE Ledger'
  <2>1. op' = [op EXCEPT ![o] = op'[o]] /\ op'[o] = CallFailed(op[o])
    BY <1>10 DEF SendRefused, TypeOK
  <2>2. Booked(op'[o], owed'[o])
    BY <1>1, <1>10, <2>1, BookedCallFailed DEF SendRefused, Ledger, Books
  <2>3. op'[o].req # "running"
    BY <1>1, <2>1 DEF Advance, CallFailed, WaitFailed, Skip, GiveUp, Run
  <2>. QED  BY <1>10, <2>1, <2>2, <2>3, LedgerOfOthers DEF SendRefused, TypeOK
<1>11. ASSUME NEW o \in Ops, PollOk(o) PROVE Ledger'
  <2>1. op' = [op EXCEPT ![o] = op'[o]] /\ op'[o] = Advance(op[o])
    BY <1>11 DEF PollOk, TypeOK
  <2>2. Booked(op'[o], owed'[o])
    BY <1>1, <1>11, <2>1, BookedAdvance DEF PollOk, Ledger, Books
  <2>3. op'[o].req # "running"
    BY <1>1, <2>1 DEF Advance, CallFailed, WaitFailed, Skip, GiveUp, Run
  <2>. QED  BY <1>11, <2>1, <2>2, <2>3, LedgerOfOthers DEF PollOk, TypeOK
<1>12. ASSUME NEW o \in Ops, PollFails(o) PROVE Ledger'
  <2>1. op' = [op EXCEPT ![o] = op'[o]] /\ op'[o] = WaitFailed(op[o])
    BY <1>12 DEF PollFails, TypeOK
  <2>2. Booked(op'[o], owed'[o])
    BY <1>1, <1>12, <2>1, BookedWaitFailed DEF PollFails, Ledger, Books
  <2>3. op'[o].req # "running"
    BY <1>1, <2>1 DEF Advance, CallFailed, WaitFailed, Skip, GiveUp, Run
  <2>. QED  BY <1>12, <2>1, <2>2, <2>3, LedgerOfOthers DEF PollFails, TypeOK
<1>13. ASSUME NEW o \in Ops, WaitReady(o) PROVE Ledger'
  <2>1. op' = [op EXCEPT ![o] = op'[o]] /\ op'[o].req # "running"
    BY <1>1, <1>13 DEF WaitReady, TypeOK, Run
  <2>2. Booked(op'[o], owed'[o])
    BY <1>1, <1>13 DEF WaitReady, Booked, AnswersFor, Books, TypeOK, Run
  <2>. QED  BY <1>13, <2>1, <2>2, LedgerOfOthers, ConstantsOK DEF WaitReady, TypeOK
<1>14. ASSUME NEW o \in Ops, WaitTimeout(o) PROVE Ledger'
  <2>1. op' = [op EXCEPT ![o] = op'[o]] /\ op'[o].req # "running"
    BY <1>1, <1>14 DEF WaitTimeout, TypeOK, Run
  <2>2. Booked(op'[o], owed'[o])
    BY <1>1, <1>14 DEF WaitTimeout, Booked, AnswersFor, Books, TypeOK, Run
  <2>. QED  BY <1>14, <2>1, <2>2, LedgerOfOthers, ConstantsOK DEF WaitTimeout, TypeOK
<1>15. ASSUME NEW o \in Ops, AllReady(o) PROVE Ledger'
  <2>1. op' = [op EXCEPT ![o] = op'[o]] /\ op'[o].req # "running"
    BY <1>1, <1>15 DEF AllReady, TypeOK, Run
  <2>2. Booked(op'[o], owed'[o])
    BY <1>1, <1>15 DEF AllReady, Booked, AnswersFor, Books, TypeOK, Run
  <2>. QED  BY <1>15, <2>1, <2>2, LedgerOfOthers, ConstantsOK DEF AllReady, TypeOK
<1>16. ASSUME NEW o \in Ops, DeleteNext(o) PROVE Ledger'
  <2>1. op' = [op EXCEPT ![o] = op'[o]] /\ op'[o].req # "running"
    BY <1>1, <1>16 DEF DeleteNext, Victims, TypeOK, Run
  <2>2. Booked(op'[o], owed'[o])
    BY <1>1, <1>16 DEF DeleteNext, Victims, Booked, AnswersFor, Books, TypeOK, Run
  <2>. QED  BY <1>16, <2>1, <2>2, LedgerOfOthers, ConstantsOK DEF DeleteNext, TypeOK
<1>17. ASSUME NEW o \in Ops, Drained(o) PROVE Ledger'
  <2>1. op' = [op EXCEPT ![o] = op'[o]] /\ op'[o].req # "running"
    BY <1>1, <1>17 DEF Drained, TypeOK, Run
  <2>2. Booked(op'[o], owed'[o])
    BY <1>1, <1>17 DEF Drained, Booked, AnswersFor, Books, TypeOK, Run
  <2>. QED  BY <1>17, <2>1, <2>2, LedgerOfOthers, ConstantsOK DEF Drained, TypeOK
<1>18. ASSUME NEW o \in Ops, Interrupt(o) PROVE Ledger'
  <2>1. op' = [op EXCEPT ![o] = [op[o] EXCEPT !.cancelled = TRUE]]
    BY <1>18 DEF Interrupt, TypeOK
  <2>. SUFFICES ASSUME NEW p \in Ops PROVE Booked(op'[p], owed'[p]) /\ Polls(p)'
    BY DEF Ledger, Booked
  <2>2. /\ op'[p].req = op[p].req /\ op'[p].pc = op[p].pc /\ op'[p].vmid = op[p].vmid
        /\ op'[p].cmd = op[p].cmd /\ op'[p].made = op[p].made /\ op'[p].queue = op[p].queue
        /\ op'[p].failed = op[p].failed /\ op'[p].left = op[p].left
    BY <1>1, <2>1 DEF TypeOK, Run
  <2>3. owed' = owed /\ vm' = vm
    BY <1>18 DEF Interrupt
  <2>. QED  BY <2>2, <2>3 DEF Ledger, Booked, AnswersFor, Books, Polls
<1>19. ASSUME NEW o \in Ops, Crash(o) PROVE Ledger'
  <2>1. op' = [op EXCEPT ![o] = op'[o]] /\ op'[o].req # "running"
    BY <1>1, <1>19 DEF Crash, Fresh, TypeOK, Run
  <2>2. Booked(op'[o], owed'[o])
    BY <1>1, <1>19 DEF Crash, Fresh, Booked, AnswersFor, Books, TypeOK, Run
  <2>. QED  BY <1>19, <2>1, <2>2, LedgerOfOthers, ConstantsOK DEF Crash, TypeOK
<1>20. ASSUME NEW o \in Ops, Send(o) PROVE Ledger'
  <2>1. Accept(o) /\ op' = [op EXCEPT ![o] = op'[o]]
        /\ op'[o] = [op[o] EXCEPT !.req = "running"]
    BY <1>20 DEF Send, TypeOK
  <2>2. /\ op'[o].req = "running" /\ op'[o].pc = op[o].pc /\ op'[o].vmid = op[o].vmid
        /\ op'[o].cmd = op[o].cmd /\ op'[o].made = op[o].made /\ op'[o].queue = op[o].queue
        /\ op'[o].failed = op[o].failed /\ op'[o].left = op[o].left
    BY <1>1, <2>1 DEF Run
  <2>3. Booked(op'[o], owed'[o])
    BY <2>1, <2>2, LedgerAccept DEF Booked, AnswersFor, Books
  <2>4. Polls(o)'
    BY <2>1, <2>2, LedgerAccept DEF Polls
  <2>. QED  BY <2>1, <2>3, <2>4, LedgerAccept DEF Ledger, Booked
<1>21. ASSUME NEW o \in Ops, SendLost(o) PROVE Ledger'
  <2>1. Accept(o) /\ op' = [op EXCEPT ![o] = op'[o]] /\ op'[o] = CallFailed(op[o])
    BY <1>21 DEF SendLost, TypeOK
  <2>2. Booked(op'[o], owed'[o])
    <3>1. Booked(op[o], owed'[o]) /\ op[o].pc \in Steps
      BY <2>1, ConstantsOK, LedgerAccept DEF Accept
    <3>. QED  BY <1>1, <2>1, <3>1, BookedCallFailed
  <2>3. op'[o].req # "running"
    BY <1>1, <2>1 DEF CallFailed, Skip, GiveUp, Run
  <2>. QED  BY <2>1, <2>2, <2>3, LedgerAccept DEF Ledger, Booked, Polls
<1>22. ASSUME NEW v \in VMIDs, TaskSucceeds(v) PROVE Ledger'
  <2>1. vm[v].task = "destroy" => TaskDone(vm[v]) = FreeVM
    BY DEF TaskDone
  <2>. QED  BY <1>22, <2>1, LedgerFinish DEF TaskSucceeds
<1>23. ASSUME NEW v \in VMIDs, TaskFails(v) PROVE Ledger'
  BY <1>23, LedgerFinish DEF TaskFails
<1>24. CASE UNCHANGED vars
  BY <1>24 DEF vars, Ledger, Polls
<1>. QED
  BY <1>2, <1>3, <1>4, <1>5, <1>6, <1>7, <1>8, <1>9, <1>10, <1>11, <1>12, <1>13,
     <1>14, <1>15, <1>16, <1>17, <1>18, <1>19, <1>20, <1>21, <1>22, <1>23, <1>24
     DEF Next, Progress

\* Whatever fails, however many terminals run at once and whatever ids Proxmox
\* hands out again: a run that fails names every VM it made or found and did
\* not remove, but for the one it was making (Accounted, for every instance).
THEOREM AllAccounted == Spec => []Accounted
<1>1. Init => Ledger
  BY DEF Init, Ledger, AnswersFor, Books, Polls, Fresh
<1>2. TypeOK /\ Ledger /\ [Next]_vars => Ledger'
  BY ConstantsOK, LedgerStep
<1>3. Ledger => Accounted
  BY DEF Ledger, Accounted
<1>. QED  BY <1>1, <1>2, <1>3, TypeCorrect, PTL DEF Spec
=============================================================================
