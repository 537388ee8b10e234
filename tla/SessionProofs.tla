---------------------------- MODULE SessionProofs ----------------------------
(***************************************************************************)
(* Proofs that create and delete keep the promise of module Sessions, for  *)
(* any number of terminals at once and whatever ids Proxmox hands out      *)
(* again, as long as no VM is cloned under an id that another run still    *)
(* holds for its own (NothingTaken).  And that this one step needs a       *)
(* delete and a second terminal: where there is one terminal, or no        *)
(* terminal runs delete, it never happens.                                 *)
(***************************************************************************)
EXTENDS ProvisioningProofs

USE DEF CreateSteps, DeleteSteps, Steps, Ended

-----------------------------------------------------------------------------
(* Custody: whose is what a run has in its hands                            *)

\* Run s is what run r becomes without taking anything into its hands.
Passes(r, s) ==
  /\ Hands(s) \subseteq Hands(r) /\ s.pc # "list"
  /\ s.pc \in CreateSteps \cup {"next"} => s.left = None

\* So it is with a run that gives up, or goes on after a call.
LEMMA HelpersPass ==
  ASSUME NEW r \in Run, r.pc \in CreateSteps \cup {"list", "next"} => r.left = None
  PROVE  /\ r.pc \in CreateSteps \cup {"next"} => Passes(r, GiveUp(r))
         /\ r.pc \in Steps => /\ Passes(r, CallFailed(r))
                              /\ r.req = "ok" \/ r.pc = "stop" => Passes(r, Advance(r))
                              /\ Passes(r, WaitFailed(r))
<1>1. ASSUME r.pc \in CreateSteps \cup {"next"} PROVE Passes(r, GiveUp(r))
  <2>1. GiveUp(r).pc = "drain" /\ GiveUp(r).queue = r.made
    BY DEF GiveUp, Run
  <2>. QED  BY <1>1, <2>1 DEF Passes, Hands, Working
<1>2. ASSUME r.pc \in DeleteSteps PROVE Passes(r, Skip(r))
  <2>1. Skip(r).pc = "drain" /\ Skip(r).queue = r.queue
    BY DEF Skip, Run
  <2>. QED  BY <1>2, <2>1 DEF Passes, Hands, Working
<1>3. ASSUME r.pc \in Steps, r.req = "ok" \/ r.pc = "stop" PROVE Passes(r, Advance(r))
  <2>. DEFINE s == Advance(r)
  <2>1. /\ s.pc = After(r.pc) /\ s.req = "unsent" /\ s.left = r.left
        /\ s.made = Returned(r) /\ s.queue = r.queue
        /\ s.vmid = IF r.pc \in {"start", "destroy"} THEN None ELSE r.vmid
    BY DEF Advance, Run
  <2>2. Hands(s) \subseteq Hands(r)
    <3>1. CASE r.pc \in {"clone", "config", "resize"}
      <4>1. s.pc \in CreateSteps /\ s.made = r.made /\ s.vmid = r.vmid
        BY <2>1, <3>1 DEF After, Returned
      <4>. QED  BY <1>3, <3>1, <4>1 DEF Hands, Working, Pending
    <3>2. CASE r.pc = "start"
      <4>1. s.pc = "next" /\ s.made = r.made \cup {r.vmid}
        BY <2>1, <3>2 DEF After, Returned
      <4>. QED  BY <1>3, <3>2, <4>1 DEF Hands, Working, Pending
    <3>3. CASE r.pc = "stop"
      <4>1. s.pc = "destroy" /\ s.vmid = r.vmid
        BY <2>1, <3>3 DEF After
      <4>. QED  BY <1>3, <2>1, <3>3, <4>1 DEF Hands, Working, Pending
    <3>4. CASE r.pc = "destroy"
      <4>1. s.pc = "drain"
        BY <2>1, <3>4 DEF After
      <4>. QED  BY <1>3, <2>1, <3>4, <4>1 DEF Hands, Working
    <3>. QED  BY <1>3, <3>1, <3>2, <3>3, <3>4
  <2>3. s.pc # "list" /\ (s.pc \in CreateSteps \cup {"next"} => r.pc \in CreateSteps)
    BY <1>3, <2>1 DEF After
  <2>. QED  BY <2>1, <2>2, <2>3 DEF Passes
<1>. QED  BY <1>1, <1>2, <1>3 DEF CallFailed, WaitFailed

\* A step of terminal o that touches no VM.
LEMMA CustodyOfOne ==
  ASSUME TypeOK, Custody, NEW o \in Ops, op' = [op EXCEPT ![o] = op'[o]],
         UNCHANGED vm, \A p \in Ops \ {o} : owed'[p] = owed[p],
         Hands(op'[o]) \cap Existing \subseteq owed'[o],
         op'[o].pc = "list" => op'[o].made = {},
         op'[o].pc \in CreateSteps \cup {"list", "next"} => op'[o].left = None
  PROVE  Custody'
<1>1. \A p \in Ops \ {o} : op'[p] = op[p]
  BY DEF TypeOK
<1>2. Existing' = Existing
  BY DEF Existing
<1>. QED  BY <1>1, <1>2 DEF Custody

\* It takes nothing into its hands and owes what it owed.
LEMMA CustodyPasses ==
  ASSUME TypeOK, Custody, NEW o \in Ops, op' = [op EXCEPT ![o] = op'[o]],
         UNCHANGED <<vm, owed>>, Passes(op[o], op'[o])
  PROVE  Custody'
<1>1. Hands(op'[o]) \cap Existing \subseteq owed'[o]
  BY DEF Custody, Passes
<1>. QED  BY <1>1, CustodyOfOne DEF Passes

\* A call is accepted: on a VM that is there, or on an id that nobody holds,
\* which is then in the hands of no other run.
LEMMA CustodyAccept ==
  ASSUME ConstantsOK, TypeOK, Custody, NothingTaken, NEW o \in Ops, Accept(o),
         op' = [op EXCEPT ![o] = op'[o]],
         Hands(op'[o]) \subseteq Hands(op[o]) \cup {op[o].vmid}, op'[o].pc # "list",
         op'[o].pc \in CreateSteps \cup {"next"} => op'[o].left = None
  PROVE  Custody'
<1>. DEFINE v == op[o].vmid  x == Locked(o, v, op[o].pc)
<1>1. /\ v \in VMIDs /\ op[o].pc \in Steps /\ op[o].req = "unsent" /\ vm[v] \in VM
      /\ vm \in [VMIDs -> VM] /\ vm' = [vm EXCEPT ![v] = x]
  BY DEF Accept, TypeOK
<1>2. x.st # "free" /\ x.by = o
  <2>1. CASE op[o].pc = "clone"
    BY <2>1 DEF Locked, FreeVM
  <2>2. CASE op[o].pc # "clone"
    <3>1. vm[v].st # "free"
      BY <1>1, <2>2 DEF Accept, Accepts
    <3>. QED  BY <1>1, <2>2, <3>1 DEF Locked, VM
  <2>. QED  BY <2>1, <2>2
<1>. HIDE DEF x
<1>3. Existing' = Existing \cup {v} /\ \A w \in VMIDs : vm'[w].st = "free" => vm'[w] = FreeVM
  BY <1>1, <1>2 DEF Existing, Custody
<1>4. \A p \in Ops \ {o} : op'[p] = op[p] /\ owed'[p] = owed[p]
  BY DEF Accept, TypeOK
<1>5. v \in owed'[o] /\ owed[o] \subseteq owed'[o]
  <2>1. CASE op[o].pc = "clone"
    BY <2>1 DEF Accept, TypeOK
  <2>2. CASE op[o].pc # "clone"
    <3>1. v \in Existing
      BY <1>1, <2>2 DEF Accept, Accepts, Existing
    <3>2. v \in Hands(op[o])
      BY <1>1, <2>2 DEF Hands, Working, Pending
    <3>. QED  BY <2>2, <3>1, <3>2 DEF Accept, Custody
  <2>. QED  BY <2>1, <2>2
<1>6. v \notin Existing => \A p \in Ops \ {o} : v \notin Hands(op[p])
  <2>1. vm'[v].by = o
    BY <1>1, <1>2
  <2>. QED  BY <1>1, <2>1 DEF NothingTaken, Takes, Existing
<1>7. ASSUME NEW p \in Ops
      PROVE  /\ Hands(op'[p]) \cap Existing' \subseteq owed'[p]
             /\ op'[p].pc = "list" => op'[p].made = {}
             /\ op'[p].pc \in CreateSteps \cup {"list", "next"} => op'[p].left = None
  <2>. HIDE DEF v
  <2>1. CASE p = o
    BY <1>3, <1>5, <2>1 DEF Custody, v
  <2>2. CASE p # o
    BY <1>3, <1>4, <1>6, <2>2 DEF Custody
  <2>. QED  BY <2>1, <2>2
<1>. QED  BY <1>3, <1>7 DEF Custody

\* What Finish leaves of a run: it takes nothing into its hands.
LEMMA FinishKeepsHands ==
  ASSUME NEW r \in Run, NEW s, NEW outcome \in {"ok", "err"},
         s = r \/ (r.req = "running" /\ s = [r EXCEPT !.req = outcome])
  PROVE  /\ Hands(s) \subseteq Hands(r) /\ s.pc = r.pc /\ s.left = r.left
         /\ s.made = r.made /\ s.cmd = r.cmd
<1>1. CASE r.req = "running" /\ s = [r EXCEPT !.req = outcome]
  <2>1. /\ s.req = outcome /\ s.pc = r.pc /\ s.left = r.left /\ s.cmd = r.cmd
        /\ s.made = r.made /\ s.queue = r.queue /\ s.vmid = r.vmid
    BY <1>1 DEF Run
  <2>. QED  BY <1>1, <2>1 DEF Hands, Working, Pending
<1>. QED  BY <1>1

\* A task ends: a VM may be gone, and nobody owes it then.
LEMMA CustodyFinish ==
  ASSUME ConstantsOK, TypeOK, Custody, NEW v \in VMIDs, v \in Existing, NEW m,
         m.st = "free" => m = FreeVM, NEW outcome \in {"ok", "err"}, Finish(v, m, outcome)
  PROVE  Custody'
<1>1. vm' = [vm EXCEPT ![v] = m]
  BY DEF Finish
<1>2. \A w \in VMIDs : vm'[w].st = "free" => vm'[w] = FreeVM
  BY <1>1 DEF Custody, TypeOK
<1>3. Existing' \subseteq Existing /\ (m.st = "free" => v \notin Existing')
  BY <1>1 DEF Existing, TypeOK
<1>4. \A p \in Ops : owed[p] \cap Existing' \subseteq owed'[p]
  BY <1>3 DEF Finish, TypeOK, FreeVM
<1>5. ASSUME NEW p \in Ops
      PROVE  /\ Hands(op'[p]) \cap Existing' \subseteq owed'[p]
             /\ op'[p].pc = "list" => op'[p].made = {}
             /\ op'[p].pc \in CreateSteps \cup {"list", "next"} => op'[p].left = None
  <2>1. /\ Hands(op'[p]) \subseteq Hands(op[p]) /\ op'[p].pc = op[p].pc
        /\ op'[p].left = op[p].left /\ op'[p].made = op[p].made
    <3>1. op[p] \in Run
      BY DEF TypeOK
    <3>2. \/ op'[p] = op[p]
          \/ op[p].req = "running" /\ op'[p] = [op[p] EXCEPT !.req = outcome]
      BY DEF Finish, Awaits
    <3>. QED  BY <3>1, <3>2, FinishKeepsHands
  <2>2. Hands(op[p]) \cap Existing \subseteq owed[p]
    BY DEF Custody
  <2>. QED  BY <1>3, <1>4, <2>1, <2>2 DEF Custody
<1>. QED  BY <1>2, <1>5 DEF Custody

\* Every step keeps custody, if nothing is taken.
LEMMA CustodyStep ==
  ASSUME ConstantsOK, TypeOK, Ledger, Custody, [Next /\ NothingTaken]_vars PROVE Custody'
<1>1. ASSUME NEW o \in Ops
      PROVE  /\ op[o] \in Run /\ op \in [Ops -> Run]
             /\ op[o].pc \in CreateSteps \cup {"list", "next"} => op[o].left = None
             /\ op[o].req # "unsent" => op[o].pc \in Steps
             /\ op[o].pc \in {"list", "next", "drain"} => op[o].vmid = None
  BY <1>1 DEF TypeOK, Ledger, Books, Custody
<1>2. ASSUME NEW o \in Ops, Start(o) PROVE Custody'
  <2>1. PICK cmd \in Cmds[o] : op'[o] = [Fresh(cmd) EXCEPT !.pc = "list"]
    BY <1>1, <1>2 DEF Start
  <2>2. /\ op'[o].pc = "list" /\ op'[o].made = {} /\ op'[o].left = None
        /\ Hands(op'[o]) = {}
    BY <2>1 DEF Fresh, Hands, Working
  <2>3. op' = [op EXCEPT ![o] = op'[o]] /\ \A p \in Ops \ {o} : owed'[p] = owed[p]
    BY <1>1, <1>2 DEF Start, TypeOK
  <2>. QED  BY <1>2, <2>2, <2>3, CustodyOfOne DEF Start
<1>3. ASSUME NEW o \in Ops, Crash(o) PROVE Custody'
  <2>1. op'[o].pc = "idle" /\ Hands(op'[o]) = {}
    BY <1>1, <1>3 DEF Crash, Fresh, Hands, Working
  <2>2. op' = [op EXCEPT ![o] = op'[o]] /\ \A p \in Ops \ {o} : owed'[p] = owed[p]
    BY <1>1, <1>3 DEF Crash, TypeOK
  <2>. QED  BY <1>3, <2>1, <2>2, CustodyOfOne DEF Crash
<1>4. ASSUME NEW o \in Ops, ListCreate(o) PROVE Custody'
  <2>1. op' = [op EXCEPT ![o] = op'[o]]
        /\ op'[o] = [op[o] EXCEPT !.pc = "next", !.seen = Listed(ClusterOf[o]),
                                 !.todo = Missing(ClusterOf[o], Listed(ClusterOf[o]))]
    BY <1>1, <1>4 DEF ListCreate
  <2>2. /\ op'[o].pc = "next" /\ op'[o].made = op[o].made /\ op'[o].queue = op[o].queue
        /\ op'[o].vmid = op[o].vmid /\ op'[o].left = op[o].left
    BY <1>1, <2>1 DEF Run
  <2>3. op[o].made = {} /\ op[o].left = None
    BY <1>1, <1>4 DEF ListCreate, Custody
  <2>4. Passes(op[o], op'[o])
    BY <2>2, <2>3 DEF Passes, Hands, Working
  <2>. QED  BY <1>4, <2>1, <2>4, CustodyPasses DEF ListCreate
<1>5. ASSUME NEW o \in Ops, ListDelete(o) PROVE Custody'
  <2>. DEFINE seen == Listed(ClusterOf[o])
  <2>1. op' = [op EXCEPT ![o] = op'[o]]
        /\ op'[o] = [op[o] EXCEPT !.pc = IF seen = {} THEN "done" ELSE "drain", !.queue = seen]
        /\ owed' = [owed EXCEPT ![o] = seen]
    BY <1>1, <1>5 DEF ListDelete
  <2>2. op'[o].pc \in {"done", "drain"} /\ op'[o].queue = seen
    BY <1>1, <2>1 DEF Run
  <2>3. Hands(op'[o]) \subseteq seen
    BY <2>2 DEF Hands, Working
  <2>4. owed'[o] = seen /\ \A p \in Ops \ {o} : owed'[p] = owed[p]
    BY <2>1 DEF TypeOK
  <2>. HIDE DEF seen
  <2>. QED  BY <1>5, <2>1, <2>2, <2>3, <2>4, CustodyOfOne DEF ListDelete
<1>6. ASSUME NEW o \in Ops, ListFails(o) PROVE Custody'
  <2>1. op' = [op EXCEPT ![o] = op'[o]]
        /\ op'[o] = [op[o] EXCEPT !.pc = "failed"]
    BY <1>1, <1>6 DEF ListFails
  <2>2. op'[o].pc = "failed"
    BY <1>1, <2>1 DEF Run
  <2>3. Passes(op[o], op'[o])
    BY <2>2 DEF Passes, Hands, Working
  <2>. QED  BY <1>6, <2>1, <2>3, CustodyPasses DEF ListFails
<1>7. ASSUME NEW o \in Ops, PickVMID(o) PROVE Custody'
  <2>1. PICK n \in op[o].todo, v \in FreeIds :
          op' = [op EXCEPT ![o].pc = "clone", ![o].name = n, ![o].vmid = v,
                           ![o].todo = @ \ {n}]
    BY <1>7 DEF PickVMID
  <2>2. op'[o] = PickedRun(op[o], n, v) /\ op' = [op EXCEPT ![o] = op'[o]]
    BY <1>1, <2>1 DEF PickedRun
  <2>3. op[o].pc = "next" /\ op[o].req = "unsent"
    BY <1>1, <1>7 DEF PickVMID, Run
  <2>4. /\ op'[o].pc = "clone" /\ op'[o].req = "unsent" /\ op'[o].made = op[o].made
        /\ op'[o].left = op[o].left
    BY <1>1, <2>2, <2>3 DEF PickedRun, Run
  <2>5. Passes(op[o], op'[o])
    BY <1>1, <2>3, <2>4 DEF Passes, Hands, Working, Pending
  <2>. QED  BY <1>7, <2>2, <2>5, CustodyPasses DEF PickVMID
<1>8. ASSUME NEW o \in Ops, PickFails(o) PROVE Custody'
  <2>1. op' = [op EXCEPT ![o] = op'[o]] /\ op'[o] = GiveUp(op[o])
    BY <1>1, <1>8 DEF PickFails
  <2>2. Passes(op[o], op'[o])
    BY <1>1, <1>8, <2>1, HelpersPass DEF PickFails
  <2>. QED  BY <1>8, <2>1, <2>2, CustodyPasses DEF PickFails
<1>9. ASSUME NEW o \in Ops, AllCreated(o) PROVE Custody'
  <2>1. op' = [op EXCEPT ![o] = op'[o]]
        /\ op'[o] = [op[o] EXCEPT !.pc = "ready", !.queue = ToAwait(op[o])]
    BY <1>1, <1>9 DEF AllCreated
  <2>2. op'[o].pc = "ready"
    BY <1>1, <2>1 DEF Run
  <2>3. Passes(op[o], op'[o])
    BY <2>2 DEF Passes, Hands, Working
  <2>. QED  BY <1>9, <2>1, <2>3, CustodyPasses DEF AllCreated
<1>10. ASSUME NEW o \in Ops, AlreadyStopped(o) PROVE Custody'
  <2>1. op' = [op EXCEPT ![o] = op'[o]] /\ op'[o] = Advance(op[o])
    BY <1>1, <1>10 DEF AlreadyStopped
  <2>2. Passes(op[o], op'[o])
    BY <1>1, <1>10, <2>1, HelpersPass DEF AlreadyStopped, NotRunning
  <2>. QED  BY <1>10, <2>1, <2>2, CustodyPasses DEF AlreadyStopped
<1>11. ASSUME NEW o \in Ops, SendRefused(o) PROVE Custody'
  <2>1. op' = [op EXCEPT ![o] = op'[o]] /\ op'[o] = CallFailed(op[o])
    BY <1>1, <1>11 DEF SendRefused
  <2>2. Passes(op[o], op'[o])
    BY <1>1, <1>11, <2>1, HelpersPass DEF SendRefused
  <2>. QED  BY <1>11, <2>1, <2>2, CustodyPasses DEF SendRefused
<1>12. ASSUME NEW o \in Ops, PollOk(o) PROVE Custody'
  <2>1. op' = [op EXCEPT ![o] = op'[o]] /\ op'[o] = Advance(op[o])
    BY <1>1, <1>12 DEF PollOk
  <2>2. Passes(op[o], op'[o])
    BY <1>1, <1>12, <2>1, HelpersPass DEF PollOk
  <2>. QED  BY <1>12, <2>1, <2>2, CustodyPasses DEF PollOk
<1>13. ASSUME NEW o \in Ops, PollFails(o) PROVE Custody'
  <2>1. op' = [op EXCEPT ![o] = op'[o]] /\ op'[o] = WaitFailed(op[o])
    BY <1>1, <1>13 DEF PollFails
  <2>2. Passes(op[o], op'[o])
    BY <1>1, <1>13, <2>1, HelpersPass DEF PollFails
  <2>. QED  BY <1>13, <2>1, <2>2, CustodyPasses DEF PollFails
<1>14. ASSUME NEW o \in Ops, WaitReady(o) PROVE Custody'
  <2>1. PICK v \in op[o].queue :
          op' = [op EXCEPT ![o] = [op[o] EXCEPT !.queue = op[o].queue \ {v}]]
    BY <1>14 DEF WaitReady
  <2>2. op' = [op EXCEPT ![o] = op'[o]]
        /\ op'[o] = [op[o] EXCEPT !.queue = op[o].queue \ {v}] /\ op[o].pc = "ready"
    BY <1>1, <1>14, <2>1 DEF WaitReady
  <2>3. op'[o].pc = "ready"
    BY <1>1, <2>2 DEF Run
  <2>4. Passes(op[o], op'[o])
    BY <2>3 DEF Passes, Hands, Working
  <2>. QED  BY <1>14, <2>2, <2>4, CustodyPasses DEF WaitReady
<1>15. ASSUME NEW o \in Ops, WaitTimeout(o) \/ AllReady(o) PROVE Custody'
  <2>1. op' = [op EXCEPT ![o] = op'[o]] /\ op'[o].pc \in {"unready", "done"}
    BY <1>1, <1>15 DEF WaitTimeout, AllReady, Run
  <2>2. Passes(op[o], op'[o])
    BY <2>1 DEF Passes, Hands, Working
  <2>. QED  BY <1>15, <2>1, <2>2, CustodyPasses DEF WaitTimeout, AllReady
<1>16. ASSUME NEW o \in Ops, DeleteNext(o) PROVE Custody'
  <2>1. PICK v \in op[o].queue : op'[o] = VictimRun(op[o], v)
    BY <1>1, <1>16 DEF DeleteNext, Victims, VictimRun
  <2>2. /\ op'[o].pc = "stop" /\ op'[o].vmid = v /\ op'[o].made = op[o].made
        /\ op'[o].queue = op[o].queue \ {v}
    BY <1>1, <2>1 DEF VictimRun, Run
  <2>3. Passes(op[o], op'[o])
    BY <1>16, <2>2 DEF DeleteNext, Passes, Hands, Working, Pending
  <2>4. op' = [op EXCEPT ![o] = op'[o]]
    BY <1>1, <1>16 DEF DeleteNext
  <2>. QED  BY <1>16, <2>3, <2>4, CustodyPasses DEF DeleteNext
<1>17. ASSUME NEW o \in Ops, Drained(o) PROVE Custody'
  <2>1. op' = [op EXCEPT ![o] = op'[o]]
        /\ op'[o] = [op[o] EXCEPT !.pc = IF op[o].cmd = "delete" /\ op[o].failed = {}
                                          THEN "done" ELSE "failed"]
    BY <1>1, <1>17 DEF Drained
  <2>2. op'[o].pc \in {"done", "failed"}
    BY <1>1, <2>1 DEF Run
  <2>3. Passes(op[o], op'[o])
    BY <2>2 DEF Passes, Hands, Working
  <2>. QED  BY <1>17, <2>1, <2>3, CustodyPasses DEF Drained
<1>18. ASSUME NEW o \in Ops, Interrupt(o) PROVE Custody'
  <2>1. vm' = vm /\ owed' = owed /\ Existing' = Existing
    BY <1>18 DEF Interrupt, Existing
  <2>2. \A p \in Ops :
          /\ op'[p].req = op[p].req /\ op'[p].pc = op[p].pc /\ op'[p].vmid = op[p].vmid
          /\ op'[p].made = op[p].made /\ op'[p].queue = op[p].queue /\ op'[p].left = op[p].left
    BY <1>1, <1>18 DEF Interrupt, Run
  <2>3. \A p \in Ops : Hands(op'[p]) = Hands(op[p])
    BY <2>2 DEF Hands, Working, Pending
  <2>. QED  BY <2>1, <2>2, <2>3 DEF Custody
<1>19. ASSUME NEW o \in Ops, Send(o), NothingTaken PROVE Custody'
  <2>1. Accept(o) /\ op' = [op EXCEPT ![o] = op'[o]] /\ op'[o] = [op[o] EXCEPT !.req = "running"]
    BY <1>1, <1>19 DEF Send
  <2>2. /\ op'[o].req = "running" /\ op'[o].pc = op[o].pc /\ op'[o].vmid = op[o].vmid
        /\ op'[o].made = op[o].made /\ op'[o].queue = op[o].queue /\ op'[o].left = op[o].left
    BY <1>1, <2>1 DEF Run
  <2>3. Hands(op'[o]) \subseteq Hands(op[o]) \cup {op[o].vmid} /\ op[o].pc \in Steps
    BY <2>1, <2>2 DEF Accept, Hands, Working, Pending
  <2>. QED  BY <1>1, <1>19, <2>1, <2>2, <2>3, ConstantsOK, CustodyAccept
<1>20. ASSUME NEW o \in Ops, SendLost(o), NothingTaken PROVE Custody'
  <2>1. Accept(o) /\ op' = [op EXCEPT ![o] = op'[o]] /\ op'[o] = CallFailed(op[o])
    BY <1>1, <1>20 DEF SendLost
  <2>2. Passes(op[o], op'[o])
    BY <1>1, <2>1, HelpersPass DEF Accept
  <2>. QED  BY <1>20, <2>1, <2>2, ConstantsOK, CustodyAccept DEF Passes
<1>21. ASSUME NEW v \in VMIDs, TaskSucceeds(v) \/ TaskFails(v) PROVE Custody'
  <2>1. vm[v] \in VM /\ vm[v].st # "free" /\ v \in Existing
    BY <1>21 DEF TaskSucceeds, TaskFails, Custody, Existing, FreeVM, TypeOK
  <2>2. TaskDone(vm[v]).st = "free" => TaskDone(vm[v]) = FreeVM
    BY <2>1 DEF TaskDone, Unlocked, VM
  <2>3. TaskFailed(vm[v]).st = "free" => TaskFailed(vm[v]) = FreeVM
    BY <2>1 DEF TaskFailed, Unlocked, VM
  <2>. QED  BY <1>21, <2>1, <2>2, <2>3, CustodyFinish DEF TaskSucceeds, TaskFails
<1>22. CASE UNCHANGED vars
  BY <1>22 DEF vars, Custody, Existing
<1>. QED
  BY <1>2, <1>3, <1>4, <1>5, <1>6, <1>7, <1>8, <1>9, <1>10, <1>11, <1>12, <1>13, <1>14,
     <1>15, <1>16, <1>17, <1>18, <1>19, <1>20, <1>21, <1>22 DEF Next, Progress

\* The books of ProvisioningProofs and custody, in every reachable state.
LEMMA CustodyKept == UntakenSpec => [](TypeOK /\ Ledger /\ Custody)
<1>1. Init => Ledger /\ Custody
  <2>1. Init => Ledger
    BY DEF Init, Ledger, AnswersFor, Books, Polls, Fresh
  <2>2. Init => Custody
    BY DEF Init, Custody, Hands, Working, Fresh, FreeVM
  <2>. QED  BY <2>1, <2>2
<1>2. TypeOK /\ Ledger /\ Custody /\ [Next /\ NothingTaken]_vars => Ledger' /\ Custody'
  BY ConstantsOK, LedgerStep, CustodyStep
<1>3. [Next /\ NothingTaken]_vars => [Next]_vars
  OBVIOUS
<1>. QED  BY <1>1, <1>2, <1>3, TypeCorrect, PTL DEF UntakenSpec, Spec

-----------------------------------------------------------------------------
(* Create and delete act on their own VMs                                   *)

\* A call is about a VM the run owes, or makes it.
LEMMA AcceptOwed ==
  ASSUME ConstantsOK, TypeOK, Custody, NEW o \in Ops, Accept(o), op[o].pc # "clone"
  PROVE  op[o].vmid \in owed[o] \cap Existing
<1>1. op[o].vmid \in VMIDs /\ op[o].vmid # None /\ op[o].pc \in Steps
  BY DEF Accept, TypeOK, ConstantsOK
<1>2. op[o].vmid \in Hands(op[o])
  BY <1>1 DEF Hands, Working, Pending, Accept
<1>3. op[o].vmid \in Existing
  BY <1>1 DEF Accept, Accepts, Existing
<1>. QED  BY <1>2, <1>3 DEF Custody

\* Where nothing is taken, create configures, starts, stops and destroys
\* nothing but what it made, and delete nothing but what it found, however
\* many runs overlap (ActsOnlyOnOwed, for every instance).
THEOREM OwnMachinesOnly == UntakenSpec => ActsOnlyOnOwed
<1>. DEFINE A == \A o \in Ops, v \in VMIDs : Accepted(o, v) => v \in owed[o]
<1>1. ASSUME TypeOK, Custody, [Next]_vars PROVE A
  <2>. SUFFICES ASSUME NEW p \in Ops, NEW v \in VMIDs, Accepted(p, v) PROVE v \in owed[p]
    OBVIOUS
  <2>1. ASSUME UNCHANGED vm PROVE FALSE
    BY <2>1 DEF Accepted
  <2>2. ASSUME NEW o \in Ops, Accept(o) PROVE v \in owed[p]
    <3>. DEFINE w == op[o].vmid
    <3>1. vm' = [vm EXCEPT ![w] = Locked(o, w, op[o].pc)] /\ w \in VMIDs /\ vm[w] \in VM
      <4>1. vm' = [vm EXCEPT ![w] = Locked(o, w, op[o].pc)]
        BY <2>2 DEF Accept
      <4>2. op[o].pc \in Steps
        BY <2>2 DEF Accept
      <4>3. w \in VMIDs /\ vm \in [VMIDs -> VM]
        BY <1>1, <4>2 DEF TypeOK
      <4>. QED  BY <4>1, <4>3
    <3>2. v = w /\ p = o
      BY <1>1, <3>1 DEF Accepted, Locked, FreeVM, TypeOK, VM
    <3>3. vm'[w].task = op[o].pc
      <4>1. Locked(o, w, op[o].pc).task = op[o].pc
        BY <3>1 DEF Locked, FreeVM, VM
      <4>. QED  BY <1>1, <3>1, <4>1 DEF TypeOK
    <3>. HIDE DEF w
    <3>4. op[o].pc # "clone"
      BY <3>2, <3>3 DEF Accepted
    <3>. QED  BY <1>1, <2>2, <3>2, <3>4, ConstantsOK, AcceptOwed DEF w
  <2>3. ASSUME NEW w \in VMIDs, TaskSucceeds(w) \/ TaskFails(w) PROVE FALSE
    <3>1. PICK m \in {TaskDone(vm[w]), TaskFailed(vm[w])} : vm' = [vm EXCEPT ![w] = m]
      BY <2>3 DEF TaskSucceeds, TaskFails, Finish
    <3>2. m.by = None
      <4>1. Unlocked(vm[w]).by = None /\ Unlocked(vm[w]) \in VM
        BY <1>1 DEF Unlocked, TypeOK, VM
      <4>. QED  BY <3>1, <4>1 DEF TaskDone, TaskFailed, FreeVM, VM
    <3>. QED  BY <1>1, <3>1, <3>2, ConstantsOK DEF Accepted, TypeOK, ConstantsOK
  <2>4. ASSUME NEW o \in Ops, Send(o) \/ SendLost(o) PROVE Accept(o)
    BY <2>4 DEF Send, SendLost
  <2>. QED
    BY <1>1, <2>1, <2>2, <2>3, <2>4
       DEF Next, Progress, Start, Interrupt, Crash, ListCreate, ListDelete, ListFails,
           PickVMID, PickFails, AllCreated, SendRefused, AlreadyStopped, PollOk, PollFails,
           WaitReady, WaitTimeout, AllReady, DeleteNext, Drained, vars
<1>2. TypeOK /\ Ledger /\ Custody /\ [Next /\ NothingTaken]_vars => [A]_vars
  BY <1>1
<1>. QED  BY <1>2, CustodyKept, PTL DEF UntakenSpec, ActsOnlyOnOwed, A

-----------------------------------------------------------------------------
(* Create and delete keep the promise of Sessions                           *)

\* The sessions' phases and what they told, as Abstract sees them.
Phases == [o \in Ops |-> PhaseOf(op[o])]
Told == [o \in Ops |-> Said(op[o])]
Locks == [v \in VMIDs |-> LockOf(vm[v])]

\* What a step of terminal o looks like as a step of its session.
LEMMA SessionOfOne ==
  ASSUME TypeOK, NEW o \in Ops, op' = [op EXCEPT ![o] = op'[o]]
  PROVE  /\ Phases' = [Phases EXCEPT ![o] = PhaseOf(op'[o])]
         /\ Told' = [Told EXCEPT ![o] = Said(op'[o])]
         /\ Phases[o] = PhaseOf(op[o]) /\ Told[o] = Said(op[o])
<1>1. \A p \in Ops : p # o => op'[p] = op[p]
  BY DEF TypeOK
<1>. QED  BY <1>1 DEF Phases, Told

\* The session of a run that goes on is open, and stays it.
LEMMA OpenPhase ==
  ASSUME NEW r, r.pc \notin Ended PROVE PhaseOf(r) = "open"
BY DEF PhaseOf

\* Whatever a run does with no VM, and goes on after, tells of more VMs or
\* of none.
LEMMA TellStep ==
  ASSUME ConstantsOK, TypeOK, NEW o \in Ops, op' = [op EXCEPT ![o] = op'[o]],
         UNCHANGED <<vm, owed>>, op[o].pc \notin Ended, op'[o].pc \notin Ended,
         op'[o] \in Run, Said(op[o]) \subseteq Said(op'[o])
  PROVE  Abstract!Tell(o)
<1>. DEFINE S == Said(op'[o])
<1>1. S \in SUBSET VMIDs /\ S = Said(op[o]) \cup S
  BY DEF Said, Run
<1>2. PhaseOf(op[o]) = "open" /\ PhaseOf(op'[o]) = "open"
  BY OpenPhase
<1>3. /\ Phases' = Phases /\ Phases[o] = "open"
      /\ Told' = [Told EXCEPT ![o] = Told[o] \cup S]
  <2>1. Phases' = [Phases EXCEPT ![o] = "open"] /\ Phases[o] = "open"
    BY <1>2, SessionOfOne
  <2>2. Told' = [Told EXCEPT ![o] = S] /\ Told[o] = Said(op[o])
    BY SessionOfOne
  <2>3. Phases = [Phases EXCEPT ![o] = "open"]
    BY <2>1 DEF Phases
  <2>. HIDE DEF S
  <2>. QED  BY <1>1, <2>1, <2>2, <2>3
<1>4. UNCHANGED <<Existing, Locks, owed>>
  BY DEF Existing, Locks
<1>. HIDE DEF S
<1>. QED  BY <1>1, <1>3, <1>4
             DEF Abstract!Tell, Abstract!Open, Abstract!Tells, Phases, Told, Locks

\* A run never unsays what it said.
LEMMA SaidGrows ==
  ASSUME NEW r \in Run, r.pc \in CreateSteps \cup {"next"} => r.left = None
  PROVE  /\ r.pc \in CreateSteps \cup {"next"} =>
              /\ Said(r) \subseteq Said(GiveUp(r)) /\ GiveUp(r).pc \notin Ended
         /\ r.pc \in Steps =>
              /\ Said(r) \subseteq Said(Advance(r)) /\ Advance(r).pc \notin Ended
              /\ Said(r) \subseteq Said(CallFailed(r)) /\ CallFailed(r).pc \notin Ended
              /\ Said(r) \subseteq Said(WaitFailed(r)) /\ WaitFailed(r).pc \notin Ended
<1>1. ASSUME r.pc \in CreateSteps \cup {"next"}
      PROVE  Said(r) \subseteq Said(GiveUp(r)) /\ GiveUp(r).pc \notin Ended
  <2>1. GiveUp(r).pc = "drain" /\ GiveUp(r).failed = r.failed
    BY DEF GiveUp, Run
  <2>. QED  BY <1>1, <2>1 DEF Said
<1>2. Said(r) \subseteq Said(Skip(r)) /\ Skip(r).pc \notin Ended
  <2>1. Skip(r).pc = "drain" /\ Skip(r).left = r.left /\ r.failed \subseteq Skip(r).failed
    BY DEF Skip, Run
  <2>. QED  BY <2>1 DEF Said
<1>3. ASSUME r.pc \in Steps
      PROVE  Said(r) \subseteq Said(Advance(r)) /\ Advance(r).pc \notin Ended
  <2>1. /\ Advance(r).pc = After(r.pc) /\ Advance(r).left = r.left
        /\ Advance(r).failed = r.failed
    BY DEF Advance, Run
  <2>. QED  BY <1>3, <2>1 DEF Said, After
<1>. QED  BY <1>1, <1>2, <1>3 DEF CallFailed, WaitFailed

\* A call accepted is a VM made, or a change of one that is owed.
LEMMA AcceptStep ==
  ASSUME ConstantsOK, TypeOK, Custody, NEW o \in Ops, Accept(o),
         op' = [op EXCEPT ![o] = op'[o]], op'[o].pc \notin Ended, op'[o] \in Run,
         Said(op[o]) \subseteq Said(op'[o])
  PROVE  Abstract!Make(o, op[o].vmid) \/ Abstract!Change(o, op[o].vmid)
<1>. DEFINE v == op[o].vmid
            S == Said(op'[o])
            m == Locked(o, v, op[o].pc)
<1>1. op[o].pc \in Steps
  BY DEF Accept
<1>2. v \in VMIDs /\ vm[v] \in VM /\ vm \in [VMIDs -> VM]
  BY <1>1 DEF TypeOK
<1>3. vm' = [vm EXCEPT ![v] = m] /\ vm[v].task = None
  BY DEF Accept, Accepts
<1>4. m.task = op[o].pc /\ m.by = o /\ m.task # None
  BY <1>1, <1>2, ConstantsOK DEF Locked, FreeVM, VM, ConstantsOK
<1>5. m.st # "free"
  <2>1. CASE op[o].pc = "clone"
    BY <2>1 DEF Locked, FreeVM
  <2>2. CASE op[o].pc # "clone"
    <3>1. vm[v].st # "free"
      BY <1>1, <2>2 DEF Accept, Accepts
    <3>. QED  BY <1>2, <2>2, <3>1 DEF Locked, VM
  <2>. QED  BY <2>1, <2>2
<1>6. S \in SUBSET VMIDs /\ S = Said(op[o]) \cup S
  BY DEF Said, Run
<1>7. PhaseOf(op[o]) = "open" /\ PhaseOf(op'[o]) = "open"
  BY <1>1, OpenPhase
<1>8. Phases' = Phases /\ Phases[o] = "open"
  <2>1. Phases' = [Phases EXCEPT ![o] = "open"] /\ Phases[o] = "open"
    BY <1>7, SessionOfOne
  <2>. QED  BY <2>1 DEF Phases
<1>9. Told' = [Told EXCEPT ![o] = Told[o] \cup S]
  <2>1. Told' = [Told EXCEPT ![o] = S] /\ Told[o] = Said(op[o])
    BY SessionOfOne
  <2>. HIDE DEF S
  <2>. QED  BY <1>6, <2>1
<1>. HIDE DEF m, S
<1>10. Locks' = [Locks EXCEPT ![v] = o] /\ Locks[v] = None
  BY <1>2, <1>3, <1>4 DEF Locks, LockOf
<1>11. Existing' = Existing \cup {v}
  BY <1>2, <1>3, <1>5 DEF Existing
<1>12. CASE op[o].pc = "clone"
  <2>1. v \notin Existing
    BY <1>12 DEF Accept, Accepts, Existing
  <2>2. owed' = [owed EXCEPT ![o] = owed[o] \cup {v}]
    BY <1>12 DEF Accept
  <2>3. Abstract!Make(o, v)
    BY <1>6, <1>8, <1>9, <1>10, <1>11, <2>1, <2>2
       DEF Abstract!Make, Abstract!Open, Abstract!Tells, Phases, Told, Locks
  <2>. QED  BY <2>3
<1>13. CASE op[o].pc # "clone"
  <2>1. v \in owed[o] \cap Existing
    BY <1>13, ConstantsOK, AcceptOwed
  <2>2. owed' = owed
    BY <1>13 DEF Accept
  <2>3. Existing' = Existing
    BY <1>11, <2>1
  <2>4. Abstract!Change(o, v)
    BY <1>6, <1>8, <1>9, <1>10, <2>1, <2>2, <2>3
       DEF Abstract!Change, Abstract!Open, Abstract!Tells, Phases, Told, Locks
  <2>. QED  BY <2>4
<1>. QED  BY <1>12, <1>13

\* A task that ends is a change that is over.
LEMMA FinishStep ==
  ASSUME ConstantsOK, TypeOK, Custody, NEW v \in VMIDs, NEW m, vm[v].task # None,
         m.task = None, m.st = "free" => m = FreeVM, NEW outcome \in {"ok", "err"},
         Finish(v, m, outcome)
  PROVE  Abstract!Changed(v)
<1>1. \A o \in Ops : PhaseOf(op'[o]) = PhaseOf(op[o]) /\ Said(op'[o]) = Said(op[o])
  <2>. TAKE o \in Ops
  <2>1. CASE Awaits(o, v)
    <3>1. op'[o] = [op[o] EXCEPT !.req = outcome] /\ op[o] \in Run
      BY <2>1 DEF Finish, TypeOK
    <3>2. /\ op'[o].pc = op[o].pc /\ op'[o].cmd = op[o].cmd
          /\ op'[o].failed = op[o].failed /\ op'[o].left = op[o].left
      BY <3>1 DEF Run
    <3>. QED  BY <3>2 DEF PhaseOf, Said
  <2>2. CASE ~Awaits(o, v)
    BY <2>2 DEF Finish
  <2>. QED  BY <2>1, <2>2
<1>2. Phases' = Phases /\ Told' = Told
  BY <1>1 DEF Phases, Told
<1>3. vm' = [vm EXCEPT ![v] = m] /\ vm \in [VMIDs -> VM] /\ vm[v].by \in Ops
  BY DEF Finish, TypeOK
<1>4. Locks' = [Locks EXCEPT ![v] = None] /\ Locks[v] # None
  BY <1>3, ConstantsOK DEF Locks, LockOf, ConstantsOK
<1>5. v \in Existing
  BY DEF Custody, Existing, FreeVM
<1>6. CASE m = FreeVM
  <2>1. Existing' = Existing \ {v}
    BY <1>3, <1>6 DEF Existing, FreeVM
  <2>2. owed' = [o \in Ops |-> owed[o] \ {v}]
    BY <1>6 DEF Finish
  <2>. QED  BY <1>2, <1>4, <2>1, <2>2 DEF Abstract!Changed, Phases, Told, Locks
<1>7. CASE m # FreeVM
  <2>1. Existing' = Existing
    BY <1>3, <1>5, <1>7 DEF Existing
  <2>2. owed' = owed
    BY <1>7 DEF Finish
  <2>. QED  BY <1>2, <1>4, <2>1, <2>2 DEF Abstract!Changed, Phases, Told, Locks
<1>. QED  BY <1>6, <1>7

\* Every step is a step of the sessions, or none.
LEMMA SessionStep ==
  ASSUME ConstantsOK, TypeOK, Ledger, Custody, TypeOK', [Next]_vars
  PROVE  [Abstract!Next]_(Abstract!vars)
<1>1. ASSUME NEW o \in Ops
      PROVE  /\ op[o] \in Run /\ op'[o] \in Run /\ op \in [Ops -> Run]
             /\ Books(op[o], owed[o]) /\ owed \in [Ops -> SUBSET VMIDs] /\ None \notin owed[o]
             /\ op[o].pc \in CreateSteps \cup {"list", "next"} => op[o].left = None
             /\ op[o].req # "unsent" => op[o].pc \in Steps
  BY <1>1, ConstantsOK DEF TypeOK, Ledger, Custody, ConstantsOK
<1>2. ASSUME NEW o \in Ops, Abstract!Tell(o) PROVE Abstract!Next
  BY <1>2 DEF Abstract!Next
<1>3. ASSUME NEW o \in Ops, Start(o) PROVE Abstract!Next
  <2>1. PICK cmd \in Cmds[o] : op'[o] = [Fresh(cmd) EXCEPT !.pc = "list"]
    BY <1>1, <1>3 DEF Start
  <2>2. PhaseOf(op'[o]) = "open" /\ Said(op'[o]) = {}
    BY <2>1 DEF Fresh, PhaseOf, Said
  <2>3. op' = [op EXCEPT ![o] = op'[o]] /\ PhaseOf(op[o]) # "open"
    BY <1>1, <1>3 DEF Start, PhaseOf
  <2>4. /\ Phases' = [Phases EXCEPT ![o] = "open"] /\ Phases[o] # "open"
        /\ Told' = [Told EXCEPT ![o] = {}]
    BY <2>2, <2>3, SessionOfOne
  <2>5. UNCHANGED <<Existing, Locks>> /\ owed' = [owed EXCEPT ![o] = {}]
    BY <1>3 DEF Start, Existing, Locks
  <2>6. Abstract!Begin(o)
    BY <2>4, <2>5 DEF Abstract!Begin, Abstract!Open, Phases, Told, Locks
  <2>. QED  BY <2>6 DEF Abstract!Next
<1>4. ASSUME NEW o \in Ops, Crash(o) PROVE Abstract!Next
  <2>1. op' = [op EXCEPT ![o] = op'[o]] /\ op'[o] = Fresh(op[o].cmd)
    BY <1>1, <1>4 DEF Crash
  <2>2. PhaseOf(op'[o]) = "off" /\ Said(op'[o]) = {} /\ PhaseOf(op[o]) = "open"
    BY <1>4, <2>1, OpenPhase DEF Crash, Fresh, PhaseOf, Said
  <2>3. /\ Phases' = [Phases EXCEPT ![o] = "off"] /\ Phases[o] = "open"
        /\ Told' = [Told EXCEPT ![o] = {}]
    BY <2>1, <2>2, SessionOfOne
  <2>4. UNCHANGED <<Existing, Locks>> /\ owed' = [owed EXCEPT ![o] = {}]
    BY <1>4 DEF Crash, Existing, Locks
  <2>5. Abstract!Die(o)
    BY <2>3, <2>4 DEF Abstract!Die, Abstract!Open, Phases, Told, Locks
  <2>. QED  BY <2>5 DEF Abstract!Next
<1>5. ASSUME NEW o \in Ops, UNCHANGED <<vm, owed>>, op' = [op EXCEPT ![o] = op'[o]],
             op[o].pc \notin Ended, Said(op'[o]) = Said(op[o]),
             \/ PhaseOf(op'[o]) = "kept"
             \/ PhaseOf(op'[o]) = "settled" /\ owed[o] \subseteq Said(op[o])
      PROVE  Abstract!Next
  <2>1. PhaseOf(op[o]) = "open"
    BY <1>5, OpenPhase
  <2>2. /\ Phases' = [Phases EXCEPT ![o] = PhaseOf(op'[o])] /\ Phases[o] = "open"
        /\ Told' = [Told EXCEPT ![o] = Told[o]] /\ Told[o] = Said(op[o])
    BY <1>5, <2>1, SessionOfOne
  <2>3. UNCHANGED <<Existing, Locks, Told>>
    BY <1>5, <2>2 DEF Existing, Locks, Told
  <2>4. Abstract!Keep(o) \/ Abstract!Settle(o)
    BY <1>5, <2>2, <2>3
       DEF Abstract!Keep, Abstract!Settle, Abstract!Open, Phases, Told, Locks
  <2>. QED  BY <2>4 DEF Abstract!Next
<1>6. ASSUME NEW o \in Ops, ListFails(o) PROVE Abstract!Next
  <2>1. op' = [op EXCEPT ![o] = op'[o]] /\ op'[o] = [op[o] EXCEPT !.pc = "failed"]
    BY <1>1, <1>6 DEF ListFails
  <2>2. op'[o].pc = "failed" /\ op'[o].failed = op[o].failed /\ op'[o].left = op[o].left
    BY <1>1, <2>1 DEF Run
  <2>3. /\ PhaseOf(op'[o]) = "settled" /\ Said(op'[o]) = Said(op[o])
        /\ op[o].pc = "list" /\ owed[o] = {}
    BY <1>1, <1>6, <2>2 DEF PhaseOf, Said, ListFails, Books
  <2>. QED  BY <1>5, <1>6, <2>1, <2>3 DEF ListFails
<1>7. ASSUME NEW o \in Ops, WaitTimeout(o) \/ AllReady(o) PROVE Abstract!Next
  <2>1. PICK pc \in {"unready", "done"} :
          op' = [op EXCEPT ![o] = op'[o]] /\ op'[o] = [op[o] EXCEPT !.pc = pc]
    BY <1>1, <1>7 DEF WaitTimeout, AllReady
  <2>2. /\ op'[o].pc = pc /\ op'[o].failed = op[o].failed /\ op'[o].left = op[o].left
        /\ op'[o].cmd = op[o].cmd
    BY <1>1, <2>1 DEF Run
  <2>3. op[o].pc = "ready" /\ op[o].cmd = "create"
    BY <1>1, <1>7 DEF WaitTimeout, AllReady, Books
  <2>4. PhaseOf(op'[o]) = "kept" /\ Said(op'[o]) = Said(op[o])
    BY <2>2, <2>3 DEF PhaseOf, Said
  <2>. QED  BY <1>5, <1>7, <2>1, <2>3, <2>4 DEF WaitTimeout, AllReady
<1>8. ASSUME NEW o \in Ops, Drained(o) PROVE Abstract!Next
  <2>1. op' = [op EXCEPT ![o] = op'[o]]
        /\ op'[o] = [op[o] EXCEPT !.pc = IF op[o].cmd = "delete" /\ op[o].failed = {}
                                        THEN "done" ELSE "failed"]
    BY <1>1, <1>8 DEF Drained
  <2>2. /\ op'[o].pc = IF op[o].cmd = "delete" /\ op[o].failed = {} THEN "done" ELSE "failed"
        /\ op'[o].failed = op[o].failed /\ op'[o].left = op[o].left /\ op'[o].cmd = op[o].cmd
    BY <1>1, <2>1 DEF Run
  <2>3. PhaseOf(op'[o]) = "settled" /\ Said(op'[o]) = Said(op[o])
    BY <2>2 DEF PhaseOf, Said
  <2>4. op[o].pc = "drain" /\ op[o].queue = {} /\ owed[o] \subseteq Said(op[o])
    <3>1. op[o].pc = "drain" /\ op[o].queue = {}
      BY <1>8 DEF Drained
    <3>2. Books(op[o], owed[o]) /\ None \notin owed[o]
      BY <1>1
    <3>3. op[o].vmid = None /\ owed[o] \subseteq op[o].queue \cup op[o].failed \cup {op[o].left, op[o].vmid}
      BY <3>1, <3>2 DEF Books
    <3>. QED  BY <3>1, <3>2, <3>3 DEF Said
  <2>. QED  BY <1>5, <1>8, <2>1, <2>3, <2>4 DEF Drained
<1>9. ASSUME NEW o \in Ops, ListCreate(o) PROVE Abstract!Next
  <2>1. op' = [op EXCEPT ![o] = op'[o]]
        /\ op'[o] = [op[o] EXCEPT !.pc = "next", !.seen = Listed(ClusterOf[o]),
                                 !.todo = Missing(ClusterOf[o], Listed(ClusterOf[o]))]
    BY <1>1, <1>9 DEF ListCreate
  <2>2. op'[o].pc = "next" /\ op'[o].failed = op[o].failed /\ op'[o].left = op[o].left
    BY <1>1, <2>1 DEF Run
  <2>3. Said(op'[o]) = Said(op[o]) /\ op[o].pc = "list"
    BY <1>9, <2>2 DEF Said, ListCreate
  <2>. QED  BY <1>1, <1>2, <1>9, <2>1, <2>2, <2>3, TellStep DEF ListCreate
<1>10. ASSUME NEW o \in Ops, AllCreated(o) PROVE Abstract!Next
  <2>1. op' = [op EXCEPT ![o] = op'[o]]
        /\ op'[o] = [op[o] EXCEPT !.pc = "ready", !.queue = ToAwait(op[o])]
    BY <1>1, <1>10 DEF AllCreated
  <2>2. op'[o].pc = "ready" /\ op'[o].failed = op[o].failed /\ op'[o].left = op[o].left
    BY <1>1, <2>1 DEF Run
  <2>3. Said(op'[o]) = Said(op[o]) /\ op[o].pc = "next"
    BY <1>10, <2>2 DEF Said, AllCreated
  <2>. QED  BY <1>1, <1>2, <1>10, <2>1, <2>2, <2>3, TellStep DEF AllCreated
<1>11. ASSUME NEW o \in Ops, PickFails(o) PROVE Abstract!Next
  <2>1. op' = [op EXCEPT ![o] = op'[o]] /\ op'[o] = GiveUp(op[o])
    BY <1>1, <1>11 DEF PickFails
  <2>2. Said(op[o]) \subseteq Said(op'[o]) /\ op[o].pc \notin Ended /\ op'[o].pc \notin Ended
    BY <1>1, <1>11, <2>1, SaidGrows DEF PickFails
  <2>. QED  BY <1>1, <1>2, <1>11, <2>1, <2>2, TellStep DEF PickFails
<1>12. ASSUME NEW o \in Ops, SendRefused(o) PROVE Abstract!Next
  <2>1. op' = [op EXCEPT ![o] = op'[o]] /\ op'[o] = CallFailed(op[o])
    BY <1>1, <1>12 DEF SendRefused
  <2>2. Said(op[o]) \subseteq Said(op'[o]) /\ op[o].pc \notin Ended /\ op'[o].pc \notin Ended
    BY <1>1, <1>12, <2>1, SaidGrows DEF SendRefused
  <2>. QED  BY <1>1, <1>2, <1>12, <2>1, <2>2, TellStep DEF SendRefused
<1>13. ASSUME NEW o \in Ops, AlreadyStopped(o) PROVE Abstract!Next
  <2>1. op' = [op EXCEPT ![o] = op'[o]] /\ op'[o] = Advance(op[o])
    BY <1>1, <1>13 DEF AlreadyStopped
  <2>2. Said(op[o]) \subseteq Said(op'[o]) /\ op[o].pc \notin Ended /\ op'[o].pc \notin Ended
    BY <1>1, <1>13, <2>1, SaidGrows DEF AlreadyStopped, NotRunning
  <2>. QED  BY <1>1, <1>2, <1>13, <2>1, <2>2, TellStep DEF AlreadyStopped
<1>14. ASSUME NEW o \in Ops, PollOk(o) PROVE Abstract!Next
  <2>1. op' = [op EXCEPT ![o] = op'[o]] /\ op'[o] = Advance(op[o])
    BY <1>1, <1>14 DEF PollOk
  <2>2. Said(op[o]) \subseteq Said(op'[o]) /\ op[o].pc \notin Ended /\ op'[o].pc \notin Ended
    BY <1>1, <1>14, <2>1, SaidGrows DEF PollOk
  <2>. QED  BY <1>1, <1>2, <1>14, <2>1, <2>2, TellStep DEF PollOk
<1>15. ASSUME NEW o \in Ops, PollFails(o) PROVE Abstract!Next
  <2>1. op' = [op EXCEPT ![o] = op'[o]] /\ op'[o] = WaitFailed(op[o])
    BY <1>1, <1>15 DEF PollFails
  <2>2. Said(op[o]) \subseteq Said(op'[o]) /\ op[o].pc \notin Ended /\ op'[o].pc \notin Ended
    BY <1>1, <1>15, <2>1, SaidGrows DEF PollFails
  <2>. QED  BY <1>1, <1>2, <1>15, <2>1, <2>2, TellStep DEF PollFails
<1>16. ASSUME NEW o \in Ops, PickVMID(o) PROVE Abstract!Next
  <2>0. PICK n \in op[o].todo, v \in FreeIds :
          op' = [op EXCEPT ![o].pc = "clone", ![o].name = n, ![o].vmid = v,
                           ![o].todo = @ \ {n}]
    BY <1>16 DEF PickVMID
  <2>1. op' = [op EXCEPT ![o] = op'[o]] /\ op'[o] = PickedRun(op[o], n, v)
    BY <1>1, <2>0 DEF PickedRun
  <2>2. op'[o].pc = "clone" /\ op'[o].failed = op[o].failed /\ op'[o].left = op[o].left
    BY <1>1, <2>1 DEF PickedRun, Run
  <2>3. Said(op'[o]) = Said(op[o]) /\ op[o].pc = "next"
    BY <1>16, <2>2 DEF Said, PickVMID
  <2>. QED  BY <1>1, <1>2, <1>16, <2>1, <2>2, <2>3, TellStep DEF PickVMID
<1>17. ASSUME NEW o \in Ops, DeleteNext(o) PROVE Abstract!Next
  <2>1. PICK v \in op[o].queue : op'[o] = VictimRun(op[o], v)
    BY <1>1, <1>17 DEF DeleteNext, Victims, VictimRun
  <2>2. op'[o].pc = "stop" /\ op'[o].failed = op[o].failed /\ op'[o].left = op[o].left
    BY <1>1, <2>1 DEF VictimRun, Run
  <2>3. Said(op'[o]) = Said(op[o]) /\ op[o].pc = "drain" /\ op' = [op EXCEPT ![o] = op'[o]]
    BY <1>1, <1>17, <2>2 DEF Said, DeleteNext
  <2>. QED  BY <1>1, <1>2, <1>17, <2>2, <2>3, TellStep DEF DeleteNext
<1>18. ASSUME NEW o \in Ops, WaitReady(o) PROVE Abstract!Next
  <2>1. PICK v \in op[o].queue :
          op' = [op EXCEPT ![o] = [op[o] EXCEPT !.queue = op[o].queue \ {v}]]
    BY <1>18 DEF WaitReady
  <2>2. op' = [op EXCEPT ![o] = op'[o]]
        /\ op'[o] = [op[o] EXCEPT !.queue = op[o].queue \ {v}] /\ op[o].pc = "ready"
    BY <1>1, <1>18, <2>1 DEF WaitReady
  <2>3. op'[o].pc = "ready" /\ op'[o].failed = op[o].failed /\ op'[o].left = op[o].left
    BY <1>1, <2>2 DEF Run
  <2>4. Said(op'[o]) = Said(op[o])
    BY <2>3 DEF Said
  <2>. QED  BY <1>1, <1>2, <1>18, <2>2, <2>3, <2>4, TellStep DEF WaitReady
<1>19. ASSUME NEW o \in Ops, Interrupt(o) PROVE Abstract!Next
  <2>1. op' = [op EXCEPT ![o] = op'[o]] /\ op'[o] = [op[o] EXCEPT !.cancelled = TRUE]
    BY <1>1, <1>19 DEF Interrupt
  <2>2. op'[o].pc = op[o].pc /\ op'[o].failed = op[o].failed /\ op'[o].left = op[o].left
    BY <1>1, <2>1 DEF Run
  <2>3. Said(op'[o]) = Said(op[o])
    BY <2>2 DEF Said
  <2>. QED  BY <1>1, <1>2, <1>19, <2>1, <2>2, <2>3, TellStep DEF Interrupt
<1>20. ASSUME NEW o \in Ops, ListDelete(o) PROVE Abstract!Next
  <2>. DEFINE seen == Listed(ClusterOf[o])
  <2>1. op' = [op EXCEPT ![o] = op'[o]]
        /\ op'[o] = [op[o] EXCEPT !.pc = IF seen = {} THEN "done" ELSE "drain", !.queue = seen]
        /\ owed' = [owed EXCEPT ![o] = seen]
    BY <1>1, <1>20 DEF ListDelete
  <2>2. /\ op'[o].pc = IF seen = {} THEN "done" ELSE "drain"
        /\ op'[o].failed = op[o].failed /\ op'[o].left = op[o].left /\ op'[o].cmd = op[o].cmd
    BY <1>1, <2>1 DEF Run
  <2>3. /\ Said(op'[o]) = Said(op[o]) /\ op[o].pc = "list" /\ op[o].cmd = "delete"
        /\ owed[o] = {} /\ vm' = vm
    BY <1>1, <1>20, <2>2 DEF Said, ListDelete, Books
  <2>4. CASE seen = {}
    <3>1. PhaseOf(op'[o]) = "settled" /\ owed' = owed
      BY <1>1, <2>1, <2>2, <2>3, <2>4 DEF PhaseOf
    <3>. QED  BY <1>5, <2>1, <2>3, <3>1
  <2>5. CASE seen # {}
    <3>1. PhaseOf(op'[o]) = "open" /\ PhaseOf(op[o]) = "open"
      BY <2>2, <2>3, <2>5 DEF PhaseOf
    <3>2. /\ Phases' = [Phases EXCEPT ![o] = "open"] /\ Phases[o] = "open"
          /\ Told' = [Told EXCEPT ![o] = Told[o]]
      BY <2>1, <2>3, <3>1, SessionOfOne
    <3>3. UNCHANGED <<Existing, Locks, Phases, Told>>
      BY <2>3, <3>2 DEF Existing, Locks, Phases, Told
    <3>4. seen \in SUBSET Existing
      BY <1>1, ConstantsOK DEF Listed, Existing, Custody, FreeVM, ConstantsOK
    <3>. HIDE DEF seen
    <3>5. Abstract!Find(o)
      BY <2>1, <3>2, <3>3, <3>4 DEF Abstract!Find, Abstract!Open, Phases, Told, Locks
    <3>. QED  BY <3>5 DEF Abstract!Next
  <2>. QED  BY <2>4, <2>5
<1>21. ASSUME NEW o \in Ops, Send(o) PROVE Abstract!Next
  <2>1. Accept(o) /\ op' = [op EXCEPT ![o] = op'[o]] /\ op'[o] = [op[o] EXCEPT !.req = "running"]
    BY <1>1, <1>21 DEF Send
  <2>2. op'[o].pc = op[o].pc /\ op'[o].failed = op[o].failed /\ op'[o].left = op[o].left
    BY <1>1, <2>1 DEF Run
  <2>3. Said(op'[o]) = Said(op[o]) /\ op'[o].pc \notin Ended /\ op[o].vmid \in VMIDs
    BY <2>1, <2>2 DEF Said, Accept, TypeOK
  <2>. QED  BY <1>1, <2>1, <2>3, ConstantsOK, AcceptStep DEF Abstract!Next
<1>22. ASSUME NEW o \in Ops, SendLost(o) PROVE Abstract!Next
  <2>1. Accept(o) /\ op' = [op EXCEPT ![o] = op'[o]] /\ op'[o] = CallFailed(op[o])
    BY <1>1, <1>22 DEF SendLost
  <2>2. op[o].pc \in Steps /\ op[o].vmid \in VMIDs
    BY <2>1 DEF Accept, TypeOK
  <2>3. Said(op[o]) \subseteq Said(op'[o]) /\ op'[o].pc \notin Ended
    BY <1>1, <2>1, <2>2, SaidGrows
  <2>. QED  BY <1>1, <2>1, <2>2, <2>3, ConstantsOK, AcceptStep DEF Abstract!Next
<1>23. ASSUME NEW v \in VMIDs, TaskSucceeds(v) \/ TaskFails(v) PROVE Abstract!Next
  <2>1. vm[v] \in VM /\ vm[v].task # None /\ vm[v].by \in Ops /\ vm[v].st # "free"
    BY <1>23 DEF TaskSucceeds, TaskFails, Custody, FreeVM, TypeOK
  <2>2. /\ TaskDone(vm[v]).st = "free" => TaskDone(vm[v]) = FreeVM
        /\ TaskFailed(vm[v]).st = "free" => TaskFailed(vm[v]) = FreeVM
    BY <2>1 DEF TaskDone, TaskFailed, Unlocked, VM
  <2>3. TaskDone(vm[v]).task = None /\ TaskFailed(vm[v]).task = None
    BY <2>1, ConstantsOK, VMHelpersType
  <2>4. Abstract!Changed(v)
    BY <1>23, <2>1, <2>2, <2>3, ConstantsOK, FinishStep DEF TaskSucceeds, TaskFails
  <2>. QED  BY <2>4 DEF Abstract!Next
<1>24. CASE UNCHANGED vars
  BY <1>24 DEF vars, Abstract!vars, Existing
<1>. QED
  BY <1>3, <1>4, <1>6, <1>7, <1>8, <1>9, <1>10, <1>11, <1>12, <1>13, <1>14, <1>15, <1>16, <1>17, <1>18, <1>19, <1>20, <1>21, <1>22, <1>23, <1>24
     DEF Next, Progress

\* Where nothing is taken, whatever overlaps or fails: create and delete
\* change only what they made or found, one task of a machine at a time, and
\* end with every VM they owe removed or named (Implements, for every
\* instance).
THEOREM PromiseKept == UntakenSpec => Implements
<1>1. Init => Abstract!Init
  BY DEF Init, Abstract!Init, Existing, LockOf, PhaseOf, Said, Fresh, FreeVM
<1>2. TypeOK /\ Ledger /\ Custody /\ TypeOK' /\ [Next /\ NothingTaken]_vars
      => [Abstract!Next]_(Abstract!vars)
  BY ConstantsOK, SessionStep
<1>. QED  BY <1>1, <1>2, CustodyKept, PTL DEF UntakenSpec, Implements, Abstract!Spec

-----------------------------------------------------------------------------
(* Where nothing is taken                                                   *)

Alone     == \A o, p \in Ops : o = p
NoDeletes == \A o \in Ops : "delete" \notin Cmds[o]

\* What run r has in its hands besides the VM it works on.
Spare(r) == CASE r.pc \in CreateSteps \cup {"next"}  -> r.made
              [] r.pc \in DeleteSteps \cup {"drain"} -> r.queue
              [] OTHER -> {}

\* A create r owes whatever it has in its hands, of the VMs m; no task runs on
\* the spare ones, and on the one it works on none that it has not asked after
\* could remove it.
Sole(r, S, m) ==
  /\ r.cmd = "create" /\ Hands(r) \subseteq S
  /\ \A v \in Spare(r) : m[v].task = None /\ v \notin Working(r)
  /\ \A v \in Working(r) :
       /\ r.req # "running" => m[v].task \notin {"clone", "destroy"}
       /\ r.pc \in CreateSteps /\ r.req # "running" => m[v].task = None

\* Of the VMs that exist each is owed by one run, which alone has its tasks.
Separate ==
  /\ \A o \in Ops : Sole(op[o], owed[o], vm) /\ owed[o] \subseteq Existing
  /\ \A o \in Ops : \A v \in owed[o] : vm[v].task # None => vm[v].by = o
  /\ \A o, p \in Ops : o # p => owed[o] \cap owed[p] = {}

LEMMA HandsAre ==
  ASSUME NEW r PROVE Hands(r) = Working(r) \cup Spare(r)
BY DEF Hands, Spare

\* What is owed exists, so an id that is free is in nobody's hands.
LEMMA SeparateUntaken == ASSUME Separate PROVE NothingTaken
BY DEF Separate, Sole, NothingTaken, Takes, Existing

\* A step of terminal o that touches no VM.
LEMMA SeparateOfOne ==
  ASSUME TypeOK, Separate, NEW o \in Ops, op' = [op EXCEPT ![o] = op'[o]], UNCHANGED vm,
         owed'[o] \in {{}, owed[o]}, \A p \in Ops \ {o} : owed'[p] = owed[p],
         Sole(op'[o], owed'[o], vm)
  PROVE  Separate'
<1>1. \A p \in Ops \ {o} : op'[p] = op[p]
  BY DEF TypeOK
<1>2. Existing' = Existing /\ \A p \in Ops : owed'[p] \subseteq owed[p]
  BY DEF Existing
<1>3. \A p \in Ops : Sole(op'[p], owed'[p], vm)
  BY <1>1 DEF Separate
<1>. QED  BY <1>2, <1>3 DEF Separate

\* Run s follows run r with nothing more in its hands, and works on no VM.
LEMMA SoleIdle ==
  ASSUME NEW r, NEW s, NEW S, NEW m, Sole(r, S, m), s.cmd = r.cmd,
         s.pc \notin Steps \/ (s.pc = "clone" /\ s.req = "unsent"),
         Spare(s) \subseteq Spare(r)
  PROVE  Sole(s, S, m)
<1>1. Working(s) = {}
  BY DEF Working, Pending
<1>2. Hands(s) = Spare(s) /\ Hands(r) = Working(r) \cup Spare(r)
  BY <1>1, HandsAre
<1>. QED  BY <1>1, <1>2 DEF Sole

\* It gives up, or goes on after a call.
LEMMA SoleHelpers ==
  ASSUME ConstantsOK, NEW r \in Run, NEW S, NEW m, Sole(r, S, m),
         r.req = "running" => m[r.vmid].task = r.pc
  PROVE  /\ r.pc \in CreateSteps \cup {"next"} => Sole(GiveUp(r), S, m)
         /\ r.pc \in Steps => /\ Sole(CallFailed(r), S, m)
                              /\ r.req = "ok" \/ r.pc = "stop" => Sole(Advance(r), S, m)
                              /\ Sole(WaitFailed(r), S, m)
<1>1. ASSUME r.pc \in CreateSteps \cup {"next"} PROVE Sole(GiveUp(r), S, m)
  <2>1. GiveUp(r).pc = "drain" /\ GiveUp(r).queue = r.made /\ GiveUp(r).cmd = r.cmd
    BY DEF GiveUp, Run
  <2>. QED  BY <1>1, <2>1, SoleIdle DEF Spare
<1>2. ASSUME r.pc \in DeleteSteps PROVE Sole(Skip(r), S, m)
  <2>1. Skip(r).pc = "drain" /\ Skip(r).queue = r.queue /\ Skip(r).cmd = r.cmd
    BY DEF Skip, Run
  <2>. QED  BY <1>2, <2>1, SoleIdle DEF Spare
<1>3. ASSUME r.pc \in Steps, r.req = "ok" \/ r.pc = "stop", NEW s, s = Advance(r)
      PROVE  Sole(s, S, m)
  <2>1. /\ s.pc = After(r.pc) /\ s.req = "unsent" /\ s.cmd = r.cmd
        /\ s.made = Returned(r) /\ s.queue = r.queue
        /\ s.vmid = IF r.pc \in {"start", "destroy"} THEN None ELSE r.vmid
    BY <1>3 DEF Advance, Run
  <2>2. Hands(r) = Working(r) \cup Spare(r) /\ Hands(s) = Working(s) \cup Spare(s)
    BY HandsAre
  <2>3. CASE r.pc \in {"clone", "config", "resize"}
    <3>1. s.pc \in {"config", "resize", "start"} /\ s.made = r.made /\ s.vmid = r.vmid
      BY <2>1, <2>3 DEF After, Returned
    <3>2. Working(s) = {r.vmid} /\ Working(r) = {r.vmid} /\ Spare(s) = Spare(r)
      BY <1>3, <2>3, <3>1 DEF Working, Pending, Spare
    <3>3. m[r.vmid].task = None /\ None \notin Steps
      BY <1>3, <2>3, <3>2, ConstantsOK DEF Sole, ConstantsOK
    <3>. QED  BY <2>1, <2>2, <3>2, <3>3 DEF Sole
  <2>4. CASE r.pc = "start"
    <3>1. s.pc = "next" /\ s.made = r.made \cup {r.vmid}
      BY <2>1, <2>4 DEF After, Returned
    <3>2. /\ Working(s) = {} /\ Working(r) = {r.vmid} /\ Spare(r) = r.made
          /\ Spare(s) = r.made \cup {r.vmid}
      BY <1>3, <2>4, <3>1 DEF Working, Pending, Spare
    <3>3. m[r.vmid].task = None
      BY <1>3, <2>4, <3>2 DEF Sole
    <3>. QED  BY <2>1, <2>2, <3>2, <3>3 DEF Sole
  <2>5. CASE r.pc = "stop"
    <3>1. s.pc = "destroy" /\ s.vmid = r.vmid
      BY <2>1, <2>5 DEF After
    <3>2. Working(s) = {r.vmid} /\ Working(r) = {r.vmid} /\ Spare(s) = Spare(r)
      BY <1>3, <2>1, <2>5, <3>1 DEF Working, Pending, Spare
    <3>3. m[r.vmid].task \notin {"clone", "destroy"}
      BY <2>5, <3>2 DEF Sole
    <3>. QED  BY <2>1, <2>2, <3>1, <3>2, <3>3 DEF Sole
  <2>6. CASE r.pc = "destroy"
    <3>1. s.pc = "drain" /\ Spare(s) = r.queue /\ Spare(r) = r.queue
      BY <2>1, <2>6 DEF After, Spare
    <3>. QED  BY <2>1, <3>1, SoleIdle
  <2>. QED  BY <1>3, <2>3, <2>4, <2>5, <2>6
<1>. QED  BY <1>1, <1>2, <1>3 DEF CallFailed, WaitFailed

\* The steps of terminal o that touch no VM.
LEMMA SeparateWalks ==
  ASSUME ConstantsOK, NoDeletes, TypeOK, Ledger, Custody, Separate, NEW o \in Ops,
         \/ Start(o) \/ ListCreate(o) \/ ListDelete(o) \/ ListFails(o)
         \/ PickVMID(o) \/ PickFails(o) \/ AllCreated(o)
         \/ SendRefused(o) \/ AlreadyStopped(o) \/ PollOk(o) \/ PollFails(o)
         \/ WaitReady(o) \/ WaitTimeout(o) \/ AllReady(o)
         \/ DeleteNext(o) \/ Drained(o) \/ Interrupt(o) \/ Crash(o)
  PROVE  Separate'
<1>1. /\ op[o] \in Run /\ op \in [Ops -> Run] /\ Sole(op[o], owed[o], vm)
      /\ op[o].req # "unsent" => op[o].pc \in Steps
      /\ op[o].pc = "list" => op[o].made = {}
      /\ op[o].req = "running" => vm[op[o].vmid].task = op[o].pc
  BY DEF TypeOK, Ledger, Polls, Custody, Separate
<1>2. op' = [op EXCEPT ![o] = op'[o]] /\ UNCHANGED vm
  BY <1>1 DEF Start, ListCreate, ListDelete, ListFails, PickVMID, PickFails, AllCreated,
     SendRefused, AlreadyStopped, PollOk, PollFails, WaitReady, WaitTimeout, AllReady,
     DeleteNext, Drained, Interrupt, Crash
<1>3. CASE Start(o) \/ Crash(o)
  <2>1. PICK cmd \in Cmds[o] \cup {op[o].cmd} :
          op'[o] = [Fresh(cmd) EXCEPT !.pc = "list"] \/ op'[o] = Fresh(cmd)
    BY <1>1, <1>3 DEF Start, Crash
  <2>2. cmd = "create"
    BY <1>1, ConstantsOK DEF NoDeletes, ConstantsOK, Sole
  <2>3. op'[o].cmd = "create" /\ op'[o].pc \in {"idle", "list"}
    BY <2>1, <2>2 DEF Fresh
  <2>4. Sole(op'[o], {}, vm)
    BY <2>3 DEF Sole, Hands, Working, Spare
  <2>5. owed'[o] = {} /\ \A p \in Ops \ {o} : owed'[p] = owed[p]
    BY <1>3 DEF Start, Crash, TypeOK
  <2>. QED  BY <1>2, <2>4, <2>5, SeparateOfOne
<1>4. CASE ListDelete(o)
  BY <1>1, <1>4 DEF ListDelete, Sole
<1>5. ASSUME UNCHANGED owed, Sole(op'[o], owed[o], vm) PROVE Separate'
  BY <1>2, <1>5, SeparateOfOne
<1>6. CASE \/ ListCreate(o) \/ ListFails(o) \/ PickVMID(o) \/ AllCreated(o)
           \/ WaitReady(o) \/ WaitTimeout(o) \/ AllReady(o) \/ Drained(o)
  <2>1. /\ op'[o].cmd = op[o].cmd /\ Spare(op'[o]) \subseteq Spare(op[o])
        /\ op'[o].pc \notin Steps \/ (op'[o].pc = "clone" /\ op'[o].req = "unsent")
    <3>1. CASE ListCreate(o)
      <4>1. /\ op'[o] = [op[o] EXCEPT !.pc = "next", !.seen = Listed(ClusterOf[o]),
                                      !.todo = Missing(ClusterOf[o], Listed(ClusterOf[o]))]
            /\ op[o].pc = "list"
        BY <1>1, <3>1 DEF ListCreate
      <4>2. op'[o].pc = "next" /\ op'[o].made = {} /\ op'[o].cmd = op[o].cmd
        BY <1>1, <4>1 DEF Run
      <4>. QED  BY <4>2 DEF Spare
    <3>2. CASE PickVMID(o)
      <4>1. PICK n \in op[o].todo, v \in FreeIds :
              op' = [op EXCEPT ![o].pc = "clone", ![o].name = n, ![o].vmid = v,
                               ![o].todo = @ \ {n}]
        BY <3>2 DEF PickVMID
      <4>2. op'[o] = PickedRun(op[o], n, v) /\ op[o].pc = "next" /\ op[o].req = "unsent"
        BY <1>1, <3>2, <4>1 DEF PickedRun, PickVMID, Run
      <4>3. /\ op'[o].pc = "clone" /\ op'[o].req = "unsent" /\ op'[o].made = op[o].made
            /\ op'[o].cmd = op[o].cmd
        BY <1>1, <4>2 DEF PickedRun, Run
      <4>. QED  BY <4>2, <4>3 DEF Spare
    <3>3. CASE WaitReady(o)
      <4>1. PICK v \in op[o].queue : op'[o] = [op[o] EXCEPT !.queue = op[o].queue \ {v}]
        BY <1>1, <3>3 DEF WaitReady
      <4>2. op'[o].pc = "ready" /\ op'[o].cmd = op[o].cmd
        BY <1>1, <3>3, <4>1 DEF WaitReady, Run
      <4>. QED  BY <4>2 DEF Spare
    <3>4. CASE AllCreated(o)
      <4>1. op'[o].pc = "ready" /\ op'[o].cmd = op[o].cmd
        BY <1>1, <3>4 DEF AllCreated, Run
      <4>. QED  BY <4>1 DEF Spare
    <3>5. CASE ListFails(o) \/ WaitTimeout(o) \/ AllReady(o) \/ Drained(o)
      <4>1. PICK pc \in Ended : op'[o] = [op[o] EXCEPT !.pc = pc]
        BY <1>1, <3>5 DEF ListFails, WaitTimeout, AllReady, Drained
      <4>2. op'[o].pc = pc /\ op'[o].cmd = op[o].cmd
        BY <1>1, <4>1 DEF Run
      <4>. QED  BY <4>2 DEF Spare
    <3>. QED  BY <1>6, <3>1, <3>2, <3>3, <3>4, <3>5
  <2>2. Sole(op'[o], owed[o], vm)
    BY <1>1, <2>1, SoleIdle
  <2>3. UNCHANGED owed
    BY <1>6 DEF ListCreate, ListFails, PickVMID, AllCreated, WaitReady, WaitTimeout, AllReady, Drained
  <2>. QED  BY <1>5, <2>2, <2>3
<1>7. CASE PickFails(o) \/ SendRefused(o) \/ AlreadyStopped(o) \/ PollOk(o) \/ PollFails(o)
  <2>1. \/ op'[o] = GiveUp(op[o]) /\ op[o].pc = "next"
        \/ op'[o] \in {CallFailed(op[o]), WaitFailed(op[o])} /\ op[o].pc \in Steps
        \/ op'[o] = Advance(op[o]) /\ op[o].pc \in Steps /\ (op[o].req = "ok" \/ op[o].pc = "stop")
    BY <1>1, <1>7 DEF PickFails, SendRefused, AlreadyStopped, NotRunning, PollOk, PollFails
  <2>2. Sole(op'[o], owed[o], vm)
    BY <1>1, <2>1, ConstantsOK, SoleHelpers
  <2>3. UNCHANGED owed
    BY <1>7 DEF PickFails, SendRefused, AlreadyStopped, PollOk, PollFails
  <2>. QED  BY <1>5, <2>2, <2>3
<1>8. CASE DeleteNext(o)
  <2>1. PICK v \in op[o].queue : op'[o] = VictimRun(op[o], v)
    BY <1>1, <1>8 DEF DeleteNext, Victims, VictimRun
  <2>2. op[o].pc = "drain" /\ op[o].req = "unsent" /\ UNCHANGED owed
    BY <1>1, <1>8 DEF DeleteNext, Run
  <2>3. /\ op'[o].pc = "stop" /\ op'[o].req = "unsent" /\ op'[o].vmid = v
        /\ op'[o].queue = op[o].queue \ {v} /\ op'[o].cmd = op[o].cmd
    BY <1>1, <2>1, <2>2 DEF VictimRun, Run
  <2>4. /\ Working(op'[o]) = {v} /\ Spare(op'[o]) = op[o].queue \ {v}
        /\ Spare(op[o]) = op[o].queue
    BY <2>2, <2>3 DEF Working, Pending, Spare
  <2>5. Hands(op'[o]) = Working(op'[o]) \cup Spare(op'[o]) /\ Spare(op[o]) \subseteq Hands(op[o])
    BY HandsAre
  <2>6. vm[v].task = None /\ None \notin {"clone", "destroy"}
    BY <1>1, <2>4, ConstantsOK DEF Sole, ConstantsOK
  <2>7. Sole(op'[o], owed[o], vm)
    BY <1>1, <2>3, <2>4, <2>5, <2>6 DEF Sole
  <2>. QED  BY <1>5, <2>2, <2>7
<1>9. CASE Interrupt(o)
  <2>1. op'[o] = [op[o] EXCEPT !.cancelled = TRUE] /\ UNCHANGED owed
    BY <1>1, <1>9 DEF Interrupt
  <2>2. /\ op'[o].req = op[o].req /\ op'[o].pc = op[o].pc /\ op'[o].vmid = op[o].vmid
        /\ op'[o].made = op[o].made /\ op'[o].queue = op[o].queue /\ op'[o].cmd = op[o].cmd
    BY <1>1, <2>1 DEF Run
  <2>3. /\ Working(op'[o]) = Working(op[o]) /\ Spare(op'[o]) = Spare(op[o])
        /\ Hands(op'[o]) = Hands(op[o])
    BY <2>2 DEF Working, Pending, Spare, Hands
  <2>4. Sole(op'[o], owed[o], vm)
    BY <1>1, <2>2, <2>3 DEF Sole
  <2>. QED  BY <1>5, <2>1, <2>4
<1>. QED  BY <1>3, <1>4, <1>6, <1>7, <1>8, <1>9

\* A call of terminal o is accepted: on a VM that only it owes, or on an id
\* that nobody owes.
LEMMA SeparateSend ==
  ASSUME ConstantsOK, TypeOK, Custody, Separate, NEW o \in Ops, Send(o) \/ SendLost(o)
  PROVE  Separate'
<1>. DEFINE v == op[o].vmid  x == Locked(o, v, op[o].pc)
<1>1. /\ op[o] \in Run /\ op \in [Ops -> Run] /\ op[o].pc \in Steps /\ op[o].req = "unsent"
      /\ v \in VMIDs /\ vm[v] \in VM /\ vm \in [VMIDs -> VM] /\ vm' = [vm EXCEPT ![v] = x]
      /\ op' = [op EXCEPT ![o] = op'[o]] /\ Sole(op[o], owed[o], vm)
  BY DEF Send, SendLost, Accept, TypeOK, Separate
<1>2. x.st # "free" /\ x.by = o
  <2>1. CASE op[o].pc = "clone"
    BY <2>1 DEF Locked, FreeVM
  <2>2. CASE op[o].pc # "clone"
    <3>1. vm[v].st # "free"
      BY <1>1, <2>2 DEF Send, SendLost, Accept, Accepts
    <3>. QED  BY <1>1, <2>2, <3>1 DEF Locked, VM
  <2>. QED  BY <2>1, <2>2
<1>. HIDE DEF x
<1>3. Existing' = Existing \cup {v}
  BY <1>1, <1>2 DEF Existing
<1>4. v \notin Spare(op[o]) /\ (op[o].pc # "clone" => v \in owed[o])
  <2>1. CASE op[o].pc = "clone"
    <3>1. v \notin Existing
      BY <1>1, <2>1 DEF Send, SendLost, Accept, Accepts, Existing
    <3>2. Spare(op[o]) \subseteq Existing
      BY <1>1, HandsAre DEF Sole, Separate
    <3>. QED  BY <2>1, <3>1, <3>2
  <2>2. CASE op[o].pc # "clone"
    <3>1. Working(op[o]) = {v}
      BY <1>1, <2>2 DEF Working, Pending
    <3>. QED  BY <1>1, <3>1, HandsAre DEF Sole
  <2>. QED  BY <2>1, <2>2
<1>5. /\ \A p \in Ops \ {o} : op'[p] = op[p] /\ owed'[p] = owed[p] /\ v \notin owed[p]
      /\ owed'[o] = owed[o] \cup {v}
  <2>1. CASE op[o].pc = "clone"
    <3>1. owed' = [owed EXCEPT ![o] = owed[o] \cup {v}]
      BY <2>1 DEF Send, SendLost, Accept
    <3>2. v \notin Existing
      BY <1>1, <2>1 DEF Send, SendLost, Accept, Accepts, Existing
    <3>. QED  BY <1>1, <3>1, <3>2 DEF Separate, TypeOK
  <2>2. CASE op[o].pc # "clone"
    <3>1. owed' = owed /\ v \in owed[o]
      BY <1>4, <2>2 DEF Send, SendLost, Accept
    <3>2. owed[o] \cup {v} = owed[o]
      BY <3>1
    <3>. QED  BY <1>1, <3>1, <3>2 DEF Separate
  <2>. QED  BY <2>1, <2>2
<1>6. Sole(op'[o], owed'[o], vm')
  <2>0. None \notin Steps /\ None \notin {"clone", "destroy"}
    BY ConstantsOK DEF ConstantsOK
  <2>1. \A w \in Spare(op[o]) : vm'[w].task = None
    <3>1. Spare(op[o]) \subseteq VMIDs
      BY <1>1 DEF Spare, Run
    <3>. QED  BY <1>1, <1>4, <3>1 DEF Sole
  <2>2. CASE Send(o)
    <3>1. op'[o] = [op[o] EXCEPT !.req = "running"]
      BY <1>1, <2>2 DEF Send
    <3>2. /\ op'[o].req = "running" /\ op'[o].pc = op[o].pc /\ op'[o].vmid = v
          /\ op'[o].made = op[o].made /\ op'[o].queue = op[o].queue /\ op'[o].cmd = op[o].cmd
      BY <1>1, <3>1 DEF Run
    <3>3. Working(op'[o]) = {v} /\ Spare(op'[o]) = Spare(op[o])
      BY <1>1, <3>2 DEF Working, Pending, Spare
    <3>4. Hands(op'[o]) = {v} \cup Spare(op[o]) /\ Spare(op[o]) \subseteq Hands(op[o])
      BY <3>3, HandsAre
    <3>. HIDE DEF v
    <3>. QED  BY <1>1, <1>4, <1>5, <2>1, <3>2, <3>3, <3>4 DEF Sole
  <2>3. CASE SendLost(o)
    <3>1. op'[o] = CallFailed(op[o])
      BY <1>1, <2>3 DEF SendLost
    <3>2. op'[o].pc = "drain" /\ op'[o].cmd = op[o].cmd /\ Spare(op'[o]) = Spare(op[o])
      BY <1>1, <3>1 DEF CallFailed, GiveUp, Skip, Run, Spare
    <3>3. Working(op'[o]) = {} /\ Hands(op'[o]) = Spare(op[o]) /\ Spare(op[o]) \subseteq Hands(op[o])
      <4>1. Working(op'[o]) = {}
        BY <3>2 DEF Working
      <4>. QED  BY <3>2, <4>1, HandsAre
    <3>. HIDE DEF v
    <3>. QED  BY <1>1, <1>5, <2>1, <3>2, <3>3 DEF Sole
  <2>. QED  BY <2>2, <2>3
<1>7. ASSUME NEW p \in Ops \ {o} PROVE Sole(op'[p], owed'[p], vm')
  <2>1. Sole(op[p], owed[p], vm) /\ v \notin Hands(op[p]) /\ op[p] \in Run
    BY <1>1, <1>5 DEF Separate, Sole
  <2>2. Spare(op[p]) \subseteq VMIDs /\ Working(op[p]) \subseteq VMIDs
    BY <2>1 DEF Spare, Working, Run, TypeOK
  <2>3. \A w \in VMIDs : w # v => vm'[w] = vm[w]
    BY <1>1
  <2>4. v \notin Spare(op[p]) /\ v \notin Working(op[p])
    BY <2>1, HandsAre
  <2>. HIDE DEF v
  <2>. QED  BY <1>5, <2>1, <2>2, <2>3, <2>4 DEF Sole
<1>8. ASSUME NEW p \in Ops, NEW w \in owed'[p], vm'[w].task # None PROVE vm'[w].by = p
  <2>. HIDE DEF v
  <2>1. CASE w = v
    BY <1>1, <1>2, <1>5, <2>1
  <2>2. CASE w # v
    <3>1. w \in owed[p] /\ w \in VMIDs
      BY <1>5, <2>2 DEF TypeOK
    <3>2. vm'[w] = vm[w]
      BY <1>1, <2>2, <3>1
    <3>. QED  BY <1>8, <3>1, <3>2 DEF Separate
  <2>. QED  BY <2>1, <2>2
<1>9. ASSUME NEW p \in Ops, NEW q \in Ops, p # q PROVE owed'[p] \cap owed'[q] = {}
  <2>. HIDE DEF v
  <2>1. owed[p] \cap owed[q] = {}
    BY <1>9 DEF Separate
  <2>. QED  BY <1>5, <1>9, <2>1
<1>10. \A p \in Ops : owed'[p] \subseteq Existing' /\ Sole(op'[p], owed'[p], vm')
  <2>. HIDE DEF v
  <2>. QED  BY <1>3, <1>5, <1>6, <1>7 DEF Separate
<1>. QED  BY <1>8, <1>9, <1>10 DEF Separate

\* A task ends: if its VM is gone, it was in nobody's hands, or the run that
\* asked for that knows.
LEMMA SeparateFinish ==
  ASSUME ConstantsOK, TypeOK, Ledger, Custody, Separate, NEW v \in VMIDs, vm[v].task # None,
         NEW x, NEW q \in {"ok", "err"}, Finish(v, x, q), x.task = None,
         x.st = "free" => x = FreeVM,
         x = FreeVM => <<vm[v].task, q>> \in {<<"clone", "err">>, <<"destroy", "ok">>}
  PROVE  Separate'
<1>1. /\ vm \in [VMIDs -> VM] /\ vm' = [vm EXCEPT ![v] = x] /\ vm[v].st # "free"
      /\ None \notin {"clone", "destroy"}
  BY ConstantsOK DEF Finish, TypeOK, Custody, FreeVM, ConstantsOK
<1>2. \A p \in Ops : owed'[p] = IF x = FreeVM THEN owed[p] \ {v} ELSE owed[p]
  BY DEF Finish
<1>3. Existing' = IF x = FreeVM THEN Existing \ {v} ELSE Existing
  BY <1>1 DEF Existing, FreeVM
<1>4. ASSUME NEW p \in Ops PROVE Sole(op'[p], owed'[p], vm')
  <2>1. /\ op[p] \in Run /\ Sole(op[p], owed[p], vm)
        /\ op[p].req = "running" => vm[op[p].vmid].task = op[p].pc /\ vm[op[p].vmid].by = p
        /\ v \in owed[p] => vm[v].by = p
    BY DEF TypeOK, Ledger, Polls, Separate
  <2>2. \/ op'[p] = op[p] /\ ~Awaits(p, v)
        \/ op[p].req = "running" /\ op[p].vmid = v /\ vm[v].task = op[p].pc
           /\ op'[p] = [op[p] EXCEPT !.req = q]
    BY DEF Finish, Awaits
  <2>3. /\ op'[p].cmd = op[p].cmd /\ op'[p].pc = op[p].pc /\ Spare(op'[p]) = Spare(op[p])
        /\ op'[p].vmid = op[p].vmid /\ Working(op'[p]) \subseteq Working(op[p])
    BY <2>1, <2>2 DEF Spare, Working, Pending, Run
  <2>4. v \notin Spare(op[p])
    BY <2>1 DEF Sole
  <2>5. \A w \in Spare(op'[p]) : vm'[w].task = None /\ w \notin Working(op'[p])
    <3>1. Spare(op[p]) \subseteq VMIDs
      BY <2>1 DEF Spare, Run
    <3>. QED  BY <1>1, <2>1, <2>3, <2>4, <3>1 DEF Sole
  <2>6. x = FreeVM => v \notin Working(op'[p])
    <3>. SUFFICES ASSUME x = FreeVM, v \in Working(op[p]) PROVE v \notin Working(op'[p])
      BY <2>3
    <3>1. op[p].vmid = v /\ v \in owed[p] /\ op[p].pc \in Steps
      BY <2>1, HandsAre DEF Sole, Working
    <3>2. op[p].req = "running"
      BY <2>1 DEF Sole
    <3>3. op'[p] = [op[p] EXCEPT !.req = q] /\ vm[v].task = op[p].pc
      BY <2>1, <2>2, <3>1, <3>2 DEF Awaits
    <3>4. op'[p].req = q
      BY <2>1, <3>3 DEF Run
    <3>. QED  BY <2>3, <3>3, <3>4 DEF Working, Pending
  <2>7. ASSUME NEW w \in Working(op'[p])
        PROVE  /\ op'[p].req # "running" => vm'[w].task \notin {"clone", "destroy"}
               /\ op'[p].pc \in CreateSteps /\ op'[p].req # "running" => vm'[w].task = None
    <3>1. w \in VMIDs /\ w = op[p].vmid
      BY <2>3, <2>7 DEF Working, TypeOK
    <3>2. CASE w = v
      BY <1>1, <3>2
    <3>3. CASE w # v
      <4>1. op'[p] = op[p] /\ vm'[w] = vm[w]
        BY <1>1, <2>2, <3>1, <3>3
      <4>. QED  BY <2>1, <2>7, <4>1 DEF Sole
    <3>. QED  BY <3>2, <3>3
  <2>8. Hands(op'[p]) \subseteq owed'[p]
    <3>1. /\ Hands(op'[p]) = Working(op'[p]) \cup Spare(op'[p])
          /\ Hands(op[p]) = Working(op[p]) \cup Spare(op[p])
      BY HandsAre
    <3>. QED  BY <1>2, <2>1, <2>3, <2>4, <2>6, <3>1 DEF Sole
  <2>. QED  BY <2>1, <2>3, <2>5, <2>7, <2>8 DEF Sole
<1>5. ASSUME NEW p \in Ops, NEW w \in owed'[p], vm'[w].task # None PROVE vm'[w].by = p
  <2>1. w \in owed[p] /\ w \in VMIDs
    BY <1>2, <1>5 DEF TypeOK
  <2>2. w # v
    BY <1>1, <1>5, <2>1
  <2>. QED  BY <1>1, <1>5, <2>1, <2>2 DEF Separate
<1>6. \A p \in Ops : owed'[p] \subseteq owed[p] /\ owed'[p] \subseteq Existing'
  <2>. TAKE p \in Ops
  <2>1. owed[p] \subseteq Existing
    BY DEF Separate
  <2>2. CASE x = FreeVM
    BY <1>2, <1>3, <2>1, <2>2
  <2>3. CASE x # FreeVM
    BY <1>2, <1>3, <2>1, <2>3
  <2>. QED  BY <2>2, <2>3
<1>. QED  BY <1>4, <1>5, <1>6 DEF Separate

\* Where no terminal runs delete, they stay separate.
LEMMA SeparateStep ==
  ASSUME ConstantsOK, NoDeletes, TypeOK, Ledger, Custody, Separate, [Next]_vars
  PROVE  Separate'
<1>1. ASSUME NEW v \in VMIDs, TaskSucceeds(v) \/ TaskFails(v) PROVE Separate'
  <2>1. vm[v] \in VM /\ vm[v].task # None /\ vm[v].st # "free" /\ None \notin Steps
    BY <1>1, ConstantsOK DEF TaskSucceeds, TaskFails, Custody, FreeVM, TypeOK, ConstantsOK
  <2>2. /\ TaskDone(vm[v]).st = "free" => TaskDone(vm[v]) = FreeVM
        /\ TaskFailed(vm[v]).st = "free" => TaskFailed(vm[v]) = FreeVM
        /\ TaskDone(vm[v]) = FreeVM => vm[v].task = "destroy"
        /\ TaskFailed(vm[v]) = FreeVM => vm[v].task = "clone"
    BY <2>1 DEF TaskDone, TaskFailed, Unlocked, VM, FreeVM
  <2>3. TaskDone(vm[v]).task = None /\ TaskFailed(vm[v]).task = None
    BY <1>1, <2>1, ConstantsOK, VMHelpersType DEF TypeOK
  <2>. QED  BY <1>1, <2>1, <2>2, <2>3, ConstantsOK, SeparateFinish DEF TaskSucceeds, TaskFails
<1>2. ASSUME NEW o \in Ops, Start(o) \/ Progress(o) \/ Interrupt(o) \/ Crash(o) PROVE Separate'
  BY <1>2, ConstantsOK, SeparateWalks, SeparateSend DEF Progress
<1>3. CASE UNCHANGED vars
  BY <1>3 DEF vars, Separate, Existing
<1>. QED  BY <1>1, <1>2, <1>3 DEF Next

\* Where there is one terminal, or none runs delete, no id of a VM in the hands
\* of a run is ever given to another: overlapping creates, that ask for the
\* same id and whose clones race, leave each other's VMs alone, whatever fails
\* (provider.go:164-168).
THEOREM NobodyTakes == ASSUME Alone \/ NoDeletes PROVE Spec => UntakenSpec
<1>1. CASE Alone
  <2>1. [Next]_vars => [Next /\ NothingTaken]_vars
    BY <1>1 DEF Alone, NothingTaken
  <2>. QED  BY <2>1, PTL DEF Spec, UntakenSpec
<1>2. CASE NoDeletes
  <2>1. Init => Ledger /\ Custody /\ Separate
    <3>1. Init => Ledger
      BY DEF Init, Ledger, AnswersFor, Books, Polls, Fresh
    <3>2. Init => Custody
      BY DEF Init, Custody, Hands, Working, Fresh, FreeVM
    <3>3. Init => Separate
      BY DEF Init, Separate, Sole, Hands, Working, Spare, Fresh, Existing
    <3>. QED  BY <3>1, <3>2, <3>3
  <2>2. TypeOK /\ Ledger /\ Custody /\ Separate /\ [Next]_vars
        => [Next /\ NothingTaken]_vars /\ Ledger' /\ Custody' /\ Separate'
    <3>. SUFFICES ASSUME TypeOK, Ledger, Custody, Separate, [Next]_vars
                  PROVE  [Next /\ NothingTaken]_vars /\ Ledger' /\ Custody' /\ Separate'
      OBVIOUS
    <3>1. [Next /\ NothingTaken]_vars
      BY SeparateUntaken
    <3>2. Ledger' /\ Custody'
      BY <3>1, ConstantsOK, LedgerStep, CustodyStep
    <3>3. Separate'
      BY <1>2, ConstantsOK, SeparateStep
    <3>. QED  BY <3>1, <3>2, <3>3
  <2>. QED  BY <2>1, <2>2, TypeCorrect, PTL DEF Spec, UntakenSpec
<1>. QED  BY <1>1, <1>2

\* So there create acts only on what it made and delete on what it found
\* (ActsOnlyOnOwed), ...
THEOREM CreatesKeepApart == ASSUME Alone \/ NoDeletes PROVE Spec => ActsOnlyOnOwed
BY NobodyTakes, OwnMachinesOnly

\* ... and every run keeps the promise of module Sessions (Implements).
THEOREM CreatesKeepPromise == ASSUME Alone \/ NoDeletes PROVE Spec => Implements
BY NobodyTakes, PromiseKept
=============================================================================
