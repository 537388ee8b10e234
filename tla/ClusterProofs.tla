---------------------------- MODULE ClusterProofs ----------------------------
(***************************************************************************)
(* Proofs that create and delete get a cluster right when it is worked on  *)
(* from one terminal at a time, for any number of clusters and terminals,  *)
(* whether or not Proxmox hands ids out again: if no run abandons a call   *)
(* (no reply or poll is lost, no run is killed or interrupted; calls and   *)
(* tasks may fail and phase 5 may time out), no name is there twice, a     *)
(* create that is done is complete and a delete that is done left nothing, *)
(* whatever the runs before left.                                          *)
(*                                                                         *)
(* It rests on what a run knows of its VMs: they are as its last answered  *)
(* call left them.                                                         *)
(***************************************************************************)
EXTENDS ProvisioningProofs

USE DEF CreateSteps, DeleteSteps, Steps, Ended

\* Each cluster has a terminal of its own.
OnePerCluster == \A o, p \in Ops : ClusterOf[o] = ClusterOf[p] => o = p
\* Every run waits for the answer to every call it makes.
NothingAbandoned == Trouble \cap {"lost", "poll", "crash", "interrupt"} = {}

\* The VMs m that carry the tag of cluster c, and their names.
Of(c, m) == {v \in VMIDs : m[v].tag = c}
NamesOf(c, m) == {m[v].name : v \in Of(c, m)}

\* The VM that a create is making exists, and has its tag.
Holding(r) == r.pc \in {"config", "resize", "start"} \/ (r.pc = "clone" /\ r.req \in {"running", "ok"})
Tagged(r) == r.pc \in {"resize", "start"} \/ (r.pc = "config" /\ r.req = "ok")

\* What a run r of cluster c knows of the VMs m: the one that it is making...
Knows(c, r, m) ==
  Holding(r) => /\ m[r.vmid].st # "free" /\ m[r.vmid].name = r.name
                /\ m[r.vmid].tag = IF Tagged(r) THEN c ELSE None
\* ... while it creates: those that it found or made are the cluster, and with
\* those still to be made they have all the names, each once;
Plans(c, r, m) ==
  /\ r.pc \in {"list", "next", "ready"} => r.name = None
  /\ r.pc = "list" => r.made = {}
  /\ r.pc \in CreateSteps \cup {"next", "ready"} =>
       /\ Of(c, m) = r.seen \cup r.made \cup (IF Tagged(r) THEN {r.vmid} ELSE {})
       /\ Want[c] \subseteq NamesOf(c, m) \cup r.todo \cup {r.name}
       /\ r.todo \cap NamesOf(c, m) = {} /\ r.name \notin r.todo
  /\ r.pc \in CreateSteps => r.name \in Names /\ (~Tagged(r) => r.name \notin NamesOf(c, m))
\* while it waits, and when it is done: those it does not wait for are up;
Waits(c, r, m) ==
  /\ r.pc = "ready" =>
       r.todo = {} /\ \A v \in Of(c, m) \ r.queue : m[v].st = "running"
  /\ r.pc = "done" /\ r.cmd = "create" =>
       Want[c] \subseteq NamesOf(c, m) /\ \A v \in Of(c, m) : m[v].st = "running"
\* while it deletes or rolls back: what is queued is there, and for delete the
\* cluster is what is queued, in hand or noted.
Drains(c, r, m) ==
  /\ r.pc \in DeleteSteps \cup {"drain"} =>
       /\ r.queue \subseteq Of(c, m) /\ r.vmid \notin r.queue
       /\ r.cmd = "delete" => Of(c, m) \subseteq r.queue \cup r.failed \cup {r.vmid}
  /\ r.pc = "stop" \/ (r.pc = "destroy" /\ r.req # "ok") => r.vmid \in Of(c, m)
  /\ r.pc = "destroy" /\ r.req = "ok" => r.vmid \notin Of(c, m)
  /\ r.pc = "done" /\ r.cmd = "delete" => Of(c, m) = {}
Unique(c, m) == \A v, w \in Of(c, m) : m[v].name = m[w].name => v = w

Right(c, r, m) ==
  Knows(c, r, m) /\ Plans(c, r, m) /\ Waits(c, r, m) /\ Drains(c, r, m)
\* Every task is polled, and by the run that owns the VM.
AllPolled ==
  /\ \A o \in Ops : ~op[o].cancelled
  /\ \A v \in VMIDs : vm[v].task # None => Awaits(vm[v].by, v)
  /\ \A v \in VMIDs : vm[v].st = "free" => vm[v] = FreeVM
\* No two runs make the same VM.
Apart == \A o, p \in Ops : Holding(op[o]) /\ Holding(op[p]) /\ op[o].vmid = op[p].vmid => o = p
AllRight ==
  /\ AllPolled /\ Apart
  /\ \A c \in Clusters : Unique(c, vm)
  /\ \A o \in Ops : Right(ClusterOf[o], op[o], vm)

-----------------------------------------------------------------------------
(* What a run knows when it goes on and touches no VM                       *)

\* The run s follows r without a VM to make that r did not have.
Follows(r, s) ==
  /\ s.cancelled = r.cancelled
  /\ Holding(s) => Holding(r) /\ s.vmid = r.vmid

\* Where None is not.
LEMMA NoneApart ==
  ASSUME ConstantsOK, NEW r \in Run
  PROVE  /\ None \notin Names /\ None \notin VMIDs /\ None \notin Clusters /\ None \notin Steps
         /\ None \notin r.made /\ None \notin r.queue /\ None \notin r.todo /\ None \notin r.seen
<1>1. None \notin Names /\ None \notin VMIDs /\ None \notin Clusters /\ None \notin Steps
  BY DEF ConstantsOK
<1>2. r.made \subseteq VMIDs /\ r.queue \subseteq VMIDs /\ r.todo \subseteq Names /\ r.seen \subseteq VMIDs
  BY DEF Run
<1>. QED  BY <1>1, <1>2

\* After an end that promises nothing.
LEMMA RightEnded ==
  ASSUME NEW c, NEW r, NEW m, r.pc \in {"idle", "failed", "unready"}
  PROVE  Right(c, r, m) /\ ~Holding(r)
BY DEF Right, Knows, Plans, Waits, Drains, Holding

\* CreateNode failed: what was returned is tagged and will be rolled back.
LEMMA RightGiveUp ==
  ASSUME ConstantsOK, NEW c, NEW r \in Run, NEW m, Right(c, r, m),
         r.pc \in CreateSteps \cup {"next"}, r.cmd = "create", NEW s, s = GiveUp(r)
  PROVE  Right(c, s, m) /\ Follows(r, s)
<1>1. /\ s.pc = "drain" /\ s.req = "unsent" /\ s.vmid = None /\ s.name = None
      /\ s.queue = r.made /\ s.cmd = "create" /\ s.cancelled = r.cancelled
  BY DEF GiveUp, Run
<1>2. r.made \subseteq Of(c, m)
  BY DEF Right, Plans
<1>. QED  BY <1>1, <1>2, NoneApart DEF Right, Knows, Plans, Waits, Drains, Holding, Follows

\* DeleteNode failed: its VM is noted.
LEMMA RightSkip ==
  ASSUME ConstantsOK, NEW c, NEW r \in Run, NEW m, Right(c, r, m), r.pc \in DeleteSteps,
         NEW s, s = Skip(r)
  PROVE  Right(c, s, m) /\ Follows(r, s)
<1>1. /\ s.pc = "drain" /\ s.req = "unsent" /\ s.vmid = None /\ s.queue = r.queue
      /\ s.failed = r.failed \cup {r.vmid} /\ s.cmd = r.cmd /\ s.cancelled = r.cancelled
  BY DEF Skip, Run
<1>2. /\ r.queue \subseteq Of(c, m)
      /\ r.cmd = "delete" => Of(c, m) \subseteq r.queue \cup r.failed \cup {r.vmid}
  BY DEF Right, Drains
<1>. QED  BY <1>1, <1>2, NoneApart DEF Right, Knows, Plans, Waits, Drains, Holding, Follows

\* A step of CreateNode or DeleteNode is over.
LEMMA RightAdvance ==
  ASSUME ConstantsOK, NEW c, NEW r \in Run, NEW m, Right(c, r, m), r.pc \in Steps,
         r.req = "ok" \/ r.pc = "stop", NEW s, s = Advance(r)
  PROVE  Right(c, s, m) /\ Follows(r, s)
<1>1. /\ s.pc = After(r.pc) /\ s.req = "unsent" /\ s.made = Returned(r) /\ s.seen = r.seen
      /\ s.todo = r.todo /\ s.queue = r.queue /\ s.failed = r.failed /\ s.cmd = r.cmd
      /\ s.cancelled = r.cancelled
      /\ s.name = IF r.pc \in {"start", "destroy"} THEN None ELSE r.name
      /\ s.vmid = IF r.pc \in {"start", "destroy"} THEN None ELSE r.vmid
  BY DEF Advance, Run
<1>2. CASE r.pc \in {"clone", "config", "resize"}
  <2>1. /\ s.pc \in {"config", "resize", "start"} /\ s.made = r.made
        /\ s.name = r.name /\ s.vmid = r.vmid /\ Holding(r) /\ Holding(s)
        /\ Tagged(s) <=> Tagged(r)
    BY <1>1, <1>2 DEF After, Returned, Holding, Tagged
  <2>2. Knows(c, s, m)
    BY <2>1 DEF Right, Knows
  <2>3. Plans(c, s, m)
    BY <1>1, <1>2, <2>1 DEF Right, Plans
  <2>. QED  BY <1>1, <2>1, <2>2, <2>3 DEF Right, Waits, Drains, Follows
<1>3. CASE r.pc = "start"
  <2>1. /\ Of(c, m) = r.seen \cup r.made \cup {r.vmid} /\ m[r.vmid].name = r.name
        /\ Want[c] \subseteq NamesOf(c, m) \cup r.todo \cup {r.name}
        /\ r.todo \cap NamesOf(c, m) = {}
    BY <1>3 DEF Right, Knows, Plans, Holding, Tagged
  <2>2. r.name \in NamesOf(c, m)
    BY <2>1 DEF NamesOf
  <2>3. s.pc = "next" /\ s.made = r.made \cup {r.vmid} /\ s.name = None
    BY <1>1, <1>3 DEF After, Returned
  <2>. QED
    BY <1>1, <2>1, <2>2, <2>3, NoneApart
       DEF Right, Knows, Plans, Waits, Drains, Holding, Tagged, Follows
<1>4. CASE r.pc = "stop"
  <2>1. s.pc = "destroy" /\ s.vmid = r.vmid
    BY <1>1, <1>4 DEF After
  <2>. QED
    BY <1>1, <1>4, <2>1 DEF Right, Knows, Plans, Waits, Drains, Holding, Tagged, Follows
<1>5. CASE r.pc = "destroy"
  <2>1. s.pc = "drain" /\ s.vmid = None
    BY <1>1, <1>5 DEF After
  <2>. QED
    BY <1>1, <1>5, <2>1, NoneApart
       DEF Right, Knows, Plans, Waits, Drains, Holding, Tagged, Follows
<1>. QED  BY <1>2, <1>3, <1>4, <1>5

\* A step of one terminal that touches no VM, and waits for none.
LEMMA RightRunStep ==
  ASSUME ConstantsOK, TypeOK, AllRight, NEW o \in Ops, op' = [op EXCEPT ![o] = op'[o]],
         UNCHANGED vm, op[o].req # "running", Follows(op[o], op'[o]),
         Right(ClusterOf[o], op'[o], vm)
  PROVE  AllRight'
<1>1. \A p \in Ops \ {o} : op'[p] = op[p]
  BY DEF TypeOK
<1>2. AllPolled'
  <2>1. \A v \in VMIDs : Awaits(vm[v].by, v) => vm[v].by # o
    BY DEF Awaits
  <2>2. ASSUME NEW v \in VMIDs, vm[v].task # None PROVE Awaits(vm[v].by, v)'
    <3>1. Awaits(vm[v].by, v) /\ vm[v].by \in Ops \ {o}
      BY <2>1, <2>2 DEF AllRight, AllPolled, TypeOK
    <3>. QED  BY <1>1, <3>1 DEF Awaits
  <2>3. \A p \in Ops : ~op'[p].cancelled
    BY <1>1 DEF AllRight, AllPolled, Follows
  <2>. QED  BY <2>2, <2>3 DEF AllRight, AllPolled
<1>3. Apart'
  BY <1>1 DEF AllRight, Apart, Follows
<1>4. ASSUME NEW p \in Ops PROVE Right(ClusterOf[p], op'[p], vm')
  BY <1>1 DEF AllRight
<1>. QED  BY <1>2, <1>3, <1>4 DEF AllRight

\* What the steps of a run that touch no VM leave to it is right.
LEMMA RightLists ==
  ASSUME ConstantsOK, TypeOK, Ledger, AllRight, NEW o \in Ops,
         Start(o) \/ ListCreate(o) \/ ListDelete(o) \/ ListFails(o)
  PROVE  AllRight'
<1>. DEFINE c == ClusterOf[o]
<1>1. /\ op[o] \in Run /\ op[o].req = "unsent" /\ ~op[o].cancelled /\ Right(c, op[o], vm)
      /\ op[o].pc = "list" => op[o].vmid = None
      /\ op' = [op EXCEPT ![o] = op'[o]] /\ UNCHANGED vm /\ Listed(c) = Of(c, vm)
  BY DEF Start, ListCreate, ListDelete, ListFails, Ledger, Books, AllRight, AllPolled, TypeOK,
         Listed, Of
<1>2. Right(c, op'[o], vm) /\ Follows(op[o], op'[o])
  <2>1. CASE Start(o)
    <3>1. PICK cmd \in Cmds[o] : op'[o] = [Fresh(cmd) EXCEPT !.pc = "list"]
      BY <2>1 DEF Start, TypeOK
    <3>2. /\ op'[o].pc = "list" /\ op'[o].name = None /\ op'[o].made = {}
          /\ op'[o].cancelled = op[o].cancelled /\ op'[o].req = "unsent"
      BY <1>1, <3>1 DEF Fresh, Run
    <3>. QED
      BY <1>1, <3>2 DEF Right, Knows, Plans, Waits, Drains, Holding, Follows
  <2>2. CASE ListCreate(o)
    <3>1. /\ op[o].pc = "list" /\ op[o].cmd = "create"
          /\ op'[o] = [op[o] EXCEPT !.pc = "next", !.seen = Of(c, vm),
                                    !.todo = Missing(c, Of(c, vm))]
      BY <1>1, <2>2 DEF ListCreate, TypeOK
    <3>2. /\ op'[o].pc = "next" /\ op'[o].seen = Of(c, vm) /\ op'[o].todo = Want[c] \ NamesOf(c, vm)
          /\ op'[o].name = op[o].name /\ op'[o].made = op[o].made /\ op'[o].req = "unsent"
          /\ op'[o].cancelled = op[o].cancelled
      BY <1>1, <3>1 DEF Run, Missing, NamesOf
    <3>3. op[o].name = None /\ op[o].made = {}
      BY <1>1, <3>1 DEF Right, Plans
    <3>4. None \notin Want[c]
      BY NoneApart, <1>1 DEF ConstantsOK
    <3>. QED
      BY <3>2, <3>3, <3>4 DEF Right, Knows, Plans, Waits, Drains, Holding, Tagged, Follows
  <2>3. CASE ListDelete(o)
    <3>1. /\ op[o].pc = "list" /\ op[o].cmd = "delete"
          /\ op'[o] = [op[o] EXCEPT !.pc = IF Of(c, vm) = {} THEN "done" ELSE "drain",
                                    !.queue = Of(c, vm)]
      BY <1>1, <2>3 DEF ListDelete, TypeOK
    <3>2. /\ op'[o].pc = IF Of(c, vm) = {} THEN "done" ELSE "drain"
          /\ op'[o].queue = Of(c, vm) /\ op'[o].vmid = None /\ op'[o].cmd = "delete"
          /\ op'[o].cancelled = op[o].cancelled
      BY <1>1, <3>1 DEF Run
    <3>3. None \notin Of(c, vm)
      BY NoneApart, <1>1 DEF Of
    <3>. QED
      BY <3>2, <3>3 DEF Right, Knows, Plans, Waits, Drains, Holding, Tagged, Follows
  <2>4. CASE ListFails(o)
    <3>1. op'[o] = [op[o] EXCEPT !.pc = "failed"]
      BY <1>1, <2>4 DEF ListFails, TypeOK
    <3>2. op'[o].pc = "failed" /\ op'[o].cancelled = op[o].cancelled
      BY <1>1, <3>1 DEF Run
    <3>. QED  BY <3>2, RightEnded DEF Follows
  <2>. QED  BY <2>1, <2>2, <2>3, <2>4
<1>. QED  BY <1>1, <1>2, RightRunStep

\* The loop of provisionNodes.
LEMMA RightPicks ==
  ASSUME ConstantsOK, TypeOK, Ledger, AllRight, NEW o \in Ops,
         PickVMID(o) \/ PickFails(o) \/ AllCreated(o)
  PROVE  AllRight'
<1>. DEFINE c == ClusterOf[o]
<1>1. /\ op[o] \in Run /\ op[o].pc = "next" /\ op[o].req = "unsent" /\ ~op[o].cancelled
      /\ Right(c, op[o], vm) /\ op[o].cmd = "create"
      /\ op' = [op EXCEPT ![o] = op'[o]] /\ UNCHANGED vm
  BY DEF PickVMID, PickFails, AllCreated, Ledger, Books, AllRight, AllPolled, TypeOK
<1>2. /\ op[o].name = None /\ op[o].todo \subseteq Names /\ Want[c] \subseteq Names
      /\ Of(c, vm) = op[o].seen \cup op[o].made
      /\ Want[c] \subseteq NamesOf(c, vm) \cup op[o].todo
      /\ op[o].todo \cap NamesOf(c, vm) = {}
  <2>1. Want[c] \subseteq Names /\ None \notin Names
    BY <1>1, NoneApart DEF ConstantsOK
  <2>. QED  BY <1>1, <2>1 DEF Right, Plans, Tagged, Run
<1>3. Right(c, op'[o], vm) /\ Follows(op[o], op'[o])
  <2>1. CASE PickVMID(o)
    <3>1. PICK n \in op[o].todo, v \in FreeIds : op'[o] = PickedRun(op[o], n, v)
      BY <2>1 DEF PickVMID, PickedRun, TypeOK
    <3>2. /\ op'[o].pc = "clone" /\ op'[o].name = n /\ op'[o].todo = op[o].todo \ {n}
          /\ op'[o].seen = op[o].seen /\ op'[o].made = op[o].made /\ op'[o].req = "unsent"
          /\ op'[o].cancelled = op[o].cancelled
      BY <1>1, <3>1 DEF PickedRun, Run
    <3>. QED
      BY <1>2, <3>2 DEF Right, Knows, Plans, Waits, Drains, Holding, Tagged, Follows
  <2>2. CASE PickFails(o)
    <3>1. op'[o] = GiveUp(op[o])
      BY <2>2 DEF PickFails, TypeOK
    <3>. QED  BY <1>1, <3>1, RightGiveUp
  <2>3. CASE AllCreated(o)
    <3>1. op'[o] = [op[o] EXCEPT !.pc = "ready", !.queue = ToAwait(op[o])] /\ op[o].todo = {}
      BY <2>3 DEF AllCreated, TypeOK
    <3>2. /\ op'[o].pc = "ready" /\ op'[o].queue = Of(c, vm) /\ op'[o].todo = {}
          /\ op'[o].seen = op[o].seen /\ op'[o].made = op[o].made /\ op'[o].name = None
          /\ op'[o].cancelled = op[o].cancelled
      BY <1>1, <1>2, <3>1 DEF ToAwait, Run
    <3>3. None \notin op'[o].todo
      BY <3>2
    <3>. QED
      BY <1>2, <3>1, <3>2, <3>3 DEF Right, Knows, Plans, Waits, Drains, Holding, Tagged, Follows
  <2>. QED  BY <2>1, <2>2, <2>3
<1>. QED  BY <1>1, <1>3, RightRunStep

\* The answers to its calls.
LEMMA RightAnswers ==
  ASSUME ConstantsOK, TypeOK, Ledger, AllRight, NothingAbandoned, NEW o \in Ops,
         SendRefused(o) \/ AlreadyStopped(o) \/ PollOk(o) \/ PollFails(o)
  PROVE  AllRight'
<1>. DEFINE c == ClusterOf[o]
<1>1. /\ op[o] \in Run /\ op[o].pc \in Steps /\ ~op[o].cancelled /\ Right(c, op[o], vm)
      /\ op[o].pc \in CreateSteps => op[o].cmd = "create"
      /\ op' = [op EXCEPT ![o] = op'[o]] /\ UNCHANGED vm
  BY DEF SendRefused, AlreadyStopped, NotRunning, PollOk, PollFails, Ledger, Books,
         AllRight, AllPolled, TypeOK
<1>2. ASSUME op'[o] = CallFailed(op[o]) PROVE Right(c, op'[o], vm) /\ Follows(op[o], op'[o])
  BY <1>1, <1>2, RightGiveUp, RightSkip DEF CallFailed
<1>3. ASSUME op'[o] = Advance(op[o]), op[o].req = "ok" \/ op[o].pc = "stop"
      PROVE  Right(c, op'[o], vm) /\ Follows(op[o], op'[o])
  BY <1>1, <1>3, RightAdvance
<1>4. op[o].req # "running" /\ Right(c, op'[o], vm) /\ Follows(op[o], op'[o])
  <2>1. CASE SendRefused(o)
    BY <1>2, <2>1 DEF SendRefused, TypeOK
  <2>2. CASE AlreadyStopped(o)
    BY <1>3, <2>2 DEF AlreadyStopped, NotRunning, TypeOK
  <2>3. CASE PollOk(o)
    BY <1>3, <2>3 DEF PollOk, TypeOK
  <2>4. CASE PollFails(o)
    <3>1. op[o].req = "err" /\ op'[o] = WaitFailed(op[o])
      BY <1>1, <2>4 DEF PollFails, Dead, Hits, NothingAbandoned, TypeOK
    <3>. QED  BY <1>2, <1>3, <3>1 DEF WaitFailed
  <2>. QED  BY <2>1, <2>2, <2>3, <2>4
<1>. QED  BY <1>1, <1>4, RightRunStep

\* Phase 5.
LEMMA RightWaits ==
  ASSUME ConstantsOK, TypeOK, Ledger, AllRight, NEW o \in Ops,
         WaitReady(o) \/ WaitTimeout(o) \/ AllReady(o)
  PROVE  AllRight'
<1>. DEFINE c == ClusterOf[o]
<1>1. /\ op[o] \in Run /\ op[o].pc = "ready" /\ op[o].req = "unsent" /\ ~op[o].cancelled
      /\ Right(c, op[o], vm) /\ op[o].cmd = "create"
      /\ op' = [op EXCEPT ![o] = op'[o]] /\ UNCHANGED vm
  BY DEF WaitReady, WaitTimeout, AllReady, Ledger, Books, AllRight, AllPolled, TypeOK
<1>2. /\ op[o].name = None /\ Want[c] \subseteq NamesOf(c, vm)
      /\ \A v \in Of(c, vm) \ op[o].queue : vm[v].st = "running"
  <2>1. Want[c] \subseteq Names /\ None \notin Names
    BY <1>1, NoneApart DEF ConstantsOK
  <2>. QED  BY <1>1, <2>1 DEF Right, Plans, Waits, Tagged
<1>3. Right(c, op'[o], vm) /\ Follows(op[o], op'[o])
  <2>1. CASE WaitReady(o)
    <3>1. PICK v \in op[o].queue :
            vm[v].st = "running" /\ op'[o] = [op[o] EXCEPT !.queue = op[o].queue \ {v}]
      BY <2>1 DEF WaitReady, TypeOK
    <3>2. /\ op'[o].pc = "ready" /\ op'[o].queue = op[o].queue \ {v} /\ op'[o].todo = op[o].todo
          /\ op'[o].seen = op[o].seen /\ op'[o].made = op[o].made /\ op'[o].name = None
          /\ op'[o].cancelled = op[o].cancelled
      BY <1>1, <1>2, <3>1 DEF Run
    <3>. QED
      BY <1>1, <1>2, <3>1, <3>2 DEF Right, Knows, Plans, Waits, Drains, Holding, Tagged, Follows
  <2>2. CASE WaitTimeout(o)
    <3>1. op'[o] = [op[o] EXCEPT !.pc = "unready"]
      BY <2>2 DEF WaitTimeout, TypeOK
    <3>2. op'[o].pc = "unready" /\ op'[o].cancelled = op[o].cancelled
      BY <1>1, <3>1 DEF Run
    <3>. QED  BY <3>2, RightEnded DEF Follows
  <2>3. CASE AllReady(o)
    <3>1. op'[o] = [op[o] EXCEPT !.pc = "done"] /\ op[o].queue = {}
      BY <2>3 DEF AllReady, TypeOK
    <3>2. op'[o].pc = "done" /\ op'[o].cmd = "create" /\ op'[o].cancelled = op[o].cancelled
      BY <1>1, <3>1 DEF Run
    <3>. QED
      BY <1>2, <3>1, <3>2 DEF Right, Knows, Plans, Waits, Drains, Holding, Tagged, Follows
  <2>. QED  BY <2>1, <2>2, <2>3
<1>. QED  BY <1>1, <1>3, RightRunStep

\* The loop of delete and of rollback.
LEMMA RightDrains ==
  ASSUME ConstantsOK, TypeOK, Ledger, AllRight, NEW o \in Ops, DeleteNext(o) \/ Drained(o)
  PROVE  AllRight'
<1>. DEFINE c == ClusterOf[o]
<1>1. /\ op[o] \in Run /\ op[o].pc = "drain" /\ op[o].req = "unsent" /\ ~op[o].cancelled
      /\ Right(c, op[o], vm) /\ op[o].vmid = None
      /\ op' = [op EXCEPT ![o] = op'[o]] /\ UNCHANGED vm
  BY DEF DeleteNext, Drained, Ledger, Books, AllRight, AllPolled, TypeOK
<1>2. /\ op[o].queue \subseteq Of(c, vm)
      /\ op[o].cmd = "delete" => Of(c, vm) \subseteq op[o].queue \cup op[o].failed
  <2>1. None \notin Of(c, vm)
    BY <1>1, NoneApart DEF Of
  <2>. QED  BY <1>1, <2>1 DEF Right, Drains
<1>3. Right(c, op'[o], vm) /\ Follows(op[o], op'[o])
  <2>1. CASE DeleteNext(o)
    <3>1. PICK v \in op[o].queue : op'[o] = VictimRun(op[o], v)
      BY <2>1 DEF DeleteNext, Victims, VictimRun, TypeOK
    <3>2. /\ op'[o].pc = "stop" /\ op'[o].vmid = v /\ op'[o].queue = op[o].queue \ {v}
          /\ op'[o].failed = op[o].failed /\ op'[o].cmd = op[o].cmd
          /\ op'[o].cancelled = op[o].cancelled
      BY <1>1, <3>1 DEF VictimRun, Run
    <3>. QED
      BY <1>2, <3>2 DEF Right, Knows, Plans, Waits, Drains, Holding, Tagged, Follows
  <2>2. CASE Drained(o)
    <3>1. /\ op'[o] = [op[o] EXCEPT !.pc = IF op[o].cmd = "delete" /\ op[o].failed = {}
                                           THEN "done" ELSE "failed"]
          /\ op[o].queue = {}
      BY <2>2 DEF Drained, TypeOK
    <3>2. /\ op'[o].pc = IF op[o].cmd = "delete" /\ op[o].failed = {} THEN "done" ELSE "failed"
          /\ op'[o].cmd = op[o].cmd /\ op'[o].cancelled = op[o].cancelled
      BY <1>1, <3>1 DEF Run
    <3>. QED
      BY <1>2, <3>1, <3>2 DEF Right, Knows, Plans, Waits, Drains, Holding, Tagged, Follows
  <2>. QED  BY <2>1, <2>2
<1>. QED  BY <1>1, <1>3, RightRunStep

-----------------------------------------------------------------------------
(* What the runs know when a call or a task changes VM v from m[v] to x     *)

Changes(m, n, v, x) == m \in [VMIDs -> VM] /\ n = [m EXCEPT ![v] = x]
\* It is the VM of run r, which is told so and becomes s.
Own(r, s, q, m, n, v, x) ==
  r.vmid = v /\ s = [r EXCEPT !.req = q] /\ Changes(m, n, v, x)
\* It is that of terminal o.
Touches(o, v, x, q) ==
  /\ op[o].vmid = v /\ op' = [op EXCEPT ![o] = [op[o] EXCEPT !.req = q]]
  /\ vm' = [vm EXCEPT ![v] = x]

\* The other clusters, whose tag v does not carry, see nothing of it.
LEMMA OthersRight ==
  ASSUME NEW c, NEW r \in Run, NEW m, NEW n, NEW v \in VMIDs, NEW x, Changes(m, n, v, x),
         r.pc \in Steps => r.vmid \in VMIDs, Right(c, r, m),
         m[v].tag # c, x.tag # c, ~(Holding(r) /\ r.vmid = v)
  PROVE  Right(c, r, n)
<1>1. n[v] = x /\ \A w \in VMIDs \ {v} : n[w] = m[w]
  BY DEF Changes
<1>2. Of(c, n) = Of(c, m) /\ \A w \in Of(c, m) : n[w] = m[w]
  BY <1>1 DEF Of
<1>3. NamesOf(c, n) = NamesOf(c, m)
  BY <1>2 DEF NamesOf
<1>4. Holding(r) => n[r.vmid] = m[r.vmid]
  BY <1>1 DEF Holding
<1>5. Knows(c, r, n)
  BY <1>4 DEF Right, Knows
<1>6. Plans(c, r, n)
  BY <1>2, <1>3 DEF Right, Plans
<1>7. Waits(c, r, n)
  BY <1>2, <1>3 DEF Right, Waits
<1>8. Drains(c, r, n)
  BY <1>2 DEF Right, Drains
<1>. QED  BY <1>5, <1>6, <1>7, <1>8 DEF Right
\* Nor do names come to be used twice there.
LEMMA OthersUnique ==
  ASSUME NEW c, NEW m, NEW n, NEW v \in VMIDs, NEW x, Changes(m, n, v, x),
         Unique(c, m), m[v].tag # c, x.tag # c
  PROVE  Unique(c, n)
BY DEF Changes, Unique, Of

\* The call of run r on VM v, or its end, that changes neither the VM's tag
\* nor its name.
LEMMA OwnSame ==
  ASSUME NEW c, NEW r \in Run, NEW m, NEW n, NEW v \in VMIDs, NEW x,
         NEW s, NEW q \in {"running", "ok", "err"}, Own(r, s, q, m, n, v, x),
         r.pc \in Steps, r.req \in {"unsent", "running"},
         x.name = m[v].name, x.tag = m[v].tag, x.st # "free",
         r.pc = "clone" => r.req = "running" /\ q = "ok",
         q = "ok" => r.pc \notin {"config", "destroy"},
         Right(c, r, m), Unique(c, m)
  PROVE  Right(c, s, n) /\ Unique(c, n)
<1>1. n[v] = x /\ \A w \in VMIDs \ {v} : n[w] = m[w]
  BY DEF Own, Changes
<1>2. /\ s.pc = r.pc /\ s.vmid = v /\ r.vmid = v /\ s.req = q /\ s.name = r.name /\ s.made = r.made
      /\ s.seen = r.seen /\ s.todo = r.todo /\ s.queue = r.queue /\ s.failed = r.failed
      /\ s.cmd = r.cmd
  BY DEF Own, Run
<1>3. Of(c, n) = Of(c, m) /\ \A w \in VMIDs : n[w].name = m[w].name
  BY <1>1 DEF Of
<1>4. NamesOf(c, n) = NamesOf(c, m)
  BY <1>3 DEF NamesOf, Of
<1>5. (Tagged(s) <=> Tagged(r)) /\ (Holding(s) <=> Holding(r))
  BY <1>2 DEF Tagged, Holding
<1>6. Knows(c, s, n)
  BY <1>1, <1>2, <1>5 DEF Right, Knows
<1>7. Plans(c, s, n)
  BY <1>2, <1>3, <1>4, <1>5 DEF Right, Plans
<1>8. Waits(c, s, n) /\ Drains(c, s, n)
  BY <1>2, <1>3 DEF Right, Waits, Drains
<1>9. Unique(c, n)
  BY <1>3 DEF Unique, Of
<1>. QED  BY <1>6, <1>7, <1>8, <1>9 DEF Right

\* A clone is made, or given up: it has no tag yet.
LEMMA OwnCloned ==
  ASSUME NEW c, c # None, NEW r \in Run, NEW m, NEW n, NEW v \in VMIDs, NEW x,
         NEW s, NEW q \in {"running", "err"}, Own(r, s, q, m, n, v, x), r.pc = "clone",
         m[v].tag = None, x.tag = None, q = "running" => x.st # "free" /\ x.name = r.name,
         Right(c, r, m), Unique(c, m)
  PROVE  Right(c, s, n) /\ Unique(c, n)
<1>1. n[v] = x /\ \A w \in VMIDs \ {v} : n[w] = m[w]
  BY DEF Own, Changes
<1>2. /\ s.pc = "clone" /\ s.vmid = v /\ r.vmid = v /\ s.req = q /\ s.name = r.name /\ s.made = r.made
      /\ s.seen = r.seen /\ s.todo = r.todo
  BY DEF Own, Run
<1>3. Of(c, n) = Of(c, m) /\ \A w \in Of(c, m) : n[w] = m[w]
  BY <1>1 DEF Of
<1>4. NamesOf(c, n) = NamesOf(c, m)
  BY <1>3 DEF NamesOf
<1>5. ~Tagged(s) /\ ~Tagged(r)
  BY <1>2 DEF Tagged
<1>6. Knows(c, s, n)
  BY <1>1, <1>2, <1>5 DEF Knows, Holding
<1>7. Plans(c, s, n)
  BY <1>2, <1>3, <1>4, <1>5 DEF Right, Plans
<1>8. Waits(c, s, n) /\ Drains(c, s, n)
  BY <1>2 DEF Waits, Drains
<1>9. Unique(c, n)
  BY <1>3 DEF Unique, Of
<1>. QED  BY <1>6, <1>7, <1>8, <1>9 DEF Right

\* The VM gets its tag: the cluster has one more, of a new name.
LEMMA OwnTagged ==
  ASSUME NEW c, c # None, NEW r \in Run, NEW m, NEW n, NEW v \in VMIDs, NEW x,
         NEW s, Own(r, s, "ok", m, n, v, x), r.pc = "config", r.req = "running",
         x.name = m[v].name, x.tag = c, x.st # "free", Right(c, r, m), Unique(c, m)
  PROVE  Right(c, s, n) /\ Unique(c, n)
<1>1. n[v] = x /\ \A w \in VMIDs \ {v} : n[w] = m[w]
  BY DEF Own, Changes
<1>2. /\ s.pc = "config" /\ s.vmid = v /\ r.vmid = v /\ s.req = "ok" /\ s.name = r.name /\ s.made = r.made
      /\ s.seen = r.seen /\ s.todo = r.todo
  BY DEF Own, Run
<1>3. m[v].name = r.name /\ m[v].tag = None /\ ~Tagged(r) /\ Tagged(s)
  BY <1>2 DEF Right, Knows, Holding, Tagged
<1>4. /\ Of(c, m) = r.seen \cup r.made /\ Want[c] \subseteq NamesOf(c, m) \cup r.todo \cup {r.name}
      /\ r.todo \cap NamesOf(c, m) = {} /\ r.name \notin r.todo
      /\ r.name \in Names /\ r.name \notin NamesOf(c, m)
  BY <1>3 DEF Right, Plans
<1>5. Of(c, n) = Of(c, m) \cup {v} /\ v \notin Of(c, m) /\ \A w \in Of(c, m) : n[w] = m[w]
  BY <1>1, <1>3 DEF Of
<1>6. NamesOf(c, n) = NamesOf(c, m) \cup {r.name}
  BY <1>1, <1>3, <1>5 DEF NamesOf
<1>7. Knows(c, s, n)
  BY <1>1, <1>2, <1>3 DEF Knows
<1>8. Plans(c, s, n)
  BY <1>2, <1>3, <1>4, <1>5, <1>6 DEF Plans
<1>9. Waits(c, s, n) /\ Drains(c, s, n)
  BY <1>2 DEF Waits, Drains
<1>10. Unique(c, n)
  <2>. SUFFICES ASSUME NEW w \in Of(c, n), NEW u \in Of(c, n), n[w].name = n[u].name PROVE w = u
    BY DEF Unique
  <2>1. \A y \in Of(c, m) : n[y].name # r.name
    BY <1>4, <1>5 DEF NamesOf
  <2>. QED  BY <1>1, <1>3, <1>5, <2>1 DEF Unique
<1>. QED  BY <1>7, <1>8, <1>9, <1>10 DEF Right

\* The VM is destroyed: the cluster has one less.
LEMMA OwnDestroyed ==
  ASSUME NEW c, c # None, NEW r \in Run, NEW m, NEW n, NEW v \in VMIDs, NEW x,
         NEW s, Own(r, s, "ok", m, n, v, x), r.pc = "destroy", r.req = "running",
         x.tag = None, Right(c, r, m), Unique(c, m)
  PROVE  Right(c, s, n) /\ Unique(c, n)
<1>1. n[v] = x /\ \A w \in VMIDs \ {v} : n[w] = m[w]
  BY DEF Own, Changes
<1>2. /\ s.pc = "destroy" /\ s.vmid = v /\ r.vmid = v /\ s.req = "ok" /\ s.queue = r.queue
      /\ s.failed = r.failed /\ s.cmd = r.cmd
  BY DEF Own, Run
<1>3. Of(c, n) = Of(c, m) \ {v} /\ \A w \in Of(c, n) : n[w] = m[w]
  BY <1>1 DEF Of
<1>4. Knows(c, s, n) /\ Plans(c, s, n) /\ Waits(c, s, n)
  BY <1>2 DEF Knows, Holding, Plans, Waits
<1>5. Drains(c, s, n)
  BY <1>2, <1>3 DEF Right, Drains
<1>6. Unique(c, n)
  BY <1>3 DEF Unique
<1>. QED  BY <1>4, <1>5, <1>6 DEF Right

\* VM v is in the hands of terminal o alone, and has its tag or none.
LEMMA InHand ==
  ASSUME ConstantsOK, TypeOK, AllRight, NEW o \in Ops, NEW v \in VMIDs, op[o].vmid = v,
         op[o].pc \in Steps, op[o].req \in {"unsent", "running"},
         op[o].pc = "clone" /\ op[o].req = "unsent" => vm[v].st = "free"
  PROVE  /\ vm[v].tag \in {None, ClusterOf[o]}
         /\ \A p \in Ops \ {o} :
              OnePerCluster => ClusterOf[p] # ClusterOf[o] /\ ~(Holding(op[p]) /\ op[p].vmid = v)
<1>. DEFINE c == ClusterOf[o]
<1>1. /\ Right(c, op[o], vm) /\ c # None /\ None \notin Clusters
      /\ \A p \in Ops : Right(ClusterOf[p], op[p], vm) /\ ClusterOf[p] \in Clusters
  BY DEF AllRight, ConstantsOK
<1>2. CASE op[o].pc \in DeleteSteps
  <2>1. vm[v].tag = c
    BY <1>1, <1>2 DEF Right, Drains, Of
  <2>. QED  BY <1>1, <2>1 DEF Right, Knows, OnePerCluster
<1>3. CASE op[o].pc = "clone" /\ op[o].req = "unsent"
  <2>1. vm[v].st = "free" /\ vm[v].tag = None
    BY <1>3 DEF AllRight, AllPolled, FreeVM
  <2>. QED  BY <1>1, <2>1 DEF Right, Knows, OnePerCluster
<1>4. CASE Holding(op[o])
  BY <1>1, <1>4 DEF Right, Knows, OnePerCluster, AllRight, Apart
<1>. QED  BY <1>2, <1>3, <1>4 DEF Holding

\* So what is right for terminal o is right for all.
LEMMA RightTouch ==
  ASSUME ConstantsOK, TypeOK, AllRight, OnePerCluster, NEW o \in Ops, NEW v \in VMIDs,
         NEW x, NEW q, Touches(o, v, x, q),
         op[o].pc \in Steps, op[o].req \in {"unsent", "running"},
         op[o].pc = "clone" /\ op[o].req = "unsent" => vm[v].st = "free",
         x.tag \in {None, ClusterOf[o]},
         Right(ClusterOf[o], op'[o], vm') /\ Unique(ClusterOf[o], vm'), AllPolled'
  PROVE  AllRight'
<1>. DEFINE c == ClusterOf[o]
<1>1. /\ vm[v].tag \in {None, c}
      /\ \A p \in Ops \ {o} : ClusterOf[p] # c /\ ~(Holding(op[p]) /\ op[p].vmid = v)
  BY InHand DEF Touches
<1>2. /\ \A p \in Ops : op[p] \in Run /\ (op[p].pc \in Steps => op[p].vmid \in VMIDs)
      /\ \A p \in Ops : ClusterOf[p] \in Clusters
      /\ None \notin Clusters /\ Changes(vm, vm', v, x)
      /\ op'[o] = [op[o] EXCEPT !.req = q] /\ \A p \in Ops \ {o} : op'[p] = op[p]
  BY DEF TypeOK, ConstantsOK, Changes, Touches
<1>3. op'[o].vmid = v /\ op[o].vmid = v
  BY <1>2 DEF Touches, Run
<1>4. Apart'
  <2>. SUFFICES ASSUME NEW a \in Ops, NEW b \in Ops, Holding(op'[a]), Holding(op'[b]),
                       op'[a].vmid = op'[b].vmid, a # b
                PROVE  FALSE
    BY DEF Apart
  <2>1. a # o /\ b # o => FALSE
    BY <1>2 DEF AllRight, Apart
  <2>2. \A p \in Ops \ {o} : Holding(op'[p]) => op'[p].vmid # v
    BY <1>1, <1>2
  <2>. QED  BY <1>3, <2>1, <2>2
<1>5. ASSUME NEW d \in Clusters PROVE Unique(d, vm')
  <2>1. CASE d = c
    BY <2>1
  <2>2. CASE d # c
    <3>1. Unique(d, vm) /\ Changes(vm, vm', v, x)
      BY <1>2 DEF AllRight
    <3>2. vm[v].tag # d /\ x.tag # d
      BY <1>1, <1>2, <2>2
    <3>. QED  BY <3>1, <3>2, OthersUnique
  <2>. QED  BY <2>1, <2>2
<1>6. ASSUME NEW p \in Ops PROVE Right(ClusterOf[p], op'[p], vm')
  <2>1. CASE p = o
    BY <2>1
  <2>2. CASE p # o
    <3>1. vm[v].tag # ClusterOf[p] /\ x.tag # ClusterOf[p]
      BY <1>1, <1>2, <2>2
    <3>. QED  BY <1>1, <1>2, <2>2, <3>1, OthersRight DEF AllRight
  <2>. QED  BY <2>1, <2>2
<1>. QED  BY <1>4, <1>5, <1>6 DEF AllRight

\* Of the tasks, only that on v changes.
LEMMA PolledTouch ==
  ASSUME TypeOK, AllRight, NEW o \in Ops, NEW v \in VMIDs, NEW x, NEW q, Touches(o, v, x, q),
         op[o].req = "unsent" \/ Awaits(o, v), x.st = "free" => x = FreeVM,
         x.task = None \/ (x.task = op[o].pc /\ x.by = o /\ q = "running")
  PROVE  AllPolled'
<1>1. /\ op'[o].req = q /\ op'[o].vmid = v /\ op'[o].pc = op[o].pc
      /\ op'[o].cancelled = op[o].cancelled /\ \A p \in Ops \ {o} : op'[p] = op[p]
      /\ vm'[v] = x /\ \A w \in VMIDs \ {v} : vm'[w] = vm[w]
  <2>1. op[o] \in Run /\ op'[o] = [op[o] EXCEPT !.req = q]
    BY DEF TypeOK, Touches
  <2>2. /\ op'[o].req = q /\ op'[o].vmid = op[o].vmid /\ op'[o].pc = op[o].pc
        /\ op'[o].cancelled = op[o].cancelled
    BY <2>1 DEF Run
  <2>. QED  BY <2>2 DEF TypeOK, Touches
<1>2. \A p \in Ops : ~op'[p].cancelled
  BY <1>1 DEF AllRight, AllPolled
<1>3. ASSUME NEW w \in VMIDs, vm'[w].task # None PROVE Awaits(vm[w].by, w)'
  <2>1. CASE w = v
    BY <1>1, <1>3, <2>1 DEF Awaits
  <2>2. CASE w # v
    <3>1. Awaits(vm[w].by, w) /\ vm[w].by \in Ops \ {o}
      BY <1>1, <1>3, <2>2 DEF AllRight, AllPolled, Awaits, TypeOK
    <3>. QED  BY <1>1, <2>2, <3>1 DEF Awaits
  <2>. QED  BY <2>1, <2>2
<1>4. \A w \in VMIDs : vm'[w].st = "free" => vm'[w] = FreeVM
  BY <1>1 DEF AllRight, AllPolled
<1>. QED  BY <1>2, <1>3, <1>4 DEF AllPolled

\* A call is accepted.
LEMMA RightSend ==
  ASSUME ConstantsOK, TypeOK, AllRight, OnePerCluster, NEW o \in Ops, Send(o)
  PROVE  AllRight'
<1>. SUFFICES ASSUME NEW v, v = op[o].vmid, NEW x, x = Locked(o, v, op[o].pc),
                     NEW c, c = ClusterOf[o]
              PROVE  AllRight'
  OBVIOUS
<1>1. /\ v \in VMIDs /\ op[o] \in Run /\ op[o].pc \in Steps /\ op[o].req = "unsent"
      /\ Accepts(op[o].pc, v) /\ vm[v] \in VM /\ Touches(o, v, x, "running")
      /\ Own(op[o], op'[o], "running", vm, vm', v, x)
  BY DEF Send, Accept, TypeOK, Touches, Own, Changes
<1>2. c # None /\ Right(c, op[o], vm) /\ Unique(c, vm)
  BY DEF AllRight, ConstantsOK
<1>3. /\ x.task = op[o].pc /\ x.by = o /\ x.st # "free" /\ x.tag \in {None, c}
      /\ Right(c, op'[o], vm') /\ Unique(c, vm')
      /\ op[o].pc = "clone" => vm[v].st = "free"
  <2>1. CASE op[o].pc = "clone"
    <3>1. vm[v].st = "free" /\ vm[v].tag = None
      BY <1>1, <2>1 DEF Accepts, AllRight, AllPolled, FreeVM
    <3>2. /\ x.st = "stopped" /\ x.name = op[o].name /\ x.tag = None /\ x.task = op[o].pc
          /\ x.by = o
      BY <2>1 DEF Locked, FreeVM
    <3>3. Right(c, op'[o], vm') /\ Unique(c, vm')
      BY <1>1, <1>2, <2>1, <3>1, <3>2, OwnCloned
    <3>. QED  BY <3>1, <3>2, <3>3
  <2>2. CASE op[o].pc # "clone"
    <3>1. vm[v].st # "free" /\ vm[v].tag \in {None, c}
      BY <1>1, <2>2, InHand DEF Accepts
    <3>2. /\ x.st = vm[v].st /\ x.name = vm[v].name /\ x.tag = vm[v].tag /\ x.task = op[o].pc
          /\ x.by = o
      BY <1>1, <2>2 DEF Locked, VM
    <3>3. Right(c, op'[o], vm') /\ Unique(c, vm')
      BY <1>1, <1>2, <2>2, <3>1, <3>2, OwnSame
    <3>. QED  BY <2>2, <3>1, <3>2, <3>3
  <2>. QED  BY <2>1, <2>2
<1>4. AllPolled'
  BY <1>1, <1>3, PolledTouch
<1>. QED  BY <1>1, <1>3, <1>4, RightTouch

\* The task of run r on v ends, and makes it x.
Ending(c, r, m, v, x, q) ==
  /\ v \in VMIDs /\ c # None /\ None \notin Steps /\ q \in {"ok", "err"}
  /\ r \in Run /\ r.pc \in Steps /\ r.req = "running" /\ Right(c, r, m) /\ Unique(c, m)
  /\ m[v] \in VM /\ m[v].st # "free" /\ m[v].tag \in {None, c}
  /\ m[v].task = r.pc /\ ClusterOf[m[v].by] = c
  /\ x = IF q = "ok" THEN TaskDone(m[v]) ELSE TaskFailed(m[v])
\* What it makes of it, and of what the run knows.
Safely(c, s, n, x) ==
  /\ Right(c, s, n) /\ Unique(c, n)
  /\ x.task = None /\ x.tag \in {None, c} /\ (x.st = "free" => x = FreeVM)
\* The run is told how its task ended.
LEMMA OwnEnds ==
  ASSUME NEW c, NEW r, NEW m, NEW n, NEW v, NEW x, NEW s, NEW q,
         Own(r, s, q, m, n, v, x), Ending(c, r, m, v, x, q)
  PROVE  Safely(c, s, n, x)
<1>. USE DEF Ending, Safely
<1>. DEFINE u == Unlocked(m[v])
<1>1. /\ u.st = m[v].st /\ u.name = m[v].name /\ u.tag = m[v].tag /\ u.task = None
      /\ u \in [st : {"free", "stopped", "running"}, name : Names \cup {None},
                tag : Clusters \cup {None}, task : Steps \cup {None}, by : Ops \cup {None}]
  BY DEF Unlocked, VM
<1>. HIDE DEF u
<1>2. CASE q = "err" /\ r.pc = "clone"
  <2>1. x = FreeVM /\ x.tag = None /\ x.task = None
    BY <1>2 DEF TaskFailed, FreeVM
  <2>2. m[v].tag = None
    BY <1>2 DEF Right, Knows, Holding, Tagged, Own
  <2>3. Right(c, s, n) /\ Unique(c, n)
    BY <1>2, <2>1, <2>2, OwnCloned
  <2>. QED  BY <2>1, <2>3
<1>3. CASE q = "ok" /\ r.pc = "destroy"
  <2>1. x = FreeVM /\ x.tag = None /\ x.task = None
    BY <1>3 DEF TaskDone, FreeVM
  <2>2. Right(c, s, n) /\ Unique(c, n)
    BY <1>3, <2>1, OwnDestroyed
  <2>. QED  BY <2>1, <2>2
<1>4. CASE q = "ok" /\ r.pc = "config"
  <2>1. x = [u EXCEPT !.tag = c]
    BY <1>4 DEF TaskDone, u
  <2>2. x.tag = c /\ x.name = m[v].name /\ x.st = m[v].st /\ x.task = None
    BY <1>1, <2>1
  <2>3. Right(c, s, n) /\ Unique(c, n)
    BY <1>4, <2>2, OwnTagged
  <2>. QED  BY <2>2, <2>3
<1>5. CASE ~(q = "err" /\ r.pc = "clone") /\ ~(q = "ok" /\ r.pc \in {"destroy", "config"})
  <2>1. \/ x = u
        \/ x = [u EXCEPT !.st = "running"]
        \/ x = [u EXCEPT !.st = "stopped"]
    BY <1>5 DEF TaskDone, TaskFailed, u
  <2>2. x.tag = m[v].tag /\ x.name = m[v].name /\ x.st # "free" /\ x.task = None
    BY <1>1, <2>1
  <2>3. /\ r.pc = "clone" => r.req = "running" /\ q = "ok"
        /\ q = "ok" => r.pc \notin {"config", "destroy"}
        /\ q \in {"running", "ok", "err"} /\ r.req \in {"unsent", "running"}
    BY <1>5
  <2>4. CASE q = "ok"
    <3>1. Right(c, s, n) /\ Unique(c, n)
      BY <2>2, <2>3, <2>4, OwnSame
    <3>. QED  BY <2>2, <3>1
  <2>5. CASE q = "err"
    <3>1. Right(c, s, n) /\ Unique(c, n)
      BY <2>2, <2>3, <2>5, OwnSame
    <3>. QED  BY <2>2, <3>1
  <2>. QED  BY <2>4, <2>5
<1>. QED  BY <1>2, <1>3, <1>4, <1>5

\* A task ends, and the run that polls it will know how.
LEMMA RightFinish ==
  ASSUME ConstantsOK, TypeOK, AllRight, OnePerCluster, NEW v \in VMIDs, vm[v].task # None,
         NEW o \in Ops, Awaits(o, v), NEW x, NEW q \in {"ok", "err"}, Finish(v, x, q),
         x = IF q = "ok" THEN TaskDone(vm[v]) ELSE TaskFailed(vm[v])
  PROVE  AllRight'
<1>1. /\ vm[v] \in VM /\ vm[v].by = o /\ op[o] \in Run /\ op[o].pc \in Steps /\ op[o].vmid = v
      /\ op[o].req = "running" /\ vm[v].task = op[o].pc
  BY DEF Awaits, TypeOK
<1>2. Touches(o, v, x, q) /\ Own(op[o], op'[o], q, vm, vm', v, x)
  BY <1>1 DEF Finish, Awaits, TypeOK, Touches, Own, Changes
<1>3. /\ ClusterOf[o] # None /\ None \notin Steps
      /\ Right(ClusterOf[o], op[o], vm) /\ Unique(ClusterOf[o], vm)
  BY NoneApart, <1>1 DEF AllRight, ConstantsOK
<1>4. vm[v].st # "free" /\ vm[v].tag \in {None, ClusterOf[o]}
  <2>1. vm[v].st # "free"
    BY DEF AllRight, AllPolled, FreeVM
  <2>. QED  BY <1>1, <2>1, InHand
<1>5. /\ x.task = None /\ x.tag \in {None, ClusterOf[o]} /\ (x.st = "free" => x = FreeVM)
      /\ Right(ClusterOf[o], op'[o], vm') /\ Unique(ClusterOf[o], vm')
  <2>1. Ending(ClusterOf[o], op[o], vm, v, x, q)
    BY <1>1, <1>3, <1>4 DEF Ending
  <2>2. Safely(ClusterOf[o], op'[o], vm', x)
    BY <1>2, <2>1, OwnEnds
  <2>. QED  BY <2>2 DEF Safely
<1>6. AllPolled'
  BY <1>1, <1>2, <1>5, PolledTouch
<1>. QED  BY <1>1, <1>2, <1>4, <1>5, <1>6, RightTouch

-----------------------------------------------------------------------------
(* Every step                                                               *)

\* Every step keeps it.
LEMMA RightStep ==
  ASSUME ConstantsOK, TypeOK, Ledger, AllRight, OnePerCluster, NothingAbandoned, [Next]_vars
  PROVE  AllRight'
<1>1. ASSUME NEW o \in Ops, SendLost(o) \/ Interrupt(o) \/ Crash(o) PROVE FALSE
  BY <1>1 DEF SendLost, Interrupt, Crash, Hits, NothingAbandoned
<1>2. CASE UNCHANGED vars
  BY <1>2 DEF vars, AllRight, AllPolled, Apart, Awaits
<1>3. ASSUME NEW o \in Ops, Start(o) \/ Progress(o) PROVE AllRight'
  BY <1>1, <1>3, ConstantsOK, RightLists, RightPicks, RightAnswers, RightWaits, RightDrains,
     RightSend DEF Progress
<1>4. ASSUME NEW v \in VMIDs, TaskSucceeds(v) \/ TaskFails(v) PROVE AllRight'
  <2>1. vm[v].task # None /\ Awaits(vm[v].by, v) /\ vm[v].by \in Ops
    BY <1>4 DEF TaskSucceeds, TaskFails, AllRight, AllPolled, TypeOK
  <2>2. CASE TaskSucceeds(v)
    BY <2>1, <2>2, ConstantsOK, RightFinish DEF TaskSucceeds
  <2>3. CASE TaskFails(v)
    BY <2>1, <2>3, ConstantsOK, RightFinish DEF TaskFails
  <2>. QED  BY <1>4, <2>2, <2>3
<1>. QED  BY <1>1, <1>2, <1>3, <1>4 DEF Next

\* It always holds.
LEMMA AlwaysRight == ASSUME OnePerCluster, NothingAbandoned PROVE Spec => []AllRight
<1>1. Init => Ledger /\ AllRight
  <2>. SUFFICES ASSUME Init PROVE Ledger /\ AllRight
    OBVIOUS
  <2>1. Ledger
    BY DEF Init, Ledger, AnswersFor, Books, Polls, Fresh
  <2>2. \A o \in Ops : op[o].pc = "idle" /\ ~op[o].cancelled
    BY DEF Init, Fresh
  <2>3. \A v \in VMIDs : vm[v] = FreeVM /\ vm[v].task = None /\ vm[v].tag = None
    BY DEF Init, FreeVM
  <2>4. AllPolled
    BY <2>2, <2>3 DEF AllPolled
  <2>5. \A o \in Ops : Right(ClusterOf[o], op[o], vm) /\ ~Holding(op[o])
    BY <2>2, RightEnded
  <2>6. \A c \in Clusters : Of(c, vm) = {}
    BY <2>3, ConstantsOK DEF Of, ConstantsOK
  <2>. QED  BY <2>1, <2>4, <2>5, <2>6 DEF AllRight, Apart, Unique
<1>2. TypeOK /\ Ledger /\ [Next]_vars => Ledger'
  BY ConstantsOK, LedgerStep
<1>3. TypeOK /\ Ledger /\ AllRight /\ [Next]_vars => AllRight'
  BY ConstantsOK, RightStep
<1>. QED  BY <1>1, <1>2, <1>3, TypeCorrect, PTL DEF Spec

\* Where each cluster is worked on from one terminal and no run abandons a
\* call, create makes only what is missing: whatever failed before, no cluster
\* has two VMs of one name (NoDuplicates, ADR-003:28, for every instance).
THEOREM NeverTwice ==
  ASSUME OnePerCluster, NothingAbandoned PROVE Spec => []NoDuplicates
<1>1. AllRight => NoDuplicates
  BY DEF AllRight, Unique, Of, NoDuplicates, NodesOf
<1>. QED  BY <1>1, AlwaysRight, PTL

\* There, a create that is done has a running VM for every node of the
\* configuration, whatever the runs before it left (ReadyMeansComplete, for
\* every instance).
THEOREM DoneIsComplete ==
  ASSUME OnePerCluster, NothingAbandoned PROVE Spec => []ReadyMeansComplete
<1>1. AllRight => ReadyMeansComplete
  BY DEF AllRight, Right, Waits, NamesOf, Of, ReadyMeansComplete, NodesOf
<1>. QED  BY <1>1, AlwaysRight, PTL

\* And a delete that reports success left no VM with the cluster's tag
\* (DeleteLeavesNone, delete.go:55, for every instance).
THEOREM DeletedIsGone ==
  ASSUME OnePerCluster, NothingAbandoned PROVE Spec => []DeleteLeavesNone
<1>1. AllRight => DeleteLeavesNone
  BY DEF AllRight, Right, Drains, Of, DeleteLeavesNone, NodesOf
<1>. QED  BY <1>1, AlwaysRight, PTL
=============================================================================
