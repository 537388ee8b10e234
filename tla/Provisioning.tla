---------------------------- MODULE Provisioning ----------------------------
(***************************************************************************)
(* Phases 1-5 of `create` (internal/usecase/create) and the whole of       *)
(* `delete` (internal/usecase/delete), over the Proxmox provider           *)
(* (internal/adapter/proxmox) and the Proxmox VE API it calls.             *)
(*                                                                         *)
(* Every operator in Ops is one terminal in which the CLI is run, again    *)
(* and again, with a command of Cmds[o] for the cluster ClusterOf[o].      *)
(* There is no state file: all that survives a run is `vm`, the machines   *)
(* of the Proxmox cluster with their names, tags and running tasks.        *)
(*                                                                         *)
(* A mutating API call starts one asynchronous task, which locks its VM;   *)
(* WaitTask polls it.  An empty UPID in a reply is the case where the task *)
(* is over when the reply arrives.  A call can be refused, its reply can   *)
(* be lost after it was accepted, its task can fail, a poll can fail, the  *)
(* ten minutes of phase 5 can run out, the process can be killed: Trouble  *)
(* says which of these a model allows and MaxTrouble how many in total.    *)
(* "interrupt" is Ctrl-C or SIGTERM, which cancels the context of the run. *)
(*                                                                         *)
(* Abstractions: the order in which the Go slices are walked is left open  *)
(* (sets of names and ids); CPU, disk, network and hosts are left out;     *)
(* the read-only phases 1-3 are the one step List.                         *)
(***************************************************************************)
EXTENDS Naturals, FiniteSets

CONSTANTS
  Ops,        \* terminals running the CLI
  Clusters,   \* values of the tag k3s-cluster
  Names,      \* VM names
  VMIDs,      \* VM ids of the Proxmox cluster
  None,
  ClusterOf,  \* the cluster each terminal works on
  Want,       \* the VM names each cluster's configuration asks for
  Cmds,       \* the commands each terminal runs
  NoRollback, \* terminals whose create runs with --no-rollback
  Trouble,    \* the kinds of trouble that can occur
  MaxTrouble  \* how much of it, interrupts aside

CreateSteps == {"clone", "config", "resize", "start"}   \* of CreateNode
DeleteSteps == {"stop", "destroy"}                      \* of DeleteNode
Steps == CreateSteps \cup DeleteSteps
Troubles == {"reject", "lost", "task", "poll", "slow", "crash", "interrupt"}

ASSUME ConstantsOK ==
  /\ ClusterOf \in [Ops -> Clusters]
  /\ Want \in [Clusters -> SUBSET Names]
  /\ \A c, d \in Clusters : c # d => Want[c] \cap Want[d] = {}
  /\ Cmds \in [Ops -> SUBSET {"create", "delete"}]
  /\ NoRollback \subseteq Ops
  /\ Trouble \subseteq Troubles
  /\ MaxTrouble \in Nat
  /\ None \notin Ops \cup Clusters \cup Names \cup VMIDs \cup Steps

VARIABLES
  vm,      \* the machines of the Proxmox cluster and their tasks
  op,      \* the locals of the run in each terminal
  owed,    \* history: the VMs a run must account for, and that still exist:
           \* for create those it cloned, for delete those it listed
  trouble  \* the trouble still to come

vars == <<vm, op, owed, trouble>>

Ended == {"idle", "done", "failed", "unready"}
PCs   == Ended \cup {"list", "next", "ready", "drain"} \cup Steps

VM  == [st : {"free", "stopped", "running"}, name : Names \cup {None},
        tag : Clusters \cup {None}, task : Steps \cup {None}, by : Ops \cup {None}]
Run == [pc : PCs, cmd : {"create", "delete"},
        seen : SUBSET VMIDs,          \* existing: the reconciler's answer
        todo : SUBSET Names,          \* toCreate, without the one in progress
        name : Names \cup {None},     \* the spec being created
        vmid : VMIDs \cup {None},     \* the VM being created or deleted
        made : SUBSET VMIDs,          \* created, and the rollback list
        queue : SUBSET VMIDs,         \* nodes still to wait for or to delete
        failed : SUBSET VMIDs,        \* nodes whose DeleteNode failed
        left : VMIDs \cup {None},     \* history: the id of the CreateNode that failed,
        rest : 0 .. MaxTrouble,       \* and the trouble still to come when it did
        req : {"unsent", "running", "ok", "err"},  \* the call and its task
        cancelled : BOOLEAN]          \* the run's context

FreeVM == [st |-> "free", name |-> None, tag |-> None, task |-> None, by |-> None]
Fresh(cmd) ==
  [pc |-> "idle", cmd |-> cmd, seen |-> {}, todo |-> {}, name |-> None,
   vmid |-> None, made |-> {}, queue |-> {}, failed |-> {}, left |-> None,
   rest |-> MaxTrouble, req |-> "unsent", cancelled |-> FALSE]

Init ==
  /\ vm = [v \in VMIDs |-> FreeVM]
  /\ op = [o \in Ops |-> Fresh("create")]
  /\ owed = [o \in Ops |-> {}]
  /\ trouble = MaxTrouble

-----------------------------------------------------------------------------
(* Helpers                                                                 *)

\* One unit of trouble of this kind.
Hits(kind) == kind \in Trouble /\ trouble > 0 /\ trouble' = trouble - 1

\* create.go:254 rolls back under context.Background(): Ctrl-C stops
\* every other call of the run, and no call of a rollback.
RollingBack(r) == r.cmd = "create" /\ r.pc \in DeleteSteps \cup {"drain"}
Dead(o) == op[o].cancelled /\ ~RollingBack(op[o])

\* Mutation: stopped VMs are filtered out, as templates are.
ListedRunning(c) == {v \in VMIDs : vm[v].tag = c /\ vm[v].st = "running"}
\* What ListNodes returns for a cluster: every VM that carries its tag.
Listed(c) == {v \in VMIDs : vm[v].tag = c}

\* Mutation: existingNames is not looked at.
MissingAll(c, seen) == Want[c]
\* toCreate: the names of the configuration that no listed VM has.
Missing(c, seen) == Want[c] \ {vm[v].name : v \in seen}

\* What /cluster/nextid may answer: any id that no VM has now.
FreeIds == {v \in VMIDs : vm[v].st = "free"}

\* Does Proxmox accept this call on VM v?  A task locks its VM, a clone needs
\* an id nobody holds, and only a stopped VM can be destroyed.
Accepts(step, v) ==
  /\ vm[v].task = None
  /\ vm[v].st \in CASE step = "clone" -> {"free"}
                    [] step = "stop" -> {"running"}
                    [] step \in {"start", "destroy"} -> {"stopped"}
                    [] OTHER -> {"stopped", "running"}

\* The VM with the task of step `step` of run o accepted on it.
Locked(o, v, step) ==
  IF step = "clone"
  THEN [FreeVM EXCEPT !.st = "stopped", !.name = op[o].name, !.task = step, !.by = o]
  ELSE [vm[v] EXCEPT !.task = step, !.by = o]

\* The VM after its task succeeded, and after it failed.
Unlocked(m) == [m EXCEPT !.task = None, !.by = None]
TaskDone(m) ==
  CASE m.task = "config"  -> [Unlocked(m) EXCEPT !.tag = ClusterOf[m.by]]
    [] m.task = "start"   -> [Unlocked(m) EXCEPT !.st = "running"]
    [] m.task = "stop"    -> [Unlocked(m) EXCEPT !.st = "stopped"]
    [] m.task = "destroy" -> FreeVM
    [] OTHER              -> Unlocked(m)
TaskFailed(m) == IF m.task = "clone" THEN FreeVM ELSE Unlocked(m)

\* A step of CreateNode or DeleteNode succeeded: on to the next one.
After(step) == CASE step = "clone"  -> "config" [] step = "config" -> "resize"
                 [] step = "resize" -> "start"  [] step = "start"  -> "next"
                 [] step = "stop"   -> "destroy" [] OTHER          -> "drain"
\* Mutation: the rollback list stays empty.
ReturnedNever(r) == r.made
\* A node enters the rollback list only when CreateNode has returned it.
Returned(r) == IF r.pc = "start" THEN r.made \cup {r.vmid} ELSE r.made
Advance(r) ==
  LET over == r.pc \in {"start", "destroy"} IN
  [r EXCEPT !.pc = After(r.pc), !.req = "unsent", !.made = Returned(r),
            !.name = IF over THEN None ELSE @, !.vmid = IF over THEN None ELSE @]

\* Mutation: the VMs that existed before are rolled back too.
GiveUpAll(r) == [r EXCEPT !.pc = "drain", !.req = "unsent", !.vmid = None, !.name = None,
                          !.left = r.vmid, !.rest = trouble', !.queue = r.made \cup r.seen]
\* Mutation: the VM in progress is rolled back too, by its id.
GiveUpWithLast(r) == [r EXCEPT !.pc = "drain", !.req = "unsent", !.vmid = None, !.name = None,
                               !.left = r.vmid, !.rest = trouble',
                               !.queue = r.made \cup ({r.vmid} \ {None})]
\* CreateNode failed: provisionNodes rolls back the nodes already returned.
GiveUp(r) == [r EXCEPT !.pc = "drain", !.req = "unsent", !.vmid = None, !.name = None,
                       !.left = r.vmid, !.rest = trouble', !.queue = r.made]
\* Mutations: the name is noted for the id; nothing is; the node is retried;
\* the loop ends at its first failure.
SkipNamed(r) == [r EXCEPT !.pc = "drain", !.req = "unsent", !.vmid = None,
                          !.failed = @ \cup {r.name}]
SkipSilently(r) == [r EXCEPT !.pc = "drain", !.req = "unsent", !.vmid = None]
SkipRetry(r) == [r EXCEPT !.pc = "drain", !.req = "unsent", !.vmid = None,
                          !.queue = @ \cup {r.vmid}]
SkipRest(r) == [r EXCEPT !.pc = "drain", !.req = "unsent", !.vmid = None,
                         !.failed = @ \cup {r.vmid}, !.queue = {}]
\* DeleteNode failed: delete and rollback both note it and go on.
Skip(r) == [r EXCEPT !.pc = "drain", !.req = "unsent", !.vmid = None,
                     !.failed = @ \cup {r.vmid}]
CallFailed(r) == IF r.pc \in DeleteSteps THEN Skip(r) ELSE GiveUp(r)

\* DeleteNode ignores what WaitTask says of the stop (provider.go:294).
WaitFailed(r) == IF r.pc = "stop" THEN Advance(r) ELSE CallFailed(r)

\* Is the task of VM v the one run o is polling?
Awaits(o, v) ==
  /\ op[o].req = "running" /\ op[o].vmid = v
  /\ vm[v].by = o /\ vm[v].task = op[o].pc

-----------------------------------------------------------------------------
(* The runs                                                                *)

Start(o) ==
  /\ op[o].pc \in Ended
  /\ \E cmd \in Cmds[o] : op' = [op EXCEPT ![o] = [Fresh(cmd) EXCEPT !.pc = "list"]]
  /\ owed' = [owed EXCEPT ![o] = {}]
  /\ UNCHANGED <<vm, trouble>>

\* create: Preflight, ListNodes, planIPs; toCreate is what the tags do not
\* show.  delete: ListNodes; with nothing listed the run is over.
ListCreate(o) ==
  LET seen == Listed(ClusterOf[o]) IN
  /\ op[o].pc = "list" /\ op[o].cmd = "create" /\ ~Dead(o)
  /\ op' = [op EXCEPT ![o].pc = "next", ![o].seen = seen,
                      ![o].todo = Missing(ClusterOf[o], seen)]
  /\ UNCHANGED <<vm, owed, trouble>>
ListDelete(o) ==
  LET seen == Listed(ClusterOf[o]) IN
  /\ op[o].pc = "list" /\ op[o].cmd = "delete" /\ ~Dead(o)
  /\ op' = [op EXCEPT ![o].pc = IF seen = {} THEN "done" ELSE "drain", ![o].queue = seen]
  /\ owed' = [owed EXCEPT ![o] = seen]
  /\ UNCHANGED <<vm, trouble>>
ListFails(o) ==
  /\ op[o].pc = "list"
  /\ (Dead(o) /\ UNCHANGED trouble) \/ Hits("reject")
  /\ op' = [op EXCEPT ![o].pc = "failed"]
  /\ UNCHANGED <<vm, owed>>

\* The head of provisionNodes' loop and of CreateNode: pick the host, find
\* the template, ask for an id.  Nothing reserves the id until the clone.
PickVMID(o) ==
  /\ op[o].pc = "next" /\ ~Dead(o)
  /\ \E n \in op[o].todo, v \in FreeIds :
       op' = [op EXCEPT ![o].pc = "clone", ![o].name = n, ![o].vmid = v,
                        ![o].todo = @ \ {n}]
  /\ UNCHANGED <<vm, owed, trouble>>
PickFails(o) ==
  /\ op[o].pc = "next" /\ op[o].todo # {}
  /\ ((Dead(o) \/ FreeIds = {}) /\ UNCHANGED trouble) \/ Hits("reject")
  /\ op' = [op EXCEPT ![o] = GiveUp(@)]
  /\ UNCHANGED <<vm, owed>>
\* Mutation: phase 5 waits for the new nodes only.
AwaitNewOnly(r) == r.made
\* allNodes: those that existed and those just created.
ToAwait(r) == r.seen \cup r.made
AllCreated(o) ==
  /\ op[o].pc = "next" /\ op[o].todo = {}
  /\ op' = [op EXCEPT ![o].pc = "ready", ![o].queue = ToAwait(op[o])]
  /\ UNCHANGED <<vm, owed, trouble>>

\* Proxmox accepts a call of run o: the reply carries the UPID, or is lost.
Accept(o) ==
  LET v == op[o].vmid  step == op[o].pc IN
  /\ step \in Steps /\ op[o].req = "unsent" /\ ~Dead(o) /\ Accepts(step, v)
  /\ vm' = [vm EXCEPT ![v] = Locked(o, v, step)]
  /\ owed' = IF step = "clone" THEN [owed EXCEPT ![o] = @ \cup {v}] ELSE owed
Send(o) ==
  /\ Accept(o)
  /\ op' = [op EXCEPT ![o].req = "running"]
  /\ UNCHANGED trouble
SendLost(o) ==
  /\ Accept(o) /\ Hits("lost")
  /\ op' = [op EXCEPT ![o] = CallFailed(@)]

\* The call fails: cancelled, refused by Proxmox, or failed for any other
\* reason.  DeleteNode takes "not running" for an answer to its stop.
NotRunning(o) ==
  LET m == vm[op[o].vmid] IN op[o].pc = "stop" /\ m.st = "stopped" /\ m.task = None
AlreadyStopped(o) ==
  /\ op[o].req = "unsent" /\ ~Dead(o) /\ NotRunning(o)
  /\ op' = [op EXCEPT ![o] = Advance(@)]
  /\ UNCHANGED <<vm, owed, trouble>>
SendRefused(o) ==
  /\ op[o].pc \in Steps /\ op[o].req = "unsent"
  /\ \/ Dead(o) /\ UNCHANGED trouble
     \/ ~Accepts(op[o].pc, op[o].vmid) /\ ~NotRunning(o) /\ UNCHANGED trouble
     \/ Hits("reject")
  /\ op' = [op EXCEPT ![o] = CallFailed(@)]
  /\ UNCHANGED <<vm, owed>>

\* WaitTask's poll finds the task stopped with exit status OK, or finds it
\* failed; a poll that fails, or a cancelled context, gives up on the task.
PollOk(o) ==
  /\ op[o].req = "ok" /\ ~Dead(o)
  /\ op' = [op EXCEPT ![o] = Advance(@)]
  /\ UNCHANGED <<vm, owed, trouble>>
PollFails(o) ==
  /\ op[o].req # "unsent"
  /\ ((op[o].req = "err" \/ Dead(o)) /\ UNCHANGED trouble) \/ Hits("poll")
  /\ op' = [op EXCEPT ![o] = WaitFailed(@)]
  /\ UNCHANGED <<vm, owed>>

\* Phase 5: wait for the guest agent of every node, listed or new.  Its
\* timeout ends the run and rolls nothing back.
WaitReady(o) ==
  /\ op[o].pc = "ready" /\ ~Dead(o)
  /\ \E v \in op[o].queue :
       vm[v].st = "running" /\ op' = [op EXCEPT ![o].queue = @ \ {v}]
  /\ UNCHANGED <<vm, owed, trouble>>
WaitTimeout(o) ==
  /\ op[o].pc = "ready" /\ op[o].queue # {}
  /\ \/ Dead(o) /\ UNCHANGED trouble
     \/ (\E v \in op[o].queue : vm[v].st # "running") /\ UNCHANGED trouble
     \/ Hits("slow")
  /\ op' = [op EXCEPT ![o].pc = "unready"]
  /\ UNCHANGED <<vm, owed>>
AllReady(o) ==
  /\ op[o].pc = "ready" /\ op[o].queue = {}
  /\ op' = [op EXCEPT ![o].pc = "done"]
  /\ UNCHANGED <<vm, owed, trouble>>

\* Mutation: the loop lists the cluster's VMs again.
VictimsTagged(o) == Listed(ClusterOf[o])
\* The loop of delete and of rollback: DeleteNode for each node in turn.
Victims(o) == op[o].queue
DeleteNext(o) ==
  /\ op[o].pc = "drain"
  /\ \E v \in Victims(o) :
       op' = [op EXCEPT ![o].pc = "stop", ![o].vmid = v, ![o].queue = @ \ {v}]
  /\ UNCHANGED <<vm, owed, trouble>>
Drained(o) ==
  /\ op[o].pc = "drain" /\ op[o].queue = {}
  /\ op' = [op EXCEPT ![o].pc = IF op[o].cmd = "delete" /\ op[o].failed = {}
                                THEN "done" ELSE "failed"]
  /\ UNCHANGED <<vm, owed, trouble>>

\* Ctrl-C or SIGTERM; kill -9 or a lost terminal.
Interrupt(o) ==
  /\ "interrupt" \in Trouble /\ op[o].pc \notin Ended /\ ~op[o].cancelled
  /\ op' = [op EXCEPT ![o].cancelled = TRUE]
  /\ UNCHANGED <<vm, owed, trouble>>
Crash(o) ==
  /\ op[o].pc \notin Ended /\ Hits("crash")
  /\ op' = [op EXCEPT ![o] = Fresh(@.cmd)]
  /\ owed' = [owed EXCEPT ![o] = {}]
  /\ UNCHANGED vm

-----------------------------------------------------------------------------
(* Proxmox: a task ends, whether or not anyone still polls it.             *)

Finish(v, m, outcome) ==
  /\ vm' = [vm EXCEPT ![v] = m]
  /\ op' = [o \in Ops |-> IF Awaits(o, v) THEN [op[o] EXCEPT !.req = outcome] ELSE op[o]]
  /\ owed' = IF m = FreeVM THEN [o \in Ops |-> owed[o] \ {v}] ELSE owed
TaskSucceeds(v) ==
  /\ vm[v].task # None /\ Finish(v, TaskDone(vm[v]), "ok") /\ UNCHANGED trouble
TaskFails(v) ==
  /\ vm[v].task # None /\ Finish(v, TaskFailed(vm[v]), "err") /\ Hits("task")

Progress(o) ==
  \/ ListCreate(o) \/ ListDelete(o) \/ ListFails(o)
  \/ PickVMID(o) \/ PickFails(o) \/ AllCreated(o)
  \/ Send(o) \/ SendLost(o) \/ SendRefused(o) \/ AlreadyStopped(o)
  \/ PollOk(o) \/ PollFails(o)
  \/ WaitReady(o) \/ WaitTimeout(o) \/ AllReady(o)
  \/ DeleteNext(o) \/ Drained(o)
Next ==
  \/ \E o \in Ops : Start(o) \/ Progress(o) \/ Interrupt(o) \/ Crash(o)
  \/ \E v \in VMIDs : TaskSucceeds(v) \/ TaskFails(v)

Spec == Init /\ [][Next]_vars

\* A process that is not killed goes on; a Proxmox task ends some day.
RunsGoOn == \A o \in Ops : WF_vars(Progress(o))
TasksEnd == \A v \in VMIDs : WF_vars(TaskSucceeds(v))
FairSpec == Spec /\ RunsGoOn /\ TasksEnd
\* The same with no promise that Proxmox ends its tasks.
StuckSpec == Spec /\ RunsGoOn
\* The same, with an operator who runs the command again until it works.
RetrySpec == FairSpec /\ \A o \in Ops : WF_vars(Start(o))

-----------------------------------------------------------------------------
(* Properties                                                              *)

\* Types; a task has an owner, and a call in flight a VM.
TypeOK ==
  /\ vm \in [VMIDs -> VM]
  /\ \A v \in VMIDs : vm[v].task # None => vm[v].by \in Ops
  /\ op \in [Ops -> Run]
  /\ \A o \in Ops : /\ op[o].pc \in Steps => op[o].vmid \in VMIDs
                    /\ op[o].req # "unsent" => op[o].pc \in Steps
  /\ owed \in [Ops -> SUBSET VMIDs]
  /\ trouble \in 0 .. MaxTrouble

\* However a run fails, no VM it answers for goes unmentioned: what a failed
\* create still owns is a VM its rollback warned about or the half-made VM of
\* the CreateNode that failed; what an ended delete found and did not destroy
\* is in the error it returns (create.go:254 and 388, delete.go:43-53).
AnswersFor(r, S) ==
  \/ r.cmd = "create" /\ r.pc = "failed"
  \/ r.cmd = "delete" /\ r.pc \in {"done", "failed"}
  => S \subseteq r.failed \cup {r.left}
Accounted == \A o \in Ops : AnswersFor(op[o], owed[o])

\* What makes Accounted inductive: where a run r holds each VM of S, the ones
\* it answers for, step by step.  While creating, a VM was returned or is in
\* progress; while deleting, it is still queued, was noted as failed, is in
\* hand, or is the half-made one.  And the task a run polls is its own.
Books(r, S) ==
  /\ r.pc \in CreateSteps \cup {"next", "ready"} => r.cmd = "create"
  /\ r.pc \in {"list", "next", "drain"} => r.vmid = None
  /\ r.pc \in {"idle", "list"} => S = {}
  /\ r.pc \in CreateSteps \cup {"next"} => S \subseteq r.made \cup {r.vmid}
  /\ r.pc \in DeleteSteps \cup {"drain"} =>
       S \subseteq r.queue \cup r.failed \cup {r.left, r.vmid}
  /\ r.pc = "destroy" /\ r.req = "ok" => r.vmid \notin S
Polls(o) ==
  LET r == op[o] IN
  r.req = "running" => vm[r.vmid].task = r.pc /\ vm[r.vmid].by = o
Ledger ==
  \A o \in Ops : AnswersFor(op[o], owed[o]) /\ Books(op[o], owed[o]) /\ Polls(o)

\* What a run has in its hands: VMs it made, listed or works on, by their ids.
\* An id that waits for its clone, or whose clone failed, is no VM yet; one
\* whose destroy is over is none any more.
Existing == {v \in VMIDs : vm[v].st # "free"}
Pending(r) ==
  \/ r.pc = "clone" /\ r.req \in {"unsent", "err"}
  \/ r.pc = "destroy" /\ r.req = "ok"
Working(r) == IF r.pc \in Steps /\ ~Pending(r) THEN {r.vmid} ELSE {}
Hands(r) ==
  Working(r) \cup CASE r.pc \in CreateSteps \cup {"next"}  -> r.made
                    [] r.pc \in DeleteSteps \cup {"drain"} -> r.queue
                    [] OTHER -> {}

\* What makes ActsOnlyOnOwed inductive: what a run has in its hands, and still
\* exists, it owes.
Custody ==
  /\ \A v \in VMIDs : vm[v].st = "free" => vm[v] = FreeVM
  /\ \A o \in Ops :
       /\ Hands(op[o]) \cap Existing \subseteq owed[o]
       /\ op[o].pc = "list" => op[o].made = {}
       /\ op[o].pc \in CreateSteps \cup {"list", "next"} => op[o].left = None

\* The one step that can break it: an id in the hands of a run was freed by
\* another run, and a third clones its own VM under it (foreign_delete.cfg).
Takes(p, v) == vm[v].st = "free" /\ vm'[v].by = p
NothingTaken == \A o, p \in Ops, v \in VMIDs : p # o /\ Takes(p, v) => v \notin Hands(op[o])
UntakenSpec == Init /\ [][Next /\ NothingTaken]_vars

\* An operator who starts no run while a task of an earlier one goes on.
Patient == \A o \in Ops : op'[o].pc = "list" => \A v \in VMIDs : vm'[v].task = None
PatientSpec == Init /\ [][Next /\ Patient]_vars

\* The calls a step gets Proxmox to accept on an existing VM are about VMs of
\* that run: create configures, starts, stops and destroys nothing but what
\* it cloned in this session, delete nothing but what the tags showed it
\* (architecture.md:165, ADR-003:38).
Accepted(o, v) == vm'[v].by = o /\ vm[v].by # o /\ vm'[v].task # "clone"
ActsOnlyOnOwed ==
  [][\A o \in Ops, v \in VMIDs : Accepted(o, v) => v \in owed[o]]_vars

\* The runs, seen as the sessions of module Sessions: a create that is done or
\* not ready in time keeps its VMs, any other run that ends must have settled.
PhaseOf(r) ==
  CASE r.pc = "idle" -> "off"
    [] r.pc \notin Ended -> "open"
    [] r.cmd = "create" /\ r.pc \in {"done", "unready"} -> "kept"
    [] OTHER -> "settled"
LockOf(m) == IF m.task = None THEN None ELSE m.by
Said(r) == (r.failed \cup {r.left}) \ {None}
Abstract == INSTANCE Sessions WITH
  exists <- Existing,
  lock   <- [v \in VMIDs |-> LockOf(vm[v])],
  phase  <- [o \in Ops |-> PhaseOf(op[o])],
  told   <- [o \in Ops |-> Said(op[o])]
\* Create and delete keep the promise of Sessions: whatever overlaps or fails,
\* they change only what they made or found, one task at a time, and end
\* with every VM they owe removed or named (ADR-003:38, delete.go:43-53).
Implements == Abstract!Spec

\* A failed create leaves behind the half-made VM of the CreateNode that
\* failed, and besides it no more VMs than there were troubles while it rolled
\* back: one node that cannot be deleted does not stop the rollback, and an
\* interrupt costs nothing, because it does not run under the cancelled
\* context (create.go:254 and 388).
RollbackLeak ==
  \A o \in Ops :
    op[o].cmd = "create" /\ op[o].pc = "failed"
    => Cardinality(owed[o] \ {op[o].left}) <= op[o].rest - trouble

\* delete only removes what carries the cluster's tag (ADR-003:38).
DeleteOnlyTagged ==
  [][\A o \in Ops, v \in VMIDs :
       op[o].cmd = "delete" /\ Accepted(o, v) => vm[v].tag = ClusterOf[o]]_vars

\* With one terminal, in which no run starts while a task of an earlier one goes
\* on: when phase 5 is over, every node of the configuration is a running VM,
\* whatever was there before, and however earlier runs ended.
NodesOf(c) == {v \in VMIDs : vm[v].tag = c}
ReadyMeansComplete ==
  \A o \in Ops :
    op[o].cmd = "create" /\ op[o].pc = "done"
    => \A n \in Want[ClusterOf[o]] :
         \E v \in NodesOf(ClusterOf[o]) : vm[v].name = n /\ vm[v].st = "running"

\* delete.go:55, ROADMAP.md:71: when delete reports success no VM carries
\* the cluster's tag.
DeleteLeavesNone ==
  \A o \in Ops : op[o].cmd = "delete" /\ op[o].pc = "done" => NodesOf(ClusterOf[o]) = {}

\* Re-running create only creates what is missing (ADR-003:28): a cluster
\* never has two VMs of one name.
NoDuplicates ==
  \A c \in Clusters : \A v, w \in NodesOf(c) : vm[v].name = vm[w].name => v = w

\* Every run that is not killed comes to an end.
Terminates == \A o \in Ops : op[o].pc = "list" ~> op[o].pc \in Ended

-----------------------------------------------------------------------------
(* What the repository's documents say and the code does not do            *)

\* ROADMAP.md:75: "Falha na fase de provisionamento -> nenhuma VM órfã".
NoOrphan ==
  \A o \in Ops : op[o].cmd = "create" /\ op[o].pc = "failed" => owed[o] = {}

\* architecture.md:166: phase 5, "Timeout -> rollback das VMs desta sessão".
TimeoutRollsBack == \A o \in Ops : op[o].pc = "unready" => owed[o] = {}

\* create.go (cli):70: --no-rollback, "não remover VMs criadas em caso de falha".
NoRollbackKeeps ==
  [][\A o \in Ops, v \in VMIDs :
       o \in NoRollback /\ op[o].cmd = "create" /\ Accepted(o, v)
       => vm'[v].task # "destroy"]_vars

\* cli/create.go:27: running create again is safe, it makes what is missing.
RetrySucceeds == \A o \in Ops : []<>(op[o].pc = "done")

=============================================================================
