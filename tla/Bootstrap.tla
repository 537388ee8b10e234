----------------------------- MODULE Bootstrap ------------------------------
(***************************************************************************)
(* Phases 6-9 of `create` (internal/usecase/create/create.go:283-380) over *)
(* the k3s installer (internal/adapter/k3s), its scripts, the kube-vip     *)
(* add-on and the SSH executor, across as many runs of `create` as the     *)
(* operator cares to make.  Of phases 1-5 (module Provisioning) it keeps   *)
(* which masters have a VM, with which id: a run that fails there may      *)
(* leave some of them.  A run remembers nothing of the one before: it asks *)
(* each VM whether systemd calls its k3s unit active.                      *)
(*                                                                         *)
(* Every call over SSH dials first, again and again until the host answers *)
(* or the context is cancelled; once there is a session, only its own end  *)
(* or its loss ends the call.                                              *)
(*                                                                         *)
(* External: Proxmox and k3s.  Proxmox lists VMs by id and gives a new one *)
(* the lowest free id.  A server started with --cluster-init that has no   *)
(* data founds an etcd cluster of its own; one started with --server joins *)
(* the cluster behind the virtual IP, and if nobody answers there its unit *)
(* fails and systemd keeps trying; one with data stays in its cluster.  An *)
(* agent unit is active at once and keeps looking for the virtual IP.      *)
(*                                                                         *)
(* Trouble: "provision" phases 1-5 fail; "down" a host stops answering;    *)
(* "ssh" a session is lost; "script" an install script fails, before or    *)
(* after it did its work; "unready" a node stops being Ready; "crash" the  *)
(* CLI is killed; "interrupt" Ctrl-C cancels the context.  Left out: a VM  *)
(* that vanishes after k3s was on it (etcd's quorum and the node passwords *)
(* decide what becomes of the others and of its successor), versions, the  *)
(* token's value, MetalLB (it changes nothing modelled here).              *)
(***************************************************************************)
EXTENDS Naturals, Sequences, FiniteSets, Functions

CONSTANTS
  Order,      \* the masters, in the order of the configuration
  Workers,
  MaxId,      \* bound on the ids of VMs
  Quiets,     \* may other VMs of the Proxmox cluster come and go, or not?
  KubeVIP,    \* addons.kube_vip.enabled
  Balancers,  \* may something else already answer at the virtual IP, or not?
  Trouble, MaxTrouble

Masters == Range(Order)
Nodes   == Masters \cup Workers
Ended   == {"idle", "done", "failed"}

ASSUME ConstantsOK ==
  /\ Order \in Seq(Masters) \ {<<>>} /\ IsInjective(Order) /\ Masters \cap Workers = {}
  /\ MaxId \in Nat /\ MaxId >= Len(Order)
  /\ Quiets \subseteq BOOLEAN /\ KubeVIP \in BOOLEAN /\ Balancers \subseteq BOOLEAN
  /\ Trouble \subseteq {"provision", "down", "ssh", "script", "unready", "crash", "interrupt"}
  /\ MaxTrouble \in Nat

VARIABLES
  balancer, \* does something else answer at the virtual IP?  It stays so.
  quiet,    \* do no other VMs come and go?  It stays so.
  vmid,     \* the id of each master's VM, 0 where there is none
  unit,     \* the k3s or k3s-agent unit of each VM: none, trying, active
  member,   \* the k3s cluster each node belongs to, 0 for none
  ready,    \* the nodes Kubernetes calls Ready
  inits,    \* how many clusters were ever founded
  vipOn,    \* the masters that hold the kube-vip manifest
  down,     \* the nodes that the CLI cannot reach
  past,     \* history: "partial" if a run left some of its masters and not
            \* all, "swapped" if one listed first a master that belonged to no
            \* cluster while another did
  run,      \* the locals of the run of create; session: the node it is on
  trouble

env   == <<balancer, quiet>>
k3s   == <<unit, member, inits>>
world == <<env, vmid, unit, member, ready, inits, vipOn, down, past>>
vars  == <<world, run, trouble>>

Idle == [pc |-> "idle", masters |-> <<>>, next |-> 1, agents |-> {}, session |-> {},
         cancelled |-> FALSE]
Init ==
  /\ balancer \in Balancers /\ quiet \in Quiets
  /\ vmid = [m \in Masters |-> 0]
  /\ inits = 0 /\ vipOn = {} /\ ready = {} /\ down = {} /\ past = {}
  /\ unit = [n \in Nodes |-> "none"]
  /\ member = [n \in Nodes |-> 0]
  /\ run = Idle /\ trouble = MaxTrouble

-----------------------------------------------------------------------------
(* Proxmox: VMs and their order                                            *)

Hits(kind) == kind \in Trouble /\ trouble > 0 /\ trouble' = trouble - 1

\* ListNodes finds these masters; the others are to be created.
Existing == {m \in Masters : vmid[m] # 0}
Missing  == Masters \ Existing

\* m is before n in the configuration, and is created before it.
Earlier(m, n) == \E i, j \in DOMAIN Order : i < j /\ m = Order[i] /\ n = Order[j]

\* The ids that the missing masters get: free ones; and the lowest each time,
\* unless other VMs take and free ids in between.
NewIds ==
  {new \in [Missing -> 1 .. MaxId] :
     LET used == {vmid[n] : n \in Existing}
     IN  /\ IsInjective(new) /\ Range(new) \cap used = {}
         /\ quiet => \A m \in Missing : \A i \in 1 .. new[m] - 1 :
                       i \in used \/ \E n \in Missing : new[n] = i /\ Earlier(n, m)}
\* The VMs that some of them keep.
WithIds(new, kept) ==
  [m \in Masters |-> IF m \in Existing THEN vmid[m] ELSE IF m \in kept THEN new[m] ELSE 0]

\* Mutation: ListNodes collects the VMs in a map.
InAnyOrder(m, n) == m \in Existing \/ (m \in Missing /\ n \in Missing /\ Earlier(m, n))
\* The masters as splitByRole leaves them: those that existed, as Proxmox lists
\* them, then those that were created.
Before(m, n) ==
  \/ m \in Existing /\ n \in Missing
  \/ m \in Existing /\ n \in Existing /\ vmid[m] < vmid[n]
  \/ m \in Missing /\ n \in Missing /\ Earlier(m, n)
OrdersOf(S) == {s \in [1 .. Cardinality(S) -> S] : Range(s) = S}
\* Mutation: the later phases get the nodes that this run made, if it made any.
ListsCreated == OrdersOf(IF Missing = {} THEN Masters ELSE Missing)
Lists == OrdersOf(Masters)
First == run.masters[1]
\* Mutation: masters are workers too.
AgentsAll(nodes) == nodes
\* The workers of splitByRole: whatever is not a master.
AgentsOf(nodes) == nodes \ Masters

\* `systemctl is-active` prints "active".
IsActive(n) == unit[n] = "active"

-----------------------------------------------------------------------------
(* SSH                                                                     *)

GoTo(pc) == run' = [run EXCEPT !.pc = pc, !.session = {}]
AllJoined == run.next > Len(run.masters)

\* The node that the next call is for.
Target(n) ==
  \/ run.pc \in {"check", "found", "token", "kubeconfig"} /\ n = First
  \/ run.pc = "join" /\ n = IF AllJoined THEN First ELSE run.masters[run.next]
  \/ run.pc = "workers" /\ n \in run.agents
  \/ run.pc = "addons" /\ KubeVIP /\ ~AllJoined /\ n = run.masters[run.next]

\* dialWithRetry comes through; while the host does not answer or refuses the
\* key, it goes on.
Dial ==
  /\ run.session = {} /\ ~run.cancelled
  /\ \E n \in Nodes \ down : Target(n) /\ run' = [run EXCEPT !.session = {n}]
  /\ UNCHANGED <<world, trouble>>

\* Mutation: the loop does not look at its context.
NeverRefused == FALSE
\* A cancelled context ends the loop, and so the call.
Refused == run.cancelled /\ run.session = {}
\* The session with n, on which a command runs.
On(n) == run.session = {n} /\ n \notin down
Works(n) == On(n) /\ UNCHANGED trouble
Breaks == run.session # {} /\ Hits("ssh")
ScriptFails(n) == On(n) /\ Hits("script")
\* A step of one call fails; a step of several also fails if the context is
\* cancelled between two of them.
CallFails == Breaks \/ (Refused /\ UNCHANGED trouble)
Cut == CallFails \/ (run.cancelled /\ (\E n \in Nodes : On(n)) /\ UNCHANGED trouble)

-----------------------------------------------------------------------------
(* k3s on the nodes (external)                                             *)

\* The clusters that answer at the virtual IP.
VIP == {member[m] : m \in {x \in Existing : IsActive(x) /\ (balancer \/ x \in vipOn)}}

\* A server founds a cluster, unless its data say it has one.
Founds(n) ==
  /\ unit' = [unit EXCEPT ![n] = "active"]
  /\ IF member[n] = 0 THEN inits' = inits + 1 /\ member' = [member EXCEPT ![n] = inits']
                      ELSE UNCHANGED <<inits, member>>
\* Mutation: the script for the others starts them with --cluster-init too.
JoinsAlone(n) == Founds(n)
\* A server or an agent finds a cluster behind the virtual IP.
Joins(n) ==
  /\ unit' = [unit EXCEPT ![n] = "active"]
  /\ \E c \in IF member[n] = 0 THEN VIP ELSE {member[n]} : member' = [member EXCEPT ![n] = c]
  /\ UNCHANGED inits
\* systemd and the agent keep trying.
Settle(n) ==
  /\ unit[n] = "trying" \/ (n \in Workers /\ IsActive(n))
  /\ member[n] = 0
  /\ Joins(n)
  /\ UNCHANGED <<env, vmid, ready, vipOn, down, past, run, trouble>>
\* Some time after it joined, a node is Ready, and may cease to be.
TurnsReady(n) ==
  /\ IsActive(n) /\ member[n] # 0 /\ n \notin ready
  /\ ready' = ready \cup {n}
  /\ UNCHANGED <<env, vmid, k3s, vipOn, down, past, run, trouble>>
TurnsUnready(n) ==
  /\ n \in ready /\ Hits("unready")
  /\ ready' = ready \ {n}
  /\ UNCHANGED <<env, vmid, k3s, vipOn, down, past, run>>
\* The network between the CLI and a node.
GoesDown(n) ==
  /\ n \notin down /\ Hits("down")
  /\ down' = down \cup {n}
  /\ UNCHANGED <<env, vmid, k3s, ready, vipOn, past, run>>
ComesBack(n) ==
  /\ n \in down /\ down' = down \ {n}
  /\ UNCHANGED <<env, vmid, k3s, ready, vipOn, past, run, trouble>>

-----------------------------------------------------------------------------
(* A run of create                                                         *)

\* Phases 1-5 bring the missing masters into being.
StartRun ==
  /\ run.pc \in Ended
  /\ \E new \in NewIds, list \in Lists :
       /\ vmid' = WithIds(new, Missing)
       /\ \A i, j \in DOMAIN list : i < j => Before(list[i], list[j])
       /\ run' = [Idle EXCEPT !.pc = "check", !.masters = list, !.next = 2,
                              !.agents = AgentsOf(Nodes)]
       /\ past' = past \cup {p \in {"swapped"} :
                               member[list[1]] = 0 /\ \E m \in Masters : member[m] # 0}
  /\ UNCHANGED <<env, k3s, ready, vipOn, down, trouble>>
\* ... or they fail and leave some: all, if phase 5 failed; those that were made
\* when the CLI was killed; those that the rollback could not delete; and the
\* one whose start was answered by nobody, which is in no rollback list.
ProvisionFails ==
  /\ run.pc \in Ended /\ Hits("provision")
  /\ \E new \in NewIds, kept \in SUBSET Missing :
       /\ vmid' = WithIds(new, kept)
       /\ past' = past \cup {p \in {"partial"} : kept \notin {{}, Missing}}
  /\ run' = [Idle EXCEPT !.pc = "failed"]
  /\ UNCHANGED <<env, k3s, ready, vipOn, down>>

\* Is k3s active on masters[0]?  A failed call counts as no.
CheckFirst ==
  /\ run.pc = "check"
  /\ \/ Works(First) /\ GoTo(IF IsActive(First) THEN "token" ELSE "found")
     \/ CallFails /\ GoTo("found")
  /\ UNCHANGED world

\* InstallFirstMaster: --cluster-init, then at most 120 s for the API.
InstallFirst ==
  /\ run.pc = "found"
  /\ \/ Works(First) /\ Founds(First) /\ GoTo("token")
     \/ (ScriptFails(First) \/ Breaks) /\ Founds(First) /\ GoTo("failed")
     \/ (ScriptFails(First) \/ Cut) /\ UNCHANGED k3s /\ GoTo("failed")
  /\ UNCHANGED <<env, vmid, ready, vipOn, down, past>>

\* FetchToken reads a file that a server has written.
FetchToken ==
  /\ run.pc = "token"
  /\ \/ Works(First) /\ GoTo("join")
     \/ CallFails /\ GoTo("failed")
  /\ UNCHANGED world

\* The loop over masters[1:]: skip the active ones, join the others through
\* the virtual IP, and one whose check failed too; stop at the first failure.
JoinNext == run' = [run EXCEPT !.next = @ + 1, !.session = {}]
JoinStops == GoTo("failed")
Joining(m) == run.pc = "join" /\ ~AllJoined /\ m = run.masters[run.next]
SkipMaster ==
  /\ \E m \in Masters : Joining(m) /\ IsActive(m) /\ Works(m)
  /\ JoinNext
  /\ UNCHANGED world
JoinMaster ==
  /\ \E m \in Masters :
       /\ Joining(m) /\ Joins(m)
       /\ (Works(m) /\ ~IsActive(m)) \/ (Breaks /\ ~run.cancelled /\ m \notin down)
  /\ JoinNext
  /\ UNCHANGED <<env, vmid, ready, vipOn, down, past>>
\* A call or the script fails and leaves the unit alone or, after the 120 s,
\* active.  It must fail if nobody answers at the virtual IP.
JoinMasterFails ==
  /\ \E m \in Masters :
       /\ Joining(m)
       /\ \/ Cut /\ UNCHANGED k3s
          \/ (ScriptFails(m) \/ Breaks) /\ ~IsActive(m) /\ (Joins(m) \/ UNCHANGED k3s)
          \/ /\ Works(m) /\ ~IsActive(m) /\ member[m] = 0 /\ VIP = {}
             /\ unit' = [unit EXCEPT ![m] = "trying"]
             /\ UNCHANGED <<member, inits>>
  /\ JoinStops
  /\ UNCHANGED <<env, vmid, ready, vipOn, down, past>>

\* WaitNodesReady asks the first master and counts the Ready nodes of its
\* cluster, servers and agents alike.  Once it has a session, nothing but the
\* end of that stops its loop: no timeout and no context.
Counted == {n \in ready : member[n] = member[First]}
\* Mutation: it waits for the workers too.
EnoughOfAll == Cardinality(Counted) >= Cardinality(Nodes)
Enough == Cardinality(Counted) >= Len(run.masters)
WaitNodesReady ==
  /\ run.pc = "join" /\ AllJoined
  /\ \/ Works(First) /\ Enough /\ GoTo("workers")
     \/ CallFails /\ GoTo("failed")
  /\ UNCHANGED world

\* joinWorkers: an active agent is left alone, a failure is a warning.
JoinWorker ==
  /\ run.pc = "workers"
  /\ \E w \in run.agents :
       /\ run.session \subseteq {w}
       /\ run' = [run EXCEPT !.agents = @ \ {w}, !.session = {}]
       /\ \/ (Works(w) \/ ScriptFails(w) \/ Breaks) /\ unit' = [unit EXCEPT ![w] = "active"]
          \/ (ScriptFails(w) \/ Cut) /\ UNCHANGED unit
  /\ UNCHANGED <<env, vmid, ready, member, inits, vipOn, down, past>>
WorkersDone ==
  /\ run.pc = "workers" /\ run.agents = {}
  /\ run' = [run EXCEPT !.pc = "addons", !.next = 1]
  /\ UNCHANGED <<world, trouble>>

\* installAddons: the manifest goes to the masters in turn, up to the first
\* upload that fails; that is a warning too.
UploadManifest ==
  /\ run.pc = "addons" /\ KubeVIP /\ ~AllJoined
  /\ \/ Works(run.masters[run.next]) /\ vipOn' = vipOn \cup {run.masters[run.next]} /\ JoinNext
     \/ CallFails /\ UNCHANGED vipOn /\ GoTo("kubeconfig")
  /\ UNCHANGED <<env, vmid, k3s, ready, down, past>>
AddonsDone ==
  /\ run.pc = "addons" /\ (KubeVIP => AllJoined) /\ GoTo("kubeconfig")
  /\ UNCHANGED <<world, trouble>>

\* writeKubeconfig, from masters[0].
WriteKubeconfig ==
  /\ run.pc = "kubeconfig"
  /\ \/ Works(First) /\ GoTo("done")
     \/ CallFails /\ GoTo("failed")
  /\ UNCHANGED world

Interrupt ==
  /\ run.pc \notin Ended /\ ~run.cancelled /\ Hits("interrupt")
  /\ run' = [run EXCEPT !.cancelled = TRUE]
  /\ UNCHANGED world
Crash ==
  /\ run.pc \notin Ended /\ Hits("crash")
  /\ run' = Idle
  /\ UNCHANGED world

Progress ==
  \/ Dial \/ CheckFirst \/ InstallFirst \/ FetchToken
  \/ SkipMaster \/ JoinMaster \/ JoinMasterFails \/ WaitNodesReady
  \/ JoinWorker \/ WorkersDone \/ UploadManifest \/ AddonsDone \/ WriteKubeconfig
Next ==
  \/ StartRun \/ ProvisionFails \/ Progress \/ Interrupt \/ Crash
  \/ \E n \in Nodes : Settle(n) \/ TurnsReady(n) \/ TurnsUnready(n) \/ GoesDown(n) \/ ComesBack(n)
Spec == Init /\ [][Next]_vars

\* The run goes on, k3s keeps trying, and the operator runs create again.  That
\* a host comes back is not promised.
RetrySpec ==
  /\ Spec /\ WF_vars(Progress) /\ WF_vars(StartRun)
  /\ \A n \in Nodes : WF_vars(Settle(n)) /\ WF_vars(TurnsReady(n))

-----------------------------------------------------------------------------
(* Properties                                                              *)

\* Types; and a manifest or a Ready mark only where there is a VM for it.
TypeOK ==
  /\ vmid \in [Masters -> 0 .. MaxId] /\ down \subseteq Nodes
  /\ unit \in [Nodes -> {"none", "trying", "active"}]
  /\ balancer \in Balancers /\ quiet \in Quiets /\ past \subseteq {"partial", "swapped"}
  /\ inits \in Nat /\ member \in [Nodes -> 0 .. inits]
  /\ vipOn \subseteq Existing /\ ready \subseteq Existing \cup Workers
  /\ run.masters \in Seq(Masters) /\ run.next \in 1 .. Len(Order) + 1
  /\ run.agents \subseteq Workers /\ run.session \subseteq Nodes
  /\ trouble \in 0 .. MaxTrouble

\* Never two control planes: all active servers are members of one k3s
\* cluster, whatever failed and however often create was run again
\* (README.md:45).
OneCluster ==
  \A m, n \in Existing : IsActive(m) /\ IsActive(n) => member[m] = member[n]

\* ... and the one way to get a second is a run that lists first a master that
\* belongs to no cluster, although another does (create.go:58, 284): no lost
\* check, failed script, kill or half-joined run founds one.
OneUnlessSwapped == "swapped" \notin past => OneCluster

\* Nobody looks for the member among the masters: that the first one listed is
\* one rests on the order of their ids.  As long as no other VM comes or goes,
\* that order fails only after a run that left some of its masters and not the
\* others in phases 1-5 (create.go:250-262).
OrderKept == quiet /\ "swapped" \in past => "partial" \in past

\* When create says the cluster is ready, every master of the configuration is
\* active, and a member of the first one's cluster, also after runs that stopped
\* half-way (create.go:54, 306-322).
DoneMeansJoined ==
  run.pc = "done" =>
    \A m \in Masters :
      IsActive(m) /\ ("swapped" \notin past => member[m] = member[First])

\* If every host answers from some time on, a run of create ends, although
\* WaitNodesReady has no timeout (installer.go:147): it starts only when all
\* masters have joined one cluster.
EveryRunEnds ==
  []("swapped" \notin past) /\ <>[](down = {}) =>
    (run.pc \notin Ended ~> run.pc \in Ended)

\* Ctrl-C ends a run that is not in a session, although steps that fail are
\* warnings (create.go:336, 347) and hosts may not answer (executor.go:61).
InterruptEnds == run.cancelled /\ run.session = {} ~> run.pc \in Ended

\* Run again after failures that stop, create gets there: from some time on
\* every node is Ready in one cluster (architecture.md:167).
Converges ==
  <>[](Nodes \subseteq ready /\ \A m, n \in Nodes : member[m] = member[n])

-----------------------------------------------------------------------------
(* What the code announces and does not do                                 *)

\* Phase 7 starts when the masters are Ready (create.go:319): "Aguardando %d
\* masters Ready".  WaitNodesReady counts any Ready node.
MastersReady ==
  [][run.pc = "join" /\ run'.pc = "workers" => Range(run.masters) \subseteq ready]_vars
=============================================================================
