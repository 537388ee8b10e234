----------------------------- MODULE Placement ------------------------------
(***************************************************************************)
(* Where `create` puts its VMs: Preflight and the head of CreateNode       *)
(* (internal/adapter/proxmox/provider.go), the placement strategies        *)
(* (placement/placement.go) and the semaphore of clones per host, while    *)
(* hosts of the Proxmox cluster come and go.  The rest of CreateNode is    *)
(* one step here and module Provisioning's subject.                        *)
(*                                                                         *)
(* A run of create has one Provider, whose counter and semaphores are      *)
(* gone when it ends.  A caller is a sequence of calls of CreateNode, each *)
(* for the next node without a VM; today's create is one caller, and the   *)
(* locks of the Provider are made for several.  A failed call ends its     *)
(* caller, and what the run has made is rolled back.  A node takes one     *)
(* unit of memory of its host.                                             *)
(***************************************************************************)
EXTENDS Naturals, Sequences, FiniteSets, Functions

CONSTANTS
  HostOrder,   \* the hosts, in the order of Proxmox's answer
  MaxMem,      \* a host's memory, 0 where the token may not see it
  Base,        \* what other VMs use of it
  Targets,     \* target_nodes
  NodeOrder,   \* the nodes, masters first, in the order of provisionNodes
  Masters,
  Callers,     \* the callers of one Provider ...
  Parallel,    \* ... and which sets of them may be at work in a run
  Strategies,  \* values of placement_strategy
  MaxClones,   \* 2 in provider.go:56
  MaxChanges, MaxRuns,  \* bounds on hosts going on or off line, and on runs
  None

Hosts == Range(HostOrder)
Nodes == Range(NodeOrder)

ASSUME ConstantsOK ==
  /\ HostOrder \in Seq(Hosts) /\ IsInjective(HostOrder)
  /\ NodeOrder \in Seq(Nodes) /\ IsInjective(NodeOrder) /\ Masters \subseteq Nodes
  /\ MaxMem \in [Hosts -> Nat] /\ Base \in [Hosts -> Nat] /\ Targets \subseteq Hosts
  /\ IsFiniteSet(Callers) /\ Parallel \subseteq SUBSET Callers
  /\ Strategies \subseteq {"round-robin", "least-loaded"}
  /\ MaxClones \in Nat \ {0} /\ MaxChanges \in Nat /\ MaxRuns \in Nat \ {0}
  /\ None \notin Hosts \cup Nodes

VARIABLES
  strategy,  \* of the configuration; never changes
  callers,   \* those at work; never changes
  up,        \* the hosts that are online
  changes,   \* how often one went on or off line
  at,        \* the host of each node's tagged VM, None without one
  made,      \* the nodes this run has made, which a failure rolls back
  counter,   \* RoundRobin's
  sem,       \* the places taken of each host's semaphore
  call,      \* the locals of each caller's CreateNode
  runs,      \* the runs so far
  picks,     \* history: how often this run picked each host
  steady     \* history: no host went on or off line since the run began

config == <<strategy, callers>>
vars == <<config, up, changes, at, made, counter, sem, call, runs, picks, steady>>

\* x comes before y in the order.
Before(order, x, y) == \E j \in DOMAIN order : order[j] = y /\ \E i \in 1 .. j - 1 : order[i] = x
First(order, S) == CHOOSE x \in S : \A y \in S : ~Before(order, y, x)

NoCall == [pc |-> "idle", node |-> None, host |-> None, online |-> {}, used |-> Base]
\* The memory in use, as far as it is counted for these nodes' VMs.
Load(nodes) == [h \in Hosts |-> Base[h] + Cardinality({n \in nodes : at[n] = h})]

Init ==
  /\ strategy \in Strategies /\ callers \in Parallel
  /\ up \in {U \in SUBSET Hosts : Targets \subseteq U} /\ changes = 0
  /\ at = [n \in Nodes |-> None] /\ made = {}
  /\ counter = 0 /\ sem = [h \in Hosts |-> 0]
  /\ call = [c \in Callers |-> NoCall]
  /\ runs = 1 /\ picks = [h \in Hosts |-> 0] /\ steady = TRUE

-----------------------------------------------------------------------------
(* The strategies                                                          *)

\* Mutation: the counter stays where it is.
SameTurn == counter
\* The counter after a pick.
NextTurn == counter + 1
\* RoundRobin.Pick: the host whose turn it is, of those that are online now.
Turn(h, online) == Cardinality({g \in online : Before(HostOrder, g, h)})
RoundRobin(online) == CHOOSE h \in online : Turn(h, online) = counter % Cardinality(online)

\* Is a smaller share of h's memory in use than of g's?
Emptier(h, g, used) == used[h] * MaxMem[g] < used[g] * MaxMem[h]
\* LeastLoaded.Pick: the first of the emptiest hosts whose memory is known and
\* not in use twice over (bestRatio), or the first of all.
LeastLoaded(online, used) ==
  LET known == {h \in online : MaxMem[h] > 0 /\ used[h] < 2 * MaxMem[h]} IN
  IF known = {} THEN First(HostOrder, online)
  ELSE First(HostOrder, {h \in known : \A g \in known : ~Emptier(g, h, used)})
Pick(online, used) ==
  IF strategy = "round-robin" THEN RoundRobin(online) ELSE LeastLoaded(online, used)

-----------------------------------------------------------------------------
(* CreateNode                                                              *)

\* The locals of a call that has picked: it does not look at the listing again.
Past(c, pc, host) ==
  [pc |-> pc, node |-> call[c].node, host |-> host, online |-> {}, used |-> Base]

\* What provisionNodes has left to create.
Waiting == {n \in Nodes : at[n] = None /\ \A c \in callers : call[c].node # n}

\* The memory a listing may give, which RoundRobin does not look at: Proxmox's
\* last sample, which a VM made since is not in.
Samples == IF strategy = "least-loaded" THEN {Load(nodes) : nodes \in SUBSET Nodes} ELSE {Base}
\* ListPVENodes, and filterOnline of what it answers.
List(c) ==
  /\ call[c].pc = "idle" /\ Waiting # {}
  /\ \E used \in Samples : call' = [call EXCEPT ![c] =
       [pc |-> "listed", node |-> First(NodeOrder, Waiting), host |-> None,
        online |-> up, used |-> used]]
  /\ UNCHANGED <<config, up, changes, at, made, counter, sem, runs, picks, steady>>

\* The pick, under the mutex; then FindTemplate and NextVMID, which may fail
\* (a call that is over keeps its host only if it was cloning there).
PickHost(c) ==
  LET online == call[c].online  host == Pick(online, call[c].used) IN
  /\ call[c].pc = "listed" /\ online # {}
  /\ counter' = IF strategy = "round-robin" THEN NextTurn ELSE counter
  /\ picks' = [picks EXCEPT ![host] = @ + 1]
  /\ \/ call' = [call EXCEPT ![c] = Past(c, "waiting", host)]
     \/ call' = [call EXCEPT ![c] = Past(c, "over", None)]
  /\ UNCHANGED <<config, up, changes, at, made, sem, runs, steady>>

\* Mutation: a semaphore of its own for every call.
AlwaysRoom(h) == TRUE
\* cloneSemaphore: a place on the host, for which a call waits with no regard
\* to its context.
Room(h) == sem[h] < MaxClones
Acquire(c) ==
  LET h == call[c].host IN
  /\ call[c].pc = "waiting" /\ Room(h)
  /\ sem' = [sem EXCEPT ![h] = @ + 1]
  /\ call' = [call EXCEPT ![c] = Past(c, "holding", h)]
  /\ UNCHANGED <<config, up, changes, at, made, counter, runs, picks, steady>>

\* Mutation: the place is given back by nobody.
KeptPlace(h) == sem
\* The deferred release.
FreedPlace(h) == [sem EXCEPT ![h] = @ - 1]
\* Clone, Configure, Resize and Start succeed.
Created(c) ==
  /\ call[c].pc = "holding"
  /\ at' = [at EXCEPT ![call[c].node] = call[c].host]
  /\ made' = made \cup {call[c].node}
  /\ sem' = FreedPlace(call[c].host)
  /\ call' = [call EXCEPT ![c] = NoCall]
  /\ UNCHANGED <<config, up, changes, counter, runs, picks, steady>>
\* ListPVENodes, or the pick, or one of those four fails.
Fails(c) ==
  /\ call[c].pc \in {"listed", "holding"}
  /\ sem' = IF call[c].pc = "holding" THEN FreedPlace(call[c].host) ELSE sem
  /\ call' = [call EXCEPT ![c] = Past(c, "over", call[c].host)]
  /\ UNCHANGED <<config, up, changes, at, made, counter, runs, picks, steady>>

-----------------------------------------------------------------------------
(* Runs and hosts                                                          *)

\* The calls whose Clone may have been sent: the VM may be there and tagged.
Cloned == {c \in callers : call[c].pc \in {"holding", "over"} /\ call[c].host # None}
\* A VM a call was cloning may be left behind by an error, or by the end of the
\* process, before the call is done with it.
HalfMade == {call[c].node : c \in Cloned}
\* What rollback may have deleted of what the run made: nothing as long as no
\* call failed, and not every VM even then, for a delete may fail in its turn or
\* the process may be killed.
Gone == IF \E c \in callers : call[c].pc = "over" THEN SUBSET made ELSE {{}}

\* The run ended, or was killed where it stood.  The next one finds the target
\* hosts online (Preflight) and starts with a Provider of its own.
NewRun ==
  /\ runs < MaxRuns /\ Targets \subseteq up
  /\ \E gone \in Gone, left \in SUBSET HalfMade :
       at' = [n \in Nodes |->
         IF n \in gone THEN None
         ELSE IF n \in left THEN call[CHOOSE c \in Cloned : call[c].node = n].host
         ELSE at[n]]
  /\ made' = {}
  /\ counter' = 0 /\ sem' = [h \in Hosts |-> 0]
  /\ call' = [c \in Callers |-> NoCall]
  /\ runs' = runs + 1 /\ picks' = [h \in Hosts |-> 0] /\ steady' = TRUE
  /\ UNCHANGED <<config, up, changes>>

\* A host goes off line, or comes back.
HostChanges(h) ==
  /\ changes < MaxChanges /\ changes' = changes + 1
  /\ up' = IF h \in up THEN up \ {h} ELSE up \cup {h}
  /\ steady' = FALSE
  /\ UNCHANGED <<config, at, made, counter, sem, call, runs, picks>>

Progress(c) == List(c) \/ PickHost(c) \/ Acquire(c) \/ Created(c) \/ Fails(c)
Next ==
  \/ \E c \in callers : Progress(c)
  \/ NewRun \/ \E h \in Hosts : HostChanges(h)
Spec == Init /\ [][Next]_vars
\* Calls and tasks end.
FairSpec == Spec /\ \A c \in Callers : WF_vars(c \in callers /\ Progress(c))

-----------------------------------------------------------------------------
(* Properties                                                              *)

\* Types; no semaphore is overfull.
TypeOK ==
  /\ strategy \in Strategies /\ callers \in Parallel
  /\ up \subseteq Hosts /\ changes \in 0 .. MaxChanges
  /\ at \in [Nodes -> Hosts \cup {None}] /\ made \subseteq {n \in Nodes : at[n] # None}
  /\ counter \in Nat /\ sem \in [Hosts -> 0 .. MaxClones]
  /\ \A c \in Callers :
       /\ call[c].pc \in {"idle", "listed", "waiting", "holding", "over"}
       /\ call[c].node \in Nodes \cup {None} /\ call[c].host \in Hosts \cup {None}
       /\ call[c].pc \in {"waiting", "holding"} => call[c].host # None
  /\ runs \in 1 .. MaxRuns /\ picks \in [Hosts -> Nat] /\ steady \in BOOLEAN

\* At most two calls of a run clone on one host at a time (ADR-005:54).
Cloning(h) == {c \in callers : call[c].pc = "holding" /\ call[c].host = h}
ClonesBounded == \A h \in Hosts : Cardinality(Cloning(h)) <= MaxClones

\* "distribui uniformemente pelos hosts elegiveis" (configuration.md:221): while
\* the hosts stay as they are, a run picks each eligible one as often as any
\* other, give or take one, whichever calls overlap or fail.  (That it picks the
\* others too is OnTargets' matter.)
Eligible == {h \in up : Targets # {} => h \in Targets}
EvenSpread ==
  strategy = "round-robin" /\ steady =>
    \A g, h \in Eligible : picks[g] <= picks[h] + 1

\* No call waits for a place forever, although it does not watch its context
\* while it waits (provider.go:165).
CallsReturn ==
  \A c \in Callers : call[c].pc = "waiting" ~> call[c].pc \in {"idle", "over"}

-----------------------------------------------------------------------------
(* What the repository's documents say and the code does not do            *)

\* configuration.md:225: masters are always on different hosts where possible.
MastersApart ==
  Cardinality(up) >= Cardinality(Masters) =>
    \A m, n \in Masters : m # n /\ at[m] # None => at[m] # at[n]

\* configuration.md:179: target_nodes limits where VMs are made.
OnTargets == Targets # {} => \A n \in Nodes : at[n] \in Targets \cup {None}
=============================================================================
