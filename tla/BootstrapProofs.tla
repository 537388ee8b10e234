-------------------------- MODULE BootstrapProofs ---------------------------
(***************************************************************************)
(* Proofs about Bootstrap, for any number of masters and workers, any      *)
(* trouble and any number of runs: its types; that all active servers are  *)
(* members of one cluster unless a run lists first a master that belongs   *)
(* to none while another does; that as long as no other VM comes or goes,  *)
(* such a run comes after one that left some of its masters and not all;   *)
(* and that a run which is done has brought all masters into the cluster.  *)
(*                                                                         *)
(* Nearly every step is Ordinary: it lets the VMs be, touches k3s on one   *)
(* node at most, and moves the run on or ends it.  What the invariant says *)
(* of k3s follows from that alone; only Passed looks at the steps again.   *)
(***************************************************************************)
EXTENDS Bootstrap, FiniteSetTheorems, TLAPS

PCs  == Ended \cup {"check", "found", "token", "join", "workers", "addons", "kubeconfig"}
Late == {"workers", "addons", "kubeconfig", "done"}
Runs == [pc : PCs, masters : Lists \cup {<<>>}, next : 1 .. Len(Order) + 1,
         agents : SUBSET Workers, session : SUBSET Nodes, cancelled : BOOLEAN]

\* What makes TypeOK inductive: a run lists all masters, which have their VMs
\* then; a master without a VM has no k3s.
Typed ==
  /\ TypeOK /\ run \in Runs
  /\ run.pc \in {"idle", "failed"} \/ run.masters # <<>>
  /\ run.masters # <<>> => Missing = {}
  /\ \A m \in Missing : unit[m] = "none" /\ member[m] = 0

\* An active server is a member of a cluster.
Joined == \A m \in Masters : IsActive(m) => member[m] # 0
\* Unless masters were swapped, there is one cluster to be a member of, and a
\* run that may found one has found no member.
Single ==
  "swapped" \notin past =>
    /\ \A m, n \in Masters : member[m] # 0 /\ member[n] # 0 => member[m] = member[n]
    /\ run.pc \in {"check", "found"} /\ member[First] = 0 => \A m \in Masters : member[m] = 0

\* As long as no other VM comes or goes and no run leaves some of its masters,
\* the first of the configuration has the lowest id, is the first of every run,
\* and is a member if anyone is.
FirstLeads ==
  quiet /\ "partial" \notin past =>
    /\ \/ \A m \in Masters : vmid[m] = 0
       \/ vmid[Order[1]] = 1 /\ \A m \in Masters \ {Order[1]} : vmid[m] > 1
    /\ run.masters # <<>> => First = Order[1]
    /\ member[Order[1]] = 0 => \A m \in Masters : member[m] = 0
    /\ "swapped" \notin past

\* A run has passed only masters that are active.
Passed ==
  /\ run.pc \in {"check", "found", "token"} => run.next = 2
  /\ run.pc \in {"token", "join"} => \A i \in 1 .. run.next - 1 : IsActive(run.masters[i])
  /\ run.pc \in Late => \A m \in Masters : IsActive(m)

IInv == Typed /\ Joined /\ Single /\ FirstLeads /\ Passed
-----------------------------------------------------------------------------
(* Constants and lists                                                     *)

\* The masters are finitely many, and the first of a list is one of them.
LEMMA MasterFacts ==
  /\ Len(Order) \in Nat \ {0} /\ DOMAIN Order = 1 .. Len(Order)
  /\ \A i \in 1 .. Len(Order) : Order[i] \in Masters
  /\ \A m \in Masters : \E i \in 1 .. Len(Order) : Order[i] = m
  /\ \A i, j \in 1 .. Len(Order) : Order[i] = Order[j] => i = j
  /\ Masters \cap Workers = {}
<1>1. Order \in Seq(Masters) /\ Order # <<>>
  BY ConstantsOK DEF ConstantsOK
<1>2. Len(Order) \in Nat \ {0} /\ DOMAIN Order = 1 .. Len(Order)
  BY <1>1
<1>. QED  BY <1>2, ConstantsOK DEF ConstantsOK, Masters, Range, IsInjective

LEMMA MasterCount == Cardinality(Masters) = Len(Order)
<1>1. Order \in [1 .. Len(Order) -> Masters]
  BY MasterFacts, ConstantsOK DEF ConstantsOK
<1>2. Order \in Bijection(1 .. Len(Order), Masters)
  BY <1>1, MasterFacts DEF Bijection, Injection, Surjection, IsInjective
<1>3. IsFiniteSet(1 .. Len(Order)) /\ Cardinality(1 .. Len(Order)) = Len(Order)
  BY MasterFacts, FS_Interval
<1>4. ExistsBijection(1 .. Len(Order), Masters)
  BY <1>2 DEF ExistsBijection
<1>. QED  BY <1>3, <1>4, FS_Bijection

LEMMA ListFacts ==
  ASSUME NEW s \in Lists
  PROVE  /\ s # <<>> /\ Len(s) = Len(Order) /\ DOMAIN s = 1 .. Len(Order)
         /\ s \in Seq(Masters)
         /\ \A i \in 1 .. Len(Order) : s[i] \in Masters
         /\ \A m \in Masters : \E i \in 1 .. Len(Order) : s[i] = m
<1>1. s \in [1 .. Len(Order) -> Masters] /\ Range(s) = Masters
  BY MasterCount DEF Lists, OrdersOf
<1>2. s \in Seq(Masters) /\ Len(s) = Len(Order) /\ s # <<>>
  BY <1>1, MasterFacts
<1>. QED  BY <1>1, <1>2 DEF Range

\* A run under way lists all masters, and all have a VM.
LEMMA RunLists ==
  ASSUME Typed, run.pc \notin {"idle", "failed"}
  PROVE  /\ run.masters \in Lists /\ Missing = {} /\ Existing = Masters
         /\ First \in Masters /\ Len(run.masters) = Len(Order)
<1>1. run.masters \in Lists /\ Missing = {}
  BY DEF Typed, Runs
<1>. QED  BY <1>1, MasterFacts, ListFacts DEF Missing, Existing, First

-----------------------------------------------------------------------------
(* Ordinary steps                                                          *)

\* k3s on n changes: it stays active if it was, and n gets a cluster only from
\* another server, or by founding one.
Touches(n) ==
  /\ n \in Nodes \ Missing
  /\ inits' \in Nat /\ member' \in [Nodes -> 0 .. inits']
  /\ unit' \in [Nodes -> {"none", "trying", "active"}]
  /\ \A m \in Nodes \ {n} : unit'[m] = unit[m] /\ member'[m] = member[m]
  /\ IsActive(n) => unit'[n] = "active"
  /\ n \in Masters /\ unit'[n] = "active" => member'[n] # 0
  /\ \/ member'[n] = member[n]
     \/ member[n] = 0 /\ \E m \in Masters : member[m] # 0 /\ member'[n] = member[m]
     \/ member[n] = 0 /\ n = First /\ run.pc = "found" /\ run'.pc \notin {"check", "found"}

\* The run goes on with its list, or is gone.
GoesOn ==
  /\ run' \in Runs
  /\ \/ /\ run'.masters = run.masters
        /\ run'.pc \in {"check", "found"} => run.pc \in {"check", "found"}
        /\ run'.pc \in {"idle", "failed"} \/ run.masters # <<>>
     \/ run' = Idle

Ordinary ==
  /\ UNCHANGED <<env, vmid, past>>
  /\ UNCHANGED k3s \/ \E n \in Nodes : Touches(n)
  /\ GoesOn
  /\ ready' \subseteq Existing \cup Workers /\ vipOn' \subseteq Existing
  /\ down' \subseteq Nodes /\ trouble' \in 0 .. MaxTrouble

LEMMA IdleIsRun ==
  Idle \in Runs /\ Idle.pc = "idle" /\ Idle.masters = <<>> /\ Idle.next = 1
BY MasterFacts DEF Idle, Runs, PCs, Ended

\* What a run may hold, as TypeOK has it.
LEMMA RunTypes ==
  ASSUME NEW r \in Runs
  PROVE  /\ r.masters \in Seq(Masters) /\ r.next \in 1 .. Len(Order) + 1
         /\ r.agents \subseteq Workers /\ r.session \subseteq Nodes
<1>1. /\ r.masters \in Lists \cup {<<>>} /\ r.next \in 1 .. Len(Order) + 1
      /\ r.agents \subseteq Workers /\ r.session \subseteq Nodes
  BY DEF Runs
<1>2. <<>> \in Seq(Masters)
  OBVIOUS
<1>3. r.masters \in Seq(Masters)
  BY <1>1, <1>2, ListFacts
<1>. QED  BY <1>1, <1>3

LEMMA OrdinaryTyped == ASSUME Typed, Ordinary PROVE Typed'
<1>1. /\ unit' \in [Nodes -> {"none", "trying", "active"}]
      /\ inits' \in Nat /\ member' \in [Nodes -> 0 .. inits']
      /\ \A m \in Missing : unit'[m] = "none" /\ member'[m] = 0
  <2>1. CASE UNCHANGED k3s
    BY <2>1 DEF k3s, Typed, TypeOK
  <2>2. CASE \E n \in Nodes : Touches(n)
    BY <2>2 DEF Touches, Typed, Missing, Nodes
  <2>. QED  BY <2>1, <2>2 DEF Ordinary
<1>2. UNCHANGED <<balancer, quiet, vmid, past>> /\ Existing' = Existing /\ Missing' = Missing
  BY DEF Ordinary, env, Existing, Missing
<1>3. run' \in Runs
  BY DEF Ordinary, GoesOn
<1>4. TypeOK'
  BY <1>1, <1>2, <1>3, RunTypes DEF Ordinary, Typed, TypeOK
<1>5. /\ run'.pc \in {"idle", "failed"} \/ run'.masters # <<>>
      /\ run'.masters # <<>> => Missing = {}
  BY IdleIsRun DEF Ordinary, GoesOn, Typed
<1>. QED  BY <1>1, <1>2, <1>3, <1>4, <1>5 DEF Typed

\* Clusters and servers after an ordinary step.
LEMMA OrdinaryMembers ==
  ASSUME Typed, Ordinary
  PROVE  /\ \A m \in Masters : member[m] # 0 => member'[m] = member[m]
         /\ \A m \in Masters : member[m] = 0 /\ member'[m] # 0 =>
              \/ \E x \in Masters : member[x] # 0 /\ member'[m] = member[x]
              \/ /\ m = First /\ run.pc = "found" /\ run'.pc \notin {"check", "found"}
                 /\ \A x \in Masters \ {m} : member'[x] = member[x]
         /\ \A m \in Masters : unit'[m] = unit[m] \/ (unit'[m] = "active" => member'[m] # 0)
         /\ \A m \in Nodes : IsActive(m) => unit'[m] = "active"
<1>1. CASE UNCHANGED k3s
  BY <1>1 DEF k3s, IsActive
<1>2. CASE \E n \in Nodes : Touches(n)
  <2>1. PICK n \in Nodes : Touches(n)
    BY <1>2
  <2>2. Masters \subseteq Nodes
    BY DEF Nodes
  <2>. QED  BY <2>1, <2>2 DEF Touches, IsActive
<1>. QED  BY <1>1, <1>2 DEF Ordinary

LEMMA OrdinaryOne ==
  ASSUME Typed, Joined, Single, FirstLeads, Ordinary PROVE Joined' /\ Single' /\ FirstLeads'
<1>1. Joined'
  <2>. SUFFICES ASSUME NEW m \in Masters, unit'[m] = "active" PROVE member'[m] # 0
    BY DEF Joined, IsActive
  <2>. QED  BY OrdinaryMembers DEF Joined, IsActive
<1>2. UNCHANGED <<past, quiet, vmid>>
  BY DEF Ordinary, env
<1>3. /\ run'.pc \in {"check", "found"} => run.pc \in {"check", "found"} /\ First' = First
      /\ run'.masters # <<>> => run.masters # <<>> /\ First' = First
  BY IdleIsRun DEF Ordinary, GoesOn, First
<1>4. Single'
  <2>. SUFFICES ASSUME "swapped" \notin past
       PROVE /\ \A m, n \in Masters : member'[m] # 0 /\ member'[n] # 0 => member'[m] = member'[n]
             /\ run'.pc \in {"check", "found"} /\ member'[First'] = 0
                  => \A m \in Masters : member'[m] = 0
    BY <1>2 DEF Single
  <2>1. \A m, n \in Masters : member[m] # 0 /\ member[n] # 0 => member[m] = member[n]
    BY DEF Single
  <2>2. CASE run.pc = "found" /\ member[First] = 0 /\ run'.pc \notin {"check", "found"}
    <3>1. \A m \in Masters : member[m] = 0
      BY <2>2 DEF Single
    <3>. QED  BY <2>2, <3>1, OrdinaryMembers
  <2>3. CASE ~(run.pc = "found" /\ member[First] = 0 /\ run'.pc \notin {"check", "found"})
    <3>1. \A m \in Masters : member'[m] # 0 => \E x \in Masters : member[x] # 0 /\ member'[m] = member[x]
      BY <2>3, OrdinaryMembers
    <3>2. ASSUME run'.pc \in {"check", "found"}, member'[First'] = 0
          PROVE  \A m \in Masters : member'[m] = 0
      <4>1. run.pc \in {"check", "found"} /\ First' = First
        BY <1>3, <3>2
      <4>2. First \in Masters
        BY <4>1, RunLists
      <4>3. member[First] = 0
        BY <3>2, <4>1, <4>2, OrdinaryMembers
      <4>. QED  BY <3>1, <4>1, <4>3 DEF Single
    <3>. QED  BY <2>1, <3>1, <3>2
  <2>. QED  BY <2>2, <2>3
<1>5. FirstLeads'
  <2>. SUFFICES ASSUME quiet, "partial" \notin past
       PROVE /\ run'.masters # <<>> => First' = Order[1]
             /\ member'[Order[1]] = 0 => \A m \in Masters : member'[m] = 0
    BY <1>2 DEF FirstLeads
  <2>1. run'.masters # <<>> => First' = Order[1]
    BY <1>3 DEF FirstLeads
  <2>2. ASSUME member'[Order[1]] = 0 PROVE \A m \in Masters : member'[m] = 0
    <3>1. Order[1] \in Masters
      BY MasterFacts
    <3>2. \A m \in Masters : member[m] = 0
      BY <2>2, <3>1, OrdinaryMembers DEF FirstLeads
    <3>3. run.pc = "found" => First = Order[1]
      BY RunLists, ListFacts DEF FirstLeads
    <3>. QED  BY <2>2, <3>1, <3>2, <3>3, OrdinaryMembers
  <2>. QED  BY <2>1, <2>2
<1>. QED  BY <1>1, <1>4, <1>5
-----------------------------------------------------------------------------
(* The steps that leave k3s alone                                          *)

\* How trouble is spent.
LEMMA Spent ==
  ASSUME Typed,
         \/ UNCHANGED trouble \/ CallFails \/ Cut \/ Breaks
         \/ (\E k : Hits(k)) \/ (\E n \in Nodes : Works(n) \/ ScriptFails(n))
  PROVE  trouble' \in 0 .. MaxTrouble
<1>1. UNCHANGED trouble \/ \E k : Hits(k)
  BY DEF CallFails, Cut, Breaks, Refused, Works, ScriptFails
<1>. QED  BY <1>1, ConstantsOK DEF Typed, TypeOK, Hits, ConstantsOK

\* The run goes to another phase.
LEMMA RunMoves ==
  ASSUME Typed, run.pc \notin Ended, NEW pc \in PCs, GoTo(pc),
         pc \in {"check", "found"} => run.pc = "check"
  PROVE  /\ GoesOn /\ run'.pc = pc /\ run'.masters = run.masters /\ run'.next = run.next
<1>1. run \in Runs /\ run' = [run EXCEPT !.pc = pc, !.session = {}]
  BY DEF Typed, GoTo
<1>2. run' \in Runs /\ run'.pc = pc /\ run'.masters = run.masters /\ run'.next = run.next
  BY <1>1 DEF Runs
<1>3. run.masters # <<>>
  BY DEF Typed, Ended
<1>. QED  BY <1>2, <1>3 DEF GoesOn

\* The loop over the masters goes on to the next.
LEMMA NextMoves ==
  ASSUME Typed, run.pc \notin Ended, ~AllJoined, JoinNext
  PROVE  /\ GoesOn /\ run'.pc = run.pc /\ run'.masters = run.masters
         /\ run'.next = run.next + 1 /\ run.next \in 1 .. Len(Order)
<1>1. run \in Runs /\ run.next \in 1 .. Len(Order) + 1 /\ Len(Order) \in Nat
  BY MasterFacts DEF Typed, Runs
<1>2. run.next \in 1 .. Len(Order)
  BY <1>1, RunLists DEF AllJoined, Ended
<1>3. run.next + 1 \in 1 .. Len(Order) + 1
  BY <1>1, <1>2
<1>4. run' = [run EXCEPT !.next = run.next + 1, !.session = {}]
  BY DEF JoinNext
<1>5. /\ run' \in Runs /\ run'.pc = run.pc /\ run'.masters = run.masters
      /\ run'.next = run.next + 1
  BY <1>1, <1>3, <1>4 DEF Runs
<1>6. run.masters # <<>>
  BY DEF Typed, Ended
<1>. QED  BY <1>2, <1>5, <1>6 DEF GoesOn

\* Something of the run changes that no invariant looks at.
LEMMA SameMoves ==
  ASSUME Typed, run' \in Runs, run'.pc = run.pc, run'.masters = run.masters
  PROVE  GoesOn
BY DEF GoesOn, Typed

LEMMA LooksOrdinary ==
  ASSUME Typed, CheckFirst \/ FetchToken \/ WaitNodesReady \/ AddonsDone \/ WriteKubeconfig
  PROVE  Ordinary
<1>1. UNCHANGED world /\ run.pc \notin Ended
  BY DEF CheckFirst, FetchToken, WaitNodesReady, AddonsDone, WriteKubeconfig, Ended
<1>2. First \in Nodes
  BY <1>1, RunLists DEF Ended, Nodes
<1>3. trouble' \in 0 .. MaxTrouble
  BY <1>2, Spent DEF CheckFirst, FetchToken, WaitNodesReady, AddonsDone, WriteKubeconfig
<1>4. PICK pc \in PCs : GoTo(pc) /\ (pc \in {"check", "found"} => run.pc = "check")
  BY DEF CheckFirst, FetchToken, WaitNodesReady, AddonsDone, WriteKubeconfig, PCs, Ended
<1>5. GoesOn
  BY <1>1, <1>4, RunMoves
<1>. QED  BY <1>1, <1>3, <1>5 DEF Ordinary, world, k3s, Typed, TypeOK

LEMMA SkipOrdinary == ASSUME Typed, SkipMaster PROVE Ordinary
<1>1. PICK m \in Masters : Joining(m) /\ IsActive(m) /\ Works(m)
  BY DEF SkipMaster
<1>2. GoesOn
  BY <1>1, NextMoves DEF SkipMaster, Joining, Ended
<1>3. trouble' \in 0 .. MaxTrouble
  BY <1>1, Spent DEF Nodes
<1>. QED  BY <1>2, <1>3 DEF SkipMaster, Ordinary, world, k3s, Typed, TypeOK

LEMMA UploadOrdinary == ASSUME Typed, UploadManifest PROVE Ordinary
<1>1. run.pc = "addons" /\ ~AllJoined /\ run.pc \notin Ended
  BY DEF UploadManifest, Ended
<1>2. run.masters[run.next] \in Masters /\ Existing = Masters
  <2>1. /\ run.masters \in Lists /\ Existing = Masters
        /\ Len(run.masters) = Len(Order) /\ Len(Order) \in Nat
    BY <1>1, RunLists, MasterFacts DEF Ended
  <2>2. run.next \in 1 .. Len(Order) + 1
    BY DEF Typed, TypeOK
  <2>3. run.next \in 1 .. Len(Order)
    BY <1>1, <2>1, <2>2 DEF AllJoined
  <2>. QED  BY <2>1, <2>3, ListFacts
<1>3. UNCHANGED <<env, vmid, k3s, ready, down, past>>
  BY DEF UploadManifest
<1>4. CASE Works(run.masters[run.next]) /\ vipOn' = vipOn \cup {run.masters[run.next]} /\ JoinNext
  <2>1. GoesOn
    BY <1>1, <1>4, NextMoves
  <2>2. trouble' \in 0 .. MaxTrouble
    BY <1>2, <1>4, Spent DEF Nodes
  <2>. QED  BY <1>2, <1>3, <1>4, <2>1, <2>2 DEF Ordinary, Typed, TypeOK
<1>5. CASE CallFails /\ UNCHANGED vipOn /\ GoTo("kubeconfig")
  <2>1. GoesOn
    BY <1>1, <1>5, RunMoves DEF PCs
  <2>2. trouble' \in 0 .. MaxTrouble
    BY <1>5, Spent
  <2>. QED  BY <1>3, <1>5, <2>1, <2>2 DEF Ordinary, Typed, TypeOK
<1>. QED  BY <1>4, <1>5 DEF UploadManifest

LEMMA RunOnlyOrdinary ==
  ASSUME Typed, Dial \/ WorkersDone \/ Interrupt \/ Crash PROVE Ordinary
<1>1. UNCHANGED world /\ trouble' \in 0 .. MaxTrouble
  BY Spent DEF Dial, WorkersDone, Interrupt, Crash
<1>2. run \in Runs
  BY DEF Typed
<1>3. CASE Dial
  <2>1. PICK n \in Nodes : run' = [run EXCEPT !.session = {n}]
    BY <1>3 DEF Dial
  <2>. QED  BY <1>1, <1>2, <2>1, SameMoves DEF Runs, Ordinary, world, k3s, Typed, TypeOK
<1>4. CASE WorkersDone
  <2>1. run' = [run EXCEPT !.pc = "addons", !.next = 1] /\ run.pc = "workers"
    BY <1>4 DEF WorkersDone
  <2>2. run' \in Runs /\ run'.pc = "addons" /\ run'.masters = run.masters
    <3>1. 1 \in 1 .. Len(Order) + 1 /\ "addons" \in PCs
      BY MasterFacts DEF PCs
    <3>. QED  BY <1>2, <2>1, <3>1 DEF Runs
  <2>3. GoesOn
    BY <2>1, <2>2 DEF GoesOn, Typed
  <2>. QED  BY <1>1, <2>3 DEF Ordinary, world, k3s, Typed, TypeOK
<1>5. CASE Interrupt
  <2>1. run' = [run EXCEPT !.cancelled = TRUE]
    BY <1>5 DEF Interrupt
  <2>. QED  BY <1>1, <1>2, <2>1, SameMoves DEF Runs, Ordinary, world, k3s, Typed, TypeOK
<1>6. CASE Crash
  <2>1. GoesOn
    BY <1>6, IdleIsRun DEF Crash, GoesOn
  <2>. QED  BY <1>1, <2>1 DEF Ordinary, world, k3s, Typed, TypeOK
<1>. QED  BY <1>3, <1>4, <1>5, <1>6

\* Nodes become Ready or cease to be, and hosts come and go.
LEMMA NodesOrdinary ==
  ASSUME Typed, NEW n \in Nodes, TurnsReady(n) \/ TurnsUnready(n) \/ GoesDown(n) \/ ComesBack(n)
  PROVE  Ordinary
<1>1. UNCHANGED <<env, vmid, k3s, vipOn, past, run>> /\ trouble' \in 0 .. MaxTrouble
  BY Spent DEF TurnsReady, TurnsUnready, GoesDown, ComesBack
<1>2. ready' \subseteq Existing \cup Workers /\ down' \subseteq Nodes
  BY DEF TurnsReady, TurnsUnready, GoesDown, ComesBack, Typed, TypeOK, IsActive, Missing, Nodes
<1>3. GoesOn
  BY <1>1, SameMoves DEF Typed
<1>. QED  BY <1>1, <1>2, <1>3 DEF Ordinary, Typed, TypeOK

-----------------------------------------------------------------------------
(* The steps that change k3s                                               *)

\* Starting a server or an agent on a node that exists.
LEMMA FoundsTouches ==
  ASSUME Typed, Founds(First), First \in Nodes \ Missing,
         run.pc = "found", run'.pc \notin {"check", "found"}
  PROVE  Touches(First)
<1>1. CASE member[First] = 0
  <2>1. /\ inits' = inits + 1 /\ member' = [member EXCEPT ![First] = inits + 1]
        /\ unit' = [unit EXCEPT ![First] = "active"] /\ inits \in Nat
    BY <1>1 DEF Founds, Typed, TypeOK
  <2>2. member' \in [Nodes -> 0 .. inits'] /\ inits' \in Nat /\ inits' # 0
    BY <2>1 DEF Typed, TypeOK
  <2>. QED  BY <1>1, <2>1, <2>2 DEF Touches, Typed, TypeOK
<1>2. CASE member[First] # 0
  BY <1>2 DEF Founds, Touches, Typed, TypeOK
<1>. QED  BY <1>1, <1>2

LEMMA JoinsTouches ==
  ASSUME Typed, Joined, NEW n \in Nodes \ Missing, Joins(n) PROVE Touches(n)
<1>1. \A c \in VIP : \E m \in Masters : member[m] # 0 /\ c = member[m]
  BY DEF VIP, Joined, Existing
<1>2. PICK c \in IF member[n] = 0 THEN VIP ELSE {member[n]} : member' = [member EXCEPT ![n] = c]
  BY DEF Joins
<1>3. c \in 0 .. inits /\ c # 0
  BY <1>1, <1>2 DEF Typed, TypeOK, Nodes
<1>4. member' \in [Nodes -> 0 .. inits'] /\ inits' = inits
  BY <1>2, <1>3 DEF Joins, Typed, TypeOK
<1>. QED  BY <1>1, <1>2, <1>3, <1>4 DEF Joins, Touches, Typed, TypeOK

\* A unit that keeps trying, or an agent that is started.
LEMMA UnitTouches ==
  ASSUME Typed, NEW n \in Nodes \ Missing, NEW u \in {"trying", "active"},
         unit' = [unit EXCEPT ![n] = u], UNCHANGED <<member, inits>>,
         u = "trying" => ~IsActive(n), u = "active" => n \notin Masters
  PROVE  Touches(n)
BY DEF Touches, Typed, TypeOK, IsActive

LEMMA InstallOrdinary == ASSUME Typed, InstallFirst PROVE Ordinary
<1>1. /\ run.pc = "found" /\ run.pc \notin Ended
      /\ UNCHANGED <<env, vmid, ready, vipOn, down, past>>
  BY DEF InstallFirst, Ended
<1>2. First \in Nodes \ Missing
  BY <1>1, RunLists DEF Nodes, Ended
<1>3. trouble' \in 0 .. MaxTrouble
  BY <1>2, Spent DEF InstallFirst
<1>4. PICK pc \in {"token", "failed"} : GoTo(pc)
  BY DEF InstallFirst
<1>5. GoesOn /\ run'.pc = pc
  BY <1>1, <1>4, RunMoves DEF PCs, Ended
<1>6. UNCHANGED k3s \/ Touches(First)
  BY <1>1, <1>2, <1>5, FoundsTouches DEF InstallFirst
<1>. QED  BY <1>1, <1>2, <1>3, <1>5, <1>6 DEF Ordinary, Typed, TypeOK

LEMMA JoinOrdinary == ASSUME Typed, Joined, JoinMaster PROVE Ordinary
<1>1. PICK m \in Masters :
        /\ Joining(m) /\ Joins(m)
        /\ (Works(m) /\ ~IsActive(m)) \/ (Breaks /\ ~run.cancelled /\ m \notin down)
  BY DEF JoinMaster
<1>2. run.pc \notin Ended /\ m \in Nodes \ Missing
  BY <1>1, RunLists DEF Joining, Ended, Nodes
<1>3. GoesOn
  BY <1>1, <1>2, NextMoves DEF JoinMaster, Joining
<1>4. trouble' \in 0 .. MaxTrouble
  BY <1>1, <1>2, Spent DEF Breaks
<1>. QED  BY <1>1, <1>2, <1>3, <1>4, JoinsTouches DEF JoinMaster, Ordinary, Typed, TypeOK

LEMMA JoinFailsOrdinary == ASSUME Typed, Joined, JoinMasterFails PROVE Ordinary
<1>1. PICK m \in Masters :
        /\ Joining(m)
        /\ \/ Cut /\ UNCHANGED k3s
           \/ (ScriptFails(m) \/ Breaks) /\ ~IsActive(m) /\ (Joins(m) \/ UNCHANGED k3s)
           \/ /\ Works(m) /\ ~IsActive(m) /\ member[m] = 0 /\ VIP = {}
              /\ unit' = [unit EXCEPT ![m] = "trying"]
              /\ UNCHANGED <<member, inits>>
  BY DEF JoinMasterFails
<1>2. run.pc \notin Ended /\ m \in Nodes \ Missing
  BY <1>1, RunLists DEF Joining, Ended, Nodes
<1>3. GoesOn
  BY <1>2, RunMoves DEF JoinMasterFails, JoinStops, PCs, Ended
<1>4. trouble' \in 0 .. MaxTrouble
  BY <1>1, <1>2, Spent DEF Breaks
<1>5. UNCHANGED k3s \/ Touches(m)
  BY <1>1, <1>2, JoinsTouches, UnitTouches
<1>. QED  BY <1>2, <1>3, <1>4, <1>5 DEF JoinMasterFails, Ordinary, Typed, TypeOK

LEMMA WorkerOrdinary == ASSUME Typed, JoinWorker PROVE Ordinary
<1>1. PICK w \in run.agents :
        /\ run' = [run EXCEPT !.agents = @ \ {w}, !.session = {}]
        /\ \/ (Works(w) \/ ScriptFails(w) \/ Breaks) /\ unit' = [unit EXCEPT ![w] = "active"]
           \/ (ScriptFails(w) \/ Cut) /\ UNCHANGED unit
  BY DEF JoinWorker
<1>2. w \in Nodes \ Missing /\ w \notin Masters
  BY MasterFacts DEF Typed, Runs, Nodes, Missing
<1>3. run' \in Runs /\ run'.pc = run.pc /\ run'.masters = run.masters
  BY <1>1 DEF Typed, Runs
<1>4. trouble' \in 0 .. MaxTrouble
  BY <1>1, <1>2, Spent DEF Breaks
<1>5. UNCHANGED k3s \/ Touches(w)
  BY <1>1, <1>2, UnitTouches DEF JoinWorker, k3s
<1>. QED  BY <1>2, <1>3, <1>4, <1>5, SameMoves DEF JoinWorker, Ordinary, Typed, TypeOK

LEMMA SettleOrdinary == ASSUME Typed, Joined, NEW n \in Nodes, Settle(n) PROVE Ordinary
<1>1. n \notin Missing
  BY MasterFacts DEF Settle, Typed, Missing
<1>2. GoesOn
  BY SameMoves DEF Settle, Typed
<1>. QED  BY <1>1, <1>2, JoinsTouches DEF Settle, Ordinary, Typed, TypeOK

\* All steps but the first of a run are ordinary.
Steps ==
  Progress \/ Interrupt \/ Crash
  \/ \E n \in Nodes : Settle(n) \/ TurnsReady(n) \/ TurnsUnready(n) \/ GoesDown(n) \/ ComesBack(n)

LEMMA StepsOrdinary == ASSUME Typed, Joined, Steps PROVE Ordinary
BY LooksOrdinary, SkipOrdinary, UploadOrdinary, RunOnlyOrdinary, NodesOrdinary, InstallOrdinary,
   JoinOrdinary, JoinFailsOrdinary, WorkerOrdinary, SettleOrdinary
   DEF Steps, Progress

-----------------------------------------------------------------------------
(* What a run has passed                                                   *)

\* Servers stay active.
LEMMA StaysActive ==
  ASSUME Typed, Ordinary, NEW m \in Masters, IsActive(m) PROVE IsActive(m)'
BY OrdinaryMembers DEF IsActive, Nodes

\* It is over, has not begun, or stays where it is.
LEMMA PassedOver == ASSUME run'.pc \in {"idle", "failed"} PROVE Passed'
BY DEF Passed, Late

LEMMA PassedStays ==
  ASSUME Typed, Passed, Ordinary, run'.pc = run.pc, run'.masters = run.masters,
         run'.next = run.next \/ run.pc \in Late
  PROVE  Passed'
<1>1. CASE run.pc \in Late
  BY <1>1, StaysActive DEF Passed, Late
<1>2. CASE run.pc \in {"token", "join"}
  <2>1. \A i \in 1 .. run.next - 1 : run.masters[i] \in Masters
    <3>1. run.masters \in Lists /\ run.next - 1 <= Len(Order) /\ Len(Order) \in Nat
          /\ run.next \in Nat
      BY <1>2, RunLists, MasterFacts DEF Typed, TypeOK
    <3>. QED  BY <3>1, ListFacts
  <2>2. run'.next = run.next
    BY <1>2 DEF Late
  <2>. QED  BY <1>2, <2>1, <2>2, StaysActive DEF Passed, Late
<1>3. CASE run.pc \notin Late \cup {"token", "join"}
  BY <1>3 DEF Passed, Late
<1>. QED  BY <1>1, <1>2, <1>3

\* Once all masters are active, whatever the run does next.
LEMMA PassedLate ==
  ASSUME Typed, Passed, Ordinary, run.pc \in Late, run'.pc \in Late PROVE Passed'
BY StaysActive DEF Passed, Late

\* The first master is active, and so are those before the next one.
LEMMA PassedFirst ==
  ASSUME run'.pc \in {"token", "join"}, run'.next = 2, run'.masters = run.masters,
         unit'[First] = "active"
  PROVE  Passed'
BY DEF Passed, Late, IsActive, First

LEMMA StepPassed == ASSUME Typed, Joined, Passed, Steps PROVE Passed'
<1>1. Ordinary
  BY StepsOrdinary
<1>2. run \in Runs
  BY DEF Typed
<1>3. CASE CheckFirst
  <2>1. PICK pc \in {"token", "found"} : GoTo(pc) /\ (pc = "token" => IsActive(First))
    BY <1>3 DEF CheckFirst
  <2>2. /\ run'.pc = pc /\ run'.masters = run.masters /\ run'.next = run.next /\ run.next = 2
        /\ First \in Masters
    BY <1>3, <2>1, RunMoves, RunLists DEF CheckFirst, PCs, Ended, Passed
  <2>3. CASE pc = "found"
    BY <2>2, <2>3 DEF Passed, Late
  <2>4. CASE pc = "token"
    <3>1. unit'[First] = "active"
      BY <1>1, <2>1, <2>2, <2>4, OrdinaryMembers DEF Nodes
    <3>. QED  BY <2>2, <2>4, <3>1, PassedFirst
  <2>. QED  BY <2>1, <2>3, <2>4
<1>4. CASE InstallFirst
  <2>1. PICK pc \in {"token", "failed"} : GoTo(pc) /\ (pc = "token" => Founds(First))
    BY <1>4 DEF InstallFirst
  <2>2. /\ run'.pc = pc /\ run'.masters = run.masters /\ run'.next = run.next /\ run.next = 2
        /\ First \in Masters
    BY <1>4, <2>1, RunMoves, RunLists DEF InstallFirst, PCs, Ended, Passed
  <2>3. pc = "token" => unit'[First] = "active"
    BY <2>1, <2>2 DEF Founds, Typed, TypeOK, Nodes
  <2>. QED  BY <2>2, <2>3, PassedFirst, PassedOver
<1>5. CASE FetchToken
  <2>1. PICK pc \in {"join", "failed"} : GoTo(pc)
    BY <1>5 DEF FetchToken
  <2>2. /\ run.pc = "token" /\ run'.pc = pc /\ run'.masters = run.masters
        /\ run'.next = run.next /\ run.next = 2 /\ First \in Masters
    BY <1>5, <2>1, RunMoves, RunLists DEF FetchToken, PCs, Ended, Passed
  <2>3. IsActive(First)
    BY <2>2 DEF Passed, First
  <2>4. unit'[First] = "active"
    BY <1>1, <2>2, <2>3, OrdinaryMembers DEF Nodes
  <2>. QED  BY <2>2, <2>4, PassedFirst, PassedOver
<1>6. CASE SkipMaster \/ JoinMaster
  <2>1. /\ JoinNext /\ ~AllJoined /\ run.pc = "join"
        /\ run.masters[run.next] \in Masters
        /\ IsActive(run.masters[run.next]) \/ unit'[run.masters[run.next]] = "active"
    BY <1>6 DEF SkipMaster, JoinMaster, Joining, Joins, Typed, TypeOK, Nodes
  <2>2. /\ run'.pc = "join" /\ run'.masters = run.masters /\ run'.next = run.next + 1
        /\ run.next \in 1 .. Len(Order)
    BY <2>1, NextMoves DEF Ended
  <2>3. unit'[run.masters[run.next]] = "active"
    BY <1>1, <2>1, OrdinaryMembers DEF Nodes
  <2>4. ASSUME NEW i \in 1 .. run.next PROVE unit'[run.masters[i]] = "active"
    <3>1. CASE i = run.next
      BY <2>3, <3>1
    <3>2. CASE i # run.next
      <4>1. i \in 1 .. run.next - 1 /\ i \in 1 .. Len(Order)
        BY <2>2, <3>2, MasterFacts
      <4>2. IsActive(run.masters[i])
        BY <2>1, <4>1 DEF Passed
      <4>3. run.masters[i] \in Masters
        BY <2>1, <4>1, RunLists, ListFacts
      <4>. QED  BY <1>1, <4>2, <4>3, OrdinaryMembers DEF Nodes
    <3>. QED  BY <3>1, <3>2
  <2>5. run'.next - 1 = run.next
    BY <2>2
  <2>. QED  BY <2>2, <2>4, <2>5 DEF Passed, Late, IsActive
<1>7. CASE JoinMasterFails
  BY <1>7, RunMoves, PassedOver DEF JoinMasterFails, JoinStops, Joining, PCs, Ended
<1>8. CASE WaitNodesReady
  <2>1. PICK pc \in {"workers", "failed"} : GoTo(pc)
    BY <1>8 DEF WaitNodesReady
  <2>2. run.pc = "join" /\ AllJoined /\ run'.pc = pc
    BY <1>8, <2>1, RunMoves DEF WaitNodesReady, PCs, Ended
  <2>3. ASSUME NEW m \in Masters PROVE IsActive(m)'
    <3>1. run.masters \in Lists /\ Len(run.masters) = Len(Order)
      BY <2>2, RunLists
    <3>2. PICK i \in 1 .. Len(Order) : run.masters[i] = m
      BY <3>1, ListFacts
    <3>3. i \in 1 .. run.next - 1
      BY <2>2, <3>1, MasterFacts DEF AllJoined, Typed, TypeOK
    <3>. QED  BY <1>1, <2>2, <3>2, <3>3, StaysActive DEF Passed
  <2>. QED  BY <2>2, <2>3, PassedOver DEF Passed, Late
<1>9. CASE JoinWorker
  <2>1. run'.pc = run.pc /\ run'.masters = run.masters /\ run.pc \in Late
    BY <1>2, <1>9 DEF JoinWorker, Runs, Late
  <2>. QED  BY <1>1, <2>1, PassedLate
<1>10. CASE WorkersDone \/ AddonsDone \/ WriteKubeconfig
  <2>1. run.pc \in Late /\ run'.pc \in Late \cup {"failed"}
    BY <1>2, <1>10 DEF WorkersDone, AddonsDone, WriteKubeconfig, GoTo, Runs, Late
  <2>. QED  BY <1>1, <2>1, PassedLate, PassedOver
<1>11. CASE UploadManifest
  <2>1. run.pc \in Late /\ run'.pc \in Late
    BY <1>2, <1>11 DEF UploadManifest, JoinNext, GoTo, Runs, Late
  <2>. QED  BY <1>1, <2>1, PassedLate
<1>12. CASE Dial \/ Interrupt
  <2>1. run'.pc = run.pc /\ run'.masters = run.masters /\ run'.next = run.next
    BY <1>2, <1>12 DEF Dial, Interrupt, Runs
  <2>. QED  BY <1>1, <2>1, PassedStays
<1>13. CASE Crash
  BY <1>13, IdleIsRun, PassedOver DEF Crash
<1>14. CASE \E n \in Nodes : Settle(n) \/ TurnsReady(n) \/ TurnsUnready(n) \/ GoesDown(n) \/ ComesBack(n)
  <2>1. UNCHANGED run
    BY <1>14 DEF Settle, TurnsReady, TurnsUnready, GoesDown, ComesBack
  <2>. QED  BY <1>1, <2>1, PassedStays
<1>. QED  BY <1>3, <1>4, <1>5, <1>6, <1>7, <1>8, <1>9, <1>10, <1>11, <1>12, <1>13, <1>14
          DEF Steps, Progress

-----------------------------------------------------------------------------
(* A run begins                                                            *)

\* The ids of new VMs leave the old ones alone.
LEMMA IdFacts ==
  ASSUME Typed, NEW new \in NewIds, NEW kept \in SUBSET Missing
  PROVE  /\ WithIds(new, kept) \in [Masters -> 0 .. MaxId]
         /\ \A m \in Existing : WithIds(new, kept)[m] = vmid[m]
         /\ \A m \in Missing : WithIds(new, kept)[m] = IF m \in kept THEN new[m] ELSE 0
         /\ \A m \in Missing : new[m] \in 1 .. MaxId
<1>1. new \in [Missing -> 1 .. MaxId] /\ Existing \subseteq Masters /\ Missing = Masters \ Existing
  BY DEF NewIds, Existing, Missing
<1>2. \A m \in Masters : vmid[m] \in 0 .. MaxId
  BY DEF Typed, TypeOK
<1>3. 0 \in 0 .. MaxId /\ 1 .. MaxId \subseteq 0 .. MaxId
  BY ConstantsOK DEF ConstantsOK
<1>. QED  BY <1>1, <1>2, <1>3 DEF WithIds

\* A set of masters is brought into being by a run that starts, or that fails
\* in phases 1-5.
Begins(new, kept) ==
  /\ new \in NewIds /\ kept \subseteq Missing /\ vmid' = WithIds(new, kept)
  /\ UNCHANGED <<env, k3s, ready, vipOn, down>> /\ trouble' \in 0 .. MaxTrouble
  /\ past \subseteq past' /\ past' \subseteq {"partial", "swapped"}
  /\ run' \in Runs
  /\ \/ run'.pc = "check" /\ run'.masters \in Lists /\ run'.next = 2 /\ kept = Missing
     \/ run' = [Idle EXCEPT !.pc = "failed"]

LEMMA BeginsTyped == ASSUME Typed, NEW new, NEW kept, Begins(new, kept) PROVE Typed'
<1>1. /\ vmid' \in [Masters -> 0 .. MaxId]
      /\ \A m \in Existing : vmid'[m] = vmid[m]
      /\ \A m \in Missing : vmid'[m] = IF m \in kept THEN new[m] ELSE 0
      /\ \A m \in Missing : new[m] \in 1 .. MaxId
  BY IdFacts DEF Begins
<1>2. Existing \subseteq Existing' /\ Missing' \subseteq Missing
  BY <1>1 DEF Existing, Missing
<1>3. TypeOK'
  BY <1>1, <1>2, RunTypes DEF Begins, env, k3s, Typed, TypeOK
<1>4. run'.masters # <<>> => Missing' = {}
  <2>1. CASE kept = Missing
    <3>1. \A m \in Missing : vmid'[m] # 0
      BY <1>1, <2>1
    <3>. QED  BY <1>1, <3>1 DEF Missing, Existing
  <2>2. CASE run' = [Idle EXCEPT !.pc = "failed"]
    BY <2>2 DEF Idle
  <2>. QED  BY <2>1, <2>2 DEF Begins
<1>5. run'.pc \in {"idle", "failed"} \/ run'.masters # <<>>
  BY ListFacts DEF Begins, Idle
<1>. QED  BY <1>2, <1>3, <1>4, <1>5 DEF Begins, k3s, Typed

LEMMA BeginsPassed == ASSUME NEW new, NEW kept, Begins(new, kept) PROVE Passed'
BY DEF Begins, Passed, Late, Idle

\* The first of the configuration gets the lowest id of all.
LEMMA LowestFirst ==
  ASSUME Typed, quiet, \A m \in Masters : vmid[m] = 0, NEW new \in NewIds
  PROVE  new[Order[1]] = 1 /\ \A m \in Masters \ {Order[1]} : new[m] > 1
<1>1. Existing = {} /\ Missing = Masters
  BY DEF Existing, Missing
<1>2. /\ new \in [Masters -> 1 .. MaxId] /\ IsInjective(new)
      /\ \A m \in Masters : \A i \in 1 .. new[m] - 1 :
           \E n \in Masters : new[n] = i /\ Earlier(n, m)
  BY <1>1 DEF NewIds
<1>3. Order[1] \in Masters /\ DOMAIN Order = 1 .. Len(Order) /\ Len(Order) \in Nat
  BY MasterFacts
<1>4. \A n \in Masters : ~Earlier(n, Order[1])
  BY <1>3, MasterFacts DEF Earlier
<1>5. new[Order[1]] \in Nat \ {0} /\ \A m \in Masters : new[m] \in Nat \ {0}
  BY <1>2, <1>3
<1>6. new[Order[1]] = 1
  <2>. SUFFICES ASSUME new[Order[1]] # 1 PROVE FALSE
    OBVIOUS
  <2>1. 1 \in 1 .. new[Order[1]] - 1
    BY <1>5
  <2>. QED  BY <1>2, <1>3, <1>4, <2>1
<1>. QED  BY <1>2, <1>3, <1>5, <1>6 DEF IsInjective

\* ... and then every run lists it first.
LEMMA ListedFirst ==
  ASSUME Typed, NEW list \in Lists,
         \A i, j \in DOMAIN list : i < j => Before(list[i], list[j]),
         \/ Existing = {}
         \/ vmid[Order[1]] = 1 /\ \A m \in Masters \ {Order[1]} : vmid[m] > 1
  PROVE  list[1] = Order[1]
<1>1. Order[1] \in Masters /\ Len(Order) \in Nat \ {0}
  BY MasterFacts
<1>2. PICK k \in 1 .. Len(Order) : list[k] = Order[1]
  BY <1>1, ListFacts
<1>3. DOMAIN list = 1 .. Len(Order) /\ list[1] \in Masters
  BY <1>1, ListFacts
<1>. SUFFICES ASSUME k # 1 PROVE FALSE
  BY <1>2
<1>4. Before(list[1], Order[1])
  BY <1>1, <1>2, <1>3
<1>5. CASE Existing = {}
  <2>1. Earlier(list[1], Order[1])
    BY <1>4, <1>5 DEF Before
  <2>. QED  BY <2>1, MasterFacts DEF Earlier
<1>6. CASE vmid[Order[1]] = 1 /\ \A m \in Masters \ {Order[1]} : vmid[m] > 1
  <2>1. Missing = {}
    BY <1>1, <1>6 DEF Missing, Existing
  <2>2. vmid[list[1]] < vmid[Order[1]]
    BY <1>4, <2>1 DEF Before
  <2>3. vmid[list[1]] \in 0 .. MaxId /\ MaxId \in Nat
    BY <1>3, ConstantsOK DEF Typed, TypeOK, ConstantsOK
  <2>. QED  BY <1>3, <1>6, <2>2, <2>3
<1>. QED  BY <1>5, <1>6

\* What FirstLeads says of the ids, after a run has begun.
LEMMA BeginsLead ==
  ASSUME Typed, FirstLeads, NEW new, NEW kept, Begins(new, kept),
         quiet, "partial" \notin past', kept \notin {{}, Missing} => "partial" \in past'
  PROVE  \/ \A m \in Masters : vmid'[m] = 0
         \/ vmid'[Order[1]] = 1 /\ \A m \in Masters \ {Order[1]} : vmid'[m] > 1
<1>1. /\ \A m \in Existing : vmid'[m] = vmid[m]
      /\ \A m \in Missing : vmid'[m] = IF m \in kept THEN new[m] ELSE 0
      /\ new \in NewIds /\ kept \in {{}, Missing} /\ "partial" \notin past
  BY IdFacts DEF Begins
<1>2. Order[1] \in Masters /\ Missing = Masters \ Existing /\ Existing \subseteq Masters
  BY MasterFacts DEF Missing, Existing
<1>3. CASE \A m \in Masters : vmid[m] = 0
  <2>1. Missing = Masters
    BY <1>3 DEF Missing, Existing
  <2>. QED  BY <1>1, <1>2, <1>3, <2>1, LowestFirst
<1>4. CASE vmid[Order[1]] = 1 /\ \A m \in Masters \ {Order[1]} : vmid[m] > 1
  <2>1. Existing = Masters
    BY <1>2, <1>4 DEF Existing
  <2>. QED  BY <1>1, <1>2, <1>4, <2>1
<1>. QED  BY <1>1, <1>3, <1>4 DEF FirstLeads

\* A run starts.
LEMMA StartKeeps == ASSUME IInv, StartRun PROVE IInv'
<1>1. PICK new \in NewIds, list \in Lists :
        /\ vmid' = WithIds(new, Missing)
        /\ \A i, j \in DOMAIN list : i < j => Before(list[i], list[j])
        /\ run' = [Idle EXCEPT !.pc = "check", !.masters = list, !.next = 2,
                               !.agents = AgentsOf(Nodes)]
        /\ past' = past \cup {p \in {"swapped"} :
                                member[list[1]] = 0 /\ \E m \in Masters : member[m] # 0}
  BY DEF StartRun
<1>2. /\ run' \in Runs /\ run'.pc = "check" /\ run'.masters = list /\ run'.next = 2
  <2>1. 2 \in 1 .. Len(Order) + 1 /\ AgentsOf(Nodes) \subseteq Workers
    BY MasterFacts DEF AgentsOf, Nodes
  <2>. QED  BY <1>1, <2>1, IdleIsRun DEF Runs, PCs
<1>3. UNCHANGED <<env, k3s, ready, vipOn, down, trouble>>
  BY DEF StartRun
<1>4. past' \subseteq {"partial", "swapped"} /\ past \subseteq past'
  BY <1>1 DEF IInv, Typed, TypeOK
<1>5. Begins(new, Missing)
  BY <1>1, <1>2, <1>3, <1>4 DEF Begins, IInv, Typed, TypeOK
<1>6. Typed' /\ Passed'
  BY <1>5, BeginsTyped, BeginsPassed DEF IInv
<1>7. Joined'
  BY <1>3 DEF IInv, Joined, k3s, IsActive
<1>8. First' = list[1] /\ list # <<>> /\ list[1] \in Masters
  BY <1>2, ListFacts, MasterFacts DEF First
<1>9. Single'
  BY <1>1, <1>3, <1>8 DEF IInv, Single, k3s
<1>10. FirstLeads'
  <2>. SUFFICES ASSUME quiet', "partial" \notin past'
       PROVE /\ \/ \A m \in Masters : vmid'[m] = 0
                \/ vmid'[Order[1]] = 1 /\ \A m \in Masters \ {Order[1]} : vmid'[m] > 1
             /\ First' = Order[1]
             /\ member'[Order[1]] = 0 => \A m \in Masters : member'[m] = 0
             /\ "swapped" \notin past'
    BY DEF FirstLeads
  <2>1. quiet /\ "partial" \notin past /\ UNCHANGED member
    BY <1>3, <1>4 DEF env, k3s
  <2>2. \/ \A m \in Masters : vmid'[m] = 0
        \/ vmid'[Order[1]] = 1 /\ \A m \in Masters \ {Order[1]} : vmid'[m] > 1
    BY <1>5, <2>1, BeginsLead DEF IInv
  <2>3. \/ Existing = {}
        \/ vmid[Order[1]] = 1 /\ \A m \in Masters \ {Order[1]} : vmid[m] > 1
    BY <2>1 DEF IInv, FirstLeads, Existing
  <2>4. list[1] = Order[1]
    BY <1>1, <2>3, ListedFirst DEF IInv
  <2>. QED  BY <1>1, <1>8, <2>1, <2>2, <2>4 DEF IInv, FirstLeads
<1>. QED  BY <1>6, <1>7, <1>9, <1>10 DEF IInv

\* It fails before phase 6.
LEMMA ProvisionKeeps == ASSUME IInv, ProvisionFails PROVE IInv'
<1>1. PICK new \in NewIds, kept \in SUBSET Missing :
        /\ vmid' = WithIds(new, kept)
        /\ past' = past \cup {p \in {"partial"} : kept \notin {{}, Missing}}
  BY DEF ProvisionFails
<1>2. /\ run' = [Idle EXCEPT !.pc = "failed"] /\ UNCHANGED <<env, k3s, ready, vipOn, down>>
      /\ trouble' \in 0 .. MaxTrouble
  BY Spent DEF ProvisionFails, IInv
<1>3. run' \in Runs /\ run'.pc = "failed" /\ run'.masters = <<>>
  BY <1>2, IdleIsRun DEF Runs, PCs, Ended
<1>4. past' \subseteq {"partial", "swapped"} /\ past \subseteq past'
  BY <1>1 DEF IInv, Typed, TypeOK
<1>5. Begins(new, kept)
  BY <1>1, <1>2, <1>3, <1>4 DEF Begins
<1>6. Typed' /\ Passed'
  BY <1>5, BeginsTyped, BeginsPassed DEF IInv
<1>7. Joined' /\ Single'
  BY <1>1, <1>2, <1>3 DEF IInv, Joined, Single, k3s, IsActive
<1>8. FirstLeads'
  <2>. SUFFICES ASSUME quiet', "partial" \notin past'
       PROVE /\ \/ \A m \in Masters : vmid'[m] = 0
                \/ vmid'[Order[1]] = 1 /\ \A m \in Masters \ {Order[1]} : vmid'[m] > 1
             /\ member'[Order[1]] = 0 => \A m \in Masters : member'[m] = 0
             /\ "swapped" \notin past'
    BY <1>3 DEF FirstLeads
  <2>1. quiet /\ "partial" \notin past /\ UNCHANGED member
    BY <1>2, <1>4 DEF env, k3s
  <2>2. kept \notin {{}, Missing} => "partial" \in past'
    BY <1>1
  <2>3. \/ \A m \in Masters : vmid'[m] = 0
        \/ vmid'[Order[1]] = 1 /\ \A m \in Masters \ {Order[1]} : vmid'[m] > 1
    BY <1>5, <2>1, <2>2, BeginsLead DEF IInv
  <2>. QED  BY <1>1, <2>1, <2>3 DEF IInv, FirstLeads
<1>. QED  BY <1>6, <1>7, <1>8 DEF IInv

-----------------------------------------------------------------------------
(* Theorems                                                                *)

LEMMA InitInv == Init => IInv
<1>. SUFFICES ASSUME Init PROVE IInv
  OBVIOUS
<1>1. TypeOK
  BY MasterFacts, ConstantsOK DEF Init, Idle, TypeOK, ConstantsOK, Nodes
<1>2. Typed
  BY <1>1, IdleIsRun DEF Init, Typed, Idle, Missing, Nodes
<1>3. Joined /\ Single /\ FirstLeads /\ Passed
  BY IdleIsRun, MasterFacts DEF Init, Joined, Single, FirstLeads, Passed, Late, IsActive, Nodes
<1>. QED  BY <1>2, <1>3 DEF IInv

LEMMA NextInv == IInv /\ [Next]_vars => IInv'
<1>. SUFFICES ASSUME IInv, [Next]_vars PROVE IInv'
  OBVIOUS
<1>1. CASE UNCHANGED vars
  BY <1>1 DEF vars, world, env, IInv, Typed, TypeOK, Joined, Single, FirstLeads, Passed,
              Existing, Missing, IsActive, First
<1>2. CASE StartRun
  BY <1>2, StartKeeps
<1>3. CASE ProvisionFails
  BY <1>3, ProvisionKeeps
<1>4. CASE Steps
  <2>1. Ordinary
    BY <1>4, StepsOrdinary DEF IInv
  <2>2. Typed' /\ Joined' /\ Single' /\ FirstLeads'
    BY <2>1, OrdinaryTyped, OrdinaryOne DEF IInv
  <2>3. Passed'
    BY <1>4, StepPassed DEF IInv
  <2>. QED  BY <2>2, <2>3 DEF IInv
<1>. QED  BY <1>1, <1>2, <1>3, <1>4 DEF Next, Steps

LEMMA Invariance == Spec => []IInv
BY InitInv, NextInv, PTL DEF Spec

\* For any masters, workers and trouble, and however often create is run: the
\* types of Bootstrap; a manifest and a Ready mark are only where a VM is.
THEOREM TypeCorrect == Spec => []TypeOK
<1>1. IInv => TypeOK
  BY DEF IInv, Typed
<1>. QED  BY <1>1, Invariance, PTL

\* However many runs, and whatever fails, is killed, or is left half-made: all
\* active servers are members of one k3s cluster, unless some run listed first a
\* master that belonged to no cluster while another did (create.go:284).
THEOREM NeverTwo == Spec => []OneUnlessSwapped
<1>1. IInv => OneUnlessSwapped
  BY DEF IInv, Joined, Single, OneUnlessSwapped, OneCluster, Existing
<1>. QED  BY <1>1, Invariance, PTL

\* If no other VM of the Proxmox cluster comes or goes, such a run comes only
\* after one that left some of its masters and not all in phases 1-5.
THEOREM OnlyAfterPartial == Spec => []OrderKept
<1>1. IInv => OrderKept
  BY DEF IInv, FirstLeads, OrderKept
<1>. QED  BY <1>1, Invariance, PTL

\* A run that ends well has brought all masters of the configuration into the
\* cluster of the first, also after runs that stopped half-way.
THEOREM DoneIsJoined == Spec => []DoneMeansJoined
<1>1. IInv => DoneMeansJoined
  <2>. SUFFICES ASSUME IInv, run.pc = "done", NEW m \in Masters
       PROVE IsActive(m) /\ ("swapped" \notin past => member[m] = member[First])
    BY DEF DoneMeansJoined
  <2>1. \A n \in Masters : IsActive(n)
    BY DEF IInv, Passed, Late
  <2>2. First \in Masters
    BY RunLists DEF IInv
  <2>. QED  BY <2>1, <2>2 DEF IInv, Joined, Single
<1>. QED  BY <1>1, Invariance, PTL
=============================================================================
