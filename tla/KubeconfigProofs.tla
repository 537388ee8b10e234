-------------------------- MODULE KubeconfigProofs --------------------------
(***************************************************************************)
(* Proofs about Kubeconfig, for any clusters, any foreign entries, any     *)
(* names that are equal but for case and any number of overlapping runs,   *)
(* crashes and renewals: it takes two overlapping runs to make a file that *)
(* cannot be read; in one that can, no name is twice in a list and no      *)
(* context lacks its cluster or its user; and as long as no run reads      *)
(* while another writes, each delivers its cluster and keeps what was      *)
(* there.                                                                  *)
(*                                                                         *)
(* None is inductive by itself, because a run writes what it merged some   *)
(* time before: the same must hold of what each run has in memory.         *)
(***************************************************************************)
EXTENDS Kubeconfig, TLAPS

\* No list has two entries of one name.
Unique(f) ==
  /\ \A d, e \in f.clusters : d.name = e.name => d = e
  /\ \A d, e \in f.users : d.name = e.name => d = e
\* Every context has its cluster and its user.
Closed(f) == f.contexts \subseteq NamesIn(f.clusters) \cap NamesIn(f.users)
\* A kubeconfig that is as it should be.
Sound(f) == f \in Files /\ Unique(f) /\ Closed(f)

\* The strengthening: so is the file, if it can be read, and whatever a run may
\* yet write.
AllSound ==
  /\ (file = Mixed \/ Sound(file)) /\ start \in Files
  /\ \A c \in Clusters : Sound(run[c].new) /\ Sound(run[c].out)

PCs == {"idle", "read", "truncate", "fill"}
Runs == [pc : PCs, new : Files, out : Files]
\* The types of the rest.
Rest ==
  /\ fold \in Folds
  /\ gen \in [Clusters -> 1 .. MaxGen] /\ run \in [Clusters -> Runs]
  /\ wrote \subseteq Clusters /\ torn \subseteq {"overlap", "killed"}
  /\ crashes \in 0 .. MaxCrashes
IInv == Rest /\ AllSound

-----------------------------------------------------------------------------
(* The kubeconfigs that a run handles are sound                            *)

\* A file that is missing or was emptied.
LEMMA EmptyIsSound == Sound(Empty)
BY ConstantsOK DEF Sound, Files, Entries, Unique, Closed, Empty, NamesIn

\* What other tools left there.
LEMMA StartIsSound ==
  ASSUME NEW n \in Foreign
  PROVE  Sound([clusters |-> Theirs, contexts |-> Foreign, users |-> Theirs,
                current |-> n, fields |-> Foreign])
<1> DEFINE f == [clusters |-> Theirs, contexts |-> Foreign, users |-> Theirs,
                 current |-> n, fields |-> Foreign]
<1>1. Theirs \subseteq Entries
  BY ConstantsOK DEF Theirs, Entries, AllNames
<1>2. f \in Files
  BY <1>1 DEF Files, AllNames
<1>3. Unique(f)
  BY DEF Unique, Theirs
<1>4. ASSUME NEW m \in Foreign PROVE m \in NamesIn(Theirs)
  <2>1. [name |-> m, gen |-> 0] \in Theirs /\ [name |-> m, gen |-> 0].name = m
    BY DEF Theirs
  <2> QED
    BY <2>1 DEF NamesIn
<1>5. Foreign \subseteq NamesIn(Theirs)
  BY <1>4
<1> QED
  BY <1>2, <1>3, <1>5 DEF Sound, Closed

\* What RewriteKubeconfig returns.
LEMMA RewrittenIsSound ==
  ASSUME Rest, NEW c \in Clusters
  PROVE  Sound(Rewritten(c))
<1>1. gen[c] \in 0 .. MaxGen
  BY ConstantsOK DEF Rest
<1>2. {[name |-> c, gen |-> gen[c]]} \subseteq Entries
  BY <1>1 DEF Entries, AllNames
<1>3. Rewritten(c) \in Files
  BY <1>2 DEF Rewritten, Files, AllNames
<1>4. Unique(Rewritten(c)) /\ Closed(Rewritten(c))
  BY DEF Unique, Closed, Rewritten, NamesIn
<1> QED
  BY <1>3, <1>4 DEF Sound

\* Merging the lists: the names of both are there, and each of them once.
LEMMA MergedClusters ==
  ASSUME NEW B, NEW X, \A d, e \in B : d.name = e.name => d = e,
         \A d, e \in X : d.name = e.name => d = e
  PROVE  /\ NamesIn(ClusterEntries(B, X)) = NamesIn(B) \cup NamesIn(X)
         /\ \A d, e \in ClusterEntries(B, X) : d.name = e.name => d = e
BY DEF ClusterEntries, NamesIn
LEMMA MergedUsers ==
  ASSUME NEW B, NEW X, \A d, e \in B : d.name = e.name => d = e,
         \A d, e \in X : d.name = e.name => d = e
  PROVE  /\ NamesIn(Users(B, X)) = NamesIn(B) \cup NamesIn(X)
         /\ \A d, e \in Users(B, X) : d.name = e.name => d = e
BY DEF Users, NamesIn

\* mergeConfigs makes a sound kubeconfig of two.
LEMMA MergedIsSound ==
  ASSUME NEW b, NEW x, Sound(b), Sound(x)
  PROVE  Sound(Merged(b, x))
<1>1. /\ NamesIn(ClusterEntries(b.clusters, x.clusters)) = NamesIn(b.clusters) \cup NamesIn(x.clusters)
      /\ \A d, e \in ClusterEntries(b.clusters, x.clusters) : d.name = e.name => d = e
  BY MergedClusters DEF Sound, Unique
<1>2. /\ NamesIn(Users(b.users, x.users)) = NamesIn(b.users) \cup NamesIn(x.users)
      /\ \A d, e \in Users(b.users, x.users) : d.name = e.name => d = e
  BY MergedUsers DEF Sound, Unique
<1>3. Contexts(b.contexts, x.contexts) \subseteq b.contexts \cup x.contexts
  BY DEF Contexts
<1>4. Merged(b, x) \in Files
  <2>1. /\ b.clusters \subseteq Entries /\ x.clusters \subseteq Entries
        /\ b.users \subseteq Entries /\ x.users \subseteq Entries
        /\ b.contexts \subseteq AllNames /\ x.contexts \subseteq AllNames
        /\ b.current \in AllNames \cup {None}
    BY DEF Sound, Files
  <2>2. /\ ClusterEntries(b.clusters, x.clusters) \subseteq Entries
        /\ Users(b.users, x.users) \subseteq Entries
        /\ Contexts(b.contexts, x.contexts) \subseteq AllNames
    BY <2>1, <1>3 DEF ClusterEntries, Users
  <2> QED
    BY <2>1, <2>2 DEF Merged, Files
<1>5. Unique(Merged(b, x))
  BY <1>1, <1>2 DEF Unique, Merged
<1>6. Closed(Merged(b, x))
  <2>1. b.contexts \subseteq NamesIn(b.clusters) \cap NamesIn(b.users)
    BY DEF Sound, Closed
  <2>2. x.contexts \subseteq NamesIn(x.clusters) \cap NamesIn(x.users)
    BY DEF Sound, Closed
  <2> QED
    BY <1>1, <1>2, <1>3, <2>1, <2>2 DEF Closed, Merged
<1> QED
  BY <1>4, <1>5, <1>6 DEF Sound

-----------------------------------------------------------------------------
(* The invariant                                                           *)

\* It holds before the first run.
LEMMA InitSound == Init => IInv
<1> SUFFICES ASSUME Init PROVE IInv
  OBVIOUS
<1>1. Sound(file) /\ start = file
  BY EmptyIsSound, StartIsSound DEF Init
<1>2. run \in [Clusters -> Runs] /\ \A c \in Clusters : run[c] = Idle
  BY EmptyIsSound DEF Init, Idle, Runs, PCs, Sound
<1>3. AllSound
  BY <1>1, <1>2, EmptyIsSound DEF AllSound, Idle, Sound
<1>4. Rest
  <2>1. torn = {} /\ wrote = {}
    BY DEF Init
  <2>2. fold \in Folds /\ gen = [c \in Clusters |-> 1] /\ crashes = MaxCrashes
    BY DEF Init
  <2>3. gen \in [Clusters -> 1 .. MaxGen] /\ crashes \in 0 .. MaxCrashes
    BY <2>2, ConstantsOK DEF ConstantsOK
  <2> QED
    BY <1>2, <2>1, <2>2, <2>3 DEF Rest
<1> QED
  BY <1>3, <1>4 DEF IInv

\* A step of run c that leaves it with sound kubeconfigs keeps the others'.
LEMMA StepSound ==
  ASSUME IInv, NEW c \in Clusters, NEW r \in Runs, Step(c, r), Sound(r.new), Sound(r.out)
  PROVE  /\ run' \in [Clusters -> Runs]
         /\ \A d \in Clusters : Sound(run'[d].new) /\ Sound(run'[d].out)
<1>1. run \in [Clusters -> Runs] /\ run' = [run EXCEPT ![c] = r]
  BY DEF IInv, Rest, Step
<1>2. \A d \in Clusters : run'[d] = IF d = c THEN r ELSE run[d]
  BY <1>1
<1> QED
  BY <1>1, <1>2 DEF IInv, AllSound

\* Every step keeps it: only Read makes something new, and it merges.
LEMMA NextSound == IInv /\ [Next]_vars => IInv'
<1> SUFFICES ASSUME IInv, [Next]_vars PROVE IInv'
  OBVIOUS
<1> USE DEF IInv, Rest, AllSound
<1>1. ASSUME NEW c \in Clusters, Fetch(c) PROVE IInv'
  <2> DEFINE r == [Idle EXCEPT !.pc = "read", !.new = Rewritten(c)]
  <2>1. Sound(Rewritten(c)) /\ Sound(Empty)
    BY RewrittenIsSound, EmptyIsSound
  <2>2. r \in Runs /\ r.new = Rewritten(c) /\ r.out = Empty
    BY <2>1 DEF Idle, Runs, PCs, Sound
  <2>3. Step(c, r) /\ UNCHANGED <<fold, file, gen, start, wrote, torn, crashes>>
    BY <1>1 DEF Fetch
  <2> HIDE DEF r
  <2> QED
    BY <2>1, <2>2, <2>3, StepSound
<1>2. ASSUME NEW c \in Clusters, Read(c) PROVE IInv'
  <2> DEFINE out == IF file = Empty THEN run[c].new ELSE Merged(file, run[c].new)
             r == [run[c] EXCEPT !.pc = "truncate", !.out = out]
  <2>0. Sound(file)
    BY <1>2 DEF Read
  <2>1. Sound(out) /\ Sound(run[c].new) /\ run[c] \in Runs
    BY <2>0, MergedIsSound
  <2> HIDE DEF out
  <2>2. r \in Runs /\ r.new = run[c].new /\ r.out = out
    BY <2>1 DEF Runs, PCs, Sound
  <2>3. /\ Step(c, r) /\ torn' \subseteq {"overlap", "killed"}
        /\ UNCHANGED <<fold, file, gen, start, wrote, crashes>>
    BY <1>2 DEF Read, out
  <2> HIDE DEF r
  <2> QED
    BY <2>1, <2>2, <2>3, StepSound
<1>3. ASSUME NEW c \in Clusters, Truncate(c) PROVE IInv'
  <2> DEFINE r == [run[c] EXCEPT !.pc = "fill"]
  <2>1. r \in Runs /\ r.new = run[c].new /\ r.out = run[c].out
    BY DEF Runs, PCs
  <2>2. Step(c, r) /\ file' = Empty /\ UNCHANGED <<fold, gen, start, wrote, torn, crashes>>
    BY <1>3 DEF Truncate, Emptied
  <2> HIDE DEF r
  <2> QED
    BY <2>1, <2>2, StepSound, EmptyIsSound
<1>4. ASSUME NEW c \in Clusters, Fill(c) PROVE IInv'
  <2>1. Idle \in Runs /\ Sound(Idle.new) /\ Sound(Idle.out)
    BY EmptyIsSound DEF Idle, Runs, PCs, Sound
  <2>2. Step(c, Idle) /\ file' \in {run[c].out, Mixed} /\ wrote' = wrote \cup {c}
        /\ UNCHANGED <<fold, gen, start, torn, crashes>>
    BY <1>4 DEF Fill
  <2> QED
    BY <2>1, <2>2, StepSound
<1>5. ASSUME NEW c \in Clusters, Crash(c) PROVE IInv'
  <2>1. Idle \in Runs /\ Sound(Idle.new) /\ Sound(Idle.out)
    BY EmptyIsSound DEF Idle, Runs, PCs, Sound
  <2>2. Step(c, Idle) /\ crashes > 0 /\ crashes' = crashes - 1
        /\ torn' \subseteq {"overlap", "killed"} /\ UNCHANGED <<fold, file, gen, start, wrote>>
    BY <1>5 DEF Crash
  <2>3. crashes' \in 0 .. MaxCrashes
    BY <2>2, ConstantsOK
  <2> QED
    BY <2>1, <2>2, <2>3, StepSound
<1>6. ASSUME NEW c \in Clusters, Renew(c) PROVE IInv'
  <2>1. gen' = [gen EXCEPT ![c] = @ + 1] /\ gen[c] < MaxGen
    BY <1>6 DEF Renew
  <2>2. gen' \in [Clusters -> 1 .. MaxGen]
    BY <2>1, ConstantsOK
  <2>3. wrote' \subseteq Clusters /\ UNCHANGED <<fold, file, run, start, torn, crashes>>
    BY <1>6 DEF Renew
  <2> QED
    BY <2>2, <2>3
<1>7. ASSUME NEW c \in Clusters, ReadFails(c) PROVE IInv'
  <2>1. Idle \in Runs /\ Sound(Idle.new) /\ Sound(Idle.out)
    BY EmptyIsSound DEF Idle, Runs, PCs, Sound
  <2>2. Step(c, Idle) /\ UNCHANGED <<fold, file, gen, start, wrote, torn, crashes>>
    BY <1>7 DEF ReadFails
  <2> QED
    BY <2>1, <2>2, StepSound
<1>8. CASE UNCHANGED vars
  BY <1>8 DEF vars
<1> QED
  BY <1>1, <1>2, <1>3, <1>4, <1>5, <1>6, <1>7, <1>8 DEF Next

\* What it is for.
LEMMA SoundGives == IInv => TypeOK /\ NoDangling
BY DEF IInv, Rest, AllSound, Sound, Unique, Closed, Runs, PCs, TypeOK, NoDangling

-----------------------------------------------------------------------------
(* One writer at a time                                                    *)

\* While no run has read as another was to write, one at most is writing, and
\* what it empties stays empty until it fills it.
Sole ==
  "overlap" \notin torn =>
    /\ file # Mixed
    /\ \A c, d \in Writing : c = d
    /\ \A c \in Clusters : run[c].pc = "fill" => file = Empty

\* It holds before the first run.
LEMMA InitSole == Init => Sole
<1> SUFFICES ASSUME Init PROVE Sole
  OBVIOUS
<1>1. IInv
  BY InitSound
<1>2. \A c \in Clusters : run[c].pc = "idle"
  BY DEF Init, Idle
<1>3. file # Mixed
  BY StartIsSound, EmptyIsSound, ConstantsOK DEF ConstantsOK, Init, Sound
<1> QED
  BY <1>2, <1>3 DEF Sole, Writing

\* A step that makes run c no writer, and leaves the file alone, keeps it.
LEMMA SoleStep ==
  ASSUME IInv, Sole, NEW c \in Clusters, NEW r, Step(c, r), r.pc \in {"idle", "read"},
         file' = file, torn \subseteq torn'
  PROVE  Sole'
<1>1. \A d \in Clusters : run'[d] = IF d = c THEN r ELSE run[d]
  BY DEF IInv, Rest, Step
<1> QED
  BY <1>1 DEF Sole, Writing

\* Every step keeps it: a run that comes to write while another does has read
\* while the other did.
LEMMA SoleNext == IInv /\ Sole /\ [Next]_vars => Sole'
<1> SUFFICES ASSUME IInv, Sole, [Next]_vars PROVE Sole'
  OBVIOUS
<1>0. \A c \in Clusters : \A r : Step(c, r) => \A d \in Clusters : run'[d] = IF d = c THEN r ELSE run[d]
  BY DEF IInv, Rest, Step
<1>1. Idle.pc = "idle" /\ Empty # Mixed
  BY EmptyIsSound, ConstantsOK DEF Idle, ConstantsOK, Sound
<1>2. ASSUME NEW c \in Clusters, Fetch(c) PROVE Sole'
  <2> DEFINE r == [Idle EXCEPT !.pc = "read", !.new = Rewritten(c)]
  <2>1. Step(c, r) /\ file' = file /\ torn' = torn /\ r.pc = "read"
    BY <1>2 DEF Fetch, Idle
  <2> HIDE DEF r
  <2> QED
    BY <2>1, SoleStep
<1>3. ASSUME NEW c \in Clusters, ReadFails(c) \/ Crash(c) PROVE Sole'
  <2>1. Step(c, Idle) /\ file' = file /\ torn \subseteq torn'
    BY <1>3 DEF ReadFails, Crash
  <2> QED
    BY <1>1, <2>1, SoleStep
<1>4. ASSUME NEW c \in Clusters, Read(c) PROVE Sole'
  <2> DEFINE r == [run[c] EXCEPT !.pc = "truncate",
                     !.out = IF file = Empty THEN run[c].new ELSE Merged(file, run[c].new)]
  <2>1. Step(c, r) /\ file' = file /\ torn' = torn \cup {t \in {"overlap"} : Writing # {}}
    BY <1>4 DEF Read
  <2>2. \A d \in Clusters : run'[d] = IF d = c THEN r ELSE run[d]
    BY <1>0, <2>1
  <2>3. r.pc = "truncate"
    BY DEF IInv, Rest, Runs
  <2> HIDE DEF r
  <2>4. ASSUME "overlap" \notin torn' PROVE "overlap" \notin torn /\ Writing = {}
    BY <2>1, <2>4
  <2>5. \A d \in Clusters : Writing = {} => run[d].pc \notin {"truncate", "fill"}
    BY DEF Writing
  <2> QED
    BY <2>1, <2>2, <2>3, <2>4, <2>5 DEF Sole, Writing
<1>5. ASSUME NEW c \in Clusters, Truncate(c) PROVE Sole'
  <2> DEFINE r == [run[c] EXCEPT !.pc = "fill"]
  <2>1. Step(c, r) /\ file' = Empty /\ torn' = torn /\ run[c].pc = "truncate"
    BY <1>5 DEF Truncate, Emptied
  <2>2. \A d \in Clusters : run'[d] = IF d = c THEN r ELSE run[d]
    BY <1>0, <2>1
  <2> HIDE DEF r
  <2>3. Writing' \subseteq Writing
    BY <2>1, <2>2 DEF Writing
  <2> QED
    BY <1>1, <2>1, <2>3 DEF Sole
<1>6. ASSUME NEW c \in Clusters, Fill(c) PROVE Sole'
  <2>1. /\ Step(c, Idle) /\ file' \in {run[c].out} \cup {f \in {Mixed} : file # Empty}
        /\ torn' = torn /\ run[c].pc = "fill"
    BY <1>6 DEF Fill
  <2>2. \A d \in Clusters : run'[d] = IF d = c THEN Idle ELSE run[d]
    BY <1>0, <2>1
  <2>3. run[c].out # Mixed
    BY ConstantsOK DEF ConstantsOK, IInv, AllSound, Sound
  <2>4. ASSUME "overlap" \notin torn PROVE Writing' = {} /\ file' # Mixed
    <3>1. file = Empty /\ \A d \in Writing : d = c
      BY <2>1, <2>4 DEF Sole, Writing
    <3> QED
      BY <1>1, <2>1, <2>2, <2>3, <3>1 DEF Writing
  <2>5. \A d \in Clusters : Writing' = {} => run'[d].pc # "fill"
    BY DEF Writing
  <2> QED
    BY <2>1, <2>4, <2>5 DEF Sole
<1>7. ASSUME NEW c \in Clusters, Renew(c) PROVE Sole'
  BY <1>7 DEF Renew, Sole, Writing
<1>8. CASE UNCHANGED vars
  BY <1>8 DEF vars, Sole, Writing
<1> QED
  BY <1>2, <1>3, <1>4, <1>5, <1>6, <1>7, <1>8 DEF Next

-----------------------------------------------------------------------------

\* Whatever runs of create do with ~/.kube/config, also when two write over each
\* other: if it can be read at all, it has no two clusters and no two users of
\* one name (mergeConfigs, kubeconfig.go:105-138).
THEOREM TypeCorrect == Spec => []TypeOK
<1>1. IInv => TypeOK
  BY SoundGives
<1> QED
  BY InitSound, NextSound, <1>1, PTL DEF Spec

\* ... and every context that it lists has its cluster and its user, although
\* only the test for contexts ignores case and no run locks the file.
THEOREM NeverDangling == Spec => []NoDangling
<1>1. IInv => NoDangling
  BY SoundGives
<1> QED
  BY InitSound, NextSound, <1>1, PTL DEF Spec

\* It takes two overlapping runs to make a file that cannot be read; a run that
\* is killed between emptying it and filling it does not (kubeconfig.go:102).
THEOREM StaysReadable == Spec => []Readable
<1>1. Sole => Readable
  BY DEF Sole, Readable
<1> QED
  BY InitSound, NextSound, InitSole, SoleNext, <1>1, PTL DEF Spec

-----------------------------------------------------------------------------
(* Delivered and OthersKept: the invariant                                 *)

\* A kubeconfig through which the clusters W can be reached, each with its CA
\* and, while it is the first of its name, with its certificate.
Serves(f, W) ==
  \A c \in W : Alone(c) => /\ c \in f.contexts
                           /\ [name |-> c, gen |-> gen[c]] \in f.clusters
                           /\ gen[c] = 1 => [name |-> c, gen |-> 1] \in f.users
\* One that still has what other tools had put into the file.
Keeps(f) ==
  start # Empty =>
    /\ start.clusters \subseteq f.clusters /\ start.users \subseteq f.users
    /\ start.contexts \subseteq f.contexts /\ f.current = start.current
\* No user of a cluster of ours is from the future, or from before the first.
Timely(f) == \A e \in f.users : e.name \in Clusters => e.gen \in 1 .. gen[e.name]

\* What holds whatever is torn.
Known ==
  /\ start # Empty => /\ NamesIn(start.clusters) \subseteq Foreign /\ start.current \in Foreign
  /\ file = Mixed \/ Timely(file)
  /\ \A c \in Clusters : /\ Timely(run[c].new) /\ Timely(run[c].out)
                         /\ run[c].pc # "idle" => run[c].new = Rewritten(c)
\* While nothing is torn: until the one that writes empties the file, the file
\* is what it merged with, and from then on it has in memory what the file must
\* be.
Written ==
  /\ file # Mixed /\ \A c, d \in Writing : c = d
  /\ \A c \in Clusters :
       run[c].pc = "truncate" =>
         run[c].out = IF file = Empty THEN run[c].new ELSE Merged(file, run[c].new)
  /\ \A c \in Clusters :
       run[c].pc = "fill" => /\ file = Empty
                             /\ Serves(run[c].out, wrote \cup {c}) /\ Keeps(run[c].out)
  /\ (\A c \in Clusters : run[c].pc # "fill") => Serves(file, wrote) /\ Keeps(file)
Good == IInv /\ Known /\ (torn = {} => Written)

\* What RewriteKubeconfig makes, and merges, has no user from another time.
LEMMA MergedIsTimely ==
  ASSUME IInv, NEW c \in Clusters
  PROVE  Timely(Rewritten(c)) /\ (Timely(file) => Timely(Merged(file, Rewritten(c))))
<1>1. gen[c] \in 1 .. MaxGen /\ Rewritten(c).users = {[name |-> c, gen |-> gen[c]]}
  BY DEF IInv, Rest, Rewritten
<1>2. Timely(Rewritten(c))
  BY <1>1, ConstantsOK DEF Timely
<1>3. Merged(file, Rewritten(c)).users \subseteq file.users \cup Rewritten(c).users
  BY DEF Merged, Users
<1> QED
  BY <1>2, <1>3 DEF Timely

\* Merging keeps what was there and adds the cluster.
LEMMA MergedIsGood ==
  ASSUME IInv, Known, file # Mixed, NEW c \in Clusters, NEW W \in SUBSET Clusters,
         Serves(file, W), Keeps(file)
  PROVE  LET f == IF file = Empty THEN Rewritten(c) ELSE Merged(file, Rewritten(c))
         IN  Serves(f, W \cup {c}) /\ Keeps(f)
<1> DEFINE x == Rewritten(c)
           f == IF file = Empty THEN x ELSE Merged(file, x)
<1>1. /\ gen[c] \in 1 .. MaxGen /\ x.contexts = {c} /\ x.current = c
      /\ x.clusters = {[name |-> c, gen |-> gen[c]]} /\ x.users = {[name |-> c, gen |-> gen[c]]}
      /\ NamesIn(x.clusters) = {c} /\ NamesIn(x.users) = {c} /\ Sound(file)
  BY DEF IInv, Rest, AllSound, Rewritten, NamesIn
<1> HIDE DEF x
<1>2. ASSUME file = Empty PROVE Serves(f, W \cup {c}) /\ Keeps(f)
  <2>1. start = Empty
    BY <1>2, ConstantsOK DEF ConstantsOK, Keeps, Known, Empty
  <2>2. \A d \in W : ~Alone(d)
    BY <1>2 DEF Serves, Empty
  <2>3. Serves(x, W \cup {c}) /\ Keeps(x)
    BY <1>1, <2>1, <2>2 DEF Serves, Keeps
  <2> QED
    BY <1>2, <2>3
<1>3. ASSUME file # Empty PROVE Serves(f, W \cup {c}) /\ Keeps(f)
  <2>1. f = Merged(file, x)
    BY <1>3
  <2>2. /\ f.clusters = {e \in file.clusters : e.name # c} \cup x.clusters
        /\ f.users = file.users \cup {e \in x.users : e.name \notin NamesIn(file.users)}
        /\ f.contexts = file.contexts \cup {n \in {c} : ~\E m \in file.contexts : SameName(m, n)}
        /\ f.current = file.current
    <3>1. /\ f.clusters = ClusterEntries(file.clusters, x.clusters)
          /\ f.users = Users(file.users, x.users)
          /\ f.contexts = Contexts(file.contexts, x.contexts) /\ f.current = file.current
      BY <2>1 DEF Merged
    <3> HIDE DEF f
    <3> QED
      BY <1>1, <3>1 DEF ClusterEntries, Users, Contexts
  <2> HIDE DEF f
  <2>3. Keeps(f)
    <3>1. SUFFICES ASSUME start # Empty PROVE Keeps(f)
      BY DEF Keeps
    <3>2. \A e \in start.clusters : e.name # c
      BY <3>1, ConstantsOK DEF ConstantsOK, Known, NamesIn
    <3> QED
      BY <2>2, <3>1, <3>2 DEF Keeps
  <2>4. ASSUME NEW d \in W \cup {c}, Alone(d)
        PROVE  /\ d \in f.contexts /\ [name |-> d, gen |-> gen[d]] \in f.clusters
               /\ gen[d] = 1 => [name |-> d, gen |-> 1] \in f.users
    <3>1. CASE d # c
      BY <2>2, <2>4, <3>1 DEF Serves
    <3>2. CASE d = c
      <4>1. d \in f.contexts
        <5>1. file.contexts \subseteq AllNames
          BY <1>1 DEF Sound, Files
        <5> QED
          BY <2>2, <2>4, <3>2, <5>1 DEF Alone, SameName
      <4>2. ASSUME gen[c] = 1 PROVE [name |-> c, gen |-> 1] \in f.users
        <5>1. CASE c \notin NamesIn(file.users)
          BY <1>1, <2>2, <4>2, <5>1
        <5>2. CASE c \in NamesIn(file.users)
          <6>1. PICK e \in file.users : e.name = c
            BY <5>2 DEF NamesIn
          <6>2. e \in Entries /\ e.gen \in 1 .. 1
            BY <1>1, <4>2, <6>1 DEF Sound, Files, Known, Timely
          <6>3. e = [name |-> c, gen |-> 1]
            BY <6>1, <6>2 DEF Entries
          <6> QED
            BY <2>2, <6>1, <6>3
        <5> QED
          BY <5>1, <5>2
      <4> QED
        BY <1>1, <2>2, <3>2, <4>1, <4>2
    <3> QED
      BY <3>1, <3>2
  <2>5. Serves(f, W \cup {c})
    BY <2>4 DEF Serves
  <2> QED
    BY <2>3, <2>5
<1> QED
  BY <1>2, <1>3 DEF x

LEMMA InitGood == Init => Good
<1> SUFFICES ASSUME Init PROVE Good
  OBVIOUS
<1>1. /\ start = file /\ wrote = {} /\ \A c \in Clusters : run[c] = Idle
      /\ file = Empty \/ \E n \in Foreign :
           file = [clusters |-> Theirs, contexts |-> Foreign, users |-> Theirs,
                   current |-> n, fields |-> Foreign]
  BY DEF Init
<1>2. NamesIn(Theirs) \subseteq Foreign
  BY DEF NamesIn, Theirs
<1>3. start # Empty => NamesIn(start.clusters) \subseteq Foreign /\ start.current \in Foreign
  BY <1>1, <1>2
<1>4. Timely(Empty) /\ Timely(file)
  <2>1. \A e \in Theirs : e.name \notin Clusters
    BY ConstantsOK DEF Theirs, ConstantsOK
  <2>2. Empty.users = {}
    BY DEF Empty
  <2> QED
    BY <1>1, <2>1, <2>2 DEF Timely
<1>5. Known
  BY <1>1, <1>3, <1>4 DEF Known, Idle
<1>6. Written
  <2>1. file # Mixed
    BY InitSole DEF Sole, Init
  <2> QED
    BY <1>1, <2>1 DEF Written, Idle, Writing, Serves, Keeps
<1> QED
  BY <1>5, <1>6, InitSound DEF Good

\* A step of run c: what the others hold stays.
LEMMA KnownStep ==
  ASSUME IInv, Known, NEW c \in Clusters, NEW r \in Runs, Step(c, r),
         UNCHANGED <<fold, gen, start>>, file' \in {file, Mixed} \/ Timely(file'),
         Timely(r.new), Timely(r.out), r.pc # "idle" => r.new = Rewritten(c)
  PROVE  Known' /\ \A d \in Clusters : run'[d] = IF d = c THEN r ELSE run[d]
<1>1. \A d \in Clusters : run'[d] = IF d = c THEN r ELSE run[d]
  BY DEF IInv, Rest, Step
<1>2. (file' = Mixed \/ Timely(file')) /\ \A d \in Clusters : Timely(run'[d].new) /\ Timely(run'[d].out)
  BY <1>1 DEF Known
<1>3. \A d \in Clusters : run'[d].pc # "idle" => run'[d].new = Rewritten(d)
  BY <1>1 DEF Known
<1> QED
  BY <1>1, <1>2, <1>3 DEF Known, Timely, Rewritten

\* ... and so does what was written, unless the run is about to write.
LEMMA WrittenStep ==
  ASSUME Written, NEW c \in Clusters, NEW r, r.pc \in {"idle", "read"}, run[c].pc # "fill",
         \A d \in Clusters : run'[d] = IF d = c THEN r ELSE run[d],
         UNCHANGED <<fold, file, gen, start, wrote>>
  PROVE  Written'
<1>1. Writing' \subseteq Writing
  BY DEF Writing
<1>2. \A d \in Clusters : run'[d].pc \in {"truncate", "fill"} => run'[d] = run[d]
  OBVIOUS
<1>3. (\A d \in Clusters : run'[d].pc # "fill") => \A d \in Clusters : run[d].pc # "fill"
  OBVIOUS
<1>4. \A f : (Keeps(f) => Keeps(f)') /\ \A W : Serves(f, W) => Serves(f, W)'
  BY DEF Serves, Keeps, Alone, SameName
<1>5. \A f, g : Merged(f, g)' = Merged(f, g)
  BY DEF Merged, Contexts, SameName
<1> QED
  BY <1>1, <1>2, <1>3, <1>4, <1>5 DEF Written

LEMMA GoodNext == Good /\ [Next]_vars => Good'
<1> SUFFICES ASSUME Good, [Next]_vars PROVE Good'
  OBVIOUS
<1>1. IInv /\ IInv' /\ Known /\ (torn = {} => Written) /\ Timely(Empty)
      /\ \A c \in Clusters : run[c] \in Runs
  <2>1. Timely(Empty)
    BY DEF Timely, Empty
  <2>2. IInv /\ Known /\ (torn = {} => Written)
    BY DEF Good
  <2>3. IInv'
    BY <2>2, NextSound
  <2> QED
    BY <2>1, <2>2, <2>3 DEF IInv, Rest
<1>2. Idle \in Runs /\ Idle.pc = "idle" /\ Timely(Idle.new) /\ Timely(Idle.out)
  BY <1>1, EmptyIsSound DEF Idle, Runs, PCs, Sound
<1>3. ASSUME NEW c \in Clusters, Fetch(c) PROVE Good'
  <2> DEFINE r == [Idle EXCEPT !.pc = "read", !.new = Rewritten(c)]
  <2>1. Sound(Rewritten(c)) /\ Timely(Rewritten(c))
    BY <1>1, RewrittenIsSound, MergedIsTimely DEF IInv, Known
  <2>2. r \in Runs /\ r.pc = "read" /\ r.new = Rewritten(c) /\ r.out = Empty
    BY <2>1, EmptyIsSound DEF Idle, Runs, PCs, Sound
  <2>3. Step(c, r) /\ UNCHANGED <<fold, file, gen, start, wrote, torn>> /\ run[c].pc = "idle"
    BY <1>3 DEF Fetch
  <2> HIDE DEF r
  <2>4. Known' /\ \A d \in Clusters : run'[d] = IF d = c THEN r ELSE run[d]
    BY <1>1, <2>1, <2>2, <2>3, KnownStep
  <2>5. torn = {} => Written'
    BY <1>1, <2>2, <2>3, <2>4, WrittenStep
  <2> QED
    BY <1>1, <2>3, <2>4, <2>5 DEF Good
<1>4. ASSUME NEW c \in Clusters, Crash(c) PROVE Good'
  <2>1. /\ Step(c, Idle) /\ UNCHANGED <<fold, file, gen, start, wrote>>
        /\ torn' = torn \cup {t \in {"killed"} : run[c].pc = "fill"}
    BY <1>4 DEF Crash
  <2>2. Known' /\ \A d \in Clusters : run'[d] = IF d = c THEN Idle ELSE run[d]
    BY <1>1, <1>2, <2>1, KnownStep
  <2>3. torn' = {} => torn = {} /\ run[c].pc # "fill"
    BY <2>1
  <2>4. torn' = {} => Written'
    BY <1>1, <1>2, <2>1, <2>2, <2>3, WrittenStep
  <2> QED
    BY <1>1, <2>2, <2>4 DEF Good
<1>5. ASSUME NEW c \in Clusters, Read(c) PROVE Good'
  <2> DEFINE out == IF file = Empty THEN Rewritten(c) ELSE Merged(file, Rewritten(c))
             r == [run[c] EXCEPT !.pc = "truncate", !.out = out]
  <2>1. run[c].new = Rewritten(c) /\ run[c].pc = "read"
    BY <1>1, <1>5 DEF Known, Read
  <2>2. Timely(out) /\ Timely(Rewritten(c)) /\ Sound(out)
    <3>1. Timely(file) /\ Sound(file) /\ Rest
      BY <1>1, <1>5 DEF IInv, AllSound, Known, Read
    <3>2. Timely(Merged(file, Rewritten(c))) /\ Timely(Rewritten(c))
      BY <1>1, <3>1, MergedIsTimely
    <3>3. Sound(Merged(file, Rewritten(c))) /\ Sound(Rewritten(c))
      BY <3>1, MergedIsSound, RewrittenIsSound
    <3> QED
      BY <3>2, <3>3
  <2>3. /\ Step(c, r) /\ UNCHANGED <<fold, file, gen, start, wrote>>
        /\ torn' = torn \cup {t \in {"overlap"} : Writing # {}} /\ file # Mixed
    BY <1>5, <2>1 DEF Read
  <2> HIDE DEF out
  <2>4. r \in Runs /\ r.pc = "truncate" /\ r.new = Rewritten(c) /\ r.out = out
    BY <1>1, <2>1, <2>2 DEF Runs, PCs, Sound
  <2> HIDE DEF r
  <2>5. Known' /\ \A d \in Clusters : run'[d] = IF d = c THEN r ELSE run[d]
    BY <1>1, <2>2, <2>3, <2>4, KnownStep
  <2>6. ASSUME torn' = {} PROVE Written'
    <3>0. torn = {} /\ Writing = {}
      BY <2>3, <2>6
    <3>1. Written /\ \A d \in Clusters : run[d].pc \notin {"truncate", "fill"}
      BY <1>1, <3>0 DEF Writing
    <3>2. \A d \in Clusters : /\ run'[d].pc # "fill"
                              /\ run'[d].pc = "truncate" => d = c
      BY <2>4, <2>5, <3>1
    <3>3. Serves(file, wrote) /\ Keeps(file)
      BY <3>1 DEF Written
    <3> QED
      BY <2>3, <2>4, <2>5, <3>2, <3>3
      DEF Written, Writing, out, Serves, Keeps, Alone, SameName, Merged, Contexts
  <2> QED
    BY <1>1, <2>5, <2>6 DEF Good
<1>6. ASSUME NEW c \in Clusters, Truncate(c) PROVE Good'
  <2> DEFINE r == [run[c] EXCEPT !.pc = "fill"]
  <2>1. r \in Runs /\ r.pc = "fill" /\ r.new = run[c].new /\ r.out = run[c].out
    BY <1>1 DEF Runs, PCs
  <2>2. /\ Step(c, r) /\ UNCHANGED <<fold, gen, start, wrote, torn>> /\ file' = Empty
        /\ run[c].pc = "truncate"
    BY <1>6 DEF Truncate, Emptied
  <2>3. Timely(r.new) /\ Timely(r.out) /\ r.new = Rewritten(c)
    BY <1>1, <2>1, <2>2 DEF Known
  <2> HIDE DEF r
  <2>4. Known' /\ \A d \in Clusters : run'[d] = IF d = c THEN r ELSE run[d]
    BY <1>1, <2>1, <2>2, <2>3, KnownStep
  <2>5. ASSUME torn = {} PROVE Written'
    <3>1. Written /\ c \in Writing
      BY <1>1, <2>2, <2>5 DEF Writing
    <3>2. \A d \in Clusters : run[d].pc \in {"truncate", "fill"} => d = c
      BY <3>1 DEF Written, Writing
    <3>3. Serves(file, wrote) /\ Keeps(file)
      BY <2>2, <3>1, <3>2 DEF Written
    <3>4. r.out = IF file = Empty THEN Rewritten(c) ELSE Merged(file, Rewritten(c))
      BY <2>1, <2>2, <2>3, <3>1 DEF Written
    <3>5. Serves(r.out, wrote \cup {c}) /\ Keeps(r.out)
      <4>1. IInv /\ Known /\ file # Mixed /\ wrote \in SUBSET Clusters
        BY <1>1, <3>1 DEF Written, IInv, Rest
      <4> QED
        BY <3>3, <3>4, <4>1, MergedIsGood
    <3>6. \A d \in Clusters : run'[d].pc \in {"truncate", "fill"} => d = c
      BY <2>4, <3>2
    <3>7. run'[c] = r
      BY <2>4
    <3>8. Empty # Mixed
      BY EmptyIsSound, ConstantsOK DEF ConstantsOK, Sound
    <3> QED
      BY <2>1, <2>2, <3>5, <3>6, <3>7, <3>8 DEF Written, Writing, Serves, Keeps, Alone, SameName
  <2> QED
    BY <1>1, <2>2, <2>4, <2>5 DEF Good
<1>7. ASSUME NEW c \in Clusters, Fill(c) PROVE Good'
  <2>1. /\ Step(c, Idle) /\ UNCHANGED <<fold, gen, start, torn>>
        /\ file' \in {run[c].out} \cup {f \in {Mixed} : file # Empty}
        /\ wrote' = wrote \cup {c} /\ run[c].pc = "fill" /\ Timely(run[c].out)
    BY <1>1, <1>7 DEF Fill, Known
  <2>2. Known' /\ \A d \in Clusters : run'[d] = IF d = c THEN Idle ELSE run[d]
    BY <1>1, <1>2, <2>1, KnownStep
  <2>3. ASSUME torn = {} PROVE Written'
    <3>1. Written /\ c \in Writing
      BY <1>1, <2>1, <2>3 DEF Writing
    <3>2. \A d \in Clusters : run'[d].pc \notin {"truncate", "fill"}
      BY <1>2, <2>2, <3>1 DEF Written, Writing
    <3>3. Serves(run[c].out, wrote \cup {c}) /\ Keeps(run[c].out)
      BY <2>1, <3>1 DEF Written
    <3>4. run[c].out # Mixed /\ file = Empty
      BY <1>1, <2>1, <3>1, ConstantsOK DEF ConstantsOK, IInv, AllSound, Sound, Written
    <3> QED
      BY <2>1, <3>2, <3>3, <3>4 DEF Written, Writing, Serves, Keeps, Alone, SameName
  <2> QED
    BY <1>1, <2>1, <2>2, <2>3 DEF Good
<1>8. ASSUME NEW c \in Clusters, Renew(c) PROVE Good'
  <2>1. /\ run[c].pc = "idle" /\ gen' = [gen EXCEPT ![c] = @ + 1] /\ wrote' = wrote \ {c}
        /\ UNCHANGED <<fold, file, run, start, torn>>
    BY <1>8 DEF Renew
  <2>2. \A d \in Clusters : gen[d] \in Nat /\ gen'[d] = IF d = c THEN gen[c] + 1 ELSE gen[d]
    BY <1>1, <2>1 DEF IInv, Rest
  <2>3. Known'
    <3>1. \A f : Timely(f) => \A e \in f.users : e.name \in Clusters => e.gen \in 1 .. gen'[e.name]
      BY <2>2 DEF Timely
    <3>2. \A d \in Clusters : run[d].pc # "idle" => gen'[d] = gen[d]
      BY <2>1, <2>2
    <3> QED
      BY <1>1, <2>1, <3>1, <3>2 DEF Known, Timely, Rewritten
  <2>4. ASSUME torn = {} PROVE Written'
    <3>1. Written
      BY <1>1, <2>4
    <3>2. \A f : Keeps(f) => Keeps(f)'
      BY <2>1 DEF Keeps
    <3>3. \A f : \A V, W \in SUBSET Clusters :
            Serves(f, W) /\ V \subseteq W \ {c} => Serves(f, V)'
      BY <2>1, <2>2 DEF Serves, Alone, SameName
    <3>4. \A f, g : Merged(f, g)' = Merged(f, g)
      BY <2>1 DEF Merged, Contexts, SameName
    <3>5. wrote \subseteq Clusters /\ wrote' \subseteq wrote \ {c}
      BY <1>1, <2>1 DEF IInv, Rest
    <3>6. \A d \in Clusters :
            run[d].pc = "fill" => /\ wrote \cup {d} \in SUBSET Clusters
                                  /\ wrote' \cup {d} \in SUBSET Clusters
                                  /\ wrote' \cup {d} \subseteq (wrote \cup {d}) \ {c}
      BY <2>1, <3>5
    <3>7. (\A d \in Clusters : run[d].pc # "fill") => Serves(file, wrote)' /\ Keeps(file)'
      <4>1. wrote \in SUBSET Clusters /\ wrote' \in SUBSET Clusters
        BY <3>5
      <4> QED
        BY <2>1, <3>1, <3>2, <3>3, <3>5, <4>1 DEF Written
    <3>8. ASSUME NEW d \in Clusters, run[d].pc = "fill"
          PROVE  Serves(run[d].out, wrote \cup {d})' /\ Keeps(run[d].out)'
      <4>1. Serves(run[d].out, wrote \cup {d}) /\ Keeps(run[d].out)
        BY <3>1, <3>8 DEF Written
      <4> QED
        BY <2>1, <3>2, <3>3, <3>6, <3>8, <4>1
    <3> QED
      BY <2>1, <3>1, <3>4, <3>7, <3>8 DEF Written, Writing
  <2> QED
    BY <1>1, <2>1, <2>3, <2>4 DEF Good
<1>9. ASSUME NEW c \in Clusters, ReadFails(c) PROVE Good'
  <2>1. /\ Step(c, Idle) /\ UNCHANGED <<fold, file, gen, start, wrote, torn>>
        /\ run[c].pc = "read"
    BY <1>9 DEF ReadFails
  <2>2. Known' /\ \A d \in Clusters : run'[d] = IF d = c THEN Idle ELSE run[d]
    BY <1>1, <1>2, <2>1, KnownStep
  <2>3. torn = {} => Written'
    BY <1>1, <1>2, <2>1, <2>2, WrittenStep
  <2> QED
    BY <1>1, <2>1, <2>2, <2>3 DEF Good
<1>10. CASE UNCHANGED vars
  <2>1. Known'
    BY <1>1, <1>10 DEF vars, Known, Timely, Rewritten
  <2>2. torn = {} => Written'
    <3>1. \A f : (Keeps(f) => Keeps(f)') /\ \A W : Serves(f, W) => Serves(f, W)'
      BY <1>10 DEF vars, Serves, Keeps, Alone, SameName
    <3>2. \A f, g : Merged(f, g)' = Merged(f, g)
      BY <1>10 DEF vars, Merged, Contexts, SameName
    <3> QED
      BY <1>1, <1>10, <3>1, <3>2 DEF vars, Written, Writing
  <2> QED
    BY <1>1, <1>10, <2>1, <2>2 DEF vars, Good
<1> QED
  BY <1>3, <1>4, <1>5, <1>6, <1>7, <1>8, <1>9, <1>10 DEF Next

-----------------------------------------------------------------------------

\* A cluster that create reported as ready can be reached through the file,
\* however many runs of other clusters merged theirs since (README.md:42), as
\* long as none read while another wrote or was killed while it wrote.
THEOREM AllDelivered == Spec => []Delivered
<1>1. Good => Delivered
  BY DEF Good, Written, Writing, Delivered, Serves, Reachable
<1> QED
  BY InitGood, GoodNext, <1>1, PTL DEF Spec

\* ... and every entry of other tools is still there, and so is their current
\* context.
THEOREM NothingLost == Spec => []OthersKept
<1>1. Good => OthersKept
  BY DEF Good, Written, Writing, OthersKept, Keeps
<1> QED
  BY InitGood, GoodNext, <1>1, PTL DEF Spec
=============================================================================
