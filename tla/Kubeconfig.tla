----------------------------- MODULE Kubeconfig -----------------------------
(***************************************************************************)
(* Phase 9 of `create`: writeKubeconfig (internal/usecase/create/create.go *)
(* :363-380), RewriteKubeconfig and MergeKubeconfig (internal/adapter/k3s/ *)
(* kubeconfig.go), when several runs of create, one per cluster, share one *)
(* ~/.kube/config.  MergeKubeconfig reads the file, merges in memory and   *)
(* writes the file with os.WriteFile, which empties it first and writes at *)
(* the start of it; there is no lock, no temporary file and no rename.  If *)
(* another run has filled the file in between, the tail of a longer text   *)
(* stays behind a shorter one: then the file either reads like the shorter *)
(* text (a tail of "current-context: ..." is no key of its own) or, which  *)
(* is Mixed here, it is no YAML.                                           *)
(*                                                                         *)
(* What a run merges has the name of its cluster throughout: a cluster     *)
(* entry with the CA, a context, and a user with the admin certificate;    *)
(* CA and certificate are one number here, the generation of the cluster,  *)
(* which grows when the cluster is deleted and created anew.  Foreign      *)
(* names are entries of other tools, of generation 0, with fields that the *)
(* structs of kubeconfig.go do not have (a namespace, a CA file, ...).     *)
(* Left out: how long a text is, and I/O errors.                           *)
(***************************************************************************)
EXTENDS Naturals, FiniteSets

CONSTANTS
  Clusters, Foreign,  \* names of our clusters and of other entries
  Folds,              \* which pairs of names strings.EqualFold may equate
  MaxGen,             \* bound on the generations of a cluster
  MaxCrashes, None,
  Mixed               \* a file that yaml.Unmarshal refuses

VARIABLES
  fold,     \* the names that equal but for case; never changes
  file,     \* ~/.kube/config
  gen,      \* the generation of each cluster
  run,      \* the locals of the run of create for each cluster
  start,    \* history: the file before any run
  wrote,    \* history: the clusters whose create has reported success
  torn,     \* history: "overlap" if a run read while another was to write,
            \* "killed" if one was between emptying the file and filling it
  crashes   \* crashes left

vars == <<fold, file, gen, run, start, wrote, torn, crashes>>

AllNames == Clusters \cup Foreign
Entries  == [name : AllNames, gen : 0 .. MaxGen]
\* No file, or one that WriteFile has just emptied.
Empty == [clusters |-> {}, contexts |-> {}, users |-> {}, current |-> None, fields |-> {}]
Files == [clusters : SUBSET Entries, contexts : SUBSET AllNames, users : SUBSET Entries,
          current : AllNames \cup {None}, fields : SUBSET Foreign]

ASSUME ConstantsOK ==
  /\ Clusters \cap Foreign = {} /\ None \notin Clusters \cup Foreign
  /\ Folds \subseteq SUBSET ((Clusters \cup Foreign) \X (Clusters \cup Foreign))
  /\ Mixed \notin Files /\ MaxGen \in Nat \ {0} /\ MaxCrashes \in Nat

Theirs == [name : Foreign, gen : {0}]
Idle == [pc |-> "idle", new |-> Empty, out |-> Empty]
Init ==
  /\ fold \in Folds
  /\ file \in {Empty} \cup
       {[clusters |-> Theirs, contexts |-> Foreign, users |-> Theirs,
         current |-> n, fields |-> Foreign] : n \in Foreign}
  /\ start = file /\ gen = [c \in Clusters |-> 1]
  /\ run = [c \in Clusters |-> Idle]
  /\ wrote = {} /\ torn = {} /\ crashes = MaxCrashes

-----------------------------------------------------------------------------
(* Rewriting and merging                                                   *)

NamesIn(entries) == {e.name : e \in entries}
SameName(m, n) == m = n \/ <<m, n>> \in fold \/ <<n, m>> \in fold

\* RewriteKubeconfig: everything is called after the cluster.
Rewritten(c) ==
  [clusters |-> {[name |-> c, gen |-> gen[c]]}, contexts |-> {c},
   users |-> {[name |-> c, gen |-> gen[c]]}, current |-> c, fields |-> {}]

\* A context is appended unless base has one that equals it but for case.
Contexts(base, extra) ==
  base \cup {x \in extra : ~\E n \in base : SameName(n, x)}
\* Mutation: cluster entries are appended, and replace none.
ClustersAppended(base, extra) == base \cup extra
\* ... or are treated as users are.
ClustersKept(base, extra) == base \cup {e \in extra : e.name \notin NamesIn(base)}
\* A cluster replaces the one of its name.
ClusterEntries(base, extra) == {e \in base : e.name \notin NamesIn(extra)} \cup extra
\* Mutation: users are left to the operator.
UsersLeft(base, extra) == base
\* A user never does.
Users(base, extra) == base \cup {e \in extra : e.name \notin NamesIn(base)}

\* Mutation: the merge ends with kubectl config use-context.
MergedAndUsed(base, extra) ==
  [clusters |-> ClusterEntries(base.clusters, extra.clusters),
   contexts |-> Contexts(base.contexts, extra.contexts),
   users    |-> Users(base.users, extra.users),
   current  |-> extra.current, fields |-> {}]
\* mergeConfigs, of a base that was read through the structs.
Merged(base, extra) ==
  [clusters |-> ClusterEntries(base.clusters, extra.clusters),
   contexts |-> Contexts(base.contexts, extra.contexts),
   users    |-> Users(base.users, extra.users),
   current  |-> base.current, fields |-> {}]

Step(c, r) == run' = [run EXCEPT ![c] = r]
Writing == {c \in Clusters : run[c].pc \in {"truncate", "fill"}}

-----------------------------------------------------------------------------
(* The runs                                                                *)

\* FetchKubeconfig and RewriteKubeconfig: a copy of /etc/rancher/k3s/k3s.yaml.
Fetch(c) ==
  /\ run[c].pc = "idle"
  /\ Step(c, [Idle EXCEPT !.pc = "read", !.new = Rewritten(c)])
  /\ UNCHANGED <<fold, file, gen, start, wrote, torn, crashes>>

\* MergeKubeconfig up to the write: an empty file is not merged but replaced.
Read(c) ==
  /\ run[c].pc = "read" /\ file # Mixed
  /\ Step(c, [run[c] EXCEPT !.pc = "truncate",
                !.out = IF file = Empty THEN run[c].new ELSE Merged(file, run[c].new)])
  /\ torn' = torn \cup {t \in {"overlap"} : Writing # {}}
  /\ UNCHANGED <<fold, file, gen, start, wrote, crashes>>
\* "parsing existing kubeconfig": create fails and leaves the file as it is.
ReadFails(c) ==
  /\ run[c].pc = "read" /\ file = Mixed
  /\ Step(c, Idle)
  /\ UNCHANGED <<fold, file, gen, start, wrote, torn, crashes>>

\* os.WriteFile: O_TRUNC, and one write at offset 0.
\* Mutation: without O_TRUNC.
KeptAsIs == file
Emptied == Empty
Truncate(c) ==
  /\ run[c].pc = "truncate"
  /\ file' = Emptied /\ Step(c, [run[c] EXCEPT !.pc = "fill"])
  /\ UNCHANGED <<fold, gen, start, wrote, torn, crashes>>
Fill(c) ==
  /\ run[c].pc = "fill"
  /\ file' \in {run[c].out} \cup {f \in {Mixed} : file # Empty}
  /\ Step(c, Idle)
  /\ wrote' = wrote \cup {c}
  /\ UNCHANGED <<fold, gen, start, torn, crashes>>

Crash(c) ==
  /\ run[c].pc # "idle" /\ crashes > 0
  /\ crashes' = crashes - 1 /\ Step(c, Idle)
  /\ torn' = torn \cup {t \in {"killed"} : run[c].pc = "fill"}
  /\ UNCHANGED <<fold, file, gen, start, wrote>>

\* `delete` (which leaves the file alone) and the next create up to phase 8.
Renew(c) ==
  /\ run[c].pc = "idle" /\ gen[c] < MaxGen
  /\ gen' = [gen EXCEPT ![c] = @ + 1] /\ wrote' = wrote \ {c}
  /\ UNCHANGED <<fold, file, run, start, torn, crashes>>

Next == \E c \in Clusters :
          Fetch(c) \/ Read(c) \/ ReadFails(c) \/ Truncate(c) \/ Fill(c) \/ Crash(c) \/ Renew(c)
Spec == Init /\ [][Next]_vars

-----------------------------------------------------------------------------
(* Properties                                                              *)

\* Types; and in a file that can be read no list has two entries of one name.
TypeOK ==
  /\ fold \in Folds /\ file \in Files \cup {Mixed} /\ start \in Files
  /\ file # Mixed => /\ \A d, e \in file.clusters : d.name = e.name => d = e
                     /\ \A d, e \in file.users : d.name = e.name => d = e
  /\ gen \in [Clusters -> 1 .. MaxGen]
  /\ \A c \in Clusters : run[c].pc \in {"idle", "read", "truncate", "fill"}
                         /\ run[c].new \in Files /\ run[c].out \in Files
  /\ wrote \subseteq Clusters /\ torn \subseteq {"overlap", "killed"}
  /\ crashes \in 0 .. MaxCrashes

\* Killed runs and clusters made anew never leave a file that cannot be read,
\* whatever the write was doing: it takes a run that read while another was
\* about to write.  It rests on the file being emptied and then filled at once
\* (kubeconfig.go:86, 102).
Readable == file = Mixed => "overlap" \in torn

\* A cluster that create reported as ready can be reached through the file,
\* whatever other runs merged since, as long as none was torn: its context is
\* there with the CA its servers have now, and, if the cluster was never made
\* anew, with the certificate they accept (README.md:42).  A cluster whose
\* name equals another but for case is not promised a context.
Alone(c) == ~\E n \in AllNames \ {c} : SameName(c, n)
Reachable(c) ==
  /\ c \in file.contexts
  /\ [name |-> c, gen |-> gen[c]] \in file.clusters
  /\ gen[c] = 1 => [name |-> c, gen |-> 1] \in file.users
Delivered == Writing = {} /\ torn = {} => \A c \in wrote : Alone(c) => Reachable(c)

\* What other tools wrote survives every merge that is not torn, and so does
\* the current context, which create does not switch to its cluster.
OthersKept ==
  Writing = {} /\ torn = {} /\ start # Empty =>
    /\ start.clusters \subseteq file.clusters /\ start.users \subseteq file.users
    /\ start.contexts \subseteq file.contexts /\ file.current = start.current

\* ... with all their fields: phase 9 is called a merge (README.md:42).
FieldsKept == Writing = {} /\ file # Mixed => start.fields \subseteq file.fields

\* Whatever overlaps, crashes or is created anew, no context of a file that
\* can be read lacks its cluster or its user: what is lost is lost together.
NoDangling ==
  file # Mixed => file.contexts \subseteq NamesIn(file.clusters) \cap NamesIn(file.users)
=============================================================================
