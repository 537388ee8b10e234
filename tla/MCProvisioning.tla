--------------------------- MODULE MCProvisioning ---------------------------
(* Instances of Provisioning for TLC: terminals, clusters and what each     *)
(* cluster's configuration asks for.                                        *)
EXTENDS Provisioning, TLC

CONSTANTS o1, o2, o3, A, B, n1, m1

\* One terminal, one cluster of all the names.
SoloClusterOf == o1 :> A
SoloWant      == A :> Names
Both          == {"create", "delete"}
SoloCmds      == o1 :> Both
CreateOnly    == o1 :> {"create"}

\* Two terminals on one cluster of one VM; two terminals on two clusters;
\* three terminals, the third on the cluster of the first.
SharedClusterOf == o1 :> A @@ o2 :> A
SplitClusterOf  == o1 :> A @@ o2 :> B
TrioClusterOf   == o1 :> A @@ o2 :> B @@ o3 :> A
SharedWant      == A :> {n1}
SplitWant       == A :> {n1} @@ B :> {m1}
DuoCmds         == o1 :> Both @@ o2 :> Both
TrioCmds        == o1 :> Both @@ o2 :> {"create"} @@ o3 :> {"delete"}

Ids == Permutations(VMIDs)
IdsAndNames == Permutations(VMIDs) \cup Permutations(Names)
IdsAndTerminals == Permutations(VMIDs) \cup Permutations(Ops)
=============================================================================
