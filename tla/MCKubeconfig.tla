---------------------------- MODULE MCKubeconfig ----------------------------
(* Instances of Kubeconfig for TLC: two clusters of ours and one entry of  *)
(* another tool; no names that equal but for case, or those of c2 and f1,  *)
(* or those of the two clusters.                                           *)
EXTENDS Kubeconfig
CONSTANTS c1, c2, f1
AnyFold == {{}, {<<c2, f1>>}, {<<c1, c2>>}}
=============================================================================
