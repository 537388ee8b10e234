------------------------------ MODULE Settings ------------------------------
(***************************************************************************)
(* From the YAML to the cluster the pipelines work on: applyDefaults       *)
(* (internal/config/loader.go), validate.Cluster (config/validate/         *)
(* cluster.go), ToModel (config/tomodel.go) and the catalog of sizes       *)
(* (domain/catalog.go).                                                    *)
(*                                                                         *)
(* Of a field that is only tested for being there, or for being readable,  *)
(* the YAML says that it is empty (y.empty) or not usable (y.bad): a token *)
(* whose ${VARIABLE} is not set, a text that is no address, a file that    *)
(* cannot be read.  Fields that only pass through are left out.            *)
(***************************************************************************)
EXTENDS Integers, Sequences, TLC

CONSTANT None  \* nothing there

Resources(c, m, d) == [cpu |-> c, memory |-> m, disk |-> d]

masterMinimums == Resources(2, 4096, 20)
workerMinimums == Resources(2, 2048, 20)
Minimums(role) == IF role = "master" THEN masterMinimums ELSE workerMinimums

catalog ==
     "cp-small"   :> Resources(2, 4096, 40)  @@ "cp-medium"  :> Resources(4, 8192, 60)
  @@ "cp-large"   :> Resources(8, 16384, 100) @@ "standard-2" :> Resources(2, 4096, 60)
  @@ "standard-4" :> Resources(4, 8192, 100) @@ "standard-8" :> Resources(8, 16384, 200)
  @@ "memory-4"   :> Resources(4, 16384, 200) @@ "memory-8"  :> Resources(8, 32768, 400)
  @@ "cpu-8"      :> Resources(8, 8192, 100)

-----------------------------------------------------------------------------
(* Defaults                                                                *)

\* A pool with resources of its own has no default size.
WithSize(pool, size) ==
  IF pool.size = "" /\ pool.resources = None THEN [pool EXCEPT !.size = size] ELSE pool
WithCount(pool) == IF pool.count = 0 THEN [pool EXCEPT !.count = 3] ELSE pool

applyDefaults(y) ==
  [y EXCEPT !.mode = IF @ = "" THEN "static" ELSE @,
            !.masters = WithSize(WithCount(@), "cp-medium"),
            !.workers = [k \in DOMAIN @ |-> WithSize(@[k], "standard-4")]]

-----------------------------------------------------------------------------
(* Sizes                                                                   *)

Overrides(pool) == IF pool.resources = None THEN Resources(0, 0, 0) ELSE pool.resources

\* A size of the catalog, or a CPU count of its own.
SizeGiven(pool) ==
  IF pool.size = "" THEN Overrides(pool).cpu # 0 ELSE pool.size \in DOMAIN catalog
SizeNamed(pool) == IF pool.size = "" THEN Resources(0, 0, 0) ELSE catalog[pool.size]

\* The size of a pool: that of the catalog but for what the YAML overrides.  None
\* stands for the error.
ResolveSize(pool) ==
  LET over == Overrides(pool) IN
  IF ~SizeGiven(pool) THEN None
  ELSE [f \in DOMAIN over |-> IF over[f] > 0 THEN over[f] ELSE SizeNamed(pool)[f]]

ValidateSize(size, role) == \A f \in DOMAIN size : size[f] >= Minimums(role)[f]

-----------------------------------------------------------------------------
(* Validation                                                              *)

\* Mutation: the minimum is asked of the sizes of the catalog only.
NamedSizeOK(pool, role) ==
  /\ pool.count > 0
  /\ ResolveSize(pool) # None
  /\ pool.resources # None \/ ValidateSize(ResolveSize(pool), role)
validatePool(pool, role) ==
  /\ pool.count > 0
  /\ ResolveSize(pool) # None
  /\ ValidateSize(ResolveSize(pool), role)

\* The fields that must not be empty, and of them those that must be usable.
Required(y) ==
  {"cluster_name", "endpoint", "token_id", "token_secret", "template", "storage",
   "control_plane_vip", "public_key_path", "private_key_path"}
  \cup (IF y.mode = "static" THEN {"cidr", "gateway", "node_pool_range"} ELSE {})
  \cup (IF y.metallb THEN {"address_pool"} ELSE {})
Tested == {"token_secret", "control_plane_vip", "public_key_path", "private_key_path", "cidr"}

\* Mutation: the workers' pools are not looked at.
MastersValid(y) ==
  /\ Required(y) \cap (y.empty \cup (y.bad \cap Tested)) = {}
  /\ y.masters.count >= 3 /\ y.masters.count % 2 = 1
  /\ validatePool(y.masters, "master")
\* validate.Cluster finds no error.
Valid(y) ==
  /\ Required(y) \cap (y.empty \cup (y.bad \cap Tested)) = {}
  /\ y.masters.count >= 3 /\ y.masters.count % 2 = 1
  /\ validatePool(y.masters, "master")
  /\ \A k \in DOMAIN y.workers : y.workers[k].name # "" /\ validatePool(y.workers[k], "worker")

-----------------------------------------------------------------------------
(* The model                                                               *)

poolToModel(name, pool, role) ==
  [pool |-> name, role |-> role, count |-> pool.count, size |-> ResolveSize(pool)]

\* The pools of the cluster, the masters' first, under the name "master" whatever
\* the YAML calls it; no pools where ToModel fails.
ToModel(y) ==
  LET pools == <<poolToModel("master", y.masters, "master")>> \o
               [k \in DOMAIN y.workers |-> poolToModel(y.workers[k].name, y.workers[k], "worker")]
  IN IF "public_key_path" \in y.bad \ y.empty \/ \E k \in DOMAIN pools : pools[k].size = None
     THEN <<>> ELSE pools
=============================================================================
