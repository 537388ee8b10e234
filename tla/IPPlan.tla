------------------------------- MODULE IPPlan -------------------------------
(***************************************************************************)
(* Phases 2-4 of `create` seen from the configuration: the command reads   *)
(* the YAML and validates it (modules Settings and Ranges), planIPs gives  *)
(* each node an address, and what is missing is created                    *)
(* (internal/usecase/create/create.go:121-241), while the operator edits   *)
(* the YAML between the runs and somebody deletes VMs by hand.             *)
(*                                                                         *)
(* A node's name is the pair of its pool and its number in the pool; the   *)
(* cluster's name, the same in all, is left out, and so are the prefix and *)
(* the gateway that follow the address.  A run creates any prefix of what  *)
(* is missing (a crash, or the rollback of all of it): how it fails is     *)
(* module Provisioning's subject.                                          *)
(***************************************************************************)
EXTENDS Settings, Ranges, FiniteSets

CONSTANTS
  Configs,   \* what the operator may write
  Edits,     \* the edits considered: pairs of configurations
  VIP,       \* control_plane_vip
  MaxVMs     \* bound on the VMs of the cluster

Pools == [name : STRING, count : Int, size : STRING,
          resources : {None} \cup [cpu : Int, memory : Int, disk : Int]]

YAML == [empty : SUBSET STRING, bad : SUBSET STRING, mode : STRING, metallb : BOOLEAN,
         range : {<<>>} \cup (Addresses \X Addresses),
         masters : Pools, workers : Seq(Pools)]

ASSUME ConstantsOK ==
  /\ Configs \subseteq YAML
  /\ Edits \subseteq Configs \X Configs
  /\ VIP \in Addresses /\ MaxVMs \in Nat

VARIABLES
  cfg,    \* the YAML
  vms,    \* the VMs that carry the cluster's tag, as [name, role, size, ip, at]: at
          \* tells two nodes of one name apart
  given   \* history: the names and addresses of every VM there ever was

vars == <<cfg, vms, given>>

-----------------------------------------------------------------------------
(* planIPs and the loops of provisionNodes                                 *)

PoolsOf(c) == ToModel(applyDefaults(c))

\* The nodes of a configuration: the i-th of its k-th pool, for each k and i.
NodesOf(c) ==
  UNION {{<<k, i>> : i \in 1 .. PoolsOf(c)[k].count} : k \in DOMAIN PoolsOf(c)}
NameOf(c, n) == <<PoolsOf(c)[n[1]].pool, n[2]>>

\* They are counted pool after pool, the masters first.
Earlier(m, n) == m[1] < n[1] \/ (m[1] = n[1] /\ m[2] < n[2])
Index(c, n) == Cardinality({m \in NodesOf(c) : Earlier(m, n)}) + 1

\* Any mode but dhcp has its addresses planned, and only static has them used.
Planned(c) == applyDefaults(c).mode # "dhcp"
Static(c) == applyDefaults(c).mode = "static"
Pool(c) == ParsePool(c.range)

\* ErrIPPoolExhausted, or no pool at all.
Exhausted(c) == Planned(c) /\ Cardinality(NodesOf(c)) > Len(Pool(c))

\* Mutation: the mode is not looked at.
AddressAnyMode(c, i) == IPForIndex(Pool(c), i)
\* The address the i-th node's VM is given; DHCP gives it one otherwise.
Address(c, i) == IF Static(c) THEN IPForIndex(Pool(c), i) ELSE None

\* Mutation: every pool starts at the first address again.
PlanPerPool(c) == [name \in {NameOf(c, n) : n \in NodesOf(c)} |-> Address(c, name[2])]
\* The plan is a map, so that of two nodes of one name the later one counts.
Plan(c) ==
  [name \in {NameOf(c, n) : n \in NodesOf(c)} |->
     Address(c, Max({Index(c, n) : n \in {m \in NodesOf(c) : NameOf(c, m) = name}}))]

Names == {v.name : v \in vms}

\* The nodes no VM has the name of.
Missing(c) == {n \in NodesOf(c) : NameOf(c, n) \notin Names}

SpecOf(c, n, ip) ==
  [name |-> NameOf(c, n), role |-> PoolsOf(c)[n[1]].role, size |-> PoolsOf(c)[n[1]].size,
   ip |-> ip, at |-> Index(c, n)]
\* Mutation: the addresses after the highest in use.
PlanAfterUsed(c) ==
  LET used == Max({0} \cup {i \in DOMAIN Pool(c) : \E v \in vms : v.ip = Pool(c)[i]})
      Rank(n) == Cardinality({m \in Missing(c) : Earlier(m, n)}) + 1
  IN {SpecOf(c, n, Address(c, used + Rank(n))) : n \in Missing(c)}
\* Their specs, each with its IPConfig.
ToCreate(c) == {SpecOf(c, n, Plan(c)[NameOf(c, n)]) : n \in Missing(c)}

-----------------------------------------------------------------------------
(* The operator and the runs                                               *)

Init == cfg \in Configs /\ vms = {} /\ given = {}

Edit ==
  /\ \E c \in Configs : <<cfg, c>> \in Edits /\ cfg' = c
  /\ UNCHANGED <<vms, given>>

\* The command accepts the configuration, and phase 3 has addresses for all.
Passes(c) == Valid(applyDefaults(c)) /\ PoolsOf(c) # <<>> /\ ~Exhausted(c)

\* A run of create: the missing nodes come into being, up to one of them.
Create ==
  /\ Passes(cfg)
  /\ \E last \in ToCreate(cfg) :
       LET new == {spec \in ToCreate(cfg) : spec.at <= last.at} IN
       /\ Cardinality(vms \cup new) <= MaxVMs
       /\ vms' = vms \cup new
       /\ given' = given \cup {[name |-> v.name, ip |-> v.ip] : v \in new}
  /\ UNCHANGED cfg
\* A run that refuses the configuration or finds nothing to create.
CreateNothing ==
  /\ Passes(cfg) => ToCreate(cfg) = {}
  /\ UNCHANGED vars

\* A VM is deleted by hand.
DeleteByHand ==
  /\ \E v \in vms : vms' = vms \ {v}
  /\ UNCHANGED <<cfg, given>>

Next == Edit \/ Create \/ CreateNothing \/ DeleteByHand
Spec == Init /\ [][Next]_vars

-----------------------------------------------------------------------------
(* Properties                                                              *)

\* Types; what there is has been given, and has an address unless dhcp gives it.
TypeOK ==
  /\ cfg \in Configs
  /\ \A v \in vms : /\ v.ip \in IF Static(cfg) THEN Addresses ELSE {None}
                    /\ [name |-> v.name, ip |-> v.ip] \in given

\* No two VMs of the cluster ever have one address, although a plan looks at
\* no VM that exists: existingIPs is filled from DesiredIP, which ListNodes
\* never sets, and then not read (create.go:145-150).
DistinctIPs == \A v, w \in vms : v.ip = w.ip /\ v.ip # None => v = w

\* A node that is created again, by whichever later run, gets the address it
\* had: "Re-executar create produz os mesmos IPs" (configuration.md:315).
SameIPAgain == \A v, w \in given : v.name = w.name => v.ip = w.ip

\* The i-th node has the i-th address of the range by their numerical order, and
\* none beyond its end, also where a byte overflows (static.go:68) or the range's
\* ends are the wrong way round (static.go:30).
InRange ==
  Static(cfg) => \A v \in vms : /\ Value(v.ip) = Value(cfg.range[1]) + v.at - 1
                                /\ Value(v.ip) <= Value(cfg.range[2])

\* Every VM has what its role needs at least, whichever of its resources the YAML
\* gives and which the catalog, now or before an edit (catalog.go:67).
BigEnough == \A v \in vms : ValidateSize(v.size, v.role)

\* validate and ToModel resolve the sizes each by itself: ToModel does not fail
\* on what validate accepted ("Configuração YAML válida", cli/validate.go:34),
\* and no pool it makes of it is empty or below the minimum of its role.  (The
\* range is nobody's matter before phase 3: one that is malformed, reversed or
\* too short passes the validation.)
ValidBecomesPools ==
  Valid(applyDefaults(cfg)) =>
    LET pools == PoolsOf(cfg) IN
    /\ pools # <<>>
    /\ \A k \in DOMAIN pools :
         pools[k].count > 0 /\ ValidateSize(pools[k].size, pools[k].role)

\* No VM gets the address of the control plane (adr/004:30).
VIPIsFree == \A v \in vms : v.ip # VIP
=============================================================================
