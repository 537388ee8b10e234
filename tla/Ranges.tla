------------------------------- MODULE Ranges -------------------------------
(***************************************************************************)
(* networking.node_pool_range: the list of addresses the static allocator  *)
(* makes of it (internal/adapter/ipam/static.go).  An address is its       *)
(* bytes, the most significant first.  ParseIP and the printing of         *)
(* addresses are left out: a range is a pair of addresses, or <<>> where   *)
(* the text is no range.                                                   *)
(***************************************************************************)
EXTENDS Integers, Sequences, SequencesExt

CONSTANTS
  Bytes,   \* the bytes of an address (16 in the code, for IPv4 too)
  Base,    \* the values of a byte (256 in the code)
  Memory   \* bound: how far a process walks before it has no memory left

ASSUME RangesOK == Bytes \in Nat \ {0} /\ Base \in Nat \ {0, 1} /\ Memory \in Nat

Addresses == [1 .. Bytes -> 0 .. Base - 1]

\* Mutation: a byte that overflows goes on at 1.
IncrementSkipsZero(ip) ==
  LET stop == Max({0} \cup {i \in DOMAIN ip : ip[i] # Base - 1}) IN
  [i \in DOMAIN ip |-> IF i > stop THEN 1 ELSE IF i = stop THEN ip[i] + 1 ELSE ip[i]]
\* Every byte from the last one that does not overflow on goes up by one.
incrementIP(ip) ==
  LET stop == Max({0} \cup {i \in DOMAIN ip : ip[i] # Base - 1}) IN
  [i \in DOMAIN ip |-> IF i >= stop THEN (ip[i] + 1) % Base ELSE ip[i]]

\* The addresses that the loop comes to.
Path(first) ==
  LET ip[n \in 0 .. Memory] == IF n = 0 THEN first ELSE incrementIP(ip[n - 1]) IN ip
\* It goes on until it meets last, which with last before first is once around
\* all addresses.  A process that does not get there dies of it before it has
\* made anything; as a pool without addresses does.
Walk(first, last) ==
  LET met == {n \in 0 .. Memory : Path(first)[n] = last}
  IN IF met = {} THEN <<>> ELSE [i \in 1 .. Min(met) + 1 |-> Path(first)[i - 1]]

\* Without a range there is an error, and no pool.
ParsePool(range) == IF range = <<>> THEN <<>> ELSE Walk(range[1], range[2])

\* Get of a place that the pool has; planIPs asks for no other.
IPForIndex(pool, i) == pool[i]

\* What an address is worth: the reference for the order of addresses.
Value(ip) ==
  LET upTo[k \in 0 .. Bytes] == IF k = 0 THEN 0 ELSE upTo[k - 1] * Base + ip[k]
  IN upTo[Bytes]
=============================================================================
