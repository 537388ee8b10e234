---------------------------- MODULE IPPlanProofs ----------------------------
(***************************************************************************)
(* Proofs about IPPlan, for every set of configurations and of edits.      *)
(*                                                                         *)
(* Path and Value are recursive functions.  That they exist, and what they *)
(* compute, is proved by induction on the position: the library's rule     *)
(* takes an operator, so that UpTo goes back to the least number that is   *)
(* not in a set.                                                           *)
(*                                                                         *)
(* The addresses do not come right for every edit, nor does the code say   *)
(* so: SameNetwork, PlacesStay, OwnNames and TurnedDies name what is asked *)
(* of the operator, and each theorem which of them it needs.  TLC's        *)
(* instance meets all four.                                                *)
(***************************************************************************)
EXTENDS IPPlan, FiniteSetTheorems, SequenceTheorems, WellFoundedInduction, TLAPS

-----------------------------------------------------------------------------
(* Numbers.  Induction up to a number is by the least exception            *)

\* A set of numbers has a least one.
LEMMA Least ==
  ASSUME NEW S, S \subseteq Nat, S # {}
  PROVE  \E m \in S : \A k \in S : m <= k
<1>1. \E R : R = OpToRel(<, Nat) /\ IsWellFoundedOn(R, Nat)
  BY NatLessThanWellFounded, Zenon
<1>2. PICK R : IsWellFoundedOn(R, Nat) /\ R = OpToRel(<, Nat)
  BY <1>1, Zenon
<1>3. R = {ss \in Nat \X Nat : ss[1] < ss[2]}
  BY <1>2, Zenon DEF OpToRel
<1>4. PICK m \in S : \A k \in S : <<k, m>> \notin R
  BY <1>2, WFMin
<1>5. ASSUME NEW i \in Nat, NEW j \in Nat, i < j PROVE <<i, j>> \in R
  BY <1>3, <1>5
<1>6. \A k \in S : m <= k
  <2>1. S \subseteq Nat /\ m \in Nat
    BY <1>4
  <2>. SUFFICES ASSUME NEW k \in S, k < m PROVE FALSE
    BY <2>1
  <2>. QED  BY <1>4, <1>5, <2>1
<1>. QED  BY <1>6

\* A bounded set of numbers has a greatest.
LEMMA Greatest ==
  ASSUME NEW n \in Nat, NEW S, S \subseteq 0 .. n, S # {}
  PROVE  Max(S) \in S /\ \A x \in S : x <= Max(S)
<1>. DEFINE T == {k \in 0 .. n : n - k \in S}
<1>1. T # {} /\ T \subseteq Nat
  <2>1. PICK x \in S : TRUE
    OBVIOUS
  <2>2. x \in 0 .. n /\ n - x \in 0 .. n /\ n - (n - x) = x
    BY <2>1
  <2>3. n - x \in T
    BY <2>1, <2>2
  <2>4. T \subseteq Nat
    BY DEF T
  <2>. QED  BY <2>3, <2>4
<1>2. PICK m \in T : \A k \in T : m <= k
  <2>. HIDE DEF T
  <2>. QED  BY <1>1, Least
<1>3. n - m \in S
  BY <1>2
<1>4. ASSUME NEW x \in S PROVE n - m >= x
  <2>1. x \in 0 .. n /\ n - x \in 0 .. n /\ n - (n - x) = x /\ m \in 0 .. n
    OBVIOUS
  <2>2. m <= n - x
    BY <1>2, <2>1
  <2>. QED  BY <2>1, <2>2
<1>5. \E x \in S : \A y \in S : x >= y
  BY <1>3, <1>4
<1>6. Max(S) \in S /\ \A y \in S : Max(S) >= y
  BY <1>5 DEF Max
<1>. QED  BY <1>6

\* Induction up to n, for a set of numbers.
LEMMA UpTo ==
  ASSUME NEW n \in Nat, NEW S, 0 \in S, \A k \in 0 .. n - 1 : k \in S => k + 1 \in S
  PROVE  \A k \in 0 .. n : k \in S
<1>. DEFINE T == {k \in 0 .. n : k \notin S}
<1>. SUFFICES ASSUME T # {} PROVE FALSE
  OBVIOUS
<1>1. PICK m \in T : \A k \in T : m <= k
  <2>. T \subseteq Nat
    OBVIOUS
  <2>. HIDE DEF T
  <2>. QED  BY Least
<1>2. m \in 1 .. n /\ m \notin S
  OBVIOUS
<1>3. m - 1 \in 0 .. n - 1 /\ m - 1 \notin T
  BY <1>1, <1>2
<1>4. m - 1 \in S
  BY <1>3
<1>. QED  BY <1>2, <1>3, <1>4

\* The remainder of what is smaller.
LEMMA Small ==
  ASSUME NEW b \in Nat \ {0}, NEW x \in 0 .. b - 1
  PROVE  x % b = x
OBVIOUS

\* A finite set has more elements than a part of it that lacks one.
LEMMA Smaller ==
  ASSUME NEW T, IsFiniteSet(T), NEW S, S \subseteq T, NEW x \in T \ S
  PROVE  Cardinality(S) < Cardinality(T)
<1>1. IsFiniteSet(S) /\ Cardinality(S) <= Cardinality(T) /\ Cardinality(S) # Cardinality(T)
  BY FS_Subset
<1>. QED  BY <1>1, FS_CardinalityType

\* g goes from the value first by F from one number to the next, up to n.
Follows(g, n, T, first, F) ==
  g \in [0 .. n -> T] /\ g[0] = first /\ \A k \in 1 .. n : g[k] = F[k][g[k - 1]]

\* There is such a function for each F.
LEMMA Recursion ==
  ASSUME NEW n \in Nat, NEW T, NEW first \in T, NEW F, \A k \in 1 .. n : \A x \in T : F[k][x] \in T
  PROVE  \E g : Follows(g, n, T, first, F)
<1>. DEFINE Fits(g, m) == Follows(g, m, T, first, F)
            S == {m \in 0 .. n : \E g : Fits(g, m)}
<1>1. 0 \in S
  <2>. DEFINE h == [k \in 0 .. 0 |-> first]
  <2>1. Fits(h, 0)
    BY DEF Follows
  <2>. HIDE DEF Fits, h
  <2>. QED  BY <2>1
<1>2. ASSUME NEW m \in 0 .. n - 1, m \in S PROVE m + 1 \in S
  <2>1. PICK g : Fits(g, m)
    BY <1>2
  <2>. DEFINE h == [k \in 0 .. m + 1 |-> IF k = m + 1 THEN F[m + 1][g[m]] ELSE g[k]]
  <2>2. F[m + 1][g[m]] \in T
    <3>1. m + 1 \in 1 .. n /\ g[m] \in T
      BY <2>1 DEF Follows
    <3>. QED  BY <3>1
  <2>3. h \in [0 .. m + 1 -> T] /\ h[0] = first
    BY <2>1, <2>2 DEF Follows
  <2>4. ASSUME NEW k \in 1 .. m + 1 PROVE h[k] = F[k][h[k - 1]]
    <3>1. k - 1 \in 0 .. m /\ h[k - 1] = g[k - 1]
      OBVIOUS
    <3>2. CASE k = m + 1
      BY <3>1, <3>2
    <3>3. CASE k \in 1 .. m
      BY <2>1, <3>1, <3>3 DEF Follows
    <3>. QED  BY <3>2, <3>3
  <2>5. Fits(h, m + 1)
    BY <2>3, <2>4 DEF Follows
  <2>. HIDE DEF Fits, h
  <2>. QED  BY <2>5
<1>3. n \in S
  <2>. HIDE DEF S
  <2>. QED  BY <1>1, <1>2, UpTo
<1>. QED  BY <1>3

-----------------------------------------------------------------------------
(* Ranges: what the walk of ParsePool comes to, and its values             *)

\* The next address is one.
LEMMA NextAddress == ASSUME NEW ip \in Addresses PROVE incrementIP(ip) \in Addresses
<1>. DEFINE stop == Max({0} \cup {i \in DOMAIN ip : ip[i] # Base - 1})
<1>. HIDE DEF stop
<1>1. incrementIP(ip) = [i \in DOMAIN ip |-> IF i >= stop THEN (ip[i] + 1) % Base ELSE ip[i]]
  BY DEF incrementIP, stop
<1>2. Base \in Nat \ {0}
  BY RangesOK DEF RangesOK
<1>. QED  BY <1>1, <1>2 DEF Addresses

\* The path from an address goes on from each address to the next.
LEMMA PathSteps ==
  ASSUME NEW first \in Addresses
  PROVE  /\ Path(first) \in [0 .. Memory -> Addresses] /\ Path(first)[0] = first
         /\ \A k \in 1 .. Memory : Path(first)[k] = incrementIP(Path(first)[k - 1])
<1>. DEFINE F == [k \in 1 .. Memory |-> [ip \in Addresses |-> incrementIP(ip)]]
            Is(ip) == ip = [n \in 0 .. Memory |-> IF n = 0 THEN first ELSE incrementIP(ip[n - 1])]
<1>1. Memory \in Nat /\ \A k \in 1 .. Memory : \A x \in Addresses : F[k][x] \in Addresses
  BY NextAddress, RangesOK DEF RangesOK
<1>2. PICK g : Follows(g, Memory, Addresses, first, F)
  <2>. HIDE DEF F
  <2>. QED  BY <1>1, Recursion
<1>3. ASSUME NEW k \in 1 .. Memory PROVE g[k] = incrementIP(g[k - 1])
  <2>1. k - 1 \in 0 .. Memory
    BY <1>1
  <2>. QED  BY <1>2, <2>1 DEF Follows
<1>4. Is(g)
  <2>1. \A n \in 0 .. Memory : g[n] = IF n = 0 THEN first ELSE incrementIP(g[n - 1])
    BY <1>1, <1>2, <1>3 DEF Follows
  <2>. QED  BY <1>2, <2>1 DEF Follows
<1>5. Path(first) = CHOOSE ip : Is(ip)
  BY DEF Path
<1>6. Is(Path(first))
  <2>. HIDE DEF Is
  <2>. QED  BY <1>4, <1>5, Zenon
<1>. DEFINE p == Path(first)
<1>7. p = [n \in 0 .. Memory |-> IF n = 0 THEN first ELSE incrementIP(p[n - 1])]
  BY <1>6
<1>. HIDE DEF p
<1>8. DOMAIN p = 0 .. Memory /\ p[0] = first
  BY <1>1, <1>7
<1>9. ASSUME NEW k \in 1 .. Memory PROVE p[k] = incrementIP(p[k - 1])
  BY <1>1, <1>7
<1>. DEFINE S == {k \in 0 .. Memory : p[k] \in Addresses}
<1>10. \A k \in 0 .. Memory : k \in S
  <2>1. 0 \in S
    BY <1>1, <1>8
  <2>2. ASSUME NEW k \in 0 .. Memory - 1, k \in S PROVE k + 1 \in S
    <3>1. k + 1 \in 1 .. Memory /\ k + 1 - 1 = k
      BY <1>1
    <3>2. p[k + 1] = incrementIP(p[k])
      BY <1>9, <3>1
    <3>. QED  BY <2>2, <3>1, <3>2, NextAddress
  <2>. HIDE DEF S
  <2>. QED  BY <1>1, <2>1, <2>2, UpTo
<1>11. p \in [0 .. Memory -> Addresses]
  BY <1>7, <1>8, <1>10
<1>. QED  BY <1>8, <1>9, <1>11 DEF p

\* A walk that meets its end makes the list of what it came to, the end for the
\* first time.
LEMMA WalkIs ==
  ASSUME NEW first \in Addresses, NEW last, Walk(first, last) # <<>>
  PROVE  \E m \in 0 .. Memory :
           /\ Walk(first, last) = [i \in 1 .. m + 1 |-> Path(first)[i - 1]]
           /\ Path(first)[m] = last /\ \A k \in 0 .. m - 1 : Path(first)[k] # last
<1>. DEFINE met == {n \in 0 .. Memory : Path(first)[n] = last}
<1>1. Memory \in Nat
  BY RangesOK DEF RangesOK
<1>2. met # {} /\ met \subseteq Nat
  BY <1>1 DEF Walk
<1>3. \E m \in met : \A k \in met : m <= k
  <2>. HIDE DEF met
  <2>. QED  BY <1>2, Least
<1>4. Min(met) \in met /\ \A k \in met : Min(met) <= k
  <2>. HIDE DEF met
  <2>. QED  BY <1>3 DEF Min
<1>5. Walk(first, last) = [i \in 1 .. Min(met) + 1 |-> Path(first)[i - 1]]
  BY <1>2 DEF Walk
<1>. DEFINE m == Min(met)
<1>. HIDE DEF m
<1>6. m \in 0 .. Memory /\ Path(first)[m] = last
  BY <1>4 DEF m
<1>7. \A k \in 0 .. m - 1 : Path(first)[k] # last
  BY <1>1, <1>4, <1>6 DEF m
<1>. QED  BY <1>5, <1>6, <1>7 DEF m

\* A list of addresses is one, and has none of them twice: from an address
\* that came again the walk would have met its end before.
LEMMA WalkIsInjective ==
  ASSUME NEW first \in Addresses, NEW last
  PROVE  /\ Walk(first, last) \in Seq(Addresses)
         /\ \A i, j \in 1 .. Len(Walk(first, last)) :
              Walk(first, last)[i] = Walk(first, last)[j] => i = j
<1>. DEFINE w == Walk(first, last)
<1>1. CASE w = <<>>
  BY <1>1
<1>2. CASE w # <<>>
  <2>. DEFINE p == Path(first)
  <2>1. PICK m \in 0 .. Memory : /\ w = [i \in 1 .. m + 1 |-> p[i - 1]] /\ p[m] = last
                                 /\ \A k \in 0 .. m - 1 : p[k] # last
    BY <1>2, WalkIs
  <2>2. p \in [0 .. Memory -> Addresses] /\ \A k \in 1 .. Memory : p[k] = incrementIP(p[k - 1])
    BY PathSteps
  <2>. HIDE DEF w, p
  <2>3. Memory \in Nat
    BY RangesOK DEF RangesOK
  <2>4. w \in Seq(Addresses) /\ Len(w) = m + 1
    BY <2>1, <2>2, <2>3
  <2>5. ASSUME NEW i \in 0 .. m, NEW j \in 0 .. m, i < j, p[i] = p[j] PROVE FALSE
    <3>. DEFINE S == {d \in 0 .. m - j : p[i + d] = p[j + d]}
    <3>1. m - j \in Nat /\ 0 \in S
      BY <2>5
    <3>2. ASSUME NEW d \in 0 .. m - j - 1, d \in S PROVE d + 1 \in S
      <4>1. p[i + d] = p[j + d]
        BY <3>2
      <4>2. /\ i + d + 1 \in 1 .. Memory /\ j + d + 1 \in 1 .. Memory
            /\ i + d + 1 - 1 = i + d /\ j + d + 1 - 1 = j + d
        BY <2>3, <2>5
      <4>3. p[i + d + 1] = incrementIP(p[i + d]) /\ p[j + d + 1] = incrementIP(p[j + d])
        BY <2>2, <4>2
      <4>4. i + (d + 1) = i + d + 1 /\ j + (d + 1) = j + d + 1 /\ d + 1 \in 0 .. m - j
        BY <2>5
      <4>. QED  BY <4>1, <4>3, <4>4
    <3>3. m - j \in S
      <4>1. \A d \in 0 .. m - j : d \in S
        <5>. HIDE DEF S
        <5>. QED  BY <3>1, <3>2, UpTo
      <4>2. m - j \in 0 .. m - j
        BY <3>1
      <4>. QED  BY <4>1, <4>2
    <3>4. p[i + (m - j)] = p[m]
      BY <3>3
    <3>5. i + (m - j) \in 0 .. m - 1
      BY <2>5
    <3>. QED  BY <2>1, <3>4, <3>5
  <2>6. ASSUME NEW i \in 1 .. m + 1, NEW j \in 1 .. m + 1, w[i] = w[j] PROVE i = j
    <3>1. p[i - 1] = p[j - 1] /\ i - 1 \in 0 .. m /\ j - 1 \in 0 .. m
      BY <2>1, <2>6
    <3>2. i - 1 < j - 1 \/ j - 1 < i - 1 \/ i = j
      OBVIOUS
    <3>. QED  BY <2>5, <3>1, <3>2
  <2>. QED  BY <2>4, <2>6 DEF w
<1>. QED  BY <1>1, <1>2

\* The value of the first k bytes of an address.
UpToByte(ip, k) ==
  (CHOOSE v : v = [n \in 0 .. Bytes |-> IF n = 0 THEN 0 ELSE v[n - 1] * Base + ip[n]])[k]

\* Value computes it byte after byte.
LEMMA ValueSteps ==
  ASSUME NEW ip \in Addresses
  PROVE  /\ Value(ip) = UpToByte(ip, Bytes) /\ UpToByte(ip, 0) = 0
         /\ \A k \in 0 .. Bytes : UpToByte(ip, k) \in Nat
         /\ \A k \in 1 .. Bytes : UpToByte(ip, k) = UpToByte(ip, k - 1) * Base + ip[k]
<1>. DEFINE F == [k \in 1 .. Bytes |-> [v \in Nat |-> v * Base + ip[k]]]
            Is(v) == v = [n \in 0 .. Bytes |-> IF n = 0 THEN 0 ELSE v[n - 1] * Base + ip[n]]
            v == CHOOSE u : Is(u)
<1>1. Bytes \in Nat /\ Base \in Nat /\ \A k \in 1 .. Bytes : ip[k] \in 0 .. Base - 1
  BY RangesOK DEF RangesOK, Addresses
<1>2. \A k \in 1 .. Bytes : \A x \in Nat : F[k][x] \in Nat
  BY <1>1
<1>3. PICK g : Follows(g, Bytes, Nat, 0, F)
  <2>. HIDE DEF F
  <2>. QED  BY <1>1, <1>2, Recursion
<1>4. ASSUME NEW k \in 1 .. Bytes PROVE g[k] = g[k - 1] * Base + ip[k]
  <2>1. k - 1 \in 0 .. Bytes
    BY <1>1
  <2>2. g[k] = F[k][g[k - 1]] /\ g[k - 1] \in Nat
    BY <1>3, <2>1 DEF Follows
  <2>. QED  BY <2>2
<1>5. Is(g)
  <2>1. \A n \in 0 .. Bytes : g[n] = IF n = 0 THEN 0 ELSE g[n - 1] * Base + ip[n]
    BY <1>1, <1>3, <1>4 DEF Follows
  <2>. QED  BY <1>3, <2>1 DEF Follows
<1>6. Is(v)
  <2>. HIDE DEF Is
  <2>. QED  BY <1>5, Zenon
<1>7. Value(ip) = v[Bytes] /\ \A k : UpToByte(ip, k) = v[k]
  BY DEF Value, UpToByte
<1>8. v = [n \in 0 .. Bytes |-> IF n = 0 THEN 0 ELSE v[n - 1] * Base + ip[n]]
  BY <1>6
<1>. HIDE DEF v
<1>9. v[0] = 0 /\ \A k \in 1 .. Bytes : v[k] = v[k - 1] * Base + ip[k]
  BY <1>1, <1>8
<1>. DEFINE S == {k \in 0 .. Bytes : v[k] \in Nat}
<1>10. \A k \in 0 .. Bytes : k \in S
  <2>1. 0 \in S
    BY <1>1, <1>9
  <2>2. ASSUME NEW k \in 0 .. Bytes - 1, k \in S PROVE k + 1 \in S
    <3>1. k + 1 \in 1 .. Bytes /\ k + 1 - 1 = k /\ v[k] \in Nat
      BY <1>1, <2>2
    <3>2. v[k + 1] = v[k] * Base + ip[k + 1] /\ ip[k + 1] \in Nat
      BY <1>1, <1>9, <3>1
    <3>. QED  BY <1>1, <3>1, <3>2
  <2>. HIDE DEF S
  <2>. QED  BY <1>1, <2>1, <2>2, UpTo
<1>. QED  BY <1>7, <1>9, <1>10

\* The address all of whose bytes are at their highest; the one after it is 0.
Top == [i \in 1 .. Bytes |-> Base - 1]

\* The next address is worth one more, but for the one after the last.
LEMMA ValueNext ==
  ASSUME NEW ip \in Addresses, ip # Top
  PROVE  Value(incrementIP(ip)) = Value(ip) + 1
<1>. DEFINE places == {0} \cup {i \in DOMAIN ip : ip[i] # Base - 1}
            stop == Max(places)
            jp == incrementIP(ip)
            V(k) == UpToByte(ip, k)
            W(k) == UpToByte(jp, k)
<1>1. /\ Bytes \in Nat \ {0} /\ Base \in Nat \ {0, 1}
      /\ DOMAIN ip = 1 .. Bytes /\ \A k \in 1 .. Bytes : ip[k] \in 0 .. Base - 1
  BY RangesOK DEF RangesOK, Addresses
<1>2. stop \in places /\ \A i \in places : i <= stop
  <2>. places \subseteq 0 .. Bytes /\ places # {}
    BY <1>1
  <2>. HIDE DEF places
  <2>. QED  BY <1>1, Greatest
<1>3. stop \in 1 .. Bytes /\ ip[stop] # Base - 1
  <2>1. PICK i \in 1 .. Bytes : ip[i] # Base - 1
    <3>. SUFFICES ASSUME \A i \in 1 .. Bytes : ip[i] = Base - 1 PROVE FALSE
      OBVIOUS
    <3>1. ip = [i \in 1 .. Bytes |-> ip[i]]
      BY DEF Addresses
    <3>. QED  BY <3>1 DEF Top
  <2>2. i \in places
    BY <1>1, <2>1
  <2>. HIDE DEF stop
  <2>. QED  BY <1>1, <1>2, <2>1, <2>2
<1>4. \A i \in 1 .. Bytes : i > stop => ip[i] = Base - 1
  <2>. SUFFICES ASSUME NEW i \in 1 .. Bytes, i > stop, ip[i] # Base - 1 PROVE FALSE
    OBVIOUS
  <2>1. i \in places
    BY <1>1
  <2>2. i <= stop
    BY <1>2, <2>1
  <2>. HIDE DEF stop
  <2>. QED  BY <1>3, <2>2
<1>5. jp = [i \in 1 .. Bytes |-> IF i >= stop THEN (ip[i] + 1) % Base ELSE ip[i]]
  BY <1>1 DEF incrementIP
<1>. HIDE DEF stop, places, jp
<1>6. /\ \A i \in 1 .. Bytes : i < stop => jp[i] = ip[i]
      /\ jp[stop] = ip[stop] + 1
      /\ \A i \in 1 .. Bytes : i > stop => jp[i] = 0
  <2>1. \A i \in 1 .. Bytes : i < stop => jp[i] = ip[i]
    BY <1>3, <1>5
  <2>2. jp[stop] = ip[stop] + 1
    <3>1. jp[stop] = (ip[stop] + 1) % Base
      BY <1>3, <1>5
    <3>2. ip[stop] \in 0 .. Base - 1 /\ ip[stop] # Base - 1
      BY <1>1, <1>3
    <3>3. ip[stop] + 1 \in 1 .. Base - 1
      BY <1>1, <3>2
    <3>4. ip[stop] + 1 \in 0 .. Base - 1 /\ Base \in Nat \ {0}
      BY <1>1, <3>3
    <3>5. (ip[stop] + 1) % Base = ip[stop] + 1
      BY <3>4, Small
    <3>. QED  BY <3>1, <3>5
  <2>3. ASSUME NEW i \in 1 .. Bytes, i > stop PROVE jp[i] = 0
    <3>1. jp[i] = (ip[i] + 1) % Base
      BY <1>3, <1>5, <2>3
    <3>2. ip[i] + 1 = Base
      BY <1>1, <1>4, <2>3
    <3>. QED  BY <1>1, <3>1, <3>2
  <2>. QED  BY <2>1, <2>2, <2>3
<1>7. /\ Value(ip) = V(Bytes) /\ V(0) = 0
      /\ \A k \in 0 .. Bytes : V(k) \in Nat
      /\ \A k \in 1 .. Bytes : V(k) = V(k - 1) * Base + ip[k]
  BY ValueSteps
<1>8. /\ Value(jp) = W(Bytes) /\ W(0) = 0
      /\ \A k \in 0 .. Bytes : W(k) \in Nat
      /\ \A k \in 1 .. Bytes : W(k) = W(k - 1) * Base + jp[k]
  <2>. jp \in Addresses
    BY NextAddress DEF jp
  <2>. QED  BY ValueSteps
<1>. HIDE DEF V, W
<1>. DEFINE S == {k \in 0 .. Bytes : W(k) = IF k < stop THEN V(k) ELSE V(k) + 1}
<1>9. \A k \in 0 .. Bytes : k \in S
  <2>1. 0 \in S
    BY <1>1, <1>3, <1>7, <1>8
  <2>2. ASSUME NEW k \in 0 .. Bytes - 1, k \in S PROVE k + 1 \in S
    <3>1. k + 1 \in 1 .. Bytes /\ k + 1 - 1 = k /\ k \in 0 .. Bytes
      BY <1>1
    <3>2. V(k + 1) = V(k) * Base + ip[k + 1] /\ W(k + 1) = W(k) * Base + jp[k + 1]
      BY <1>7, <1>8, <3>1
    <3>3. V(k) \in Nat /\ W(k) \in Nat /\ ip[k + 1] \in Nat /\ Base \in Nat
      <4>1. V(k) \in Nat
        BY <1>7, <3>1
      <4>2. W(k) \in Nat
        BY <1>8, <3>1
      <4>3. ip[k + 1] \in Nat /\ Base \in Nat
        BY <1>1, <3>1
      <4>. QED  BY <4>1, <4>2, <4>3
    <3>4. CASE k + 1 < stop
      <4>1. W(k) = V(k) /\ jp[k + 1] = ip[k + 1]
        BY <1>3, <1>6, <2>2, <3>1, <3>4
      <4>. QED  BY <3>1, <3>2, <3>4, <4>1
    <3>5. CASE k + 1 = stop
      <4>1. W(k) = V(k) /\ jp[k + 1] = ip[k + 1] + 1
        BY <1>3, <1>6, <2>2, <3>1, <3>5
      <4>2. W(k) * Base = V(k) * Base
        BY <4>1
      <4>3. W(k + 1) = V(k + 1) + 1
        BY <3>2, <3>3, <4>1, <4>2
      <4>. QED  BY <1>3, <3>1, <3>5, <4>3
    <3>6. CASE k + 1 > stop
      <4>1. W(k) = V(k) + 1 /\ jp[k + 1] = 0 /\ ip[k + 1] = Base - 1
        BY <1>3, <1>4, <1>6, <2>2, <3>1, <3>6
      <4>2. (V(k) + 1) * Base = V(k) * Base + Base
        BY <3>3
      <4>3. W(k + 1) = V(k + 1) + 1
        BY <3>2, <3>3, <4>1, <4>2
      <4>. QED  BY <1>3, <3>1, <3>6, <4>3
    <3>. QED  BY <1>3, <3>1, <3>4, <3>5, <3>6
  <2>. HIDE DEF S
  <2>. QED  BY <1>1, <2>1, <2>2, UpTo
<1>10. Bytes \in S /\ ~(Bytes < stop)
  BY <1>1, <1>3, <1>9
<1>. QED  BY <1>7, <1>8, <1>10 DEF jp

\* No address is worth more than the last, and no two the same.
LEMMA ValueOrder ==
  ASSUME NEW ip \in Addresses, NEW jp \in Addresses
  PROVE  Value(ip) <= Value(Top) /\ (Value(ip) = Value(jp) => ip = jp)
<1>. DEFINE V(k) == UpToByte(ip, k)
            W(k) == UpToByte(jp, k)
            U(k) == UpToByte(Top, k)
<1>1. /\ Bytes \in Nat \ {0} /\ Base \in Nat \ {0, 1} /\ Top \in Addresses
      /\ \A k \in 1 .. Bytes : /\ ip[k] \in 0 .. Base - 1 /\ jp[k] \in 0 .. Base - 1
                               /\ Top[k] = Base - 1
  BY RangesOK DEF RangesOK, Addresses, Top
<1>2. /\ Value(ip) = V(Bytes) /\ V(0) = 0
      /\ \A k \in 0 .. Bytes : V(k) \in Nat
      /\ \A k \in 1 .. Bytes : V(k) = V(k - 1) * Base + ip[k]
  BY ValueSteps
<1>3. /\ Value(jp) = W(Bytes) /\ W(0) = 0
      /\ \A k \in 0 .. Bytes : W(k) \in Nat
      /\ \A k \in 1 .. Bytes : W(k) = W(k - 1) * Base + jp[k]
  BY ValueSteps
<1>4. /\ Value(Top) = U(Bytes) /\ U(0) = 0
      /\ \A k \in 0 .. Bytes : U(k) \in Nat
      /\ \A k \in 1 .. Bytes : U(k) = U(k - 1) * Base + Top[k]
  BY <1>1, ValueSteps
<1>. HIDE DEF V, W, U
<1>. DEFINE S == {k \in 0 .. Bytes : V(k) <= U(k)}
            T == {k \in 0 .. Bytes : V(k) = W(k) => \A i \in 1 .. k : ip[i] = jp[i]}
<1>5. ASSUME NEW k \in 0 .. Bytes - 1
      PROVE  /\ k + 1 \in 1 .. Bytes /\ k + 1 \in 0 .. Bytes /\ k \in 0 .. Bytes
             /\ V(k) \in Nat /\ W(k) \in Nat /\ U(k) \in Nat
             /\ V(k + 1) = V(k) * Base + ip[k + 1] /\ W(k + 1) = W(k) * Base + jp[k + 1]
             /\ U(k + 1) = U(k) * Base + (Base - 1)
             /\ ip[k + 1] \in 0 .. Base - 1 /\ jp[k + 1] \in 0 .. Base - 1
  <2>1. k + 1 \in 1 .. Bytes /\ k + 1 - 1 = k /\ k \in 0 .. Bytes
    BY <1>1
  <2>. QED  BY <1>1, <1>2, <1>3, <1>4, <2>1
<1>6. \A k \in 0 .. Bytes : k \in S
  <2>1. 0 \in S
    BY <1>1, <1>2, <1>4
  <2>2. ASSUME NEW k \in 0 .. Bytes - 1, k \in S PROVE k + 1 \in S
    <3>1. V(k) <= U(k)
      BY <2>2
    <3>2. V(k) * Base <= U(k) * Base
      BY <1>1, <1>5, <3>1
    <3>3. V(k + 1) <= U(k + 1)
      <4>. DEFINE a == V(k) * Base  b == U(k) * Base  d == ip[k + 1]
      <4>1. a \in Int /\ b \in Int /\ d \in 0 .. Base - 1 /\ Base \in Nat /\ a <= b
        BY <1>1, <1>5, <3>2
      <4>2. V(k + 1) = a + d /\ U(k + 1) = b + (Base - 1)
        BY <1>5
      <4>. HIDE DEF a, b, d
      <4>. QED  BY <4>1, <4>2
    <3>. QED  BY <1>5, <3>3
  <2>. HIDE DEF S
  <2>. QED  BY <1>1, <2>1, <2>2, UpTo
<1>7. \A k \in 0 .. Bytes : k \in T
  <2>1. 0 \in T
    BY <1>1
  <2>2. ASSUME NEW k \in 0 .. Bytes - 1, k \in T PROVE k + 1 \in T
    <3>. SUFFICES ASSUME V(k + 1) = W(k + 1), NEW i \in 1 .. k + 1 PROVE ip[i] = jp[i]
      BY <1>5
    <3>. DEFINE a == V(k)  b == W(k)  d == ip[k + 1]  e == jp[k + 1]
    <3>1. a * Base + d = b * Base + e
      BY <1>5
    <3>2. a \in Nat /\ b \in Nat /\ d \in 0 .. Base - 1 /\ e \in 0 .. Base - 1 /\ Base \in Nat \ {0}
      BY <1>1, <1>5
    <3>. HIDE DEF a, b, d, e
    <3>3. ~(a < b)
      <4>. SUFFICES ASSUME a + 1 <= b PROVE FALSE
        BY <3>2
      <4>1. (a + 1) * Base <= b * Base /\ (a + 1) * Base = a * Base + Base
        BY <3>2
      <4>. QED  BY <3>1, <3>2, <4>1
    <3>4. ~(b < a)
      <4>. SUFFICES ASSUME b + 1 <= a PROVE FALSE
        BY <3>2
      <4>1. (b + 1) * Base <= a * Base /\ (b + 1) * Base = b * Base + Base
        BY <3>2
      <4>. QED  BY <3>1, <3>2, <4>1
    <3>5. a = b /\ d = e
      <4>1. a = b
        BY <3>2, <3>3, <3>4
      <4>. QED  BY <3>1, <3>2, <4>1
    <3>6. \A l \in 1 .. k : ip[l] = jp[l]
      BY <2>2, <3>5 DEF a, b
    <3>7. i \in 1 .. k \/ i = k + 1
      OBVIOUS
    <3>. QED  BY <3>5, <3>6, <3>7 DEF d, e
  <2>. HIDE DEF T
  <2>. QED  BY <1>1, <2>1, <2>2, UpTo
<1>8. Bytes \in S /\ Bytes \in T
  BY <1>1, <1>6, <1>7
<1>9. Value(ip) <= Value(Top)
  BY <1>2, <1>4, <1>8
<1>10. ASSUME Value(ip) = Value(jp) PROVE ip = jp
  <2>1. \A i \in 1 .. Bytes : ip[i] = jp[i]
    BY <1>2, <1>3, <1>8, <1>10
  <2>2. ip = [i \in 1 .. Bytes |-> ip[i]] /\ jp = [i \in 1 .. Bytes |-> jp[i]]
    BY DEF Addresses
  <2>. QED  BY <2>1, <2>2
<1>. QED  BY <1>9, <1>10

\* Of a range whose first address is not after its last, the i-th address is worth
\* what the first is worth, and i - 1.
LEMMA WalkValues ==
  ASSUME NEW first \in Addresses, NEW last \in Addresses, Value(first) <= Value(last)
  PROVE  \A i \in 1 .. Len(Walk(first, last)) :
           /\ Value(Walk(first, last)[i]) = Value(first) + i - 1
           /\ Value(Walk(first, last)[i]) <= Value(last)
<1>. DEFINE w == Walk(first, last)
            p == Path(first)
<1>. SUFFICES ASSUME w # <<>>
              PROVE  \A i \in 1 .. Len(w) : /\ Value(w[i]) = Value(first) + i - 1
                                            /\ Value(w[i]) <= Value(last)
  OBVIOUS
<1>1. PICK m \in 0 .. Memory : /\ w = [i \in 1 .. m + 1 |-> p[i - 1]] /\ p[m] = last
                               /\ \A k \in 0 .. m - 1 : p[k] # last
  BY WalkIs
<1>2. /\ p \in [0 .. Memory -> Addresses] /\ p[0] = first
      /\ \A k \in 1 .. Memory : p[k] = incrementIP(p[k - 1])
  BY PathSteps
<1>. HIDE DEF w, p
<1>3. Memory \in Nat
  BY RangesOK DEF RangesOK
<1>4. Value(first) \in Nat /\ Value(last) \in Nat
  <2>1. Bytes \in 0 .. Bytes
    BY RangesOK DEF RangesOK
  <2>. QED  BY <2>1, ValueSteps
<1>. DEFINE S == {k \in 0 .. m : \A j \in 0 .. k : Value(p[j]) = Value(first) + j}
<1>5. \A k \in 0 .. m : k \in S
  <2>1. 0 \in S
    BY <1>1, <1>2, <1>4
  <2>2. ASSUME NEW k \in 0 .. m - 1, k \in S PROVE k + 1 \in S
    <3>1. \A j \in 0 .. k : Value(p[j]) = Value(first) + j
      BY <2>2
    <3>2. k + 1 \in 1 .. Memory /\ k + 1 - 1 = k /\ p[k] \in Addresses
      BY <1>2, <1>3
    <3>3. p[k] # Top
      <4>. SUFFICES ASSUME p[k] = Top PROVE FALSE
        OBVIOUS
      <4>. DEFINE d == Value(last) - Value(first)
      <4>1. Value(last) <= Value(first) + k
        BY <3>1, ValueOrder
      <4>2. d \in 0 .. k
        BY <1>4, <4>1
      <4>3. Value(p[d]) = Value(last) /\ p[d] \in Addresses
        <5>1. Value(p[d]) = Value(first) + d
          BY <3>1, <4>2
        <5>2. Value(first) + d = Value(last)
          BY <1>4
        <5>3. d \in 0 .. Memory
          BY <1>3, <4>2
        <5>. QED  BY <1>2, <5>1, <5>2, <5>3
      <4>4. p[d] = last
        BY <4>3, ValueOrder
      <4>5. d \in 0 .. m - 1
        BY <4>2
      <4>. QED  BY <1>1, <4>4, <4>5
    <3>4. p[k + 1] = incrementIP(p[k])
      BY <1>2, <3>2
    <3>5. Value(p[k + 1]) = Value(p[k]) + 1
      BY <3>2, <3>3, <3>4, ValueNext
    <3>6. Value(p[k + 1]) = Value(first) + (k + 1)
      <4>1. k \in 0 .. k
        OBVIOUS
      <4>. QED  BY <1>4, <3>1, <3>5, <4>1
    <3>7. \A j \in 0 .. k + 1 : j \in 0 .. k \/ j = k + 1
      OBVIOUS
    <3>. QED  BY <3>1, <3>6, <3>7
  <2>. HIDE DEF S
  <2>. QED  BY <2>1, <2>2, UpTo
<1>6. \A j \in 0 .. m : Value(p[j]) = Value(first) + j
  <2>1. m \in S
    BY <1>5
  <2>. QED  BY <2>1
<1>7. Len(w) = m + 1
  BY <1>1
<1>. SUFFICES ASSUME NEW i \in 1 .. m + 1
              PROVE  Value(w[i]) = Value(first) + i - 1 /\ Value(w[i]) <= Value(last)
  BY <1>7
<1>8. w[i] = p[i - 1] /\ i - 1 \in 0 .. m
  BY <1>1
<1>9. Value(last) = Value(first) + m
  BY <1>1, <1>6
<1>10. Value(w[i]) = Value(first) + (i - 1)
  BY <1>6, <1>8
<1>. QED  BY <1>4, <1>8, <1>9, <1>10

-----------------------------------------------------------------------------
(* Settings: what validate accepts, ToModel can use                        *)

\* With its defaults a configuration still has a list of pools of workers.
LEMMA DefaultWorkers ==
  ASSUME NEW y \in YAML
  PROVE  \E n \in Nat : DOMAIN applyDefaults(y).workers = 1 .. n
<1>1. applyDefaults(y).workers = [k \in DOMAIN y.workers |-> WithSize(y.workers[k], "standard-4")]
  BY DEF applyDefaults, YAML
<1>2. y.workers \in Seq(Pools)
  BY DEF YAML
<1>3. DOMAIN y.workers = 1 .. Len(y.workers) /\ Len(y.workers) \in Nat
  BY <1>2
<1>. QED  BY <1>1, <1>3

\* A pool validatePool accepts has nodes, and a size that will do.
LEMMA AcceptedPool ==
  ASSUME NEW pool, NEW role, NEW name, validatePool(pool, role)
  PROVE  LET p == poolToModel(name, pool, role) IN
         p.count > 0 /\ p.size # None /\ ValidateSize(p.size, p.role)
BY DEF validatePool, poolToModel

\* What validate accepts, ToModel can use.
LEMMA ValidModel ==
  ASSUME NEW y, NEW n \in Nat, DOMAIN y.workers = 1 .. n, Valid(y)
  PROVE  LET pools == ToModel(y) IN
         /\ pools # <<>>
         /\ \A k \in DOMAIN pools :
              pools[k].count > 0 /\ ValidateSize(pools[k].size, pools[k].role)
<1>. DEFINE masters == poolToModel("master", y.masters, "master")
            W(k) == poolToModel(y.workers[k].name, y.workers[k], "worker")
            workers == [k \in 1 .. n |-> W(k)]
            pools == <<masters>> \o workers
            Good(p) == p.count > 0 /\ p.size # None /\ ValidateSize(p.size, p.role)
<1>1. "public_key_path" \notin y.bad \ y.empty
  BY DEF Valid, Required, Tested
<1>2. Good(masters)
  BY AcceptedPool DEF Valid
<1>3. \A k \in 1 .. n : Good(W(k))
  BY AcceptedPool DEF Valid
<1>. HIDE DEF masters, W, Good
<1>4. /\ DOMAIN pools = 1 .. n + 1 /\ pools[1] = masters
      /\ \A k \in 2 .. n + 1 : pools[k] = W(k - 1)
  <2>1. workers \in Seq({W(k) : k \in 1 .. n}) /\ Len(workers) = n
    BY IsASeq
  <2>2. <<masters>> \in Seq({masters}) /\ Len(<<masters>>) = 1
    OBVIOUS
  <2>. DEFINE T == {masters} \cup {W(k) : k \in 1 .. n}
  <2>3. workers \in Seq(T) /\ <<masters>> \in Seq(T)
    BY <2>1, <2>2
  <2>. QED  BY <2>1, <2>2, <2>3, ConcatProperties
<1>5. \A k \in DOMAIN pools : Good(pools[k])
  BY <1>2, <1>3, <1>4
<1>6. pools # <<>>
  BY <1>4
<1>7. ToModel(y) = pools
  <2>1. \A k \in DOMAIN pools : pools[k].size # None
    BY <1>5 DEF Good
  <2>. QED  BY <1>1, <2>1 DEF ToModel, masters, W
<1>. HIDE DEF pools
<1>. QED  BY <1>5, <1>6, <1>7 DEF Good

\* The pools of a configuration that is accepted have nodes, and sizes that will do.
LEMMA PoolsUsable ==
  ASSUME NEW c \in Configs, Valid(applyDefaults(c))
  PROVE  /\ PoolsOf(c) # <<>>
         /\ \A k \in DOMAIN PoolsOf(c) :
              /\ PoolsOf(c)[k].count > 0
              /\ ValidateSize(PoolsOf(c)[k].size, PoolsOf(c)[k].role)
<1>1. c \in YAML
  BY ConstantsOK DEF ConstantsOK
<1>2. PICK n \in Nat : DOMAIN applyDefaults(c).workers = 1 .. n
  BY <1>1, DefaultWorkers
<1>. DEFINE y == applyDefaults(c)
<1>3. Valid(y) /\ DOMAIN y.workers = 1 .. n
  BY <1>2
<1>. HIDE DEF y
<1>4. /\ ToModel(y) # <<>>
      /\ \A k \in DOMAIN ToModel(y) :
           /\ ToModel(y)[k].count > 0
           /\ ValidateSize(ToModel(y)[k].size, ToModel(y)[k].role)
  BY <1>3, ValidModel
<1>. QED  BY <1>4 DEF PoolsOf, y

-----------------------------------------------------------------------------
(* Nodes and their addresses                                               *)

\* The model of a configuration is a list of pools, each with a count.
LEMMA PoolsTyped ==
  ASSUME NEW c \in Configs
  PROVE  \E n \in Nat : DOMAIN PoolsOf(c) = 1 .. n /\ \A k \in 1 .. n : PoolsOf(c)[k].count \in Int
<1>. DEFINE y == applyDefaults(c)
            masters == poolToModel("master", y.masters, "master")
            W(k) == poolToModel(y.workers[k].name, y.workers[k], "worker")
            workers == [k \in DOMAIN y.workers |-> W(k)]
            pools == <<masters>> \o workers
<1>1. c \in YAML
  BY ConstantsOK DEF ConstantsOK
<1>2. y.masters = WithSize(WithCount(c.masters), "cp-medium")
      /\ y.workers = [k \in DOMAIN c.workers |-> WithSize(c.workers[k], "standard-4")]
  BY <1>1 DEF applyDefaults, YAML
<1>3. c.masters \in Pools /\ c.workers \in Seq(Pools)
  BY <1>1 DEF YAML
<1>4. ASSUME NEW p \in Pools, NEW s
      PROVE  WithSize(p, s).count \in Int /\ WithCount(p).count \in Int
             /\ WithSize(WithCount(p), s).count \in Int
  <2>1. p.count \in Int /\ DOMAIN p = {"name", "count", "size", "resources"}
    BY DEF Pools
  <2>2. WithCount(p).count \in Int /\ DOMAIN WithCount(p) = DOMAIN p
    BY <2>1 DEF WithCount
  <2>3. \A q : DOMAIN q = DOMAIN p => WithSize(q, s).count = q.count
    BY <2>1 DEF WithSize
  <2>. QED  BY <2>1, <2>2, <2>3
<1>5. y.masters.count \in Int
  <2>. HIDE DEF y
  <2>. QED  BY <1>2, <1>3, <1>4
<1>. DEFINE n == Len(c.workers)
<1>6. n \in Nat /\ DOMAIN y.workers = 1 .. n
      /\ \A k \in 1 .. n : y.workers[k].count \in Int
  <2>. HIDE DEF y
  <2>1. n \in Nat /\ DOMAIN c.workers = 1 .. n /\ \A k \in 1 .. n : c.workers[k] \in Pools
    BY <1>3
  <2>2. \A k \in 1 .. n : y.workers[k] = WithSize(c.workers[k], "standard-4")
    BY <1>2, <2>1
  <2>. QED  BY <1>2, <1>4, <2>1, <2>2
<1>. HIDE DEF n, y
<1>7. masters.count \in Int /\ \A k \in 1 .. n : W(k).count \in Int
  BY <1>5, <1>6 DEF poolToModel
<1>. HIDE DEF masters, W
<1>8. /\ DOMAIN pools = 1 .. n + 1 /\ pools[1] = masters
      /\ \A k \in 2 .. n + 1 : pools[k] = W(k - 1)
  <2>1. workers = [k \in 1 .. n |-> W(k)]
    BY <1>6
  <2>2. workers \in Seq({W(k) : k \in 1 .. n}) /\ Len(workers) = n
    BY <1>6, <2>1, IsASeq
  <2>3. <<masters>> \in Seq({masters}) /\ Len(<<masters>>) = 1
    OBVIOUS
  <2>. DEFINE T == {masters} \cup {W(k) : k \in 1 .. n}
  <2>4. workers \in Seq(T) /\ <<masters>> \in Seq(T)
    BY <2>2, <2>3
  <2>. QED  BY <1>6, <2>1, <2>2, <2>3, <2>4, ConcatProperties
<1>9. \A k \in 1 .. n + 1 : pools[k].count \in Int
  <2>. SUFFICES ASSUME NEW k \in 1 .. n + 1 PROVE pools[k].count \in Int
    OBVIOUS
  <2>1. CASE k = 1
    BY <1>7, <1>8, <2>1
  <2>2. CASE k \in 2 .. n + 1
    <3>1. k - 1 \in 1 .. n
      BY <1>6, <2>2
    <3>. QED  BY <1>7, <1>8, <2>2, <3>1
  <2>. QED  BY <1>6, <2>1, <2>2
<1>10. PoolsOf(c) = <<>> \/ PoolsOf(c) = pools
  BY DEF PoolsOf, ToModel, y, masters, W
<1>. HIDE DEF pools
<1>11. CASE PoolsOf(c) = <<>>
  <2>1. DOMAIN PoolsOf(c) = 1 .. 0
    BY <1>11
  <2>. QED  BY <2>1
<1>12. CASE PoolsOf(c) = pools
  <2>1. n + 1 \in Nat /\ DOMAIN PoolsOf(c) = 1 .. n + 1
    BY <1>6, <1>8, <1>12
  <2>. QED  BY <1>9, <1>12, <2>1
<1>. QED  BY <1>10, <1>11, <1>12

\* The nodes of a configuration are numbered, each with a number of its own.
LEMMA Numbered ==
  ASSUME NEW c \in Configs
  PROVE  /\ IsFiniteSet(NodesOf(c)) /\ Cardinality(NodesOf(c)) \in Nat
         /\ \A n \in NodesOf(c) : n[1] \in DOMAIN PoolsOf(c)
         /\ \A n \in NodesOf(c) : Index(c, n) \in 1 .. Cardinality(NodesOf(c))
         /\ \A m, n \in NodesOf(c) : Index(c, m) = Index(c, n) => m = n
<1>. DEFINE N == NodesOf(c)
            P(k) == {<<k, i>> : i \in 1 .. PoolsOf(c)[k].count}
            Before(n) == {m \in N : Earlier(m, n)}
<1>1. PICK len \in Nat : DOMAIN PoolsOf(c) = 1 .. len
                         /\ \A k \in 1 .. len : PoolsOf(c)[k].count \in Int
  BY PoolsTyped
<1>2. N = UNION {P(k) : k \in 1 .. len}
  BY <1>1 DEF NodesOf
<1>3. \A n \in N : n = <<n[1], n[2]>> /\ n[1] \in 1 .. len /\ n[2] \in Nat
  <2>. SUFFICES ASSUME NEW n \in N PROVE n = <<n[1], n[2]>> /\ n[1] \in 1 .. len /\ n[2] \in Nat
    OBVIOUS
  <2>1. PICK k \in 1 .. len : n \in P(k)
    BY <1>2
  <2>2. PICK i \in 1 .. PoolsOf(c)[k].count : n = <<k, i>>
    BY <2>1
  <2>. QED  BY <1>1, <2>2
<1>4. IsFiniteSet(N)
  <2>1. ASSUME NEW k \in 1 .. len PROVE IsFiniteSet(P(k))
    <3>. DEFINE I == 1 .. PoolsOf(c)[k].count
                f == [i \in I |-> <<k, i>>]
    <3>1. IsFiniteSet(I)
      <4>1. PoolsOf(c)[k].count \in Int /\ 1 \in Int
        BY <1>1
      <4>. QED  BY <4>1, FS_Interval
    <3>2. f \in Surjection(I, P(k))
      BY DEF Surjection
    <3>. QED  BY <3>1, <3>2, FS_Surjection
  <2>. DEFINE K == 1 .. len
              f == [k \in K |-> P(k)]
              Q == {P(k) : k \in K}
  <2>2. IsFiniteSet(K)
    BY FS_Interval
  <2>3. f \in Surjection(K, Q)
    <3>. HIDE DEF P
    <3>. QED  BY DEF Surjection
  <2>4. IsFiniteSet(Q)
    BY <2>2, <2>3, FS_Surjection
  <2>. HIDE DEF P, N
  <2>5. \A S \in Q : IsFiniteSet(S)
    BY <2>1
  <2>6. N = UNION Q
    BY <1>2
  <2>. HIDE DEF Q
  <2>. QED  BY <2>4, <2>5, <2>6, FS_UNION
<1>. HIDE DEF N, P
<1>5. Cardinality(N) \in Nat
  BY <1>4, FS_CardinalityType
<1>6. ASSUME NEW n \in N
      PROVE  /\ Before(n) \subseteq N /\ n \notin Before(n) /\ IsFiniteSet(Before(n))
             /\ Cardinality(Before(n)) \in Nat /\ Index(c, n) = Cardinality(Before(n)) + 1
  <2>1. Before(n) \subseteq N /\ n \notin Before(n)
    BY <1>3 DEF Earlier
  <2>2. Index(c, n) = Cardinality(Before(n)) + 1
    BY DEF Index, N
  <2>. HIDE DEF Before
  <2>3. IsFiniteSet(Before(n)) /\ Cardinality(Before(n)) \in Nat
    BY <1>4, <2>1, FS_Subset, FS_CardinalityType
  <2>. QED  BY <2>1, <2>2, <2>3
<1>7. ASSUME NEW n \in N PROVE Index(c, n) \in 1 .. Cardinality(N)
  <2>. HIDE DEF Before
  <2>1. Cardinality(Before(n)) < Cardinality(N)
    BY <1>4, <1>6, Smaller
  <2>. QED  BY <1>5, <1>6, <2>1
<1>8. ASSUME NEW m \in N, NEW n \in N, Earlier(m, n) PROVE Index(c, m) < Index(c, n)
  <2>1. m \in Before(n)
    BY <1>8
  <2>2. Before(m) \subseteq Before(n)
    <3>. SUFFICES ASSUME NEW x \in N, Earlier(x, m) PROVE Earlier(x, n)
      OBVIOUS
    <3>1. /\ x[1] \in Nat /\ x[2] \in Nat /\ m[1] \in Nat /\ m[2] \in Nat
          /\ n[1] \in Nat /\ n[2] \in Nat
      BY <1>3
    <3>. QED  BY <1>8, <3>1 DEF Earlier
  <2>. HIDE DEF Before
  <2>3. Cardinality(Before(m)) < Cardinality(Before(n))
    BY <1>6, <2>1, <2>2, Smaller
  <2>. QED  BY <1>6, <2>3
<1>9. ASSUME NEW m \in N, NEW n \in N, Index(c, m) = Index(c, n) PROVE m = n
  <2>1. ~Earlier(m, n) /\ ~Earlier(n, m)
    <3>1. Index(c, m) \in Int /\ Index(c, n) \in Int
      BY <1>7
    <3>. QED  BY <1>8, <1>9, <3>1
  <2>2. /\ m[1] \in Nat /\ m[2] \in Nat /\ n[1] \in Nat /\ n[2] \in Nat
    BY <1>3
  <2>3. m[1] = n[1] /\ m[2] = n[2]
    BY <2>1, <2>2 DEF Earlier
  <2>. QED  BY <1>3, <2>3
<1>. QED  BY <1>1, <1>3, <1>4, <1>5, <1>7, <1>9 DEF N

\* The pool of a configuration is a list of different addresses.
LEMMA PoolIs ==
  ASSUME NEW c \in Configs
  PROVE  /\ Pool(c) \in Seq(Addresses)
         /\ \A i, j \in 1 .. Len(Pool(c)) : Pool(c)[i] = Pool(c)[j] => i = j
<1>1. c.range = <<>> \/ c.range \in Addresses \X Addresses
  <2>1. c \in YAML
    BY ConstantsOK DEF ConstantsOK
  <2>. QED  BY <2>1 DEF YAML
<1>2. CASE c.range = <<>>
  <2>1. Pool(c) = <<>>
    BY <1>2 DEF Pool, ParsePool
  <2>. QED  BY <2>1
<1>3. CASE c.range # <<>>
  <2>1. c.range[1] \in Addresses /\ c.range[2] \in Addresses
    BY <1>1, <1>3
  <2>2. Pool(c) = Walk(c.range[1], c.range[2])
    BY <1>3 DEF Pool, ParsePool
  <2>. QED  BY <2>1, <2>2, WalkIsInjective
<1>. QED  BY <1>2, <1>3

\* What a plan gives a node: the address of some node of that name, which the
\* pool has.
LEMMA PlanIs ==
  ASSUME NEW c \in Configs, NEW n \in NodesOf(c)
  PROVE  \E m \in NodesOf(c) : /\ NameOf(c, m) = NameOf(c, n)
                               /\ Plan(c)[NameOf(c, n)] = Address(c, Index(c, m))
<1>. DEFINE name == NameOf(c, n)
            Same == {m \in NodesOf(c) : NameOf(c, m) = name}
            places == {Index(c, m) : m \in Same}
<1>1. Plan(c)[name] = Address(c, Max(places))
  BY DEF Plan
<1>2. /\ Cardinality(NodesOf(c)) \in Nat
      /\ \A m \in NodesOf(c) : Index(c, m) \in 1 .. Cardinality(NodesOf(c))
  BY Numbered
<1>3. places \subseteq 0 .. Cardinality(NodesOf(c)) /\ places # {}
  <2>1. n \in Same
    OBVIOUS
  <2>2. places # {}
    BY <2>1
  <2>3. places \subseteq 0 .. Cardinality(NodesOf(c))
    <3>. SUFFICES ASSUME NEW m \in NodesOf(c) PROVE Index(c, m) \in 0 .. Cardinality(NodesOf(c))
      OBVIOUS
    <3>. QED  BY <1>2
  <2>. QED  BY <2>2, <2>3
<1>4. Max(places) \in places
  <2>. HIDE DEF places
  <2>. QED  BY <1>2, <1>3, Greatest
<1>5. PICK m \in Same : Max(places) = Index(c, m)
  BY <1>4
<1>. HIDE DEF places
<1>. QED  BY <1>1, <1>5

\* It is an address where the mode is static, because the pool has one for each
\* place; dhcp gives none.
LEMMA AddressIs ==
  ASSUME NEW c \in Configs, Passes(c), NEW n \in NodesOf(c)
  PROVE  /\ Static(c) => /\ Index(c, n) \in 1 .. Len(Pool(c))
                         /\ Address(c, Index(c, n)) = Pool(c)[Index(c, n)]
                         /\ Address(c, Index(c, n)) \in Addresses
         /\ ~Static(c) => Address(c, Index(c, n)) = None
<1>1. CASE Static(c)
  <2>1. Cardinality(NodesOf(c)) <= Len(Pool(c)) /\ Pool(c) \in Seq(Addresses)
    <3>1. Len(Pool(c)) \in Nat /\ Cardinality(NodesOf(c)) \in Nat /\ Pool(c) \in Seq(Addresses)
      BY PoolIs, Numbered
    <3>. QED  BY <1>1, <3>1 DEF Passes, Exhausted, Planned, Static
  <2>2. Index(c, n) \in 1 .. Cardinality(NodesOf(c)) /\ Cardinality(NodesOf(c)) \in Nat
    BY Numbered
  <2>3. Address(c, Index(c, n)) = Pool(c)[Index(c, n)]
    BY <1>1 DEF Address, IPForIndex
  <2>4. Index(c, n) \in 1 .. Len(Pool(c))
    <3>1. Len(Pool(c)) \in Nat
      BY <2>1
    <3>. QED  BY <2>1, <2>2, <3>1
  <2>. QED  BY <1>1, <2>1, <2>3, <2>4
<1>2. CASE ~Static(c)
  BY <1>2 DEF Address
<1>. QED  BY <1>1, <1>2

-----------------------------------------------------------------------------
(* What the operator may and may not edit                                  *)

\* The configurations that edits lead to from c, whatever the operator does in
\* between: those of every set that has c and that no edit leaves.
Closed(S) == \A e \in Edits : e[1] \in S => e[2] \in S
Reach(c) == {d \in Configs : \A S \in SUBSET Configs : c \in S /\ Closed(S) => d \in S}

\* No edit changes the mode or the range: planIPs remembers neither.
SameNetwork == \A e \in Edits : Static(e[1]) = Static(e[2]) /\ e[1].range = e[2].range

\* A name stands at one place in all of them: only the last pool grows or shrinks,
\* or a pool is added after it.  Nothing in create.go checks this, and without it
\* the addresses do clash: README, disagreements.
PlacesStay ==
  \A c \in Configs : \A d, e \in Reach(c) :
    Passes(d) /\ Passes(e) =>
      \A m \in NodesOf(d), n \in NodesOf(e) :
        NameOf(d, m) = NameOf(e, n) <=> Index(d, m) = Index(e, n)

\* The pools of a configuration have names of their own.
OwnNames ==
  \A c \in Configs : Passes(c) =>
    \A m, n \in NodesOf(c) : NameOf(c, m) = NameOf(c, n) => m = n

\* A process that walks around all addresses, from a range whose ends are the
\* wrong way round, has no memory left before it is there.  An address has 16
\* bytes, so that the way around is 2^128 less the length of the range.
TurnedDies ==
  \A c \in Configs :
    c.range # <<>> /\ Value(c.range[2]) < Value(c.range[1]) => Pool(c) = <<>>

\* A configuration leads to itself, and on by every edit.
LEMMA ReachIs ==
  ASSUME NEW c \in Configs
  PROVE  /\ c \in Reach(c) /\ Reach(c) \subseteq Configs
         /\ \A d \in Reach(c), e \in Configs : <<d, e>> \in Edits => e \in Reach(c)
<1>1. ASSUME NEW d \in Reach(c), NEW e \in Configs, <<d, e>> \in Edits PROVE e \in Reach(c)
  <2>. SUFFICES ASSUME NEW S \in SUBSET Configs, c \in S, Closed(S) PROVE e \in S
    BY DEF Reach
  <2>1. d \in S
    BY DEF Reach
  <2>. QED  BY <1>1, <2>1 DEF Closed
<1>. QED  BY <1>1 DEF Reach

\* Where edits leave the network alone, all that is reached has the same.
LEMMA ReachNetwork ==
  ASSUME SameNetwork, NEW c \in Configs, NEW d \in Reach(c)
  PROVE  Static(d) = Static(c) /\ d.range = c.range
<1>. DEFINE S == {x \in Configs : Static(x) = Static(c) /\ x.range = c.range}
<1>1. S \in SUBSET Configs /\ c \in S
  OBVIOUS
<1>2. Closed(S)
  <2>. SUFFICES ASSUME NEW e \in Edits, e[1] \in S PROVE e[2] \in S
    BY DEF Closed
  <2>1. e[2] \in Configs
    BY ConstantsOK DEF ConstantsOK
  <2>2. Static(e[1]) = Static(e[2]) /\ e[1].range = e[2].range
    BY DEF SameNetwork
  <2>. QED  BY <2>1, <2>2
<1>. HIDE DEF S
<1>3. d \in S
  BY <1>1, <1>2 DEF Reach
<1>. QED  BY <1>3 DEF S

\* Names and addresses of nodes of one history.
LEMMA OnePlace ==
  ASSUME SameNetwork, PlacesStay, NEW c \in Configs,
         NEW d \in Reach(c), NEW m \in NodesOf(d), Passes(d),
         NEW e \in Reach(c), NEW n \in NodesOf(e), Passes(e)
  PROVE  /\ NameOf(d, m) = NameOf(e, n) => Plan(d)[NameOf(d, m)] = Plan(e)[NameOf(e, n)]
         /\ Plan(d)[NameOf(d, m)] = Plan(e)[NameOf(e, n)] /\ Plan(d)[NameOf(d, m)] # None
              => NameOf(d, m) = NameOf(e, n)
<1>1. d \in Configs /\ e \in Configs /\ Static(d) = Static(e) /\ Pool(d) = Pool(e)
  BY ReachIs, ReachNetwork DEF Pool
<1>2. Plan(d)[NameOf(d, m)] = Address(d, Index(d, m))
  <2>1. PICK k \in NodesOf(d) : /\ NameOf(d, k) = NameOf(d, m)
                                /\ Plan(d)[NameOf(d, m)] = Address(d, Index(d, k))
    BY <1>1, PlanIs
  <2>2. Index(d, k) = Index(d, m)
    BY <2>1 DEF PlacesStay
  <2>. QED  BY <2>1, <2>2
<1>3. Plan(e)[NameOf(e, n)] = Address(e, Index(e, n))
  <2>1. PICK k \in NodesOf(e) : /\ NameOf(e, k) = NameOf(e, n)
                                /\ Plan(e)[NameOf(e, n)] = Address(e, Index(e, k))
    BY <1>1, PlanIs
  <2>2. Index(e, k) = Index(e, n)
    BY <2>1 DEF PlacesStay
  <2>. QED  BY <2>1, <2>2
<1>4. NameOf(d, m) = NameOf(e, n) <=> Index(d, m) = Index(e, n)
  BY DEF PlacesStay
<1>5. CASE Static(d)
  <2>1. /\ Address(d, Index(d, m)) = Pool(d)[Index(d, m)] /\ Index(d, m) \in 1 .. Len(Pool(d))
        /\ Address(e, Index(e, n)) = Pool(d)[Index(e, n)] /\ Index(e, n) \in 1 .. Len(Pool(d))
    BY <1>1, <1>5, AddressIs
  <2>2. Pool(d)[Index(d, m)] = Pool(d)[Index(e, n)] => Index(d, m) = Index(e, n)
    BY <1>1, <2>1, PoolIs
  <2>. QED  BY <1>2, <1>3, <1>4, <2>1, <2>2
<1>6. CASE ~Static(d)
  <2>1. Address(d, Index(d, m)) = None /\ Address(e, Index(e, n)) = None
    BY <1>1, <1>6, AddressIs
  <2>. QED  BY <1>2, <1>3, <2>1
<1>. QED  BY <1>5, <1>6

-----------------------------------------------------------------------------
(* The inductive invariant                                                 *)

\* v is what a run made for a node of a configuration that c leads to.
MadeFor(c, v) ==
  \E e \in Reach(c) : \E n \in NodesOf(e) :
    Passes(e) /\ v = SpecOf(e, n, Plan(e)[NameOf(e, n)])
\* g is the name and the address of such a node.
GivenFor(c, g) ==
  \E e \in Reach(c) : \E n \in NodesOf(e) :
    Passes(e) /\ g = [name |-> NameOf(e, n), ip |-> Plan(e)[NameOf(e, n)]]

\* What there is and what there was, runs have made for the nodes of
\* configurations that one and the same configuration has led to, as it has to cfg.
Rooted ==
  \E c \in Configs : /\ cfg \in Reach(c)
                     /\ \A v \in vms : MadeFor(c, v)
                     /\ \A g \in given : GivenFor(c, g)
\* Every VM is remembered, and has its name to itself.
Recorded == \A v \in vms : [name |-> v.name, ip |-> v.ip] \in given
OneEach == \A v, w \in vms : v.name = w.name => v = w

\* What the cluster has is what runs of configurations made that lead to this one.
LEMMA RootedInvariant ==
  /\ Init => Rooted /\ Recorded
  /\ Rooted /\ Recorded /\ [Next]_vars => Rooted' /\ Recorded'
<1>1. Init => Rooted /\ Recorded
  <2>. SUFFICES ASSUME Init PROVE Rooted /\ Recorded
    OBVIOUS
  <2>1. cfg \in Configs /\ cfg \in Reach(cfg)
    BY ReachIs DEF Init
  <2>. QED  BY <2>1 DEF Init, Rooted, Recorded
<1>2. ASSUME Rooted, Recorded, [Next]_vars PROVE Rooted' /\ Recorded'
  <2>1. PICK c \in Configs : /\ cfg \in Reach(c)
                             /\ \A v \in vms : MadeFor(c, v)
                             /\ \A g \in given : GivenFor(c, g)
    BY <1>2 DEF Rooted
  <2>2. CASE Edit
    <3>1. cfg' \in Reach(c) /\ UNCHANGED <<vms, given>>
      BY <2>1, <2>2, ReachIs DEF Edit
    <3>2. Rooted'
      <4>1. /\ cfg' \in Reach(c)
            /\ \A v \in vms' : MadeFor(c, v)
            /\ \A g \in given' : GivenFor(c, g)
        BY <2>1, <3>1
      <4>. QED  BY <4>1 DEF Rooted, MadeFor, GivenFor
    <3>. QED  BY <1>2, <3>1, <3>2 DEF Recorded
  <2>3. CASE Create
    <3>. DEFINE New(last) == {spec \in ToCreate(cfg) : spec.at <= last.at}
    <3>1. PICK last \in ToCreate(cfg) :
            /\ vms' = vms \cup New(last)
            /\ given' = given \cup {[name |-> v.name, ip |-> v.ip] : v \in New(last)}
            /\ cfg' = cfg /\ Passes(cfg)
      BY <2>3 DEF Create
    <3>. DEFINE new == New(last)
    <3>2. \A v \in new : /\ MadeFor(c, v)
                         /\ GivenFor(c, [name |-> v.name, ip |-> v.ip])
      <4>. SUFFICES ASSUME NEW v \in new
                    PROVE  MadeFor(c, v) /\ GivenFor(c, [name |-> v.name, ip |-> v.ip])
        OBVIOUS
      <4>1. PICK n \in NodesOf(cfg) : v = SpecOf(cfg, n, Plan(cfg)[NameOf(cfg, n)])
        BY DEF ToCreate, Missing
      <4>2. v.name = NameOf(cfg, n) /\ v.ip = Plan(cfg)[NameOf(cfg, n)]
        BY <4>1 DEF SpecOf
      <4>. QED  BY <2>1, <3>1, <4>1, <4>2 DEF MadeFor, GivenFor
    <3>. HIDE DEF New
    <3>3. /\ cfg' \in Reach(c)
          /\ \A v \in vms' : MadeFor(c, v)
          /\ \A g \in given' : GivenFor(c, g)
      BY <2>1, <3>1, <3>2
    <3>4. Rooted'
      BY <3>3 DEF Rooted, MadeFor, GivenFor
    <3>5. Recorded'
      BY <1>2, <3>1 DEF Recorded
    <3>. QED  BY <3>4, <3>5
  <2>4. CASE DeleteByHand
    <3>1. vms' \subseteq vms /\ UNCHANGED <<cfg, given>>
      BY <2>4 DEF DeleteByHand
    <3>2. /\ cfg' \in Reach(c)
          /\ \A v \in vms' : MadeFor(c, v)
          /\ \A g \in given' : GivenFor(c, g)
      BY <2>1, <3>1
    <3>3. Rooted'
      BY <3>2 DEF Rooted, MadeFor, GivenFor
    <3>. QED  BY <1>2, <3>1, <3>3 DEF Recorded
  <2>5. CASE UNCHANGED vars
    <3>1. /\ cfg' \in Reach(c)
          /\ \A v \in vms' : MadeFor(c, v)
          /\ \A g \in given' : GivenFor(c, g)
      BY <2>1, <2>5 DEF vars
    <3>2. Rooted'
      BY <3>1 DEF Rooted, MadeFor, GivenFor
    <3>. QED  BY <1>2, <2>5, <3>2 DEF Recorded, vars
  <2>. QED  BY <1>2, <2>2, <2>3, <2>4, <2>5 DEF Next, CreateNothing
<1>. QED  BY <1>1, <1>2

\* Where places stay, a name is used once at a time.
LEMMA OneEachInvariant ==
  ASSUME PlacesStay
  PROVE  /\ Init => OneEach
         /\ Rooted /\ OneEach /\ [Next]_vars => OneEach'
<1>1. Init => OneEach
  BY DEF Init, OneEach
<1>2. ASSUME Rooted, OneEach, [Next]_vars PROVE OneEach'
  <2>1. CASE Create
    <3>1. PICK last \in ToCreate(cfg) :
            /\ vms' = vms \cup {spec \in ToCreate(cfg) : spec.at <= last.at}
            /\ Passes(cfg)
      BY <2>1 DEF Create
    <3>2. PICK c \in Configs : cfg \in Reach(c)
      BY <1>2 DEF Rooted
    <3>3. cfg \in Configs
      BY <3>2, ReachIs
    <3>4. \A v \in ToCreate(cfg), w \in vms : v.name # w.name
      <4>. SUFFICES ASSUME NEW v \in ToCreate(cfg) PROVE v.name \notin Names
        BY DEF Names
      <4>. QED  BY DEF ToCreate, Missing, SpecOf
    <3>5. \A v, w \in ToCreate(cfg) : v.name = w.name => v = w
      <4>. SUFFICES ASSUME NEW v \in ToCreate(cfg), NEW w \in ToCreate(cfg), v.name = w.name
                    PROVE  v = w
        OBVIOUS
      <4>1. PICK m \in NodesOf(cfg) : v = SpecOf(cfg, m, Plan(cfg)[NameOf(cfg, m)])
        BY DEF ToCreate, Missing
      <4>2. PICK n \in NodesOf(cfg) : w = SpecOf(cfg, n, Plan(cfg)[NameOf(cfg, n)])
        BY DEF ToCreate, Missing
      <4>3. NameOf(cfg, m) = NameOf(cfg, n)
        BY <4>1, <4>2 DEF SpecOf
      <4>4. Index(cfg, m) = Index(cfg, n)
        BY <3>1, <3>2, <4>3 DEF PlacesStay
      <4>5. m = n
        BY <3>3, <4>4, Numbered
      <4>. QED  BY <4>1, <4>2, <4>5
    <3>. QED  BY <1>2, <3>1, <3>4, <3>5 DEF OneEach
  <2>2. CASE vms' \subseteq vms
    BY <1>2, <2>2 DEF OneEach
  <2>3. Create \/ vms' \subseteq vms
    BY <1>2 DEF Next, Edit, CreateNothing, DeleteByHand, vars
  <2>. QED  BY <2>1, <2>2, <2>3
<1>. QED  BY <1>1, <1>2

-----------------------------------------------------------------------------
(* Theorems                                                                *)

\* Whatever the operator writes: a configuration that validate accepts has a
\* model, every pool of which has nodes of at least the minimal size
\* (ValidBecomesPools, for every instance).
THEOREM AcceptedBecomesPools == Spec => []ValidBecomesPools
<1>1. Rooted => ValidBecomesPools
  <2>. SUFFICES ASSUME Rooted, Valid(applyDefaults(cfg)) PROVE ValidBecomesPools
    BY DEF ValidBecomesPools
  <2>1. cfg \in Configs
    BY ReachIs DEF Rooted
  <2>. QED  BY <2>1, PoolsUsable DEF ValidBecomesPools
<1>. QED  BY <1>1, RootedInvariant, PTL DEF Spec

\* Every VM has what its role needs at least, whatever the operator writes and
\* however the YAML is edited between the runs (BigEnough, catalog.go:67).
THEOREM SizesSuffice == Spec => []BigEnough
<1>1. Rooted => BigEnough
  <2>. SUFFICES ASSUME Rooted, NEW v \in vms PROVE ValidateSize(v.size, v.role)
    BY DEF BigEnough
  <2>1. PICK c \in Configs : MadeFor(c, v)
    BY DEF Rooted
  <2>2. PICK e \in Reach(c) : \E n \in NodesOf(e) :
          Passes(e) /\ v = SpecOf(e, n, Plan(e)[NameOf(e, n)])
    BY <2>1 DEF MadeFor
  <2>3. PICK n \in NodesOf(e) : /\ Passes(e) /\ v.size = PoolsOf(e)[n[1]].size
                                /\ v.role = PoolsOf(e)[n[1]].role
    BY <2>2 DEF SpecOf
  <2>4. e \in Configs
    BY ReachIs
  <2>5. n[1] \in DOMAIN PoolsOf(e)
    BY <2>4, Numbered
  <2>. QED  BY <2>3, <2>4, <2>5, PoolsUsable DEF Passes
<1>. QED  BY <1>1, RootedInvariant, PTL DEF Spec

\* TypeOK: where the network is left alone, a VM has an address of the pool, which
\* planIPs has given it (create.go:155), or under dhcp none.
THEOREM TypeCorrect == ASSUME SameNetwork PROVE Spec => []TypeOK
<1>1. Rooted /\ Recorded => TypeOK
  <2>. SUFFICES ASSUME Rooted, Recorded PROVE TypeOK
    OBVIOUS
  <2>1. PICK c \in Configs : cfg \in Reach(c) /\ \A v \in vms : MadeFor(c, v)
    BY DEF Rooted
  <2>2. cfg \in Configs /\ Static(cfg) = Static(c)
    BY <2>1, ReachIs, ReachNetwork
  <2>3. ASSUME NEW v \in vms PROVE v.ip \in IF Static(cfg) THEN Addresses ELSE {None}
    <3>1. PICK e \in Reach(c) : \E n \in NodesOf(e) :
            Passes(e) /\ v = SpecOf(e, n, Plan(e)[NameOf(e, n)])
      BY <2>1, <2>3 DEF MadeFor
    <3>2. PICK n \in NodesOf(e) : Passes(e) /\ v.ip = Plan(e)[NameOf(e, n)]
      BY <3>1 DEF SpecOf
    <3>3. e \in Configs /\ Static(e) = Static(cfg)
      BY <2>2, ReachIs, ReachNetwork
    <3>4. PICK m \in NodesOf(e) : v.ip = Address(e, Index(e, m))
      BY <3>2, <3>3, PlanIs
    <3>. QED  BY <3>2, <3>3, <3>4, AddressIs
  <2>. QED  BY <2>2, <2>3 DEF TypeOK, Recorded
<1>. QED  BY <1>1, RootedInvariant, PTL DEF Spec

\* Where names keep their places, no two VMs have one address, although a plan
\* looks at no VM that exists (DistinctIPs, create.go:145-176).
THEOREM AddressesDiffer == ASSUME SameNetwork, PlacesStay PROVE Spec => []DistinctIPs
<1>1. Rooted /\ OneEach => DistinctIPs
  <2>. SUFFICES ASSUME Rooted, OneEach, NEW v \in vms, NEW w \in vms, v.ip = w.ip, v.ip # None
                PROVE  v = w
    BY DEF DistinctIPs
  <2>1. PICK c \in Configs : MadeFor(c, v) /\ MadeFor(c, w)
    BY DEF Rooted
  <2>2. PICK d \in Reach(c) : \E m \in NodesOf(d) :
          Passes(d) /\ v = SpecOf(d, m, Plan(d)[NameOf(d, m)])
    BY <2>1 DEF MadeFor
  <2>3. PICK m \in NodesOf(d) : Passes(d) /\ v.name = NameOf(d, m) /\ v.ip = Plan(d)[NameOf(d, m)]
    BY <2>2 DEF SpecOf
  <2>4. PICK e \in Reach(c) : \E n \in NodesOf(e) :
          Passes(e) /\ w = SpecOf(e, n, Plan(e)[NameOf(e, n)])
    BY <2>1 DEF MadeFor
  <2>5. PICK n \in NodesOf(e) : Passes(e) /\ w.name = NameOf(e, n) /\ w.ip = Plan(e)[NameOf(e, n)]
    BY <2>4 DEF SpecOf
  <2>6. /\ NameOf(d, m) = NameOf(e, n) => Plan(d)[NameOf(d, m)] = Plan(e)[NameOf(e, n)]
        /\ Plan(d)[NameOf(d, m)] = Plan(e)[NameOf(e, n)] /\ Plan(d)[NameOf(d, m)] # None
             => NameOf(d, m) = NameOf(e, n)
    BY <2>3, <2>5, OnePlace
  <2>7. v.name = w.name
    BY <2>3, <2>5, <2>6
  <2>. QED  BY <2>7 DEF OneEach
<1>. QED  BY <1>1, RootedInvariant, OneEachInvariant, PTL DEF Spec

\* ... and a node that is created again, by whichever run, has the address it had
\* (SameIPAgain, configuration.md:315).
THEOREM AddressStays == ASSUME SameNetwork, PlacesStay PROVE Spec => []SameIPAgain
<1>1. Rooted => SameIPAgain
  <2>. SUFFICES ASSUME Rooted, NEW v \in given, NEW w \in given, v.name = w.name
                PROVE  v.ip = w.ip
    BY DEF SameIPAgain
  <2>1. PICK c \in Configs : GivenFor(c, v) /\ GivenFor(c, w)
    BY DEF Rooted
  <2>2. PICK d \in Reach(c) : \E m \in NodesOf(d) :
          Passes(d) /\ v = [name |-> NameOf(d, m), ip |-> Plan(d)[NameOf(d, m)]]
    BY <2>1 DEF GivenFor
  <2>3. PICK m \in NodesOf(d) : Passes(d) /\ v.name = NameOf(d, m) /\ v.ip = Plan(d)[NameOf(d, m)]
    BY <2>2
  <2>4. PICK e \in Reach(c) : \E n \in NodesOf(e) :
          Passes(e) /\ w = [name |-> NameOf(e, n), ip |-> Plan(e)[NameOf(e, n)]]
    BY <2>1 DEF GivenFor
  <2>5. PICK n \in NodesOf(e) : Passes(e) /\ w.name = NameOf(e, n) /\ w.ip = Plan(e)[NameOf(e, n)]
    BY <2>4
  <2>6. /\ NameOf(d, m) = NameOf(e, n) => Plan(d)[NameOf(d, m)] = Plan(e)[NameOf(e, n)]
        /\ Plan(d)[NameOf(d, m)] = Plan(e)[NameOf(e, n)] /\ Plan(d)[NameOf(d, m)] # None
             => NameOf(d, m) = NameOf(e, n)
    BY <2>3, <2>5, OnePlace
  <2>. QED  BY <2>3, <2>5, <2>6
<1>. QED  BY <1>1, RootedInvariant, PTL DEF Spec

\* The i-th node has the i-th address of the range in numerical order, and none
\* beyond its end, whatever the widths of bytes and addresses: where bytes
\* overflow the walk goes on with the next address (InRange, static.go:30-76).
THEOREM WithinRange == ASSUME SameNetwork, OwnNames, TurnedDies PROVE Spec => []InRange
<1>1. Rooted => InRange
  <2>. SUFFICES ASSUME Rooted, Static(cfg), NEW v \in vms
                PROVE  /\ Value(v.ip) = Value(cfg.range[1]) + v.at - 1
                       /\ Value(v.ip) <= Value(cfg.range[2])
    BY DEF InRange
  <2>1. PICK c \in Configs : cfg \in Reach(c) /\ MadeFor(c, v)
    BY DEF Rooted
  <2>2. PICK e \in Reach(c) : \E n \in NodesOf(e) :
          Passes(e) /\ v = SpecOf(e, n, Plan(e)[NameOf(e, n)])
    BY <2>1 DEF MadeFor
  <2>3. PICK n \in NodesOf(e) : /\ Passes(e) /\ v.at = Index(e, n)
                                /\ v.ip = Plan(e)[NameOf(e, n)]
    BY <2>2 DEF SpecOf
  <2>4. e \in Configs /\ Static(e) /\ e.range = cfg.range
    BY <2>1, ReachIs, ReachNetwork
  <2>5. PICK m \in NodesOf(e) : NameOf(e, m) = NameOf(e, n) /\ v.ip = Address(e, Index(e, m))
    BY <2>3, <2>4, PlanIs
  <2>6. m = n
    BY <2>3, <2>4, <2>5 DEF OwnNames
  <2>7. v.at \in 1 .. Len(Pool(e)) /\ v.ip = Pool(e)[v.at]
    BY <2>3, <2>4, <2>5, <2>6, AddressIs
  <2>8. e.range \in Addresses \X Addresses /\ Pool(e) = Walk(e.range[1], e.range[2])
    <3>1. Pool(e) # <<>>
      BY <2>7
    <3>2. e.range # <<>>
      BY <3>1 DEF Pool, ParsePool
    <3>3. e \in YAML
      BY <2>4, ConstantsOK DEF ConstantsOK
    <3>. QED  BY <3>2, <3>3 DEF YAML, Pool, ParsePool
  <2>. DEFINE first == e.range[1]  last == e.range[2]
  <2>9. first \in Addresses /\ last \in Addresses
    BY <2>8
  <2>10. Value(first) \in Nat /\ Value(last) \in Nat
    <3>1. Bytes \in 0 .. Bytes
      BY RangesOK DEF RangesOK
    <3>. QED  BY <2>9, <3>1, ValueSteps
  <2>11. Value(first) <= Value(last)
    <3>. SUFFICES ASSUME Value(last) < Value(first) PROVE FALSE
      BY <2>10
    <3>1. e.range # <<>>
      BY <2>8
    <3>2. Pool(e) = <<>>
      BY <2>4, <3>1 DEF TurnedDies
    <3>. QED  BY <2>7, <3>2
  <2>12. /\ Value(v.ip) = Value(first) + v.at - 1
         /\ Value(v.ip) <= Value(last)
    BY <2>7, <2>8, <2>9, <2>11, WalkValues
  <2>. QED  BY <2>4, <2>12
<1>. QED  BY <1>1, RootedInvariant, PTL DEF Spec
=============================================================================
