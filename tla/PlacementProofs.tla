-------------------------- MODULE PlacementProofs ---------------------------
(***************************************************************************)
(* Proofs about Placement, for any number of callers, hosts and nodes and  *)
(* any size of the semaphores: no host has more clones than places, and    *)
(* round-robin spreads the VMs of a run over the hosts.                    *)
(***************************************************************************)
EXTENDS Placement, FiniteSetTheorems, WellFoundedInduction, TLAPS

-----------------------------------------------------------------------------
(* Numbers and orders                                                      *)

\* A set of numbers has a least one.
LEMMA Least ==
  ASSUME NEW S, S \subseteq Nat, S # {}
  PROVE  \E m \in S : \A k \in S : m <= k
<1>0. \E R : R = OpToRel(<, Nat) /\ IsWellFoundedOn(R, Nat)
  BY NatLessThanWellFounded, Zenon
<1>2. PICK R : IsWellFoundedOn(R, Nat) /\ R = OpToRel(<, Nat)
  BY <1>0, Zenon
<1>3. R = {ss \in Nat \X Nat : ss[1] < ss[2]}
  BY <1>2, Zenon DEF OpToRel
<1>1. \E m \in S : \A k \in S : <<k, m>> \notin R
  BY <1>2, WFMin
<1>4. ASSUME NEW k \in Nat, NEW m \in Nat, k < m PROVE <<k, m>> \in R
  BY <1>3, <1>4
<1>5. PICK m \in S : \A k \in S : <<k, m>> \notin R
  BY <1>1
<1>6. \A k \in S : m <= k
  <2>1. S \subseteq Nat /\ m \in Nat
    BY <1>5
  <2>. SUFFICES ASSUME NEW k \in S, k < m PROVE FALSE
    BY <2>1
  <2>. QED  BY <1>4, <1>5, <2>1
<1>. QED  BY <1>6

\* A finite set has more elements than a part of it that lacks one.
LEMMA Smaller ==
  ASSUME NEW T, IsFiniteSet(T), NEW S, S \subseteq T, NEW x \in T \ S
  PROVE  Cardinality(S) < Cardinality(T)
<1>1. IsFiniteSet(S) /\ Cardinality(S) <= Cardinality(T) /\ Cardinality(S) # Cardinality(T)
  BY FS_Subset
<1>. QED  BY <1>1, FS_CardinalityType

\* Both lists are orders of what is in them.
LEMMA Ordered ==
  ASSUME NEW order, order \in Seq(Range(order)), IsInjective(order)
  PROVE  /\ \A x, y \in Range(order) : x = y \/ Before(order, x, y) \/ Before(order, y, x)
         /\ \A x, y, z : Before(order, x, y) /\ Before(order, y, z) => Before(order, x, z)
         /\ \A x : ~Before(order, x, x)
<1>1. PICK n \in Nat : DOMAIN order = 1 .. n
  OBVIOUS
<1>2. \A i, j \in 1 .. n : order[i] = order[j] => i = j
  BY <1>1 DEF IsInjective
<1>3. ASSUME NEW x \in Range(order), NEW y \in Range(order)
      PROVE  x = y \/ Before(order, x, y) \/ Before(order, y, x)
  <2>1. PICK i \in 1 .. n, j \in 1 .. n : order[i] = x /\ order[j] = y
    BY <1>1, <1>3 DEF Range
  <2>2. i = j \/ i \in 1 .. j - 1 \/ j \in 1 .. i - 1
    OBVIOUS
  <2>. QED  BY <1>1, <2>1, <2>2 DEF Before
<1>4. ASSUME NEW x, NEW y, NEW z, Before(order, x, y), Before(order, y, z)
      PROVE  Before(order, x, z)
  <2>1. PICK j \in 1 .. n : order[j] = y /\ \E i \in 1 .. j - 1 : order[i] = x
    BY <1>1, <1>4 DEF Before
  <2>2. PICK k \in 1 .. n : order[k] = z /\ \E i \in 1 .. k - 1 : order[i] = y
    BY <1>1, <1>4 DEF Before
  <2>3. j \in 1 .. k - 1
    BY <1>2, <2>1, <2>2
  <2>4. \A i \in 1 .. j - 1 : i \in 1 .. k - 1
    BY <2>3
  <2>. QED  BY <1>1, <2>1, <2>2, <2>4 DEF Before
<1>5. ASSUME NEW x PROVE ~Before(order, x, x)
  BY <1>1, <1>2 DEF Before
<1>. QED  BY <1>3, <1>4, <1>5

\* A set of them has a first.
LEMMA FirstIsIn ==
  ASSUME NEW order, order \in Seq(Range(order)), IsInjective(order),
         NEW S, S \subseteq Range(order), S # {}
  PROVE  /\ First(order, S) \in S
         /\ \A x \in S : ~Before(order, x, First(order, S))
<1>1. PICK n \in Nat : DOMAIN order = 1 .. n
  OBVIOUS
<1>. DEFINE At == {i \in 1 .. n : order[i] \in S}
<1>2. At # {} /\ At \subseteq Nat
  BY <1>1 DEF Range
<1>3. PICK m \in At : \A k \in At : m <= k
  BY <1>2, Least
<1>4. ASSUME NEW x \in S PROVE ~Before(order, x, order[m])
  <2>1. SUFFICES ASSUME NEW j \in 1 .. n, order[j] = order[m], NEW i \in 1 .. j - 1, order[i] = x
                 PROVE  FALSE
    BY <1>1 DEF Before
  <2>2. j = m
    BY <1>1, <2>1 DEF IsInjective
  <2>3. i \in At /\ i < m
    BY <2>1, <2>2
  <2>. QED  BY <1>3, <2>3
<1>5. \E x \in S : \A y \in S : ~Before(order, y, x)
  BY <1>4
<1>. QED  BY <1>5 DEF First

LEMMA FiniteHosts == IsFiniteSet(Hosts) /\ HostOrder \in Seq(Range(HostOrder)) /\ IsInjective(HostOrder)
<1>1. HostOrder \in Seq(Hosts) /\ IsInjective(HostOrder)
  BY ConstantsOK DEF ConstantsOK
<1>2. PICK n \in Nat : DOMAIN HostOrder = 1 .. n
  BY <1>1
<1>3. HostOrder \in Surjection(1 .. n, Hosts)
  BY <1>1, <1>2 DEF Surjection, Hosts, Range
<1>. QED  BY <1>1, <1>2, <1>3, FS_Interval, FS_Surjection DEF Hosts

\* Of n hosts each has a turn of its own, from 0 to n - 1.
LEMMA EachItsTurn ==
  ASSUME NEW S, S \subseteq Hosts
  PROVE  /\ IsFiniteSet(S) /\ Cardinality(S) \in Nat
         /\ \A h \in S : Turn(h, S) \in 0 .. Cardinality(S) - 1
         /\ \A g, h \in S : Turn(g, S) = Turn(h, S) => g = h
         /\ \A k \in 0 .. Cardinality(S) - 1 : \E h \in S : Turn(h, S) = k
<1>. DEFINE n == Cardinality(S)
            Behind(h) == {g \in S : Before(HostOrder, g, h)}
<1>1. IsFiniteSet(S) /\ n \in Nat
  BY FiniteHosts, FS_Subset, FS_CardinalityType
<1>2. \A h \in S : IsFiniteSet(Behind(h)) /\ Cardinality(Behind(h)) \in Nat /\ h \notin Behind(h)
  <2>. SUFFICES ASSUME NEW h \in S
                PROVE  IsFiniteSet(Behind(h)) /\ Cardinality(Behind(h)) \in Nat /\ h \notin Behind(h)
    OBVIOUS
  <2>1. Behind(h) \subseteq S /\ h \notin Behind(h)
    BY FiniteHosts, Ordered
  <2>. QED  BY <1>1, <2>1, FS_Subset, FS_CardinalityType
<1>3. ASSUME NEW h \in S PROVE Turn(h, S) \in 0 .. n - 1
  <2>1. Behind(h) \subseteq S /\ Behind(h) # S
    BY <1>2
  <2>2. Cardinality(Behind(h)) < n
    BY <1>1, <1>2, <2>1, FS_Subset
  <2>. QED  BY <1>1, <1>2, <2>2 DEF Turn
<1>4. ASSUME NEW g \in S, NEW h \in S, Before(HostOrder, g, h) PROVE Turn(g, S) < Turn(h, S)
  <2>1. Behind(g) \subseteq Behind(h)
    BY <1>4, FiniteHosts, Ordered
  <2>2. g \in Behind(h) \ Behind(g)
    BY <1>2, <1>4
  <2>3. Cardinality(Behind(g)) < Cardinality(Behind(h))
    <3>. HIDE DEF Behind
    <3>1. IsFiniteSet(Behind(h))
      BY <1>2
    <3>. QED  BY <2>1, <2>2, <3>1, Smaller
  <2>4. Turn(g, S) = Cardinality(Behind(g)) /\ Turn(h, S) = Cardinality(Behind(h))
    BY DEF Turn
  <2>. QED  BY <2>3, <2>4
<1>5. ASSUME NEW g \in S, NEW h \in S, Turn(g, S) = Turn(h, S) PROVE g = h
  <2>1. g \in Range(HostOrder) /\ h \in Range(HostOrder)
    BY DEF Hosts
  <2>2. g = h \/ Before(HostOrder, g, h) \/ Before(HostOrder, h, g)
    BY <2>1, FiniteHosts, Ordered
  <2>. QED  BY <1>3, <1>4, <1>5, <2>2
<1>6. ASSUME NEW k \in 0 .. n - 1 PROVE \E h \in S : Turn(h, S) = k
  <2>. DEFINE f == [h \in S |-> Turn(h, S)]
              T == 0 .. n - 1
  <2>1. f \in Injection(S, T)
    BY <1>3, <1>5 DEF Injection, IsInjective
  <2>2. IsFiniteSet(T) /\ Cardinality(T) = n
    BY <1>1, FS_Interval
  <2>3. f \in Surjection(S, T)
    BY <2>1, <2>2, FS_Injection
  <2>. QED  BY <1>6, <2>3 DEF Surjection
<1>. QED  BY <1>1, <1>3, <1>5, <1>6

LEMMA Scale ==
  ASSUME NEW x \in Nat, NEW y \in Nat, NEW k \in Nat \ {0}
  PROVE  x < y <=> x * k < y * k
OBVIOUS

LEMMA Shares ==
  ASSUME NEW a \in Nat, NEW b \in Nat, NEW c \in Nat,
         NEW p \in Nat \ {0}, NEW q \in Nat \ {0}, NEW r \in Nat \ {0},
         a * q < b * p, b * r < c * q
  PROVE  a * r < c * p
<1>1. a * q \in Nat /\ b * p \in Nat /\ b * r \in Nat /\ c * q \in Nat /\ a * r \in Nat /\ c * p \in Nat
  OBVIOUS
<1>2. (a * q) * r < (b * p) * r
  BY <1>1, Scale
<1>3. (b * r) * p < (c * q) * p
  BY <1>1, Scale
<1>4. (a * q) * r = (a * r) * q /\ (b * p) * r = (b * r) * p /\ (c * q) * p = (c * p) * q
  OBVIOUS
<1>5. (a * r) * q < (c * p) * q
  <2>1. \A i, j, k \in Nat : i < j /\ j < k => i < k
    OBVIOUS
  <2>2. (a * q) * r \in Nat /\ (b * p) * r \in Nat /\ (c * p) * q \in Nat
    OBVIOUS
  <2>. QED  BY <1>2, <1>3, <1>4, <2>1, <2>2
<1>. QED  BY <1>1, <1>5, Scale

LEMMA Round ==
  ASSUME NEW n \in Nat \ {0}, NEW c \in Nat
  PROVE  /\ c % n \in 0 .. n - 1 /\ c \div n \in Nat
         /\ c % n < n - 1 => (c + 1) % n = (c % n) + 1 /\ (c + 1) \div n = c \div n
         /\ c % n = n - 1 => (c + 1) % n = 0 /\ (c + 1) \div n = c \div n + 1
OBVIOUS

\* Of a set of hosts whose memory is known, some are no fuller than any other.
LEMMA SomeEmptiest ==
  ASSUME NEW S, S \subseteq Hosts, S # {}, \A h \in S : MaxMem[h] > 0,
         NEW used \in [Hosts -> Nat]
  PROVE  \E h \in S : \A g \in S : ~Emptier(g, h, used)
<1>. DEFINE Below(h) == {g \in S : Emptier(g, h, used)}
            Size(h)  == Cardinality(Below(h))
            Sizes    == {Size(h) : h \in S}
<1>1. \A h \in S : h \in Hosts /\ MaxMem[h] \in Nat \ {0} /\ used[h] \in Nat
  BY ConstantsOK DEF ConstantsOK
<1>2. \A h \in S : IsFiniteSet(Below(h)) /\ Size(h) \in Nat /\ h \notin Below(h)
  <2>. SUFFICES ASSUME NEW h \in S
                PROVE  IsFiniteSet(Below(h)) /\ Size(h) \in Nat /\ h \notin Below(h)
    OBVIOUS
  <2>1. Below(h) \subseteq Hosts
    OBVIOUS
  <2>2. IsFiniteSet(Below(h))
    BY <2>1, FiniteHosts, FS_Subset
  <2>3. Size(h) \in Nat
    BY <2>2, FS_CardinalityType
  <2>4. h \notin Below(h)
    BY <1>1 DEF Emptier
  <2>. QED  BY <2>2, <2>3, <2>4
<1>3. ASSUME NEW g \in S, NEW h \in S, Emptier(g, h, used) PROVE Size(g) < Size(h)
  <2>1. ASSUME NEW f \in S, Emptier(f, g, used) PROVE Emptier(f, h, used)
    BY <1>1, <1>3, <2>1, Shares DEF Emptier
  <2>2. Below(g) \subseteq Below(h)
    BY <2>1
  <2>3. g \in Below(h) \ Below(g) /\ IsFiniteSet(Below(h))
    BY <1>2, <1>3
  <2>. HIDE DEF Below
  <2>. QED  BY <2>2, <2>3, Smaller
<1>4. Sizes # {} /\ Sizes \subseteq Nat
  BY <1>2
<1>5. PICK m \in Sizes : \A k \in Sizes : m <= k
  <2>. HIDE DEF Sizes
  <2>. QED  BY <1>4, Least
<1>6. PICK h \in S : m = Size(h)
  OBVIOUS
<1>7. \A g \in S : ~Emptier(g, h, used)
  <2>. SUFFICES ASSUME NEW g \in S, Emptier(g, h, used) PROVE FALSE
    OBVIOUS
  <2>1. Size(g) < Size(h)
    BY <1>3
  <2>2. Size(h) <= Size(g) /\ Size(g) \in Nat /\ Size(h) \in Nat
    BY <1>2, <1>5, <1>6
  <2>. HIDE DEF Size
  <2>. QED  BY <2>1, <2>2
<1>. QED  BY <1>7

\* RoundRobin picks the host whose turn it is.
LEMMA RoundRobinPicks ==
  ASSUME NEW online, online \subseteq Hosts, online # {}, counter \in Nat
  PROVE  /\ RoundRobin(online) \in online
         /\ Turn(RoundRobin(online), online) = counter % Cardinality(online)
<1>1. IsFiniteSet(online)
  BY EachItsTurn
<1>2. Cardinality(online) \in Nat \ {0}
  BY <1>1, FS_CardinalityType, FS_EmptySet
<1>3. counter % Cardinality(online) \in 0 .. Cardinality(online) - 1
  BY <1>2, Round
<1>4. \E h \in online : Turn(h, online) = counter % Cardinality(online)
  BY <1>3, EachItsTurn
<1>. QED  BY <1>4 DEF RoundRobin

\* LeastLoaded picks a host that is online: there is a first of the emptiest.
LEMMA LeastLoadedPicks ==
  ASSUME NEW online, online \subseteq Hosts, online # {}, NEW used \in [Hosts -> Nat]
  PROVE  LeastLoaded(online, used) \in online
<1>. DEFINE known == {h \in online : MaxMem[h] > 0 /\ used[h] < 2 * MaxMem[h]}
            best  == {h \in known : \A g \in known : ~Emptier(g, h, used)}
<1>1. \A S : S \subseteq Hosts /\ S # {} => First(HostOrder, S) \in S
  BY FiniteHosts, FirstIsIn DEF Hosts
<1>2. CASE known = {}
  <2>1. LeastLoaded(online, used) = First(HostOrder, online)
    BY <1>2 DEF LeastLoaded
  <2>. QED  BY <1>1, <2>1
<1>3. CASE known # {}
  <2>1. LeastLoaded(online, used) = First(HostOrder, best)
    BY <1>3 DEF LeastLoaded
  <2>2. \E h \in known : \A g \in known : ~Emptier(g, h, used)
    BY <1>3, SomeEmptiest
  <2>3. best # {} /\ best \subseteq Hosts
    BY <2>2
  <2>4. First(HostOrder, best) \in best
    BY <1>1, <2>3
  <2>. QED  BY <2>1, <2>4
<1>. QED  BY <1>2, <1>3
-----------------------------------------------------------------------------
(* The semaphores                                                          *)

\* The locals of a call that has picked.
LEMMA PastIs ==
  ASSUME NEW c, NEW pc, NEW host
  PROVE  Past(c, pc, host)
           = [pc |-> pc, node |-> call[c].node, host |-> host, online |-> {}, used |-> Base]
BY DEF Past

\* What makes ClonesBounded inductive: a semaphore counts the calls that hold a
\* place of it, and no other.
Places ==
  /\ callers \in Parallel
  /\ call = [c \in Callers |-> call[c]]
  /\ sem \in [Hosts -> Nat]
  /\ \A h \in Hosts : sem[h] = Cardinality(Cloning(h)) /\ sem[h] <= MaxClones

\* The callers at work are finitely many, and so are those that clone.
LEMMA FewCallers ==
  ASSUME callers \in Parallel, NEW h
  PROVE  callers \subseteq Callers /\ IsFiniteSet(Cloning(h)) /\ Cardinality(Cloning(h)) \in Nat
<1>1. callers \subseteq Callers /\ IsFiniteSet(Callers)
  BY ConstantsOK DEF ConstantsOK
<1>2. Cloning(h) \subseteq Callers
  BY <1>1 DEF Cloning
<1>. QED  BY <1>1, <1>2, FS_Subset, FS_CardinalityType

\* A call that neither takes a place nor gives one back.
LEMMA NoPlace ==
  ASSUME Places, NEW c \in callers, NEW r, call' = [call EXCEPT ![c] = r],
         call[c].pc # "holding", r.pc # "holding", UNCHANGED <<callers, sem>>
  PROVE  Places'
<1>1. c \in Callers
  BY FewCallers DEF Places
<1>2. call' = [d \in Callers |-> IF d = c THEN r ELSE call[d]]
  BY <1>1 DEF Places
<1>3. \A h \in Hosts : Cloning(h)' = Cloning(h)
  BY <1>1, <1>2, FewCallers DEF Cloning, Places
<1>4. call' = [d \in Callers |-> call'[d]]
  BY <1>2 DEF Places
<1>. QED  BY <1>3, <1>4 DEF Places

\* A call gives its place back.
LEMMA GivesBack ==
  ASSUME Places, NEW c \in callers, NEW r, call' = [call EXCEPT ![c] = r],
         call[c].pc = "holding", r.pc # "holding", UNCHANGED callers,
         sem' = FreedPlace(call[c].host)
  PROVE  Places'
<1>. PICK g : g = call[c].host
  OBVIOUS
<1>1. c \in Callers
  BY FewCallers DEF Places
<1>2. call' = [d \in Callers |-> IF d = c THEN r ELSE call[d]]
  BY <1>1 DEF Places
<1>3. call' = [d \in Callers |-> call'[d]]
  BY <1>2 DEF Places
<1>4. \A h \in Hosts \ {g} : Cloning(h)' = Cloning(h)
  BY <1>1, <1>2, FewCallers DEF Cloning, Places
<1>5. Cloning(g)' = Cloning(g) \ {c} /\ c \in Cloning(g)
  BY <1>1, <1>2, FewCallers DEF Cloning, Places
<1>6. sem' = [sem EXCEPT ![g] = sem[g] - 1]
  BY DEF FreedPlace
<1>7. ASSUME g \in Hosts
      PROVE  Cardinality(Cloning(g)') = sem[g] - 1 /\ sem[g] - 1 \in Nat
  <2>1. IsFiniteSet(Cloning(g)) /\ Cardinality(Cloning(g)) = sem[g]
    BY <1>7, FewCallers DEF Places
  <2>2. Cardinality(Cloning(g) \ {c}) = sem[g] - 1
    BY <1>5, <2>1, FS_RemoveElement
  <2>3. IsFiniteSet(Cloning(g) \ {c})
    BY <2>1, FS_Subset
  <2>. QED  BY <1>5, <2>2, <2>3, FS_CardinalityType
<1>8. MaxClones \in Nat
  BY ConstantsOK DEF ConstantsOK
<1>9. \A h \in Hosts : sem'[h] = Cardinality(Cloning(h)') /\ sem'[h] <= MaxClones
  <2>1. sem' = [h \in Hosts |-> IF h = g THEN sem[h] - 1 ELSE sem[h]]
    BY <1>6 DEF Places
  <2>2. ASSUME NEW h \in Hosts
        PROVE  sem'[h] = Cardinality(Cloning(h)') /\ sem'[h] <= MaxClones
    <3>1. CASE h = g
      BY <1>7, <1>8, <2>1, <3>1 DEF Places
    <3>2. CASE h # g
      BY <1>4, <2>1, <3>2 DEF Places
    <3>. QED  BY <3>1, <3>2
  <2>. QED  BY <2>2
<1>10. sem' \in [Hosts -> Nat]
  BY <1>6, <1>7 DEF Places
<1>. QED  BY <1>3, <1>9, <1>10 DEF Places, Cloning

\* A call takes a place that is free.
LEMMA TakesPlace ==
  ASSUME Places, NEW c \in callers, Acquire(c) PROVE Places'
<1>. PICK g : g = call[c].host
  OBVIOUS
<1>. DEFINE r == Past(c, "holding", g)
<1>1. c \in Callers /\ call[c].pc = "waiting" /\ callers' = callers
  BY FewCallers DEF Places, Acquire, config
<1>2. r.pc = "holding" /\ r.host = g
  BY PastIs
<1>3. call' = [d \in Callers |-> IF d = c THEN r ELSE call[d]]
  BY <1>1 DEF Places, Acquire
<1>. HIDE DEF r
<1>4. call' = [d \in Callers |-> call'[d]]
  BY <1>2, <1>3 DEF Places
<1>5. \A h \in Hosts \ {g} : Cloning(h)' = Cloning(h)
  BY <1>1, <1>2, <1>3, FewCallers DEF Cloning, Places
<1>6. Cloning(g)' = Cloning(g) \cup {c} /\ c \notin Cloning(g)
  BY <1>1, <1>2, <1>3, FewCallers DEF Cloning, Places
<1>7. sem' = [sem EXCEPT ![g] = sem[g] + 1] /\ sem[g] < MaxClones
  BY DEF Acquire, Room
<1>8. ASSUME g \in Hosts PROVE Cardinality(Cloning(g)') = sem[g] + 1
  <2>1. IsFiniteSet(Cloning(g)) /\ Cardinality(Cloning(g)) = sem[g]
    BY <1>8, FewCallers DEF Places
  <2>. QED  BY <1>6, <2>1, FS_AddElement
<1>9. MaxClones \in Nat
  BY ConstantsOK DEF ConstantsOK
<1>10. \A h \in Hosts : sem'[h] = Cardinality(Cloning(h)') /\ sem'[h] <= MaxClones
  BY <1>5, <1>7, <1>8, <1>9 DEF Places
<1>11. sem' \in [Hosts -> Nat]
  <2>1. sem' = [h \in Hosts |-> IF h = g THEN sem[h] + 1 ELSE sem[h]]
    BY <1>7 DEF Places
  <2>. QED  BY <2>1 DEF Places
<1>. QED  BY <1>1, <1>4, <1>10, <1>11 DEF Places, Cloning

\* Every step keeps the semaphores true.
LEMMA PlacesStep == ASSUME Places, [Next]_vars PROVE Places'
<1>2. ASSUME NEW c \in callers, List(c) PROVE Places'
  <2>1. PICK used \in Samples : call' = [call EXCEPT ![c] =
          [pc |-> "listed", node |-> First(NodeOrder, Waiting), host |-> None,
           online |-> up, used |-> used]]
    BY <1>2 DEF List
  <2>. DEFINE r == [pc |-> "listed", node |-> First(NodeOrder, Waiting), host |-> None,
                    online |-> up, used |-> used]
  <2>2. r.pc = "listed" /\ call' = [call EXCEPT ![c] = r] /\ call[c].pc = "idle"
        /\ UNCHANGED <<callers, sem>>
    BY <1>2, <2>1 DEF List, config
  <2>. HIDE DEF r
  <2>. QED  BY <2>2, NoPlace
<1>3. ASSUME NEW c \in callers, PickHost(c) PROVE Places'
  <2>1. PICK pc, host : pc \in {"waiting", "over"} /\ call' = [call EXCEPT ![c] = Past(c, pc, host)]
    BY <1>3 DEF PickHost
  <2>2. Past(c, pc, host).pc = pc
    BY PastIs
  <2>3. call[c].pc = "listed" /\ UNCHANGED <<callers, sem>>
    BY <1>3 DEF PickHost, config
  <2>. QED  BY <2>1, <2>2, <2>3, NoPlace
<1>4. ASSUME NEW c \in callers, Created(c) PROVE Places'
  <2>1. NoCall.pc = "idle"
    BY DEF NoCall
  <2>. QED  BY <1>4, <2>1, GivesBack DEF Created, config
<1>5. ASSUME NEW c \in callers, Fails(c) PROVE Places'
  <2>1. /\ call' = [call EXCEPT ![c] = Past(c, "over", call[c].host)]
        /\ UNCHANGED callers
    BY <1>5 DEF Fails, config
  <2>2. Past(c, "over", call[c].host).pc = "over"
    BY PastIs
  <2>3. CASE call[c].pc = "holding"
    BY <1>5, <2>1, <2>2, <2>3, GivesBack DEF Fails
  <2>4. CASE call[c].pc # "holding"
    BY <1>5, <2>1, <2>2, <2>4, NoPlace DEF Fails
  <2>. QED  BY <2>3, <2>4
<1>6. ASSUME NewRun PROVE Places'
  <2>1. /\ call' = [c \in Callers |-> NoCall] /\ sem' = [h \in Hosts |-> 0]
        /\ callers' = callers
    BY <1>6 DEF NewRun, config
  <2>2. \A c \in Callers : call'[c].pc = "idle"
    BY <2>1 DEF NoCall
  <2>3. \A h \in Hosts : Cloning(h)' = {}
    BY <2>1, <2>2, FewCallers DEF Cloning, Places
  <2>4. \A h \in Hosts : Cardinality(Cloning(h)') = 0
    BY <2>3, FS_EmptySet
  <2>5. sem' \in [Hosts -> Nat] /\ \A h \in Hosts : sem'[h] = 0 /\ 0 <= MaxClones
    BY <2>1, ConstantsOK DEF ConstantsOK
  <2>. QED  BY <2>1, <2>2, <2>4, <2>5 DEF Places, Cloning
<1>7. ASSUME NEW h \in Hosts, HostChanges(h) PROVE Places'
  BY <1>7 DEF HostChanges, Places, Cloning, config
<1>8. CASE UNCHANGED vars
  BY <1>8 DEF vars, config, Places, Cloning
<1>. QED  BY <1>2, <1>3, <1>4, <1>5, <1>6, <1>7, <1>8, TakesPlace DEF Next, Progress

-----------------------------------------------------------------------------
(* Types                                                                   *)

\* The locals of the calls after a step of caller c: r are its own.
Moved(c, r) == call' = [d \in Callers |-> IF d = c THEN r ELSE call[d]]
Listed(used) ==
  [pc |-> "listed", node |-> First(NodeOrder, Waiting), host |-> None,
   online |-> up, used |-> used]

\* What each step leaves in them.
LEMMA Moves ==
  ASSUME Places, NEW c \in callers
  PROVE  /\ c \in Callers
         /\ List(c) => \E used \in Samples : Moved(c, Listed(used))
         /\ PickHost(c) =>
              \/ Moved(c, Past(c, "waiting", Pick(call[c].online, call[c].used)))
              \/ Moved(c, Past(c, "over", None))
         /\ Acquire(c) => Moved(c, Past(c, "holding", call[c].host))
         /\ Created(c) => Moved(c, NoCall)
         /\ Fails(c) => Moved(c, Past(c, "over", call[c].host))
<1>1. c \in Callers
  BY FewCallers DEF Places
<1>2. ASSUME NEW r, call' = [call EXCEPT ![c] = r] PROVE Moved(c, r)
  BY <1>1, <1>2 DEF Places, Moved
<1>3. ASSUME List(c) PROVE \E used \in Samples : Moved(c, Listed(used))
  <2>1. PICK used \in Samples : call' = [call EXCEPT ![c] = Listed(used)]
    BY <1>3 DEF List, Listed
  <2>. QED  BY <1>2, <2>1
<1>4. ASSUME PickHost(c)
      PROVE  \/ Moved(c, Past(c, "waiting", Pick(call[c].online, call[c].used)))
             \/ Moved(c, Past(c, "over", None))
  BY <1>2, <1>4 DEF PickHost
<1>5. Acquire(c) => Moved(c, Past(c, "holding", call[c].host))
  BY <1>2 DEF Acquire
<1>6. Fails(c) => Moved(c, Past(c, "over", call[c].host))
  BY <1>2 DEF Fails
<1>7. Created(c) => Moved(c, NoCall)
  BY <1>2 DEF Created
<1>. QED  BY <1>1, <1>3, <1>4, <1>5, <1>6, <1>7

\* The types of a call's locals.
Fields(r) ==
  /\ r.pc \in {"idle", "listed", "waiting", "holding", "over"}
  /\ r.node \in Nodes \cup {None} /\ r.host \in Hosts \cup {None}
  /\ r.pc \in {"listed", "waiting", "holding"} => r.node \in Nodes
  /\ r.pc \in {"waiting", "holding"} => r.host \in Hosts
  /\ r.online \subseteq Hosts /\ r.used \in [Hosts -> Nat]
Typed ==
  /\ strategy \in Strategies /\ callers \in Parallel
  /\ up \subseteq Hosts /\ changes \in 0 .. MaxChanges
  /\ at \in [Nodes -> Hosts \cup {None}] /\ made \subseteq {n \in Nodes : at[n] # None}
  /\ counter \in Nat
  /\ \A c \in Callers : Fields(call[c])
  /\ runs \in 1 .. MaxRuns /\ picks \in [Hosts -> Nat] /\ steady \in BOOLEAN

\* The memory a listing may give is a number for every host.
LEMMA SamplesAreNumbers == Samples \subseteq [Hosts -> Nat]
<1>1. NodeOrder \in Seq(Nodes) /\ Base \in [Hosts -> Nat]
  BY ConstantsOK DEF ConstantsOK
<1>2. PICK len \in Nat : DOMAIN NodeOrder = 1 .. len
  BY <1>1
<1>3. NodeOrder \in Surjection(1 .. len, Nodes)
  BY <1>1, <1>2 DEF Surjection, Nodes, Range
<1>4. IsFiniteSet(Nodes)
  BY <1>3, FS_Interval, FS_Surjection
<1>5. ASSUME NEW nodes \in SUBSET Nodes PROVE Load(nodes) \in [Hosts -> Nat]
  <2>. DEFINE On(h) == Cardinality({n \in nodes : at[n] = h})
  <2>1. ASSUME NEW h PROVE On(h) \in Nat
    <3>1. {n \in nodes : at[n] = h} \subseteq Nodes
      OBVIOUS
    <3>. QED  BY <1>4, <3>1, FS_Subset, FS_CardinalityType
  <2>2. Load(nodes) = [h \in Hosts |-> Base[h] + On(h)]
    BY DEF Load
  <2>. HIDE DEF On
  <2>. QED  BY <1>1, <2>1, <2>2
<1>. QED  BY <1>1, <1>5 DEF Samples

\* What is picked is a host; see EachItsTurn and LeastLoadedPicks for which.
LEMMA PickIsHost ==
  ASSUME Typed, NEW c \in Callers, call[c].online # {}
  PROVE  Pick(call[c].online, call[c].used) \in call[c].online
BY RoundRobinPicks, LeastLoadedPicks DEF Typed, Fields, Pick

\* A step of one caller keeps the types of all.
LEMMA FieldsMoved ==
  ASSUME Typed, NEW c \in Callers, NEW r, Fields(r), Moved(c, r)
  PROVE  \A d \in Callers : Fields(call'[d])
BY DEF Typed, Moved

\* A call that has picked keeps its node.
LEMMA PastFields ==
  ASSUME NEW c, call[c].node \in Nodes, NEW pc \in {"waiting", "holding", "over"},
         NEW host \in Hosts \cup {None}, pc \in {"waiting", "holding"} => host \in Hosts
  PROVE  Fields(Past(c, pc, host))
<1>. DEFINE r == Past(c, pc, host)
<1>1. r = [pc |-> pc, node |-> call[c].node, host |-> host, online |-> {}, used |-> Base]
  BY PastIs
<1>. HIDE DEF r
<1>2. Base \in [Hosts -> Nat]
  BY ConstantsOK DEF ConstantsOK
<1>. QED  BY <1>1, <1>2 DEF Fields, r

\* Every step keeps the types.
LEMMA TypedStep == ASSUME Places, Typed, [Next]_vars PROVE Typed'
<1>1. ASSUME NEW c \in callers, List(c) PROVE Typed'
  <2>1. c \in Callers
    BY Moves
  <2>2. PICK used \in Samples : Moved(c, Listed(used))
    BY <1>1, Moves
  <2>3. First(NodeOrder, Waiting) \in Nodes
    <3>1. NodeOrder \in Seq(Range(NodeOrder)) /\ IsInjective(NodeOrder)
      BY ConstantsOK DEF ConstantsOK, Nodes
    <3>2. Waiting \subseteq Range(NodeOrder) /\ Waiting # {}
      BY <1>1 DEF List, Waiting, Nodes
    <3>. QED  BY <3>1, <3>2, FirstIsIn DEF Nodes
  <2>4. used \in [Hosts -> Nat]
    BY SamplesAreNumbers
  <2>5. Fields(Listed(used))
    BY <2>3, <2>4 DEF Fields, Typed, Listed
  <2>6. \A d \in Callers : Fields(call'[d])
    BY <2>1, <2>2, <2>5, FieldsMoved
  <2>. QED  BY <1>1, <2>6 DEF List, Typed, config
<1>2. ASSUME NEW c \in callers, PickHost(c) PROVE Typed'
  <2>1. c \in Callers /\ call[c].pc = "listed" /\ call[c].online # {}
    BY <1>2, Moves DEF PickHost
  <2>2. PICK host \in Hosts : host = Pick(call[c].online, call[c].used)
    BY <2>1, PickIsHost DEF Typed, Fields
  <2>3. Fields(Past(c, "waiting", host)) /\ Fields(Past(c, "over", None))
    BY <2>1, PastFields DEF Typed, Fields
  <2>4. \A d \in Callers : Fields(call'[d])
    BY <1>2, <2>1, <2>2, <2>3, Moves, FieldsMoved
  <2>5. counter' \in Nat
    BY <1>2 DEF PickHost, NextTurn, Typed
  <2>6. picks' = [picks EXCEPT ![host] = @ + 1]
    BY <1>2, <2>2 DEF PickHost
  <2>7. picks' \in [Hosts -> Nat]
    BY <2>6 DEF Typed
  <2>. QED  BY <1>2, <2>4, <2>5, <2>7 DEF PickHost, Typed, config
<1>3. ASSUME NEW c \in callers, Acquire(c) PROVE Typed'
  <2>1. c \in Callers /\ call[c].pc = "waiting" /\ Moved(c, Past(c, "holding", call[c].host))
    BY <1>3, Moves DEF Acquire
  <2>2. Fields(Past(c, "holding", call[c].host))
    BY <2>1, PastFields DEF Typed, Fields
  <2>3. \A d \in Callers : Fields(call'[d])
    BY <2>1, <2>2, FieldsMoved
  <2>. QED  BY <1>3, <2>3 DEF Acquire, Typed, config
<1>4. ASSUME NEW c \in callers, Created(c) PROVE Typed'
  <2>1. c \in Callers /\ call[c].pc = "holding" /\ Moved(c, NoCall)
    BY <1>4, Moves DEF Created
  <2>2. Fields(NoCall)
    BY ConstantsOK DEF ConstantsOK, Fields, NoCall
  <2>3. \A d \in Callers : Fields(call'[d])
    BY <2>1, <2>2, FieldsMoved
  <2>4. at' = [at EXCEPT ![call[c].node] = call[c].host] /\ call[c].host \in Hosts
    BY <1>4, <2>1 DEF Created, Typed, Fields
  <2>5. at' \in [Nodes -> Hosts \cup {None}] /\ call[c].node \in Nodes
    BY <2>1, <2>4 DEF Typed, Fields
  <2>6. made' \subseteq {n \in Nodes : at'[n] # None}
    BY <1>4, <2>4, <2>5, ConstantsOK DEF Created, Typed, ConstantsOK
  <2>. QED  BY <1>4, <2>3, <2>5, <2>6 DEF Created, Typed, config
<1>5. ASSUME NEW c \in callers, Fails(c) PROVE Typed'
  <2>1. c \in Callers /\ Moved(c, Past(c, "over", call[c].host))
    BY <1>5, Moves
  <2>2. Fields(Past(c, "over", call[c].host))
    BY <1>5, <2>1, PastFields DEF Fails, Typed, Fields
  <2>3. \A d \in Callers : Fields(call'[d])
    BY <2>1, <2>2, FieldsMoved
  <2>. QED  BY <1>5, <2>3 DEF Fails, Typed, config
<1>6. ASSUME NewRun PROVE Typed'
  <2>1. PICK gone \in Gone, left \in SUBSET HalfMade :
          at' = [n \in Nodes |->
            IF n \in gone THEN None
            ELSE IF n \in left THEN call[CHOOSE c \in Cloned : call[c].node = n].host
            ELSE at[n]]
    BY <1>6 DEF NewRun
  <2>2. callers \subseteq Callers
    BY FewCallers DEF Places
  <2>3. ASSUME NEW n \in left
        PROVE  call[CHOOSE c \in Cloned : call[c].node = n].host \in Hosts \cup {None}
    <3>. DEFINE d == CHOOSE c \in Cloned : call[c].node = n
    <3>1. d \in Callers
      BY <2>1, <2>2, <2>3 DEF Cloned, HalfMade
    <3>. HIDE DEF d
    <3>2. call[d].host \in Hosts \cup {None}
      BY <3>1 DEF Typed, Fields
    <3>. QED  BY <3>2 DEF d
  <2>4. at' \in [Nodes -> Hosts \cup {None}]
    BY <2>1, <2>3 DEF Typed
  <2>5. Fields(NoCall)
    BY ConstantsOK DEF ConstantsOK, Fields, NoCall
  <2>6. \A c \in Callers : Fields(call'[c])
    BY <1>6, <2>5 DEF NewRun
  <2>7. runs' \in 1 .. MaxRuns
    BY <1>6, ConstantsOK DEF NewRun, Typed, ConstantsOK
  <2>. QED  BY <1>6, <2>4, <2>6, <2>7 DEF NewRun, Typed, config
<1>7. ASSUME NEW h \in Hosts, HostChanges(h) PROVE Typed'
  <2>1. changes' \in 0 .. MaxChanges
    BY <1>7, ConstantsOK DEF HostChanges, Typed, ConstantsOK
  <2>. QED  BY <1>7, <2>1 DEF HostChanges, Typed, config
<1>8. CASE UNCHANGED vars
  BY <1>8 DEF vars, config, Typed
<1>. QED  BY <1>1, <1>2, <1>3, <1>4, <1>5, <1>6, <1>7, <1>8 DEF Next, Progress

-----------------------------------------------------------------------------
(* Round-robin                                                             *)

\* While the hosts stay as they are, what a call has listed is what there is.
Fresh == steady => \A c \in callers : call[c].pc = "listed" => call[c].online = up

\* Each host was picked once for every full round, and once more if the round
\* that is under way has passed it.  EvenSpread alone is not inductive: it does
\* not say whose turn is next.
Share(h) ==
  counter \div Cardinality(up) + IF Turn(h, up) < counter % Cardinality(up) THEN 1 ELSE 0
Even == strategy = "round-robin" /\ steady => \A h \in up : picks[h] = Share(h)

LEMMA FreshStep == ASSUME Places, Fresh, [Next]_vars PROVE Fresh'
<1>1. ASSUME NEW c \in callers, NEW r, Moved(c, r), UNCHANGED <<callers, up, steady>>,
             r.pc = "listed" => r.online = up
      PROVE  Fresh'
  BY <1>1, FewCallers DEF Places, Moved, Fresh
<1>2. ASSUME NEW c \in callers, List(c) PROVE Fresh'
  <2>1. PICK used \in Samples : Moved(c, Listed(used))
    BY <1>2, Moves
  <2>2. Listed(used).online = up
    BY DEF Listed
  <2>. QED  BY <1>1, <1>2, <2>1, <2>2 DEF List, config
<1>3. ASSUME NEW c \in callers, PickHost(c) PROVE Fresh'
  <2>1. \E pc, host : pc \in {"waiting", "over"} /\ Moved(c, Past(c, pc, host))
    BY <1>3, Moves
  <2>. QED  BY <1>1, <1>3, <2>1, PastIs DEF PickHost, config
<1>4. ASSUME NEW c \in callers, Acquire(c) PROVE Fresh'
  BY <1>1, <1>4, Moves, PastIs DEF Acquire, config
<1>5. ASSUME NEW c \in callers, Created(c) PROVE Fresh'
  BY <1>1, <1>5, Moves DEF Created, NoCall, config
<1>6. ASSUME NEW c \in callers, Fails(c) PROVE Fresh'
  BY <1>1, <1>6, Moves, PastIs DEF Fails, config
<1>7. ASSUME NewRun PROVE Fresh'
  <2>1. \A c \in callers : call'[c].pc = "idle"
    BY <1>7, FewCallers DEF NewRun, NoCall, Places
  <2>. QED  BY <1>7, <2>1 DEF NewRun, Fresh, config
<1>8. ASSUME NEW h \in Hosts, HostChanges(h) PROVE Fresh'
  BY <1>8 DEF HostChanges, Fresh
<1>9. CASE UNCHANGED vars
  BY <1>9 DEF vars, config, Fresh
<1>. QED  BY <1>2, <1>3, <1>4, <1>5, <1>6, <1>7, <1>8, <1>9 DEF Next, Progress

\* A pick gives its turn to the host that has it.
LEMMA TurnTaken ==
  ASSUME Typed, up # {}, NEW host \in up, Turn(host, up) = counter % Cardinality(up),
         counter' = counter + 1, picks' = [picks EXCEPT ![host] = @ + 1], up' = up,
         \A h \in up : picks[h] = Share(h)
  PROVE  \A h \in up : picks'[h] = Share(h)'
<1>. DEFINE n == Cardinality(up)
            q == counter \div n
            r == counter % n
<1>1. up \subseteq Hosts /\ counter \in Nat /\ picks \in [Hosts -> Nat]
  BY DEF Typed
<1>2. n \in Nat \ {0}
  BY <1>1, EachItsTurn, FS_EmptySet, FS_CardinalityType
<1>3. /\ r \in 0 .. n - 1 /\ q \in Nat
      /\ r < n - 1 => (counter + 1) % n = r + 1 /\ (counter + 1) \div n = q
      /\ r = n - 1 => (counter + 1) % n = 0 /\ (counter + 1) \div n = q + 1
  BY <1>1, <1>2, Round
<1>4. \A h \in up : Turn(h, up) \in 0 .. n - 1 /\ (Turn(h, up) = r => h = host)
  BY <1>1, EachItsTurn
<1>. SUFFICES ASSUME NEW h \in up PROVE picks'[h] = Share(h)'
  OBVIOUS
<1>5. picks[h] = q + IF Turn(h, up) < r THEN 1 ELSE 0
  BY DEF Share
<1>6. picks'[h] = IF h = host THEN picks[h] + 1 ELSE picks[h]
  BY <1>1
<1>7. Share(h)' = (counter + 1) \div n + IF Turn(h, up) < (counter + 1) % n THEN 1 ELSE 0
  BY DEF Share, Turn
<1>. DEFINE t == Turn(h, up)
<1>8. t \in 0 .. n - 1 /\ (h = host <=> t = r)
  BY <1>4
<1>. HIDE DEF n, q, r, t
<1>9. CASE r < n - 1
  BY <1>2, <1>3, <1>5, <1>6, <1>7, <1>8, <1>9 DEF t
<1>10. CASE r = n - 1
  BY <1>2, <1>3, <1>5, <1>6, <1>7, <1>8, <1>10 DEF t
<1>. QED  BY <1>2, <1>3, <1>9, <1>10

LEMMA EvenStep == ASSUME Places, Typed, Fresh, Even, [Next]_vars PROVE Even'
<1>1. ASSUME UNCHANGED <<strategy, up, counter, picks, steady>> PROVE Even'
  BY <1>1 DEF Even, Share, Turn
<1>2. ASSUME NEW c \in callers, PickHost(c) PROVE Even'
  <2>. SUFFICES ASSUME strategy = "round-robin", steady PROVE \A h \in up : picks'[h] = Share(h)'
    BY <1>2 DEF Even, PickHost, config
  <2>1. call[c].online = up /\ up # {} /\ up \subseteq Hosts
    BY <1>2 DEF PickHost, Fresh, Typed
  <2>. DEFINE host == RoundRobin(up)
  <2>2. host \in up /\ Turn(host, up) = counter % Cardinality(up)
    BY <2>1, RoundRobinPicks DEF Typed
  <2>3. counter' = counter + 1 /\ picks' = [picks EXCEPT ![host] = @ + 1] /\ up' = up
    BY <1>2, <2>1 DEF PickHost, Pick, NextTurn
  <2>. HIDE DEF host
  <2>. QED  BY <2>1, <2>2, <2>3, TurnTaken DEF Even
<1>3. ASSUME NewRun PROVE Even'
  <2>. SUFFICES ASSUME NEW h \in up PROVE picks'[h] = Share(h)'
    BY <1>3 DEF Even, NewRun
  <2>1. counter' = 0 /\ picks' = [g \in Hosts |-> 0] /\ up' = up /\ up \subseteq Hosts
    BY <1>3 DEF NewRun, Typed
  <2>2. Cardinality(up) \in Nat \ {0} /\ Turn(h, up) \in Nat
    BY <2>1, EachItsTurn, FS_EmptySet, FS_CardinalityType
  <2>3. 0 \div Cardinality(up) = 0 /\ 0 % Cardinality(up) = 0
    BY <2>2
  <2>. QED  BY <2>1, <2>2, <2>3 DEF Share, Turn
<1>4. ASSUME NEW c \in callers, List(c) \/ Acquire(c) \/ Created(c) \/ Fails(c) PROVE Even'
  BY <1>1, <1>4 DEF List, Acquire, Created, Fails, config
<1>5. ASSUME NEW h \in Hosts, HostChanges(h) PROVE Even'
  BY <1>5 DEF HostChanges, Even
<1>6. CASE UNCHANGED vars
  BY <1>1, <1>6 DEF vars, config
<1>. QED  BY <1>2, <1>3, <1>4, <1>5, <1>6 DEF Next, Progress

-----------------------------------------------------------------------------
(* The theorems                                                            *)

IInv == Places /\ Typed /\ Fresh /\ Even

LEMMA InitHolds == Init => IInv
<1>. SUFFICES ASSUME Init PROVE IInv
  OBVIOUS
<1>1. /\ call = [c \in Callers |-> NoCall] /\ sem = [h \in Hosts |-> 0]
      /\ callers \in Parallel
  BY DEF Init
<1>2. \A c \in Callers : call[c].pc = "idle" /\ Fields(call[c])
  BY <1>1, ConstantsOK DEF NoCall, Fields, ConstantsOK
<1>3. \A h \in Hosts : Cloning(h) = {}
  BY <1>1, <1>2, FewCallers DEF Cloning
<1>4. \A h \in Hosts : Cardinality(Cloning(h)) = 0
  BY <1>3, FS_EmptySet
<1>5. sem \in [Hosts -> Nat] /\ \A h \in Hosts : sem[h] = 0 /\ 0 <= MaxClones
  BY <1>1, ConstantsOK DEF ConstantsOK
<1>6. Places
  BY <1>1, <1>2, <1>4, <1>5 DEF Places
<1>7. Typed
  BY <1>1, <1>2, ConstantsOK DEF Init, Typed, ConstantsOK
<1>8. \A c \in callers : c \in Callers /\ call[c].pc = "idle"
  BY <1>1, <1>2, FewCallers
<1>9. Even
  <2>. SUFFICES ASSUME NEW h \in up PROVE picks[h] = Share(h)
    BY DEF Even
  <2>1. counter = 0 /\ picks[h] = 0 /\ up \subseteq Hosts
    BY <1>7 DEF Init, Typed
  <2>2. Cardinality(up) \in Nat \ {0} /\ Turn(h, up) \in Nat
    <3>1. IsFiniteSet(up) /\ Turn(h, up) \in Nat /\ up # {}
      BY <2>1, EachItsTurn
    <3>. QED  BY <3>1, FS_EmptySet, FS_CardinalityType
  <2>3. 0 \div Cardinality(up) = 0 /\ 0 % Cardinality(up) = 0
    BY <2>2
  <2>. QED  BY <2>1, <2>2, <2>3 DEF Share
<1>. QED  BY <1>6, <1>7, <1>8, <1>9 DEF IInv, Fresh

LEMMA Invariance == Spec => []IInv
<1>1. IInv /\ [Next]_vars => IInv'
  BY PlacesStep, TypedStep, FreshStep, EvenStep DEF IInv
<1>. QED  BY <1>1, InitHolds, PTL DEF Spec

\* Whatever callers, hosts and failures there are: the counter, the semaphores, the
\* history and every call's locals are of their types, and no semaphore is
\* overfull (TypeOK, for every instance).
THEOREM TypeCorrect == Spec => []TypeOK
<1>1. IInv => TypeOK
  <2>. SUFFICES ASSUME IInv PROVE TypeOK
    OBVIOUS
  <2>1. sem \in [Hosts -> 0 .. MaxClones]
    BY ConstantsOK DEF IInv, Places, ConstantsOK
  <2>2. \A c \in Callers : call[c].pc \in {"waiting", "holding"} => call[c].host # None
    BY ConstantsOK DEF IInv, Typed, Fields, ConstantsOK
  <2>. QED  BY <2>1, <2>2 DEF IInv, Typed, Fields, TypeOK
<1>. QED  BY <1>1, Invariance, PTL

\* However many callers a Provider has, whatever their calls do and whichever fail:
\* no more than MaxClones of them clone on one host at a time (ClonesBounded,
\* for every instance).
THEOREM HostsSpared == Spec => []ClonesBounded
<1>1. IInv => ClonesBounded
  BY DEF IInv, Places, ClonesBounded
<1>. QED  BY <1>1, Invariance, PTL

\* Whatever number of hosts, however many calls overlap and wherever they fail:
\* while the hosts stay as they are, round-robin picks each of them as often in
\* a run as any other, give or take one (EvenSpread, for every instance).
THEOREM SpreadsEvenly == Spec => []EvenSpread
<1>1. IInv => EvenSpread
  <2>. SUFFICES ASSUME IInv, strategy = "round-robin", steady, NEW g \in up, NEW h \in up
                PROVE  picks[g] <= picks[h] + 1
    BY DEF EvenSpread, Eligible
  <2>. DEFINE q == counter \div Cardinality(up)
  <2>1. up \subseteq Hosts /\ counter \in Nat
    BY DEF IInv, Typed
  <2>2. q \in Nat
    BY <2>1, EachItsTurn, FS_EmptySet, FS_CardinalityType, Round
  <2>3. picks[g] \in {q, q + 1} /\ picks[h] \in {q, q + 1}
    BY <2>2 DEF IInv, Even, Share
  <2>. HIDE DEF q
  <2>. QED  BY <2>2, <2>3
<1>. QED  BY <1>1, Invariance, PTL
=============================================================================
