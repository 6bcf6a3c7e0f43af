------------------------- MODULE BackendPortsProofs -------------------------
(***************************************************************************)
(* Proofs about BackendPorts.  The two programs sort the pod's ports         *)
(* separately; what makes their results agree is that in an ascending list   *)
(* without repetitions an entry's position is its rank, the number of        *)
(* entries that are not larger (PositionIsRank).  The rank depends on the    *)
(* set of ports only.                                                        *)
(***************************************************************************)
EXTENDS BackendPorts, FiniteSetTheorems, TLAPS

Rank(S, x) == Cardinality({y \in S : y <= x})

Ascending(a) == \A i, j \in DOMAIN a : i < j => a[i] < a[j]

\* The rank of an element of a finite set of numbers lies between 1 and the
\* number of elements.
LEMMA RankRange ==
    ASSUME NEW S \in SUBSET Nat, IsFiniteSet(S), NEW x \in S
    PROVE  Rank(S, x) \in 1 .. Cardinality(S)
<1> DEFINE D == {y \in S : y <= x}
<1>1. D \in SUBSET S /\ x \in D OBVIOUS
<1>2. IsFiniteSet(D) /\ Cardinality(D) <= Cardinality(S) BY <1>1, FS_Subset
<1>3. Cardinality(D) \in Nat /\ Cardinality(S) \in Nat BY <1>2, FS_CardinalityType
<1>4. Cardinality(D) # 0 BY <1>1, <1>2, FS_EmptySet
<1>5. Rank(S, x) = Cardinality(D) BY DEF Rank
<1> HIDE DEF D
<1> QED BY <1>2, <1>3, <1>4, <1>5

\* A larger element has a larger rank.
LEMMA RankGrows ==
    ASSUME NEW S \in SUBSET Nat, IsFiniteSet(S), NEW x \in S, NEW y \in S, x < y
    PROVE  Rank(S, x) < Rank(S, y)
<1> DEFINE D(u) == {z \in S : z <= u}
<1>1. D(x) \in SUBSET D(y) /\ y \in D(y) /\ y \notin D(x)
  <2>1. x \in Nat /\ y \in Nat /\ \A z \in S : z \in Nat OBVIOUS
  <2>2. ASSUME NEW z \in S, z <= x PROVE z <= y BY <2>1, <2>2
  <2>3. y <= y /\ ~(y <= x) BY <2>1
  <2> QED BY <2>2, <2>3
<1>2. D(y) \in SUBSET S OBVIOUS
<1>3. IsFiniteSet(D(y)) BY <1>2, FS_Subset
<1>4. /\ IsFiniteSet(D(x)) /\ Cardinality(D(x)) <= Cardinality(D(y))
      /\ Cardinality(D(y)) = Cardinality(D(x)) => D(y) = D(x)
  BY <1>1, <1>3, FS_Subset
<1>5. Cardinality(D(x)) \in Nat /\ Cardinality(D(y)) \in Nat BY <1>3, <1>4, FS_CardinalityType
<1>6. Rank(S, x) = Cardinality(D(x)) /\ Rank(S, y) = Cardinality(D(y)) BY DEF Rank
<1> HIDE DEF D
<1> QED BY <1>1, <1>4, <1>5, <1>6

\* Every number from 1 to the number of elements is the rank of one element.
LEMMA RankBijection ==
    ASSUME NEW S \in SUBSET Nat, IsFiniteSet(S)
    PROVE  [x \in S |-> Rank(S, x)] \in Bijection(S, 1 .. Cardinality(S))
<1> DEFINE n == Cardinality(S)
           f == [x \in S |-> Rank(S, x)]
<1>1. n \in Nat BY FS_CardinalityType
<1>2. f \in [S -> 1 .. n] BY RankRange
<1>3. ASSUME NEW x \in S, NEW y \in S, f[x] = f[y]
      PROVE  x = y
  <2>1. Rank(S, x) = Rank(S, y) BY <1>3
  <2>2. Rank(S, x) \in Nat /\ Rank(S, y) \in Nat BY <1>1, RankRange
  <2>3. ~(x < y) BY <2>1, <2>2, RankGrows
  <2>4. ~(y < x) BY <2>1, <2>2, RankGrows
  <2> QED BY <2>3, <2>4
<1>4. f \in Injection(S, 1 .. n) BY <1>2, <1>3 DEF Injection, IsInjective
<1>5. IsFiniteSet(1 .. n) /\ Cardinality(1 .. n) = n BY <1>1, FS_Interval
<1>6. f \in Surjection(S, 1 .. n) BY <1>4, <1>5, FS_Injection
<1> QED BY <1>4, <1>6 DEF Bijection

\* In an ascending enumeration of a set an element stands at its rank.
LEMMA PositionIsRank ==
    ASSUME NEW S \in SUBSET Nat, NEW n \in Nat, NEW a \in Bijection(1 .. n, S), Ascending(a),
           NEW k \in 1 .. n
    PROVE  Rank(S, a[k]) = k
<1> DEFINE D == {y \in S : y <= a[k]}
           b == [i \in 1 .. k |-> a[i]]
<1>1. /\ a \in [1 .. n -> S]
      /\ \A i, j \in 1 .. n : a[i] = a[j] => i = j
      /\ \A s \in S : \E i \in 1 .. n : a[i] = s
  BY DEF Bijection, Injection, Surjection, IsInjective
<1>2. \A i, j \in 1 .. n : i < j => a[i] < a[j] BY <1>1 DEF Ascending
<1>3. ASSUME NEW i \in 1 .. k PROVE i \in 1 .. n /\ a[i] \in D
  <2>1. i \in 1 .. n BY SMT
  <2>2. i = k \/ i < k BY SMT
  <2>3. a[i] \in Nat /\ a[k] \in Nat /\ a[i] \in S BY <1>1, <2>1
  <2>4. a[i] <= a[k] BY <1>2, <2>1, <2>2, <2>3
  <2> QED BY <2>1, <2>3, <2>4
<1>4. ASSUME NEW y \in D PROVE \E i \in 1 .. k : b[i] = y
  <2>1. PICK i \in 1 .. n : a[i] = y BY <1>1
  <2>2. y \in Nat /\ a[k] \in Nat /\ y <= a[k] BY <1>1
  <2>3. ~(k < i) BY <1>2, <2>1, <2>2
  <2>4. i \in 1 .. k BY <2>3, SMT
  <2> QED BY <2>1, <2>4
<1>5. b \in [1 .. k -> D] BY <1>3
<1>6. \A i, j \in 1 .. k : b[i] = b[j] => i = j BY <1>1, <1>3
<1>7. b \in Bijection(1 .. k, D)
  BY <1>4, <1>5, <1>6 DEF Bijection, Injection, Surjection, IsInjective
<1>8. k \in Nat BY SMT
<1>9. Cardinality(D) = k BY <1>7, <1>8, FS_CountingElements DEF ExistsBijection
<1> QED BY <1>9 DEF Rank

\* A list without repetitions can be sorted, and SortInts sorts it: the result
\* enumerates the same entries in ascending order.
LEMMA SortIntsSorts ==
    ASSUME NEW n \in Nat, NEW s \in [1 .. n -> Nat], IsInjective(s)
    PROVE  /\ SortInts(s) \in Bijection(1 .. n, ToSet(s))
           /\ Ascending(SortInts(s))
<1> DEFINE S == ToSet(s)
           f == [x \in S |-> Rank(S, x)]
           Orders(p) == \A i, j \in DOMAIN s : i < j => s[p[i]] <= s[p[j]]
           order == CHOOSE p \in Bijection(DOMAIN s, DOMAIN s) : Orders(p)
<1>1. DOMAIN s = 1 .. n /\ S \in SUBSET Nat BY DEF ToSet
<1>2. s \in Bijection(1 .. n, S) BY <1>1 DEF Bijection, Injection, Surjection, ToSet, IsInjective
<1>3. IsFiniteSet(1 .. n) /\ Cardinality(1 .. n) = n BY FS_Interval
<1>4. IsFiniteSet(S) /\ Cardinality(S) = n BY <1>2, <1>3, FS_Bijection DEF ExistsBijection
<1>5. f \in Bijection(S, 1 .. n) BY <1>1, <1>4, RankBijection
<1>6. \E p \in Bijection(DOMAIN s, DOMAIN s) : Orders(p)
  <2> DEFINE p == [k \in 1 .. n |-> CHOOSE i \in 1 .. n : Rank(S, s[i]) = k]
  <2>1. \A i \in 1 .. n : s[i] \in S BY <1>1 DEF ToSet
  <2>2. ASSUME NEW k \in 1 .. n PROVE p[k] \in 1 .. n /\ Rank(S, s[p[k]]) = k
    <3>1. PICK x \in S : f[x] = k BY <1>5 DEF Bijection, Surjection
    <3>2. PICK i \in 1 .. n : s[i] = x BY <1>1 DEF ToSet
    <3>3. Rank(S, s[i]) = k BY <3>1, <3>2
    <3> QED BY <3>3
  <2>3. p \in [1 .. n -> 1 .. n] BY <2>2
  <2>4. \A i, j \in 1 .. n : p[i] = p[j] => i = j BY <2>2
  <2>5. p \in Injection(1 .. n, 1 .. n) BY <2>3, <2>4 DEF Injection, IsInjective
  <2>6. p \in Surjection(1 .. n, 1 .. n) BY <2>5, <1>3, FS_Injection
  <2>7. ASSUME NEW i \in 1 .. n, NEW j \in 1 .. n, i < j PROVE s[p[i]] <= s[p[j]]
    <3>1. s[p[i]] \in S /\ s[p[j]] \in S BY <2>1, <2>2
    <3>2. s[p[i]] \in Nat /\ s[p[j]] \in Nat BY <1>1, <3>1
    <3>3. Rank(S, s[p[i]]) = i /\ Rank(S, s[p[j]]) = j BY <2>2
    <3>4. CASE s[p[j]] < s[p[i]]
      <4>1. Rank(S, s[p[j]]) < Rank(S, s[p[i]]) BY <1>1, <1>4, <3>1, <3>4, RankGrows
      <4> QED BY <2>7, <3>3, <4>1, SMT
    <3> QED BY <3>2, <3>4
  <2> HIDE DEF p
  <2>8. p \in Bijection(DOMAIN s, DOMAIN s) BY <1>1, <2>5, <2>6 DEF Bijection
  <2>9. Orders(p) BY <1>1, <2>7
  <2> QED BY <2>8, <2>9
<1>7. order \in Bijection(DOMAIN s, DOMAIN s) /\ Orders(order) BY <1>6
<1>8. SortInts(s) = [i \in DOMAIN s |-> s[order[i]]] BY DEF SortInts
<1> HIDE DEF order
<1>9. /\ order \in [1 .. n -> 1 .. n]
      /\ \A i, j \in 1 .. n : order[i] = order[j] => i = j
      /\ \A k \in 1 .. n : \E i \in 1 .. n : order[i] = k
  BY <1>1, <1>7 DEF Bijection, Injection, Surjection, IsInjective
<1> DEFINE a == [i \in 1 .. n |-> s[order[i]]]
<1>10. \A i, j \in 1 .. n : s[i] = s[j] => i = j BY <1>1 DEF IsInjective
<1>11. a \in [1 .. n -> S] BY <1>1, <1>9 DEF ToSet
<1>12. \A i, j \in 1 .. n : a[i] = a[j] => i = j BY <1>9, <1>10
<1>13. ASSUME NEW x \in S PROVE \E i \in 1 .. n : a[i] = x
  <2>1. PICK k \in 1 .. n : s[k] = x BY <1>1 DEF ToSet
  <2>2. PICK i \in 1 .. n : order[i] = k BY <1>9
  <2> QED BY <2>1, <2>2
<1>14. a \in Bijection(1 .. n, S)
  BY <1>11, <1>12, <1>13 DEF Bijection, Injection, Surjection, IsInjective
<1>15. ASSUME NEW i \in 1 .. n, NEW j \in 1 .. n, i < j PROVE a[i] < a[j]
  <2>1. a[i] <= a[j] BY <1>1, <1>7, <1>15
  <2>2. a[i] # a[j] BY <1>12, <1>15, SMT
  <2>3. a[i] \in Nat /\ a[j] \in Nat BY <1>1, <1>11
  <2> HIDE DEF a
  <2> QED BY <2>1, <2>2, <2>3
<1>16. Ascending(a) BY <1>15 DEF Ascending
<1> QED BY <1>1, <1>8, <1>14, <1>16

\* The distinct ports the gateway reads off a pod, in whatever order its map
\* yields them, are an enumeration of the declared ports.
LEMMA SetToSeqEnumerates ==
    ASSUME NEW S, IsFiniteSet(S)
    PROVE  /\ SetToSeq(S) \in [1 .. Cardinality(S) -> S]
           /\ IsInjective(SetToSeq(S))
           /\ ToSet(SetToSeq(S)) = S
<1> DEFINE n == Cardinality(S)
           e == CHOOSE f \in [1 .. n -> S] : IsInjective(f)
<1>1. n \in Nat /\ ExistsBijection(1 .. n, S) BY FS_CardinalityType
<1>2. \E f \in [1 .. n -> S] : IsInjective(f) BY <1>1 DEF ExistsBijection, Bijection, Injection
<1>3. e \in [1 .. n -> S] /\ IsInjective(e) BY <1>2
<1>4. SetToSeq(S) = e BY DEF SetToSeq
<1> HIDE DEF e
<1>5. e \in Injection(1 .. n, S) BY <1>3 DEF Injection
<1>6. Cardinality(1 .. n) = n BY <1>1, FS_Interval
<1>7. e \in Surjection(1 .. n, S) BY <1>5, <1>6, FS_Injection
<1>8. ToSet(e) = S BY <1>3, <1>7 DEF ToSet, Surjection
<1> QED BY <1>3, <1>4, <1>8

-----------------------------------------------------------------------------
\* For a pod whose ports are distinct the two computations meet, whatever the
\* ports, their order in the pod's spec and the slot.
LEMMA DistinctPortsRoute ==
    ASSUME slot \in Nat, NEW n \in Nat, ports \in [1 .. n -> Nat], Len(ports) = n, IsInjective(ports)
    PROVE  RoutesToTarget
<1> DEFINE S == ToSet(ports)
           g == SortInts(SetToSeq(S))
           w == SortInts(ports)
           offset == GatewayPortOffset(slot)
           tunnels == generateWireproxyConfig(slot, ports)
<1>1. DOMAIN ports = 1 .. n /\ S \in SUBSET Nat BY DEF ToSet
<1>2. ports \in Bijection(1 .. n, S)
  BY <1>1 DEF Bijection, Injection, Surjection, ToSet, IsInjective
<1>3. IsFiniteSet(1 .. n) /\ Cardinality(1 .. n) = n BY FS_Interval
<1>4. IsFiniteSet(S) /\ Cardinality(S) = n BY <1>2, <1>3, FS_Bijection DEF ExistsBijection
<1>5. w \in Bijection(1 .. n, S) /\ Ascending(w) BY SortIntsSorts
<1>6. g \in Bijection(1 .. n, S) /\ Ascending(g)
  <2>1. /\ SetToSeq(S) \in [1 .. n -> S] /\ IsInjective(SetToSeq(S)) /\ ToSet(SetToSeq(S)) = S
    BY <1>4, SetToSeqEnumerates
  <2>2. SetToSeq(S) \in [1 .. n -> Nat] BY <1>1, <2>1
  <2> QED BY <2>1, <2>2, SortIntsSorts
<1> HIDE DEF g, w
<1>7. /\ w \in [1 .. n -> S] /\ g \in [1 .. n -> S]
      /\ \A x \in S : \E i \in 1 .. n : w[i] = x
      /\ \A x \in S : \E i \in 1 .. n : g[i] = x
  BY <1>5, <1>6 DEF Bijection, Injection, Surjection
<1>8. w \in Seq(Nat) /\ Len(w) = n
  <2>1. w \in [1 .. n -> Nat] BY <1>1, <1>7
  <2> QED BY <2>1, SMT
<1>9. offset \in Nat /\ offset = 10000 + slot * 100 BY DEF GatewayPortOffset
<1>10. tunnels = [l \in offset .. offset + n |-> IF l = offset THEN "agent" ELSE w[l - offset]]
  BY <1>8 DEF generateWireproxyConfig, w
<1> HIDE DEF offset, tunnels
<1> SUFFICES ASSUME NEW t \in S
             PROVE  BackendPort(t) \in DOMAIN tunnels /\ tunnels[BackendPort(t)] = t
  BY DEF RoutesToTarget, tunnels
<1>11. PICK k \in 1 .. n : w[k] = t BY <1>7
<1>12. k = Rank(S, t) BY <1>1, <1>5, <1>11, PositionIsRank
<1>13. t \in ToSet(g) /\ PositionOf(t, g) = k
  <2>1. DOMAIN g = 1 .. n BY <1>7
  <2>2. ASSUME NEW i \in 1 .. n, g[i] = t PROVE i = k
    BY <1>1, <1>6, <1>12, <2>2, PositionIsRank
  <2>3. PICK i \in 1 .. n : g[i] = t BY <1>7
  <2>4. g[k] = t BY <2>2, <2>3
  <2> DEFINE First(j) == g[j] = t /\ \A h \in 1 .. j - 1 : g[h] # t
  <2>5. First(k)
    <3>1. ASSUME NEW h \in 1 .. k - 1 PROVE g[h] # t
      <4>1. h \in 1 .. n /\ h # k BY SMT
      <4> QED BY <2>2, <4>1
    <3> QED BY <2>4, <3>1
  <2>6. \A j \in DOMAIN g : First(j) => j = k BY <2>1, <2>2
  <2>7. PositionOf(t, g) = CHOOSE j \in DOMAIN g : First(j) BY DEF PositionOf
  <2> HIDE DEF First
  <2>8. PositionOf(t, g) = k BY <2>1, <2>5, <2>6, <2>7
  <2>9. t \in ToSet(g) BY <2>1, <2>4 DEF ToSet
  <2> QED BY <2>8, <2>9
<1>14. BackendPort(t) = offset + k
  BY <1>9, <1>13 DEF BackendPort, extractContainerPorts, calculateBackendPort, g
<1>15. offset + k \in offset .. offset + n /\ offset + k # offset /\ (offset + k) - offset = k
  BY <1>9, SMT
<1> QED BY <1>10, <1>11, <1>14, <1>15

-----------------------------------------------------------------------------
\* The pod being put together: its slot, and a list of numbers in which no port
\* is repeated unless the model allows it.
PodIInv ==
    /\ slot \in Slots
    /\ ports \in Seq(ContainerPorts)
    /\ Repeats \/ IsInjective(ports)

LEMMA PodInductive == Spec => []PodIInv
<1>1. Init => PodIInv BY DEF Init, PodIInv, IsInjective
<1>2. PodIInv /\ [Next]_vars => PodIInv'
  <2> SUFFICES ASSUME PodIInv, [Next]_vars PROVE PodIInv' OBVIOUS
  <2>1. CASE UNCHANGED vars BY <2>1 DEF PodIInv, vars
  <2>2. CASE Next
    <3>1. PICK p \in ContainerPorts : DeclarePort(p) BY <2>2 DEF Next
    <3>2. /\ ports' = Append(ports, p) /\ slot' = slot /\ ports \in Seq(ContainerPorts)
          /\ Repeats \/ p \notin ToSet(ports)
      BY <3>1 DEF DeclarePort, PodIInv
    <3>3. ports' \in Seq(ContainerPorts) BY <3>2
    <3>4. ASSUME ~Repeats PROVE IsInjective(ports')
      <4> DEFINE n == Len(ports)
      <4>1. /\ DOMAIN ports = 1 .. n /\ DOMAIN ports' = 1 .. n + 1 /\ n \in Nat
            /\ ports'[n + 1] = p /\ \A i \in 1 .. n : ports'[i] = ports[i]
        BY <3>2
      <4>2. \A i, j \in 1 .. n : ports[i] = ports[j] => i = j
        BY <3>4, <4>1 DEF PodIInv, IsInjective
      <4>3. \A i \in 1 .. n : ports[i] # p BY <3>2, <3>4, <4>1 DEF ToSet
      <4> HIDE DEF n
      <4>4. \A i \in 1 .. n + 1 : i = n + 1 \/ i \in 1 .. n BY <4>1, SMT
      <4>5. ASSUME NEW i \in 1 .. n + 1, NEW j \in 1 .. n + 1, ports'[i] = ports'[j]
            PROVE  i = j
        BY <4>1, <4>2, <4>3, <4>4, <4>5
      <4> QED BY <4>1, <4>5 DEF IsInjective
    <3> QED BY <3>2, <3>3, <3>4 DEF PodIInv
  <2> QED BY <2>1, <2>2 DEF Next
<1> QED BY <1>1, <1>2, PTL DEF Spec

\* Whatever a pod declares, as long as it declares no port twice, every declared
\* port is reached through the backend the gateway computes for it.
THEOREM DistinctPortsAreRouted == Spec => [](IsInjective(ports) => RoutesToTarget)
<1>1. PodIInv => (IsInjective(ports) => RoutesToTarget)
  <2> SUFFICES ASSUME PodIInv, IsInjective(ports) PROVE RoutesToTarget OBVIOUS
  <2>1. slot \in Nat BY BackendPortsAssumption DEF PodIInv
  <2> DEFINE n == Len(ports)
  <2>2. n \in Nat /\ ports \in [1 .. n -> Nat]
    <3>1. n \in Nat /\ ports \in [1 .. n -> ContainerPorts] BY DEF PodIInv
    <3> QED BY <3>1, BackendPortsAssumption
  <2> QED BY <2>1, <2>2, DistinctPortsRoute
<1> QED BY <1>1, PodInductive, PTL

\* With pods that declare each port once, RoutesToTarget always holds.
THEOREM RoutesReachTheirTargets == ASSUME ~Repeats PROVE Spec => []RoutesToTarget
<1>1. PodIInv => IsInjective(ports) BY DEF PodIInv
<1> QED BY <1>1, PodInductive, DistinctPortsAreRouted, PTL
=============================================================================
