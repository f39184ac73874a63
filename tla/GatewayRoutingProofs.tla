------------------------- MODULE GatewayRoutingProofs -------------------------
(***************************************************************************)
(* What the operators of GatewayRouting compute, for any routes, instances *)
(* and weights: the first matching entry has the longest prefix, the       *)
(* sorted instances are a permutation, every algorithm picks a candidate,  *)
(* and smooth weighted round robin serves each instance by its weight.     *)
(*                                                                         *)
(* Induction is over sets of natural numbers: the theorems of the library  *)
(* that take a predicate cannot be used, and each claim is written as      *)
(* "the numbers with this property are all of 0..N".                       *)
(***************************************************************************)
EXTENDS GatewayRouting, FiniteSetTheorems, WellFoundedInduction, TLAPS

LEMMA LeastNumber ==
    ASSUME NEW T \in SUBSET Nat, T # {}
    PROVE  \E n \in T : \A m \in T : n <= m
  <1> DEFINE R == { p \in Nat \X Nat : p[1] < p[2] }
  <1>1. IsWellFoundedOn(R, Nat)
    BY NatLessThanWellFounded DEF OpToRel
  <1>2. \A x, y \in Nat : y < x => <<y, x>> \in R
    OBVIOUS
  <1> HIDE DEF R
  <1>3. PICK x \in T : \A y \in T : <<y, x>> \notin R
    BY <1>1, WFMin
  <1>4. ASSUME NEW y \in T PROVE x <= y
    <2>1. x \in Nat /\ y \in Nat
      OBVIOUS
    <2>2. <<y, x>> \notin R
      BY <1>3
    <2>3. ~(y < x)
      BY <1>2, <2>1, <2>2
    <2> QED
      BY <2>1, <2>3
  <1> QED
    BY <1>4

LEMMA Induction ==
    ASSUME NEW N \in Nat, NEW S, 0 \in S, \A n \in 0..(N - 1) : n \in S => n + 1 \in S
    PROVE  0..N \subseteq S
  <1> SUFFICES ASSUME (0..N) \ S # {} PROVE FALSE
    OBVIOUS
  <1>1. PICK n \in (0..N) \ S : \A m \in (0..N) \ S : n <= m
    <2>1. (0..N) \ S \in SUBSET Nat
      OBVIOUS
    <2> QED
      BY <2>1, LeastNumber
  <1>2. n # 0 /\ n - 1 \in 0..(N - 1) /\ n - 1 \in S
    BY <1>1
  <1> QED
    BY <1>1, <1>2

(* A finite set has a minimal element for a strict order.                  *)
LEMMA Minimal ==
    ASSUME NEW S, IsFiniteSet(S), S # {}, NEW R,
           \A x \in S : <<x, x>> \notin R,
           \A x, y, z \in S : <<x, y>> \in R /\ <<y, z>> \in R => <<x, z>> \in R
    PROVE  \E x \in S : \A y \in S : <<y, x>> \notin R
  <1> DEFINE below(x) == { y \in S : <<y, x>> \in R }
             size(x) == Cardinality(below(x))
             sizes == { size(x) : x \in S }
  <1>1. \A x \in S : IsFiniteSet(below(x)) /\ Cardinality(below(x)) \in Nat
    BY FS_Subset, FS_CardinalityType
  <1>2. sizes \in SUBSET Nat /\ sizes # {}
    <2> HIDE DEF below
    <2> QED
      BY <1>1
  <1>3. PICK n \in sizes : \A m \in sizes : n <= m
    BY <1>2, LeastNumber
  <1>4. PICK x \in S : Cardinality(below(x)) = n
    BY <1>3
  <1>5. ASSUME NEW y \in S, <<y, x>> \in R PROVE FALSE
    <2>1. below(y) \subseteq below(x) /\ y \in below(x) /\ y \notin below(y)
      BY <1>5
    <2>2. Cardinality(below(y)) <= Cardinality(below(x)) /\ Cardinality(below(y)) # Cardinality(below(x))
      BY <1>1, <2>1, FS_Subset
    <2>3. size(y) \in sizes
      OBVIOUS
    <2>4. Cardinality(below(x)) <= Cardinality(below(y))
      BY <1>3, <1>4, <2>3
    <2> QED
      BY <1>1, <2>2, <2>4
  <1> QED
    BY <1>5

-----------------------------------------------------------------------------
(***************************************************************************)
(* Sorting.                                                                *)
(***************************************************************************)

(* A sequence of different instances                                       *)
IsPool(instances) ==
    /\ instances = [n \in 1..Len(instances) |-> instances[n]] /\ Len(instances) \in Nat
    /\ \A n \in 1..Len(instances) : instances[n] \in Instances
    /\ \A n, m \in 1..Len(instances) : instances[n] = instances[m] => n = m

LEMMA InstanceOrder ==
    ASSUME NEW i \in Instances, NEW j \in Instances
    PROVE  /\ ~InstanceBefore(i, i)
           /\ i # j => InstanceBefore(i, j) \/ InstanceBefore(j, i)
           /\ \A k \in Instances : InstanceBefore(i, j) /\ InstanceBefore(j, k) => InstanceBefore(i, k)
  BY RoutingAssumption DEF InstanceBefore

LEMMA SortedInstances ==
    ASSUME NEW S \in SUBSET Instances
    PROVE  /\ IsPool(SortInstances(S)) /\ Range(SortInstances(S)) = S
           /\ Len(SortInstances(S)) = Cardinality(S)
  <1> DEFINE N == Cardinality(S)
             before(i) == { j \in S : InstanceBefore(j, i) }
             size(i) == Cardinality(before(i))
             place == [i \in S |-> size(i) + 1]
             s == SortInstances(S)
  <1>1. IsFiniteSet(S) /\ N \in Nat
    BY RoutingAssumption, FS_Subset, FS_CardinalityType
  <1>2. ASSUME NEW i \in S
        PROVE  IsFiniteSet(before(i)) /\ size(i) \in Nat /\ size(i) < N
    <2>1. before(i) \subseteq S /\ i \notin before(i)
      BY InstanceOrder
    <2>2. IsFiniteSet(before(i)) /\ Cardinality(before(i)) \in Nat
      BY <1>1, <2>1, FS_Subset, FS_CardinalityType
    <2>3. Cardinality(before(i)) <= N /\ Cardinality(before(i)) # N
      BY <1>1, <2>1, FS_Subset
    <2> QED
      BY <1>1, <2>2, <2>3
  <1>3. ASSUME NEW i \in S, NEW j \in S, InstanceBefore(j, i)
        PROVE  place[j] # place[i]
    <2>1. before(j) \subseteq before(i) /\ j \in before(i) /\ j \notin before(j)
      BY <1>3, InstanceOrder
    <2>2. Cardinality(before(i)) # Cardinality(before(j))
      BY <1>2, <2>1, FS_Subset
    <2>3. size(i) \in Nat /\ size(j) \in Nat /\ size(i) # size(j)
      BY <1>2, <2>2
    <2> HIDE DEF size
    <2> QED
      BY <2>3
  <1>4. place \in Injection(S, 1..N)
    <2>1. place \in [S -> 1..N]
      BY <1>1, <1>2
    <2>2. \A i, j \in S : place[i] = place[j] => i = j
      BY <1>3, InstanceOrder
    <2> HIDE DEF place
    <2> QED
      BY <2>1, <2>2 DEF Injection, IsInjective
  <1>5. place \in Surjection(S, 1..N)
    <2>1. IsFiniteSet(1..N) /\ Cardinality(1..N) = N
      BY <1>1, FS_Interval
    <2> HIDE DEF place, N
    <2> QED
      BY <1>4, <2>1, FS_Injection DEF N
  <1>6. s = [n \in 1..N |-> s[n]] /\ Len(s) = N
    <2> DEFINE at(n) == CHOOSE i \in S : Cardinality(before(i)) = n - 1
    <2>1. s = [n \in 1..N |-> at(n)]
      BY DEF SortInstances
    <2> HIDE DEF N, s, at
    <2>2. N \in Nat
      BY <1>1
    <2> QED
      BY <2>1, <2>2
  <1>7. ASSUME NEW n \in 1..N PROVE s[n] \in S /\ place[s[n]] = n
    <2>1. \E i \in S : Cardinality(before(i)) = n - 1
      <3>1. PICK i \in S : place[i] = n
        <4> HIDE DEF place
        <4> QED
          BY <1>5 DEF Surjection
      <3>2. size(i) \in Nat /\ size(i) + 1 = n
        BY <1>2, <3>1
      <3> HIDE DEF size
      <3>3. size(i) = n - 1
        BY <1>1, <3>2
      <3> QED
        BY <3>3 DEF size
    <2>2. s[n] = CHOOSE i \in S : Cardinality(before(i)) = n - 1
      BY <1>7 DEF SortInstances
    <2>3. s[n] \in S /\ Cardinality(before(s[n])) = n - 1
      BY <2>1, <2>2
    <2> QED
      BY <1>7, <2>3
  <1>8. ASSUME NEW i \in S PROVE place[i] \in 1..N /\ s[place[i]] = i
    <2>1. place[i] \in 1..N
      <3> HIDE DEF place
      <3> QED
        BY <1>4 DEF Injection
    <2>2. s[place[i]] \in S /\ place[s[place[i]]] = place[i]
      BY <1>7, <2>1
    <2> QED
      BY <1>3, <2>1, <2>2, InstanceOrder
  <1> HIDE DEF place, s, N
  <1>9. IsPool(s)
    BY <1>1, <1>6, <1>7 DEF IsPool
  <1>10. Range(s) = S
    BY <1>6, <1>7, <1>8 DEF Range
  <1> QED
    BY <1>6, <1>9, <1>10 DEF s, N
-----------------------------------------------------------------------------
(***************************************************************************)
(* Routing.                                                                *)
(***************************************************************************)

LEMMA ComponentOf ==
    ASSUME NEW r \in Routes
    PROVE  Component(r.comp) \in Components /\ Component(r.comp).name = r.comp
  BY RoutingAssumption DEF Component

LEMMA FirstHitExists ==
    ASSUME NEW hits \in SUBSET Routes, hits # {}
    PROVE  FirstHit(hits) \in hits /\ \A s \in hits : ~RouteBefore(s, FirstHit(hits))
  <1> DEFINE R == { p \in hits \X hits : RouteBefore(p[1], p[2]) }
  <1>1. \A r, s \in hits : <<r, s>> \in R <=> RouteBefore(r, s)
    OBVIOUS
  <1>2. \A r \in hits : /\ Len(r.prefix) \in Nat /\ r.priority \in Int
                        /\ Component(r.comp).rank \in Nat
    BY ComponentOf, RoutingAssumption
  <1>3. \A r \in hits : ~RouteBefore(r, r)
    BY <1>2 DEF RouteBefore
  <1>4. \A r, s, u \in hits : RouteBefore(r, s) /\ RouteBefore(s, u) => RouteBefore(r, u)
    BY <1>2 DEF RouteBefore
  <1>5. IsFiniteSet(hits)
    BY RoutingAssumption, FS_Subset
  <1> HIDE DEF R
  <1>6. \E r \in hits : \A s \in hits : <<s, r>> \notin R
    BY <1>1, <1>3, <1>4, <1>5, Minimal
  <1>7. \E r \in hits : \A s \in hits : ~RouteBefore(s, r)
    BY <1>1, <1>6
  <1> QED
    BY <1>7 DEF FirstHit

(* What a component forwards to is a sequence of different instances.      *)
LEMMA ForwardableIsPool ==
    ASSUME NEW table, NEW c, NEW lane, ServiceInstances(table, c) \subseteq Instances
    PROVE  IsPool(Forwardable(table, c, lane))
  <1> DEFINE eligible == SelectInstances(ServiceInstances(table, c), c)
             primaries == DropBackupsWhenPrimaryExists(eligible)
             pool == SelectPortPool(primaries, c.port)
  <1>1. eligible \subseteq Instances
    BY DEF SelectInstances
  <1>2. primaries \subseteq eligible
    BY DEF DropBackupsWhenPrimaryExists
  <1>3. pool \subseteq primaries
    BY DEF SelectPortPool
  <1>4. FilterInstancesByMeta(pool, lane) \subseteq pool
    BY DEF FilterInstancesByMeta
  <1>5. FilterInstancesByMeta(pool, lane) \in SUBSET Instances
    BY <1>1, <1>2, <1>3, <1>4
  <1>6. Forwardable(table, c, lane) = SortInstances(FilterInstancesByMeta(pool, lane))
    BY DEF Forwardable
  <1> QED
    BY <1>5, <1>6, SortedInstances

(* "Longest prefix wins" (routetable.go, sortRouteEntries and Lookup): the *)
(* target of a request belongs to a route of its domain that matches its   *)
(* path, and no route that matches has a longer prefix, or one as long and *)
(* a lower priority; there is a target when a route matches, and its       *)
(* instances are different instances.                                      *)
THEOREM LongestPrefixWins ==
    ASSUME NEW table, table.entries \subseteq Routes,
           \A s \in DOMAIN table.services : table.services[s] \subseteq Instances,
           NEW domain, NEW path, NEW lane
    PROVE  LET hits == Hits(table, domain, path)
               target == Lookup(table, domain, path, lane)
           IN  IF hits = {} THEN target = None
               ELSE /\ IsPool(target.instances)
                    /\ \E r \in hits : /\ target.comp = r.comp
                                       /\ \A s \in hits :
                                             /\ Len(s.prefix) <= Len(r.prefix)
                                             /\ Len(s.prefix) = Len(r.prefix) => r.priority <= s.priority
  <1> DEFINE hits == Hits(table, domain, path)
             target == Lookup(table, domain, path, lane)
             r == FirstHit(hits)
             c == Component(r.comp)
  <1>1. hits \in SUBSET Routes
    BY DEF Hits
  <1>2. CASE hits = {}
    BY <1>2 DEF Lookup
  <1>3. CASE hits # {}
    <2>1. r \in hits /\ \A s \in hits : ~RouteBefore(s, r)
      BY <1>1, <1>3, FirstHitExists
    <2>2. c.name = r.comp
      BY <1>1, <2>1, ComponentOf
    <2>3. target = [comp |-> c.name, instances |-> Forwardable(table, c, lane),
                    conflict |-> PortConflict(SelectInstances(ServiceInstances(table, c), c), c.port)]
      BY <1>3 DEF Lookup
    <2>4. target.comp = r.comp /\ target.instances = Forwardable(table, c, lane)
      BY <2>2, <2>3
    <2>5. IsPool(target.instances)
      <3>1. ServiceInstances(table, c) \subseteq Instances
        BY DEF ServiceInstances
      <3> QED
        BY <2>4, <3>1, ForwardableIsPool
    <2>6. \A s \in hits : /\ Len(s.prefix) <= Len(r.prefix)
                          /\ Len(s.prefix) = Len(r.prefix) => r.priority <= s.priority
      <3>1. \A s \in hits : Len(s.prefix) \in Nat /\ s.priority \in Int
        BY <1>1, RoutingAssumption
      <3> QED
        BY <2>1, <3>1 DEF RouteBefore
    <2> QED
      BY <1>3, <2>1, <2>4, <2>5, <2>6
  <1> QED
    BY <1>2, <1>3
-----------------------------------------------------------------------------
(***************************************************************************)
(* Picking.                                                                *)
(***************************************************************************)

LEMMA MinOf ==
    ASSUME NEW S \in SUBSET Nat, S # {}
    PROVE  Min(S) \in S
  BY LeastNumber DEF Min

LEMMA PoolFacts ==
    ASSUME NEW instances, IsPool(instances)
    PROVE  /\ DOMAIN instances = 1..Len(instances) /\ Len(instances) \in Nat
           /\ IsFiniteSet(DOMAIN instances) /\ Cardinality(DOMAIN instances) = Len(instances)
           /\ \A n \in DOMAIN instances :
                 /\ instances[n] \in Range(instances) /\ instances[n] \in Instances
                 /\ instances[n].addr \in Addrs
                 /\ WeightOf(instances[n]) \in Nat \ {0}
           /\ \A n, m \in DOMAIN instances : instances[n].addr = instances[m].addr => n = m
           /\ \A i \in Range(instances) : i \in Instances /\ \E n \in DOMAIN instances : i = instances[n]
  <1>1. DOMAIN instances = 1..Len(instances) /\ Len(instances) \in Nat
    BY DEF IsPool
  <1>2. IsFiniteSet(DOMAIN instances) /\ Cardinality(DOMAIN instances) = Len(instances)
    <2>1. /\ IsFiniteSet(1..Len(instances))
          /\ Cardinality(1..Len(instances)) = IF 1 > Len(instances) THEN 0 ELSE Len(instances) - 1 + 1
      BY <1>1, FS_Interval
    <2> QED
      BY <1>1, <2>1
  <1>3. \A n \in DOMAIN instances : instances[n] \in Instances
    BY <1>1 DEF IsPool
  <1>4. \A i \in Instances : WeightOf(i) \in Nat \ {0} /\ i.addr \in Addrs
    BY RoutingAssumption DEF WeightOf, Addrs
  <1>5. \A n, m \in DOMAIN instances : instances[n].addr = instances[m].addr => n = m
    BY <1>1, <1>3, RoutingAssumption DEF IsPool
  <1> QED
    BY <1>1, <1>2, <1>3, <1>4, <1>5 DEF Range

(* Different instances have different addresses.                           *)
AddressesOf(instances) == { i.addr : i \in Range(instances) }

LEMMA PoolAddresses ==
    ASSUME NEW instances, IsPool(instances)
    PROVE  /\ AddressesOf(instances) \subseteq Addrs /\ IsFiniteSet(AddressesOf(instances))
           /\ Cardinality(AddressesOf(instances)) = Len(instances)
  <1> DEFINE places == DOMAIN instances
             addrs == AddressesOf(instances)
             f == [n \in places |-> instances[n].addr]
  <1>1. addrs = { instances[n].addr : n \in places } /\ addrs \subseteq Addrs
    BY PoolFacts DEF AddressesOf
  <1>2. f \in Bijection(places, addrs)
    BY <1>1, PoolFacts DEF Bijection, Injection, Surjection, IsInjective
  <1> HIDE DEF places, addrs, f
  <1>3. ExistsBijection(places, addrs)
    BY <1>2 DEF ExistsBijection
  <1>4. IsFiniteSet(places) /\ Cardinality(places) = Len(instances)
    BY PoolFacts DEF places
  <1>5. IsFiniteSet(addrs) /\ Cardinality(addrs) = Len(instances)
    BY <1>3, <1>4, FS_Bijection
  <1> QED
    BY <1>1, <1>5 DEF addrs

LEMMA PickHashedPicks ==
    ASSUME NEW instances, IsPool(instances), Len(instances) > 0,
           NEW sticky, HashIndex[sticky] \in Nat
    PROVE  PickHashed(sticky, instances) \in Range(instances)
  <1>1. HashIndex[sticky] % Len(instances) \in 0..(Len(instances) - 1)
    BY PoolFacts
  <1>2. (HashIndex[sticky] % Len(instances)) + 1 \in DOMAIN instances
    BY <1>1, PoolFacts
  <1> QED
    BY <1>2 DEF PickHashed, Range

LEMMA PickLeastConnPicks ==
    ASSUME NEW instances, IsPool(instances), Len(instances) > 0,
           NEW inflight \in [Addrs -> Nat]
    PROVE  PickLeastConn(inflight, instances) \in Range(instances)
  <1> DEFINE conns(n) == inflight[instances[n].addr]
             weight(n) == WeightOf(instances[n])
             better(m, n) == conns(m) < conns(n) \/ (conns(m) = conns(n) /\ weight(m) > weight(n))
             places == DOMAIN instances
             R == { p \in places \X places : better(p[1], p[2]) }
             best == { n \in places : \A m \in places : ~better(m, n) }
  <1>1. /\ \A n \in places : conns(n) \in Nat /\ weight(n) \in Nat
        /\ IsFiniteSet(places) /\ places # {} /\ places \subseteq Nat
    BY PoolFacts
  <1>2. PickLeastConn(inflight, instances) = instances[Min(best)]
    BY Zenon DEF PickLeastConn
  <1> HIDE DEF conns, weight, places
  <1>3. \A m, n \in places : <<m, n>> \in R <=> better(m, n)
    OBVIOUS
  <1> HIDE DEF R
  <1>4. \A n \in places : <<n, n>> \notin R
    BY <1>1, <1>3
  <1>5. \A l, m, n \in places : <<l, m>> \in R /\ <<m, n>> \in R => <<l, n>> \in R
    <2>1. \A l, m, n \in places : better(l, m) /\ better(m, n) => better(l, n)
      BY <1>1
    <2> HIDE DEF better
    <2> QED
      BY <1>3, <2>1
  <1> HIDE DEF better
  <1>6. \E n \in places : \A m \in places : <<m, n>> \notin R
    BY <1>1, <1>4, <1>5, Minimal
  <1>7. Min(best) \in best
    BY <1>1, <1>3, <1>6, MinOf
  <1> QED
    BY <1>2, <1>7 DEF Range, places

LEMMA HighestExists ==
    ASSUME NEW instances, IsPool(instances), Len(instances) > 0, NEW current \in [Addrs -> Int]
    PROVE  LET n == FirstHighest(current, instances)
           IN  /\ n \in DOMAIN instances
               /\ \A m \in DOMAIN instances : current[instances[m].addr] <= current[instances[n].addr]
  <1> DEFINE value(n) == current[instances[n].addr]
             places == DOMAIN instances
             R == { p \in places \X places : value(p[1]) > value(p[2]) }
             best == { n \in places : \A m \in places : value(m) <= value(n) }
  <1>1. /\ \A n \in places : value(n) \in Int
        /\ IsFiniteSet(places) /\ places # {} /\ places \subseteq Nat
    BY PoolFacts
  <1>2. FirstHighest(current, instances) = Min(best)
    BY DEF FirstHighest
  <1> HIDE DEF value, places
  <1>3. \A m, n \in places : <<m, n>> \in R <=> value(m) > value(n)
    OBVIOUS
  <1> HIDE DEF R
  <1>4. \A n \in places : <<n, n>> \notin R
    BY <1>1, <1>3
  <1>5. ASSUME NEW l \in places, NEW m \in places, NEW n \in places, <<l, m>> \in R, <<m, n>> \in R
        PROVE  <<l, n>> \in R
    <2>1. value(l) > value(m) /\ value(m) > value(n)
      BY <1>3, <1>5
    <2>2. value(l) > value(n)
      BY <1>1, <2>1
    <2> QED
      BY <1>3, <2>2
  <1>6. PICK n \in places : \A m \in places : <<m, n>> \notin R
    BY <1>1, <1>4, <1>5, Minimal
  <1>7. ASSUME NEW m \in places PROVE value(m) <= value(n)
    <2>1. ~(value(m) > value(n))
      BY <1>3, <1>6
    <2> QED
      BY <1>1, <2>1
  <1>8. Min(best) \in best
    BY <1>1, <1>7, MinOf
  <1> QED
    BY <1>2, <1>8 DEF value, places
-----------------------------------------------------------------------------
(***************************************************************************)
(* Sums of the first n numbers.                                            *)
(***************************************************************************)

IsSum(s, f, N) == s \in [0..N -> Int] /\ s[0] = 0 /\ \A n \in 1..N : s[n] = s[n - 1] + f[n]

(* The recursive function of the weights exists, and sums them up.         *)
LEMMA WeightSumsOK ==
    ASSUME NEW instances, IsPool(instances)
    PROVE  IsSum(WeightSums(instances), [n \in 1..Len(instances) |-> WeightOf(instances[n])], Len(instances))
  <1> DEFINE N == Len(instances)
             w(n) == WeightOf(instances[n])
             next(f, m) == [n \in 0..m |-> IF n = 0 THEN 0 ELSE f[n - 1] + w(n)]
             s == WeightSums(instances)
  <1>1. N \in Nat /\ \A n \in 1..N : w(n) \in Nat
    BY PoolFacts
  <1>2. s = CHOOSE f : f = next(f, N)
    BY DEF WeightSums
  <1> HIDE DEF N, w, s
  <1>3. \E f : f = next(f, N)
    <2> DEFINE good == { m \in 0..N : \E f : f = next(f, m) }
    <2>1. 0 \in good
      <3> DEFINE f == [n \in 0..0 |-> 0]
      <3>1. f = next(f, 0)
        OBVIOUS
      <3> HIDE DEF f, next
      <3>2. \E g : g = next(g, 0)
        BY <3>1
      <3> QED
        BY <1>1, <3>2
    <2>2. ASSUME NEW m \in 0..(N - 1), m \in good PROVE m + 1 \in good
      <3>1. PICK f : f = next(f, m)
        BY <2>2
      <3> DEFINE g == [n \in 0..(m + 1) |-> IF n = m + 1 THEN f[m] + w(m + 1) ELSE f[n]]
      <3>2. ASSUME NEW n \in 0..(m + 1) PROVE g[n] = IF n = 0 THEN 0 ELSE g[n - 1] + w(n)
        <4>1. CASE n = m + 1
          BY <1>1, <4>1
        <4>2. CASE n # m + 1
          BY <1>1, <3>1, <4>2
        <4> QED
          BY <4>1, <4>2
      <3>3. g = next(g, m + 1)
        BY <3>2
      <3> HIDE DEF g, next
      <3>4. \E h : h = next(h, m + 1)
        BY <3>3
      <3>5. m + 1 \in 0..N
        BY <1>1
      <3> QED
        BY <3>4, <3>5
    <2> HIDE DEF good
    <2>3. 0..N \subseteq good
      BY <1>1, <2>1, <2>2, Induction
    <2>4. N \in good
      BY <1>1, <2>3
    <2> QED
      BY <2>4 DEF good
  <1>4. s = next(s, N)
    <2> HIDE DEF next
    <2> QED
      BY <1>2, <1>3, Zenon
  <1>5. \A n \in 0..N : s[n] = IF n = 0 THEN 0 ELSE s[n - 1] + w(n)
    BY <1>4
  <1>6. s = [n \in 0..N |-> s[n]]
    BY <1>4
  <1> HIDE DEF next
  <1>7. \A n \in 0..N : s[n] \in Int
    <2> DEFINE good == { n \in 0..N : s[n] \in Int }
    <2>1. 0 \in good
      BY <1>1, <1>5
    <2>2. ASSUME NEW n \in 0..(N - 1), n \in good PROVE n + 1 \in good
      <3>1. n + 1 \in 0..N /\ n + 1 \in 1..N /\ n + 1 # 0 /\ (n + 1) - 1 = n
        BY <1>1
      <3>2. s[n + 1] = s[n] + w(n + 1)
        BY <1>5, <3>1
      <3> QED
        BY <1>1, <2>2, <3>1, <3>2
    <2> HIDE DEF good
    <2>3. 0..N \subseteq good
      BY <1>1, <2>1, <2>2, Induction
    <2> QED
      BY <2>3 DEF good
  <1>8. s[0] = 0 /\ \A n \in 1..N : s[n] = s[n - 1] + w(n)
    BY <1>1, <1>5
  <1>9. s \in [0..N -> Int]
    BY <1>6, <1>7
  <1>10. IsSum(s, [n \in 1..N |-> w(n)], N)
    BY <1>8, <1>9 DEF IsSum
  <1> QED
    BY <1>10 DEF s, w, N

LEMMA ProductsAdd ==
    ASSUME NEW p \in Int, NEW q \in Int, NEW a \in Int, NEW b \in Int, NEW c \in Int, NEW d \in Int,
           p * a <= q * b, p * c <= q * d
    PROVE  p * (a + c) <= q * (b + d)
  <1>1. p * (a + c) = p * a + p * c /\ q * (b + d) = q * b + q * d
    OBVIOUS
  <1>2. p * a \in Int /\ p * c \in Int /\ q * b \in Int /\ q * d \in Int
    OBVIOUS
  <1> QED
    BY <1>1, <1>2

(* If no term of one sum is above the term of another, then the sum isn't. *)
LEMMA SumAtMost ==
    ASSUME NEW N \in Nat, NEW f \in [1..N -> Int], NEW g \in [1..N -> Int],
           NEW s, IsSum(s, f, N), NEW t, IsSum(t, g, N),
           NEW p \in Int, NEW q \in Int, \A n \in 1..N : p * f[n] <= q * g[n]
    PROVE  p * s[N] <= q * t[N]
  <1> DEFINE good == { n \in 0..N : p * s[n] <= q * t[n] }
  <1>1. 0 \in good
    BY DEF IsSum
  <1>2. ASSUME NEW n \in 0..(N - 1), n \in good PROVE n + 1 \in good
    <2>1. n + 1 \in 1..N /\ n \in 0..N /\ n + 1 \in 0..N /\ (n + 1) - 1 = n
      OBVIOUS
    <2>2. s[n + 1] = s[n] + f[n + 1] /\ t[n + 1] = t[n] + g[n + 1]
      BY <2>1 DEF IsSum
    <2>3. s[n] \in Int /\ t[n] \in Int /\ f[n + 1] \in Int /\ g[n + 1] \in Int
      BY <2>1 DEF IsSum
    <2>4. p * s[n] <= q * t[n] /\ p * f[n + 1] <= q * g[n + 1]
      BY <1>2, <2>1
    <2>5. p * (s[n] + f[n + 1]) <= q * (t[n] + g[n + 1])
      BY <2>3, <2>4, ProductsAdd
    <2> QED
      BY <2>1, <2>2, <2>5
  <1> HIDE DEF good
  <1>3. 0..N \subseteq good
    BY <1>1, <1>2, Induction
  <1> QED
    BY <1>3 DEF good

(* And if the sums are equal then the terms are.                           *)
AtMost(f, g, N) ==
    N \in Nat /\ f \in [1..N -> Int] /\ g \in [1..N -> Int] /\ \A n \in 1..N : f[n] <= g[n]

LEMMA SumsEqual ==
    ASSUME NEW N, NEW f, NEW g, AtMost(f, g, N),
           NEW s, IsSum(s, f, N), NEW t, IsSum(t, g, N), s[N] = t[N]
    PROVE  \A k \in 1..N : f[k] = g[k]
  <1> SUFFICES ASSUME NEW k \in 1..N PROVE f[k] = g[k]
    OBVIOUS
  <1> USE DEF AtMost
  <1> DEFINE gap(n) == t[n] - s[n]
             least(n) == IF n >= k THEN g[k] - f[k] ELSE 0
             good == { n \in 0..N : gap(n) >= least(n) }
  <1>1. 0 \in good
    BY DEF IsSum
  <1>2. ASSUME NEW n \in 0..(N - 1), n \in good PROVE n + 1 \in good
    <2>1. n + 1 \in 1..N /\ n \in 0..N /\ n + 1 \in 0..N /\ (n + 1) - 1 = n
      OBVIOUS
    <2>2. s[n + 1] = s[n] + f[n + 1] /\ t[n + 1] = t[n] + g[n + 1]
      BY <2>1 DEF IsSum
    <2>3. /\ s[n] \in Int /\ t[n] \in Int /\ f[n + 1] \in Int /\ g[n + 1] \in Int
          /\ f[k] \in Int /\ g[k] \in Int /\ f[n + 1] <= g[n + 1]
      BY <2>1 DEF IsSum
    <2>4. gap(n) >= least(n)
      BY <1>2
    <2>5. gap(n + 1) = gap(n) + (g[n + 1] - f[n + 1])
      BY <2>2, <2>3
    <2>6. gap(n + 1) >= least(n + 1)
      <3>1. gap(n) \in Int /\ gap(n + 1) \in Int /\ gap(n + 1) >= gap(n)
        BY <2>3, <2>5
      <3> HIDE DEF gap
      <3>2. CASE n + 1 = k
        <4>1. least(n) = 0 /\ least(n + 1) = g[k] - f[k]
          BY <3>2
        <4>2. gap(n + 1) = gap(n) + (g[k] - f[k])
          BY <2>5, <3>2
        <4> HIDE DEF least
        <4> QED
          BY <2>3, <2>4, <3>1, <4>1, <4>2
      <3>3. CASE n + 1 # k
        <4>1. least(n + 1) = least(n) /\ least(n) \in Int
          BY <2>3, <3>3
        <4> QED
          BY <2>4, <3>1, <4>1
      <3> QED
        BY <3>2, <3>3
    <2> QED
      BY <2>1, <2>6
  <1> HIDE DEF good
  <1>3. 0..N \subseteq good
    BY <1>1, <1>2, Induction
  <1>4. gap(N) = 0 /\ gap(N) >= g[k] - f[k]
    BY <1>3 DEF good, IsSum
  <1>5. f[k] <= g[k] /\ f[k] \in Int /\ g[k] \in Int
    OBVIOUS
  <1> QED
    BY <1>4, <1>5

(* One more in one place is one more in the sum.                           *)
LEMMA SumPlusOne ==
    ASSUME NEW N \in Nat, NEW f \in [1..N -> Int], NEW s, IsSum(s, f, N),
           NEW b \in 1..N, NEW g, \A n \in 1..N : g[n] = IF n = b THEN f[n] + 1 ELSE f[n]
    PROVE  \E t : IsSum(t, g, N) /\ t[N] = s[N] + 1
  <1> DEFINE t == [n \in 0..N |-> IF n >= b THEN s[n] + 1 ELSE s[n]]
  <1>1. \A n \in 0..N : s[n] \in Int
    BY DEF IsSum
  <1>2. t \in [0..N -> Int] /\ t[0] = 0 /\ t[N] = s[N] + 1
    BY <1>1 DEF IsSum
  <1>3. ASSUME NEW n \in 1..N PROVE t[n] = t[n - 1] + g[n]
    <2>1. n - 1 \in 0..N /\ n \in 0..N /\ f[n] \in Int /\ s[n] = s[n - 1] + f[n]
      BY DEF IsSum
    <2>2. CASE n = b
      BY <1>1, <2>1, <2>2
    <2>3. CASE n > b
      BY <1>1, <2>1, <2>3
    <2>4. CASE n < b
      BY <1>1, <2>1, <2>4
    <2> QED
      BY <2>2, <2>3, <2>4
  <1> HIDE DEF t
  <1> QED
    BY <1>2, <1>3 DEF IsSum
-----------------------------------------------------------------------------
(***************************************************************************)
(* Smooth weighted round robin.                                            *)
(***************************************************************************)

(* After t of the picks of a round that began with even balances: got is   *)
(* how often each address was picked.                                      *)
Fair(current, got, t, instances) ==
    /\ current \in [Addrs -> Int] /\ got \in [Addrs -> Nat]
    /\ \A n \in DOMAIN instances :
          LET a == instances[n].addr
              w == WeightOf(instances[n])
          IN  got[a] <= w /\ current[a] = t * w - TotalWeight(instances) * got[a]
    /\ \A a \in Addrs : (\A n \in DOMAIN instances : instances[n].addr # a) => current[a] = 0
    /\ \E s : IsSum(s, [n \in 1..Len(instances) |-> got[instances[n].addr]], Len(instances)) /\ s[Len(instances)] = t

LEMMA TotalWeightFacts ==
    ASSUME NEW instances, IsPool(instances), Len(instances) > 0
    PROVE  TotalWeight(instances) \in Nat \ {0}
  <1> DEFINE N == Len(instances)
             w == [n \in 1..N |-> WeightOf(instances[n])]
             s == WeightSums(instances)
             one == [n \in 1..N |-> 1]
             good == { n \in 0..N : s[n] >= n }
  <1>1. N \in Nat /\ N > 0 /\ \A n \in 1..N : w[n] \in Nat \ {0}
    BY PoolFacts
  <1>2. IsSum(s, w, N)
    BY WeightSumsOK
  <1> HIDE DEF N, w, s
  <1>3. 0 \in good
    BY <1>1, <1>2 DEF IsSum
  <1>4. ASSUME NEW n \in 0..(N - 1), n \in good PROVE n + 1 \in good
    <2>1. n + 1 \in 1..N /\ n \in 0..N /\ n + 1 \in 0..N /\ (n + 1) - 1 = n
      BY <1>1
    <2>2. s[n + 1] = s[n] + w[n + 1] /\ s[n] \in Int /\ w[n + 1] >= 1 /\ w[n + 1] \in Nat
      BY <1>1, <1>2, <2>1 DEF IsSum
    <2> QED
      BY <1>4, <2>1, <2>2
  <1> HIDE DEF good
  <1>5. 0..N \subseteq good
    BY <1>1, <1>3, <1>4, Induction
  <1>6. N \in good
    BY <1>1, <1>5
  <1>7. s[N] \in Int /\ s[N] >= N
    BY <1>1, <1>2, <1>6 DEF IsSum, good
  <1>8. TotalWeight(instances) = s[N]
    BY DEF TotalWeight, s, N
  <1> QED
    BY <1>1, <1>7, <1>8

(* Exact arithmetic of a winner: it had not yet got its share.             *)
LEMMA NotYetDue ==
    ASSUME NEW T \in Nat, NEW t \in Nat, t < T, NEW w \in Nat \ {0}, NEW g \in Nat,
           ~((t + 1) * w <= T * g)
    PROVE  g + 1 <= w
  <1> SUFFICES ASSUME w <= g PROVE FALSE
    OBVIOUS
  <1>1. (t + 1) * w <= T * w
    OBVIOUS
  <1>2. T * w <= T * g
    OBVIOUS
  <1>3. (t + 1) * w \in Int /\ T * w \in Int /\ T * g \in Int
    OBVIOUS
  <1> QED
    BY <1>1, <1>2, <1>3
LEMMA GainedFacts ==
    ASSUME NEW instances, IsPool(instances), NEW current \in [Addrs -> Int]
    PROVE  /\ Gained(current, instances) \in [Addrs -> Int]
           /\ \A n \in DOMAIN instances :
                 Gained(current, instances)[instances[n].addr] =
                     current[instances[n].addr] + WeightOf(instances[n])
           /\ \A a \in Addrs : (\A n \in DOMAIN instances : instances[n].addr # a) =>
                 Gained(current, instances)[a] = current[a]
  <1> DEFINE gains == { i.addr : i \in Range(instances) }
             gained == Gained(current, instances)
  <1>1. gained = [a \in Addrs |-> IF a \in gains THEN current[a] + WeightOf(Instance(a)) ELSE current[a]]
    BY DEF Gained
  <1>2. \A n \in DOMAIN instances : instances[n].addr \in gains /\ instances[n].addr \in Addrs
    BY PoolFacts
  <1>3. \A a \in gains : \E n \in DOMAIN instances : instances[n].addr = a
    BY PoolFacts
  <1>4. \A n \in DOMAIN instances : Instance(instances[n].addr) = instances[n]
    <2>1. \A i \in Instances : Instance(i.addr) = i
      BY RoutingAssumption DEF Instance
    <2> QED
      BY <2>1, PoolFacts
  <1> HIDE DEF gains, gained
  <1>5. \A a \in gains : WeightOf(Instance(a)) \in Nat
    BY <1>3, <1>4, PoolFacts
  <1>6. gained \in [Addrs -> Int]
    BY <1>1, <1>5
  <1>7. \A n \in DOMAIN instances :
           gained[instances[n].addr] = current[instances[n].addr] + WeightOf(instances[n])
    BY <1>1, <1>2, <1>4
  <1>8. \A a \in Addrs : (\A n \in DOMAIN instances : instances[n].addr # a) => gained[a] = current[a]
    BY <1>1, <1>3
  <1> QED
    BY <1>6, <1>7, <1>8 DEF gained

LEMMA PickRoundRobinPicks ==
    ASSUME NEW instances, IsPool(instances), Len(instances) > 0, NEW current \in [Addrs -> Int]
    PROVE  /\ PickRoundRobin(current, instances).instance \in Range(instances)
           /\ PickRoundRobin(current, instances).current \in [Addrs -> Int]
  <1> DEFINE gained == Gained(current, instances)
             best == instances[FirstHighest(gained, instances)]
             T == TotalWeight(instances)
  <1>1. gained \in [Addrs -> Int] /\ T \in Int
    BY GainedFacts, TotalWeightFacts
  <1>2. best \in Range(instances) /\ best.addr \in Addrs
    BY <1>1, HighestExists, PoolFacts
  <1>3. PickRoundRobin(current, instances) =
           [instance |-> best, current |-> [gained EXCEPT ![best.addr] = gained[best.addr] - T]]
    BY DEF PickRoundRobin
  <1> HIDE DEF gained, best, T
  <1> QED
    BY <1>1, <1>2, <1>3

LEMMA GainArithmetic ==
    ASSUME NEW t \in Int, NEW w \in Int, NEW T \in Int, NEW g \in Int
    PROVE  /\ (t * w - T * g) + w = (t + 1) * w - T * g
           /\ ((t + 1) * w - T * g) - T = (t + 1) * w - T * (g + 1)
           /\ (t + 1) * w - T * g \in Int
           /\ (t + 1) * w - T * g <= 0 <=> (t + 1) * w <= T * g
  <1>1. (t + 1) * w = t * w + w /\ T * (g + 1) = T * g + T
    OBVIOUS
  <1>2. t * w \in Int /\ T * g \in Int /\ (t + 1) * w \in Int /\ T * (g + 1) \in Int
    OBVIOUS
  <1> QED
    BY <1>1, <1>2

(* One pick of a round is fair: the one with the highest balance had not   *)
(* yet got as many as its weight, for the balances sum up to more than 0.  *)
LEMMA PickIsFair ==
    ASSUME NEW instances, IsPool(instances), Len(instances) > 0,
           NEW t \in Nat, t < TotalWeight(instances),
           NEW x, Fair(x.current, x.got, t, instances)
    PROVE  Fair(CountedPick(x, instances).current, CountedPick(x, instances).got, t + 1, instances)
  <1> DEFINE current == x.current
             got == x.got
             N == Len(instances)
             T == TotalWeight(instances)
             addr(n) == instances[n].addr
             w(n) == WeightOf(instances[n])
             g(n) == got[addr(n)]
             ws == [n \in 1..N |-> w(n)]
             gs == [n \in 1..N |-> g(n)]
             gained == Gained(current, instances)
             b == FirstHighest(gained, instances)
             after == [gained EXCEPT ![addr(b)] = gained[addr(b)] - T]
             more == [got EXCEPT ![addr(b)] = got[addr(b)] + 1]
  <1>1. /\ N \in Nat /\ N > 0 /\ DOMAIN instances = 1..N
        /\ \A n \in 1..N : addr(n) \in Addrs /\ w(n) \in Nat \ {0}
        /\ \A n, m \in 1..N : addr(n) = addr(m) => n = m
    BY PoolFacts
  <1>2. T \in Nat \ {0}
    BY TotalWeightFacts
  <1>3. current \in [Addrs -> Int] /\ got \in [Addrs -> Nat]
    BY DEF Fair
  <1>4. \A n \in 1..N : g(n) \in Nat /\ g(n) <= w(n) /\ current[addr(n)] = t * w(n) - T * g(n)
    BY <1>1, <1>3 DEF Fair
  <1>5. PICK s : IsSum(s, gs, N) /\ s[N] = t
    BY DEF Fair
  <1>6. /\ gained \in [Addrs -> Int]
        /\ \A n \in 1..N : gained[addr(n)] = current[addr(n)] + w(n)
        /\ \A a \in Addrs : (\A n \in 1..N : addr(n) # a) => gained[a] = 0
    <2>1. \A a \in Addrs : (\A n \in 1..N : addr(n) # a) => current[a] = 0
      BY <1>1 DEF Fair
    <2>2. /\ gained \in [Addrs -> Int]
          /\ \A n \in DOMAIN instances : gained[addr(n)] = current[addr(n)] + w(n)
          /\ \A a \in Addrs : (\A n \in DOMAIN instances : addr(n) # a) => gained[a] = current[a]
      BY <1>3, GainedFacts
    <2> HIDE DEF gained, addr, w, N
    <2> QED
      BY <1>1, <2>1, <2>2
  <1>7. /\ b \in 1..N
        /\ \A n \in 1..N : gained[addr(n)] <= gained[addr(b)]
    BY <1>1, <1>6, HighestExists
  <1>8. CountedPick(x, instances).current = after /\ CountedPick(x, instances).got = more
    BY DEF PickRoundRobin, CountedPick
  <1>9. IsSum(WeightSums(instances), ws, N) /\ WeightSums(instances)[N] = T
    BY WeightSumsOK DEF TotalWeight
  <1>10. ws \in [1..N -> Int] /\ gs \in [1..N -> Int]
    BY <1>1, <1>4
  <1>11. \A n \in 1..N : ws[n] = w(n) /\ gs[n] = g(n)
    OBVIOUS
  <1> HIDE DEF current, got, N, T, addr, w, g, ws, gs, gained, b
  <1>12. \A n \in 1..N : gained[addr(n)] = (t + 1) * w(n) - T * g(n)
    <2> SUFFICES ASSUME NEW n \in 1..N PROVE gained[addr(n)] = (t + 1) * w(n) - T * g(n)
      OBVIOUS
    <2>1. t \in Int /\ w(n) \in Int /\ T \in Int /\ g(n) \in Int
      BY <1>1, <1>2, <1>4
    <2>2. (t * w(n) - T * g(n)) + w(n) = (t + 1) * w(n) - T * g(n)
      BY <2>1, GainArithmetic
    <2>3. gained[addr(n)] = current[addr(n)] + w(n) /\ current[addr(n)] = t * w(n) - T * g(n)
      BY <1>4, <1>6
    <2> QED
      BY <2>2, <2>3
  <1>13. ASSUME NEW n \in 1..N PROVE gained[addr(n)] <= 0 <=> (t + 1) * w(n) <= T * g(n)
    <2>1. t \in Int /\ w(n) \in Int /\ T \in Int /\ g(n) \in Int
      BY <1>1, <1>2, <1>4
    <2>2. (t + 1) * w(n) - T * g(n) <= 0 <=> (t + 1) * w(n) <= T * g(n)
      BY <2>1, GainArithmetic
    <2> QED
      BY <1>12, <2>2
  <1>14. \E n \in 1..N : ~((t + 1) * w(n) <= T * g(n))
    <2> SUFFICES ASSUME \A n \in 1..N : (t + 1) * w(n) <= T * g(n) PROVE FALSE
      OBVIOUS
    <2>1. (t + 1) * T <= T * t
      <3>1. \A n \in 1..N : (t + 1) * ws[n] <= T * gs[n]
        BY <1>11
      <3>2. t + 1 \in Int /\ T \in Int
        BY <1>2
      <3> QED
        BY <1>1, <1>5, <1>9, <1>10, <3>1, <3>2, SumAtMost
    <2>2. (t + 1) * T = T * t + T /\ T * t \in Int
      BY <1>2
    <2> QED
      BY <1>2, <2>1, <2>2
  <1>15. g(b) + 1 <= w(b)
    <2>1. PICK n \in 1..N : ~((t + 1) * w(n) <= T * g(n))
      BY <1>14
    <2>2. ~(gained[addr(n)] <= 0)
      BY <1>13, <2>1
    <2>3. gained[addr(n)] \in Int /\ gained[addr(b)] \in Int
      BY <1>1, <1>6, <1>7
    <2>4. ~(gained[addr(b)] <= 0)
      BY <1>7, <2>2, <2>3
    <2>5. ~((t + 1) * w(b) <= T * g(b))
      BY <1>7, <1>13, <2>4
    <2>6. t < T
      BY DEF T
    <2> QED
      BY <1>1, <1>2, <1>4, <1>7, <2>5, <2>6, NotYetDue
  <1>16. after \in [Addrs -> Int] /\ more \in [Addrs -> Nat]
    <2>1. gained[addr(b)] - T \in Int /\ got[addr(b)] + 1 \in Nat
      <3>1. addr(b) \in Addrs
        BY <1>1, <1>7
      <3>2. gained[addr(b)] \in Int /\ got[addr(b)] \in Nat
        BY <1>3, <1>6, <3>1
      <3> QED
        BY <1>2, <3>2
    <2> QED
      BY <1>3, <1>6, <2>1
  <1>17. \A n \in 1..N : /\ more[addr(n)] = IF n = b THEN g(n) + 1 ELSE g(n)
                         /\ after[addr(n)] = IF n = b THEN gained[addr(n)] - T ELSE gained[addr(n)]
    BY <1>1, <1>3, <1>6, <1>7 DEF g
  <1>18. \A a \in Addrs : (\A n \in 1..N : addr(n) # a) => after[a] = 0
    BY <1>6, <1>7
  <1> HIDE DEF after, more
  <1>19. ASSUME NEW n \in 1..N
         PROVE  more[addr(n)] <= w(n) /\ after[addr(n)] = (t + 1) * w(n) - T * more[addr(n)]
    <2>1. CASE n = b
      <3>1. more[addr(n)] = g(n) + 1 /\ after[addr(n)] = ((t + 1) * w(n) - T * g(n)) - T
        BY <1>12, <1>17, <2>1
      <3>2. t \in Int /\ w(n) \in Int /\ T \in Int /\ g(n) \in Int
        BY <1>1, <1>2, <1>4
      <3>3. ((t + 1) * w(n) - T * g(n)) - T = (t + 1) * w(n) - T * (g(n) + 1)
        BY <3>2, GainArithmetic
      <3> QED
        BY <1>15, <2>1, <3>1, <3>3
    <2>2. CASE n # b
      BY <1>4, <1>12, <1>17, <2>2
    <2> QED
      BY <2>1, <2>2
  <1>20. \E u : IsSum(u, [n \in 1..N |-> more[addr(n)]], N) /\ u[N] = t + 1
    <2> DEFINE ms == [n \in 1..N |-> more[addr(n)]]
    <2>1. \A n \in 1..N : ms[n] = IF n = b THEN gs[n] + 1 ELSE gs[n]
      BY <1>11, <1>17
    <2> HIDE DEF ms
    <2>2. IsSum(s, gs, N) /\ N \in Nat /\ b \in 1..N /\ gs \in [1..N -> Int]
      BY <1>1, <1>5, <1>7, <1>10
    <2>3. \E u : IsSum(u, ms, N) /\ u[N] = s[N] + 1
      BY <2>1, <2>2, SumPlusOne
    <2> QED
      BY <1>5, <2>3 DEF ms
  <1>21. Fair(after, more, t + 1, instances)
    BY <1>1, <1>16, <1>18, <1>19, <1>20 DEF Fair, N, T, addr, w
  <1> QED
    BY <1>8, <1>21
(* The recursive function of a round exists.                               *)
LEMMA RoundIs ==
    ASSUME NEW instances, IsPool(instances), Len(instances) > 0, NEW current
    PROVE  LET run == Round(current, instances)
           IN  /\ run[0] = [current |-> current, got |-> [a \in Addrs |-> 0]]
               /\ \A t \in 0..(TotalWeight(instances) - 1) : run[t + 1] = CountedPick(run[t], instances)
  <1> DEFINE T == TotalWeight(instances)
             zero == [current |-> current, got |-> [a \in Addrs |-> 0]]
             pick(x) == CountedPick(x, instances)
             next(f, m) == [t \in 0..m |-> IF t = 0 THEN zero ELSE pick(f[t - 1])]
             run == Round(current, instances)
  <1>1. T \in Nat
    BY TotalWeightFacts
  <1>2. run = CHOOSE f : f = next(f, T)
    BY DEF Round
  <1> HIDE DEF T, zero, pick, run
  <1>3. \E f : f = next(f, T)
    <2> DEFINE good == { m \in 0..T : \E f : f = next(f, m) }
    <2>1. 0 \in good
      <3> DEFINE f == [t \in 0..0 |-> zero]
      <3>1. f = next(f, 0)
        OBVIOUS
      <3> HIDE DEF f, next
      <3>2. \E g : g = next(g, 0)
        BY <3>1
      <3> QED
        BY <1>1, <3>2
    <2>2. ASSUME NEW m \in 0..(T - 1), m \in good PROVE m + 1 \in good
      <3>1. PICK f : f = next(f, m)
        BY <2>2
      <3> DEFINE g == [t \in 0..(m + 1) |-> IF t = m + 1 THEN pick(f[m]) ELSE f[t]]
      <3>2. ASSUME NEW t \in 0..(m + 1) PROVE g[t] = IF t = 0 THEN zero ELSE pick(g[t - 1])
        <4>1. CASE t = m + 1
          BY <1>1, <4>1
        <4>2. CASE t # m + 1
          BY <1>1, <3>1, <4>2
        <4> QED
          BY <4>1, <4>2
      <3>3. g = next(g, m + 1)
        BY <3>2
      <3> HIDE DEF g, next
      <3>4. \E h : h = next(h, m + 1)
        BY <3>3
      <3>5. m + 1 \in 0..T
        BY <1>1
      <3> QED
        BY <3>4, <3>5
    <2> HIDE DEF good
    <2>3. 0..T \subseteq good
      BY <1>1, <2>1, <2>2, Induction
    <2>4. T \in good
      BY <1>1, <2>3
    <2> QED
      BY <2>4 DEF good
  <1>4. run = next(run, T)
    <2> HIDE DEF next
    <2> QED
      BY <1>2, <1>3, Zenon
  <1>5. \A t \in 0..T : run[t] = IF t = 0 THEN zero ELSE pick(run[t - 1])
    BY <1>4
  <1>6. run[0] = zero
    BY <1>1, <1>5
  <1>7. ASSUME NEW t \in 0..(T - 1) PROVE run[t + 1] = pick(run[t])
    <2>1. t + 1 \in 0..T /\ t + 1 # 0 /\ (t + 1) - 1 = t
      BY <1>1
    <2> QED
      BY <1>5, <2>1
  <1> QED
    BY <1>6, <1>7 DEF T, zero, pick, run

(* Smooth weighted round robin, for any instances and weights: over a      *)
(* round of as many picks as the weights sum up to, from even balances,    *)
(* each instance is picked as often as its weight says, and the balances   *)
(* are even again (lb.go, pickRoundRobin).                                 *)
THEOREM WeightedShares ==
    ASSUME NEW instances, IsPool(instances), Len(instances) > 0
    PROVE  LET even == [a \in Addrs |-> 0]
               end == Round(even, instances)[TotalWeight(instances)]
           IN  /\ end.current = even
               /\ \A i \in Range(instances) : end.got[i.addr] = WeightOf(i)
  <1> DEFINE even == [a \in Addrs |-> 0]
             run == Round(even, instances)
             T == TotalWeight(instances)
             N == Len(instances)
             fair(x, t) == Fair(x.current, x.got, t, instances)
             good == { t \in 0..T : fair(run[t], t) }
  <1>1. T \in Nat \ {0}
    BY TotalWeightFacts
  <1>2. /\ N \in Nat /\ DOMAIN instances = 1..N
        /\ \A n \in 1..N : instances[n].addr \in Addrs /\ WeightOf(instances[n]) \in Nat \ {0}
    BY PoolFacts
  <1>3. 0 \in good
    <2>1. Fair(even, even, 0, instances)
      <3>1. even \in [Addrs -> Int] /\ even \in [Addrs -> Nat] /\ \A a \in Addrs : even[a] = 0
        OBVIOUS
      <3>2. ASSUME NEW n \in 1..N
            PROVE  /\ even[instances[n].addr] <= WeightOf(instances[n])
                   /\ even[instances[n].addr] = 0 * WeightOf(instances[n]) - T * even[instances[n].addr]
        BY <1>1, <1>2, <3>1
      <3>3. \E s : IsSum(s, [n \in 1..N |-> even[instances[n].addr]], N) /\ s[N] = 0
        <4> DEFINE s == [n \in 0..N |-> 0]
                   zeros == [n \in 1..N |-> even[instances[n].addr]]
        <4>1. \A n \in 1..N : zeros[n] = 0
          BY <1>2, <3>1
        <4>2. s \in [0..N -> Int] /\ \A n \in 0..N : s[n] = 0
          OBVIOUS
        <4> HIDE DEF s, zeros
        <4>3. IsSum(s, zeros, N)
          BY <1>2, <4>1, <4>2 DEF IsSum
        <4>4. s[N] = 0
          BY <1>2, <4>2
        <4>5. \E u : IsSum(u, zeros, N) /\ u[N] = 0
          BY <4>3, <4>4
        <4> QED
          BY <4>5 DEF zeros
      <3> HIDE DEF even
      <3> QED
        BY <1>2, <3>1, <3>2, <3>3 DEF Fair
    <2>2. run[0].current = even /\ run[0].got = even
      <3>1. run[0] = [current |-> even, got |-> even]
        BY RoundIs, Zenon
      <3> HIDE DEF run, even
      <3> QED
        BY <3>1
    <2> QED
      BY <1>1, <2>1, <2>2
  <1>4. ASSUME NEW t \in 0..(T - 1), t \in good PROVE t + 1 \in good
    <2>1. t \in Nat /\ t < T /\ t + 1 \in 0..T
      BY <1>1
    <2>2. Fair(run[t].current, run[t].got, t, instances)
      BY <1>4
    <2>3. run[t + 1] = CountedPick(run[t], instances)
      BY RoundIs, Zenon
    <2> HIDE DEF run
    <2>4. fair(run[t + 1], t + 1)
      BY <2>1, <2>2, <2>3, PickIsFair
    <2> QED
      BY <2>1, <2>4
  <1> HIDE DEF good
  <1>5. 0..T \subseteq good
    BY <1>1, <1>3, <1>4, Induction
  <1>6. T \in good
    BY <1>1, <1>5
  <1> DEFINE end == run[T]
             gs == [n \in 1..N |-> end.got[instances[n].addr]]
             ws == [n \in 1..N |-> WeightOf(instances[n])]
  <1>7. Fair(end.current, end.got, T, instances)
    BY <1>6 DEF good
  <1> HIDE DEF end, run
  <1>8. \A n \in 1..N : end.got[instances[n].addr] = WeightOf(instances[n])
    <2>1. PICK s : IsSum(s, gs, N) /\ s[N] = T
      BY <1>7 DEF Fair
    <2>2. IsSum(WeightSums(instances), ws, N) /\ WeightSums(instances)[N] = T
      BY WeightSumsOK DEF TotalWeight
    <2>3. gs \in [1..N -> Int] /\ ws \in [1..N -> Int] /\ \A n \in 1..N : gs[n] <= ws[n]
      <3>1. end.got \in [Addrs -> Nat]
        BY <1>7 DEF Fair
      <3>2. \A n \in 1..N : end.got[instances[n].addr] <= WeightOf(instances[n])
        BY <1>2, <1>7 DEF Fair
      <3>3. \A n \in 1..N : end.got[instances[n].addr] \in Int /\ WeightOf(instances[n]) \in Int
        BY <1>2, <3>1
      <3> QED
        BY <3>2, <3>3
    <2>4. \A n \in 1..N : gs[n] = end.got[instances[n].addr] /\ ws[n] = WeightOf(instances[n])
      OBVIOUS
    <2> HIDE DEF gs, ws, N, T
    <2>5. AtMost(gs, ws, N)
      BY <1>2, <2>3 DEF AtMost
    <2>6. \A n \in 1..N : gs[n] = ws[n]
      BY <2>1, <2>2, <2>5, SumsEqual
    <2> QED
      BY <2>4, <2>6
  <1>9. \A a \in Addrs : end.current[a] = 0
    <2> SUFFICES ASSUME NEW a \in Addrs PROVE end.current[a] = 0
      OBVIOUS
    <2>1. CASE \A n \in 1..N : instances[n].addr # a
      BY <1>2, <1>7, <2>1 DEF Fair
    <2>2. ASSUME NEW n \in 1..N, instances[n].addr = a PROVE end.current[a] = 0
      <3>1. end.current[a] = T * WeightOf(instances[n]) - T * end.got[a]
        BY <1>2, <1>7, <2>2 DEF Fair
      <3>2. end.got[a] = WeightOf(instances[n])
        BY <1>8, <2>2
      <3>3. T * WeightOf(instances[n]) \in Int
        BY <1>1, <1>2
      <3> QED
        BY <3>1, <3>2, <3>3
    <2> QED
      BY <2>1, <2>2
  <1>10. end.current = even
    BY <1>7, <1>9 DEF Fair
  <1>11. \A i \in Range(instances) : end.got[i.addr] = WeightOf(i)
    BY <1>2, <1>8 DEF Range
  <1> QED
    BY <1>10, <1>11 DEF end, run
=============================================================================
