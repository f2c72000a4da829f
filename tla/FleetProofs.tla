----------------------------- MODULE FleetProofs -----------------------------
(***************************************************************************)
(* What MultiRegionWorkforce promises, for any number of regions, jobs and  *)
(* workers: the types, the ceiling of every command, plans that add up, a   *)
(* scale-down that spares running workers, and a scale-to-zero that leaves  *)
(* none.                                                                    *)
(*                                                                          *)
(* In order: sums over the regions and the loop that distributes a number   *)
(* among them; jobs, their counts and the operations of a workforce; the    *)
(* inductive invariant IInv; one section for each of its parts, that it is  *)
(* kept by every step; the theorems.                                        *)
(***************************************************************************)
EXTENDS MultiRegionWorkforce, SequenceTheorems, FiniteSetTheorems, NaturalsInduction, TLAPS

------------------------------------------------------------------------------
(* Induction over the naturals, stated with sets: the library's theorems    *)
(* take the predicate as an operator, which no backend instantiates.        *)

Below == {ss \in Nat \X Nat : ss[1] < ss[2]}

(* Every non-empty set of naturals has a least member.                      *)
LEMMA LeastNatural ==
  ASSUME NEW T \in SUBSET Nat, T # {}
  PROVE  \E m \in T : \A k \in T : m <= k
<1>1. OpToRel(<, Nat) = Below
  BY Zenon DEF OpToRel, Below
<1>2. IsWellFoundedOn(Below, Nat)
  BY <1>1, NatLessThanWellFounded, Zenon
<1>3. PICK m \in T : \A k \in T : <<k, m>> \notin Below
  BY <1>2, WFMin, Zenon
<1>4. \A k \in T : m <= k
  <2> TAKE k \in T
  <2>1. k \in Nat /\ m \in Nat
    OBVIOUS
  <2>2. ~(k < m)
    BY <2>1, <1>3 DEF Below
  <2> QED BY <2>1, <2>2
<1> QED BY <1>4

(* A set of naturals with 0 and the successors of its members is all of     *)
(* them.                                                                    *)
LEMMA Induction ==
  ASSUME NEW S, 0 \in S, \A k \in Nat : k \in S => k + 1 \in S
  PROVE  Nat \subseteq S
<1> SUFFICES ASSUME Nat \ S # {} PROVE FALSE
  OBVIOUS
<1>1. PICK m \in Nat \ S : \A k \in Nat \ S : m <= k
  BY LeastNatural
<1>2. m # 0 /\ m - 1 \in Nat
  OBVIOUS
<1>3. m - 1 \in S
  BY <1>1, <1>2
<1>4. (m - 1) + 1 \in S
  BY <1>2, <1>3
<1> QED BY <1>2, <1>4

------------------------------------------------------------------------------
(* Sums over the regions.                                                   *)

LEMMA RegionsAreNumbers == NRegions \in Nat /\ NRegions > 0
BY WorkforceAssumption

IsSum(p, f, n) == p = [r \in 0..n |-> IF r = 0 THEN 0 ELSE p[r - 1] + f[r]]

(* The recursive function behind SumUpTo is defined: it is the one with its *)
(* recursion equation.                                                      *)
LEMMA SumIsDefined ==
  ASSUME NEW f
  PROVE  IsSum(SumUpTo(f), f, NRegions)
<1> DEFINE S == {n \in Nat : \E p : IsSum(p, f, n)}
<1>1. 0 \in S
  <2>1. IsSum([r \in 0..0 |-> 0], f, 0)
    BY DEF IsSum
  <2> QED BY <2>1
<1>2. ASSUME NEW n \in Nat, n \in S PROVE n + 1 \in S
  <2>1. PICK p : IsSum(p, f, n)
    BY <1>2
  <2> DEFINE q == [r \in 0..(n + 1) |-> IF r = n + 1 THEN p[n] + f[n + 1] ELSE p[r]]
  <2>2. ASSUME NEW r \in 0..(n + 1) PROVE q[r] = IF r = 0 THEN 0 ELSE q[r - 1] + f[r]
    <3>1. CASE r = n + 1
      BY <3>1
    <3>2. CASE r # n + 1
      <4>1. r \in 0..n /\ (r # 0 => r - 1 \in 0..n)
        BY <3>2
      <4>2. p[r] = IF r = 0 THEN 0 ELSE p[r - 1] + f[r]
        BY <2>1, <4>1 DEF IsSum
      <4> QED BY <3>2, <4>1, <4>2
    <3> QED BY <3>1, <3>2
  <2>3. IsSum(q, f, n + 1)
    BY <2>2 DEF IsSum
  <2> QED BY <2>3
<1>3. Nat \subseteq S
  <2> HIDE DEF S
  <2> QED BY <1>1, <1>2, Induction
<1>4. \E p : IsSum(p, f, NRegions)
  BY <1>3, RegionsAreNumbers
<1>5. SumUpTo(f) = CHOOSE p : IsSum(p, f, NRegions)
  BY Zenon DEF SumUpTo, IsSum
<1> QED BY <1>4, <1>5

(* What holds of no region and of each with those before it holds of all.   *)
LEMMA RegionInduction ==
  ASSUME NEW S, 0 \in S, \A r \in Regions : r - 1 \in S => r \in S
  PROVE  NRegions \in S
<1> DEFINE T == {n \in Nat : n \in 0..NRegions => n \in S}
<1>1. 0 \in T
  OBVIOUS
<1>2. ASSUME NEW n \in Nat, n \in T PROVE n + 1 \in T
  <2> SUFFICES ASSUME n + 1 \in 0..NRegions PROVE n + 1 \in S
    OBVIOUS
  <2>1. n + 1 \in Regions /\ n \in 0..NRegions /\ (n + 1) - 1 = n
    BY RegionsAreNumbers DEF Regions
  <2> QED BY <1>2, <2>1
<1>3. Nat \subseteq T
  <2> HIDE DEF T
  <2> QED BY <1>1, <1>2, Induction
<1> QED BY <1>3, RegionsAreNumbers

(* That equation, step by step.                                             *)
LEMMA SumSteps ==
  ASSUME NEW f
  PROVE  /\ SumUpTo(f)[0] = 0
         /\ \A r \in Regions : SumUpTo(f)[r] = SumUpTo(f)[r - 1] + f[r]
BY SumIsDefined, RegionsAreNumbers DEF IsSum, Regions

(* The sum of integers is an integer, of naturals a natural.                *)
LEMMA SumIsInteger ==
  ASSUME NEW f \in [Regions -> Int]
  PROVE  SumOver(f) \in Int
<1> DEFINE S == {n \in Nat : SumUpTo(f)[n] \in Int}
<1>1. 0 \in S
  BY SumSteps
<1>2. ASSUME NEW r \in Regions, r - 1 \in S PROVE r \in S
  <2>1. SumUpTo(f)[r] = SumUpTo(f)[r - 1] + f[r]
    BY SumSteps
  <2> QED BY <1>2, <2>1 DEF Regions
<1>3. NRegions \in S
  <2> HIDE DEF S
  <2> QED BY <1>1, <1>2, RegionInduction
<1> QED BY <1>3 DEF SumOver

(* A function that is nowhere greater has no greater sum.                   *)
LEMMA SumIsMonotone ==
  ASSUME NEW f \in [Regions -> Int], NEW g \in [Regions -> Int],
         \A r \in Regions : f[r] <= g[r]
  PROVE  SumOver(f) <= SumOver(g)
<1> DEFINE S == {n \in Nat : /\ SumUpTo(f)[n] \in Int /\ SumUpTo(g)[n] \in Int
                             /\ SumUpTo(f)[n] <= SumUpTo(g)[n]}
<1>1. 0 \in S
  BY SumSteps
<1>2. ASSUME NEW r \in Regions, r - 1 \in S PROVE r \in S
  <2>1. /\ SumUpTo(f)[r] = SumUpTo(f)[r - 1] + f[r]
        /\ SumUpTo(g)[r] = SumUpTo(g)[r - 1] + g[r]
    BY SumSteps
  <2> QED BY <1>2, <2>1 DEF Regions
<1>3. NRegions \in S
  <2> HIDE DEF S
  <2> QED BY <1>1, <1>2, RegionInduction
<1> QED BY <1>3 DEF SumOver

(* Changing one summand changes the sum by the difference.                  *)
LEMMA SumOfUpdate ==
  ASSUME NEW f \in [Regions -> Int], NEW s \in Regions, NEW v \in Int
  PROVE  SumOver([f EXCEPT ![s] = v]) = SumOver(f) + v - f[s]
<1> DEFINE g == [f EXCEPT ![s] = v]
           S == {n \in Nat : /\ SumUpTo(f)[n] \in Int
                             /\ SumUpTo(g)[n] = SumUpTo(f)[n] + (IF s <= n THEN v - f[s] ELSE 0)}
<1>1. 0 \in S
  BY SumSteps DEF Regions
<1>2. ASSUME NEW r \in Regions, r - 1 \in S PROVE r \in S
  <2>1. /\ SumUpTo(f)[r] = SumUpTo(f)[r - 1] + f[r]
        /\ SumUpTo(g)[r] = SumUpTo(g)[r - 1] + g[r]
    BY SumSteps
  <2>2. g[r] = IF r = s THEN v ELSE f[r]
    OBVIOUS
  <2> HIDE DEF g
  <2> QED BY <1>2, <2>1, <2>2 DEF Regions
<1>3. NRegions \in S
  <2> HIDE DEF S
  <2> QED BY <1>1, <1>2, RegionInduction
<1> QED BY <1>3 DEF SumOver, Regions

(* The sum of a pointwise sum.                                              *)
LEMMA SumOfSums ==
  ASSUME NEW f \in [Regions -> Int], NEW g \in [Regions -> Int]
  PROVE  SumOver([r \in Regions |-> f[r] + g[r]]) = SumOver(f) + SumOver(g)
<1> DEFINE h == [r \in Regions |-> f[r] + g[r]]
           S == {n \in Nat : /\ SumUpTo(f)[n] \in Int /\ SumUpTo(g)[n] \in Int
                             /\ SumUpTo(h)[n] = SumUpTo(f)[n] + SumUpTo(g)[n]}
<1>1. 0 \in S
  BY SumSteps
<1>2. ASSUME NEW r \in Regions, r - 1 \in S PROVE r \in S
  <2>1. /\ SumUpTo(f)[r] = SumUpTo(f)[r - 1] + f[r]
        /\ SumUpTo(g)[r] = SumUpTo(g)[r - 1] + g[r]
        /\ SumUpTo(h)[r] = SumUpTo(h)[r - 1] + h[r]
    BY SumSteps
  <2>2. h[r] = f[r] + g[r]
    OBVIOUS
  <2> HIDE DEF h
  <2> QED BY <1>2, <2>1, <2>2 DEF Regions
<1>3. NRegions \in S
  <2> HIDE DEF S
  <2> QED BY <1>1, <1>2, RegionInduction
<1> QED BY <1>3 DEF SumOver

(* The sum of the same number for every region.                             *)
LEMMA SumOfConstants ==
  ASSUME NEW c \in Int
  PROVE  SumOver([r \in Regions |-> c]) = NRegions * c
<1> DEFINE f == [r \in Regions |-> c]
           S == {n \in Nat : SumUpTo(f)[n] = n * c}
<1>1. 0 \in S
  BY SumSteps
<1>2. ASSUME NEW r \in Regions, r - 1 \in S PROVE r \in S
  <2>1. SumUpTo(f)[r] = SumUpTo(f)[r - 1] + f[r]
    BY SumSteps
  <2>2. f[r] = c /\ r \in Nat
    BY DEF Regions
  <2> HIDE DEF f
  <2>3. SumUpTo(f)[r] = (r - 1) * c + c
    BY <1>2, <2>1, <2>2
  <2>4. (r - 1) * c + c = r * c
    BY <2>2
  <2> QED BY <2>2, <2>3, <2>4
<1>3. NRegions \in S
  <2> HIDE DEF S
  <2> QED BY <1>1, <1>2, RegionInduction
<1> QED BY <1>3 DEF SumOver

------------------------------------------------------------------------------
(* The distribution of a hire or of a lay-off.                              *)

LEMMA DivisionBounds ==
  ASSUME NEW n \in Nat
  PROVE  /\ n \div NRegions \in Nat
         /\ NRegions * (n \div NRegions) <= n
         /\ NRegions * (n \div NRegions) > n - NRegions
         /\ NRegions * (1 + n \div NRegions) > n
<1>1. n \div NRegions \in Nat
  BY RegionsAreNumbers
<1>2. n = NRegions * (n \div NRegions) + (n % NRegions)
  BY RegionsAreNumbers
<1>3. n % NRegions \in 0..(NRegions - 1)
  BY RegionsAreNumbers
<1>4. NRegions * (1 + n \div NRegions) = NRegions + NRegions * (n \div NRegions)
  BY <1>1, RegionsAreNumbers
<1> QED BY <1>1, <1>2, <1>3, <1>4, RegionsAreNumbers

(* There are finitely many regions.                                         *)
LEMMA FiniteRegions == IsFiniteSet(Regions) /\ Cardinality(Regions) = NRegions
BY RegionsAreNumbers, FS_Interval DEF Regions

(* The place of a region in the order of its room, from 1.                  *)
Place(room, r) == Cardinality(Before(room, r)) + 1

(* The regions before one are finite in number; its place is the number of  *)
(* a region.                                                                *)
LEMMA PlacesAreRegions ==
  ASSUME NEW room \in [Regions -> Int], NEW r \in Regions
  PROVE  /\ IsFiniteSet(Before(room, r))
         /\ Place(room, r) \in Regions
<1>1. Before(room, r) \in SUBSET (Regions \ {r})
  BY DEF Before, Regions
<1>2. IsFiniteSet(Regions \ {r}) /\ Cardinality(Regions \ {r}) = NRegions - 1
  BY FiniteRegions, FS_RemoveElement
<1>3. /\ IsFiniteSet(Before(room, r))
      /\ Cardinality(Before(room, r)) <= NRegions - 1
  BY <1>1, <1>2, FS_Subset
<1>4. Cardinality(Before(room, r)) \in Nat
  BY <1>3, FS_CardinalityType
<1> QED BY <1>3, <1>4, RegionsAreNumbers DEF Place, Regions

(* A region that comes before another has the smaller place.                *)
LEMMA PlacesAreOrdered ==
  ASSUME NEW room \in [Regions -> Int], NEW r \in Regions, NEW s \in Regions, s \in Before(room, r)
  PROVE  Place(room, s) < Place(room, r)
<1>1. Before(room, s) \in SUBSET Before(room, r)
  BY DEF Before, Regions
<1>2. s \notin Before(room, s)
  BY DEF Before, Regions
<1>3. Cardinality(Before(room, s)) <= Cardinality(Before(room, r))
      /\ Cardinality(Before(room, s)) # Cardinality(Before(room, r))
  BY <1>1, <1>2, PlacesAreRegions, FS_Subset
<1>4. Place(room, s) \in Nat /\ Place(room, r) \in Nat
      /\ Cardinality(Before(room, s)) \in Nat /\ Cardinality(Before(room, r)) \in Nat
  <2>1. /\ IsFiniteSet(Before(room, r)) /\ Place(room, r) \in Regions
        /\ IsFiniteSet(Before(room, s)) /\ Place(room, s) \in Regions
    BY PlacesAreRegions
  <2>2. Cardinality(Before(room, s)) \in Nat /\ Cardinality(Before(room, r)) \in Nat
    BY <2>1, FS_CardinalityType
  <2> QED BY <2>1, <2>2 DEF Regions
<1> QED BY <1>3, <1>4 DEF Place

(* No two regions have the same place.                                      *)
LEMMA PlacesDiffer ==
  ASSUME NEW room \in [Regions -> Int], NEW r \in Regions, NEW s \in Regions
  PROVE  /\ r # s => Place(room, r) # Place(room, s)
         /\ Place(room, r) < Place(room, s) => room[r] <= room[s]
<1>1. CASE r = s
  BY <1>1, PlacesAreRegions DEF Regions
<1>2. CASE r \in Before(room, s)
  <2>1. Place(room, r) < Place(room, s)
    BY <1>2, PlacesAreOrdered
  <2>2. room[r] <= room[s]
    BY <1>2 DEF Before
  <2> QED BY <2>1, <2>2, PlacesAreRegions DEF Regions
<1>3. CASE s \in Before(room, r)
  <2>1. Place(room, s) < Place(room, r)
    BY <1>3, PlacesAreOrdered
  <2> QED BY <2>1, PlacesAreRegions DEF Regions
<1>4. r = s \/ r \in Before(room, s) \/ s \in Before(room, r)
  BY DEF Before, Regions
<1> QED BY <1>1, <1>2, <1>3, <1>4

(* Every place is taken, by one region.                                     *)
LEMMA OrderIsComplete ==
  ASSUME NEW room \in [Regions -> Int], NEW k \in Regions
  PROVE  InOrder(room, k) \in Regions /\ Place(room, InOrder(room, k)) = k
<1> DEFINE place == [r \in Regions |-> Place(room, r)]
<1>1. place \in Injection(Regions, Regions)
  BY PlacesAreRegions, PlacesDiffer DEF Injection, IsInjective
<1>2. place \in Surjection(Regions, Regions)
  BY <1>1, FiniteRegions, FS_Injection
<1>3. PICK r \in Regions : Place(room, r) = k
  BY <1>2 DEF Surjection
<1>4. Cardinality(Before(room, r)) = k - 1
  BY <1>3, PlacesAreRegions, FS_CardinalityType DEF Place, Regions
<1>5. /\ InOrder(room, k) \in Regions
      /\ Cardinality(Before(room, InOrder(room, k))) = k - 1
  BY <1>4 DEF InOrder
<1> QED BY <1>5 DEF Place, Regions

Round(n, share, room, sofar, r) == Give(sofar, r, Planned(n, share, room, sofar, r), share)

AreRounds(p, n, share, room, m) ==
  p = [k \in 0..m |-> IF k = 0 THEN [dist |-> Zeros, carry |-> 0]
                      ELSE Round(n, share, room, p[k - 1], InOrder(room, k))]

(* The rounds of a distribution follow each other as the loop does.         *)
LEMMA RoundsAreDefined ==
  ASSUME NEW n, NEW share, NEW room
  PROVE  AreRounds(Rounds(n, share, room), n, share, room, NRegions)
<1> DEFINE S == {m \in Nat : \E p : AreRounds(p, n, share, room, m)}
           start == [dist |-> Zeros, carry |-> 0]
           then(p, k) == Round(n, share, room, p[k - 1], InOrder(room, k))
<1>1. 0 \in S
  <2>1. AreRounds([k \in 0..0 |-> start], n, share, room, 0)
    BY DEF AreRounds
  <2> QED BY <2>1
<1>2. ASSUME NEW m \in Nat, m \in S PROVE m + 1 \in S
  <2>1. PICK p : AreRounds(p, n, share, room, m)
    BY <1>2
  <2> DEFINE q == [k \in 0..(m + 1) |->
                     IF k = m + 1 THEN Round(n, share, room, p[m], InOrder(room, m + 1)) ELSE p[k]]
  <2>2. ASSUME NEW k \in 0..(m + 1) PROVE q[k] = IF k = 0 THEN start ELSE then(q, k)
    <3>1. CASE k = m + 1
      BY <3>1
    <3>2. CASE k # m + 1
      <4>1. k \in 0..m /\ (k # 0 => k - 1 \in 0..m)
        BY <3>2
      <4>2. p[k] = IF k = 0 THEN start ELSE then(p, k)
        BY <2>1, <4>1 DEF AreRounds
      <4> QED BY <3>2, <4>1, <4>2
    <3> QED BY <3>1, <3>2
  <2>3. AreRounds(q, n, share, room, m + 1)
    BY <2>2 DEF AreRounds
  <2> QED BY <2>3
<1>3. Nat \subseteq S
  <2> HIDE DEF S
  <2> QED BY <1>1, <1>2, Induction
<1>4. \E p : AreRounds(p, n, share, room, NRegions)
  BY <1>3, RegionsAreNumbers
<1>5. Rounds(n, share, room) = CHOOSE p : AreRounds(p, n, share, room, NRegions)
  BY Zenon DEF Rounds, AreRounds, Round
<1> QED BY <1>4, <1>5

(* After k rounds: dist gives the first k regions no more than their room,  *)
(* and n in all, and carry is what it falls short of k shares; it is short  *)
(* of n and of the room so far only if every share was taken, and then the  *)
(* room of the regions to come is a share at least.                         *)
Offered(room, k) ==
  [r \in Regions |-> IF Place(room, r) <= k THEN Positive(room[r]) ELSE 0]

Distributed(n, share, room, k, sofar) ==
  /\ sofar.dist \in [Regions -> Nat] /\ sofar.carry \in Nat
  /\ \A r \in Regions : /\ sofar.dist[r] <= Positive(room[r])
                        /\ Place(room, r) > k => sofar.dist[r] = 0
  /\ SumOver(sofar.dist) <= n
  /\ SumOver(sofar.dist) + sofar.carry = k * share
  /\ \/ SumOver(sofar.dist) = n
     \/ SumOver(sofar.dist) = SumOver(Offered(room, k))
     \/ /\ sofar.carry = 0
        /\ \A r \in Regions : Place(room, r) > k => share <= Positive(room[r])

(* The room offered grows by that of the next region.                       *)
LEMMA OfferedGrows ==
  ASSUME NEW room \in [Regions -> Int], NEW k \in Regions
  PROVE  /\ Offered(room, k - 1) \in [Regions -> Nat] /\ Offered(room, k) \in [Regions -> Nat]
         /\ SumOver(Offered(room, k))
              = SumOver(Offered(room, k - 1)) + Positive(room[InOrder(room, k)])
<1> DEFINE s == InOrder(room, k)
<1>1. s \in Regions /\ Place(room, s) = k
  BY OrderIsComplete
<1>2. \A r \in Regions : Place(room, r) \in Regions /\ (r # s => Place(room, r) # k)
  BY <1>1, PlacesAreRegions, PlacesDiffer
<1>3. Offered(room, k - 1) \in [Regions -> Nat] /\ Offered(room, k) \in [Regions -> Nat]
  BY DEF Offered, Positive
<1>4. Offered(room, k) = [Offered(room, k - 1) EXCEPT ![s] = Positive(room[s])]
  <2> HIDE DEF s
  <2>1. ASSUME NEW r \in Regions
        PROVE  Offered(room, k)[r] = IF r = s THEN Positive(room[s]) ELSE Offered(room, k - 1)[r]
    <3>1. Place(room, r) \in Nat /\ k \in Nat
      BY <1>2 DEF Regions
    <3>2. r # s => (Place(room, r) <= k <=> Place(room, r) <= k - 1)
      BY <1>2, <3>1
    <3> QED BY <1>1, <3>1, <3>2 DEF Offered
  <2>2. Offered(room, k) = [r \in Regions |-> Offered(room, k)[r]]
        /\ DOMAIN Offered(room, k - 1) = Regions
    BY DEF Offered
  <2> QED BY <2>1, <2>2
<1>5. Offered(room, k - 1)[s] = 0 /\ Positive(room[s]) \in Nat
  <2> HIDE DEF s
  <2> QED BY <1>1 DEF Offered, Regions, Positive
<1>6. SumOver(Offered(room, k)) = SumOver(Offered(room, k - 1)) + Positive(room[s]) - 0
  <2> HIDE DEF s
  <2>1. Offered(room, k - 1) \in [Regions -> Int] /\ Positive(room[s]) \in Int
    BY <1>3, <1>5
  <2> QED BY <1>1, <1>4, <1>5, <2>1, SumOfUpdate
<1>7. SumOver(Offered(room, k - 1)) \in Int
  BY <1>3, SumIsInteger
<1> QED BY <1>3, <1>5, <1>6, <1>7

(* One more round keeps what holds of the rounds before.                    *)
LEMMA RoundDistributes ==
  ASSUME NEW n \in Nat, NEW share \in Nat, NEW room \in [Regions -> Int], NEW k \in Regions,
         NEW sofar, Distributed(n, share, room, k - 1, sofar)
  PROVE  Distributed(n, share, room, k, Round(n, share, room, sofar, InOrder(room, k)))
<1> DEFINE r == InOrder(room, k)
           p == Positive(room[r])
           dist == sofar.dist
           carry == sofar.carry
           sum == SumOver(sofar.dist)
           more == Planned(n, share, room, sofar, r)
           new == Round(n, share, room, sofar, r)
<1>1. r \in Regions /\ Place(room, r) = k /\ k \in Nat
  BY OrderIsComplete DEF Regions
<1>2. dist \in [Regions -> Nat] /\ carry \in Nat /\ sum \in Int /\ sum <= n /\ p \in Nat
      /\ sum + carry = (k - 1) * share
  <2> HIDE DEF r
  <2>1. dist \in [Regions -> Nat] /\ carry \in Nat /\ sum <= n /\ sum + carry = (k - 1) * share
    BY DEF Distributed
  <2>2. dist \in [Regions -> Int]
    BY <2>1
  <2>3. sum \in Int
    BY <2>2, SumIsInteger
  <2>4. p \in Nat
    BY <1>1 DEF Positive
  <2> QED BY <2>1, <2>3, <2>4
<1>3. /\ more \in Nat /\ more <= share + carry /\ more <= p /\ more <= n - sum
      /\ more = share + carry \/ more = p \/ more = n - sum
  <2> HIDE DEF r
  <2> QED BY <1>2 DEF Planned, Least
<1>4. new.dist = [dist EXCEPT ![r] = more] /\ new.carry = carry + share - more
  BY DEF Round, Give
<1> HIDE DEF r, more, new
<1>5. new.dist \in [Regions -> Nat] /\ new.carry \in Nat
  <2>1. [dist EXCEPT ![r] = more] \in [Regions -> Nat]
    BY <1>2, <1>3
  <2>2. carry + share - more \in Nat
    BY <1>2, <1>3
  <2> QED BY <1>4, <2>1, <2>2
<1>6. dist[r] = 0
  BY <1>1 DEF Distributed, Regions
<1>7. SumOver(new.dist) = sum + more
  <2>1. SumOver(new.dist) = sum + more - dist[r]
    BY <1>1, <1>2, <1>3, <1>4, SumOfUpdate
  <2> QED BY <1>2, <1>3, <1>6, <2>1
<1>8. \A s \in Regions : /\ new.dist[s] <= Positive(room[s])
                         /\ Place(room, s) > k => new.dist[s] = 0
  <2> TAKE s \in Regions
  <2>1. CASE s = r
    BY <1>1, <1>2, <1>3, <1>4, <2>1
  <2>2. CASE s # r
    <3>1. new.dist[s] = dist[s]
      BY <1>2, <1>4, <2>2
    <3>2. Place(room, s) > k => Place(room, s) > k - 1
      BY <1>1, PlacesAreRegions DEF Regions
    <3> QED BY <3>1, <3>2 DEF Distributed
  <2> QED BY <2>1, <2>2
<1>9. SumOver(new.dist) + new.carry = k * share
  <2>1. (k - 1) * share + share = k * share
    BY <1>1
  <2> QED BY <1>2, <1>3, <1>4, <1>7, <2>1
<1>10. \/ SumOver(new.dist) = n
       \/ SumOver(new.dist) = SumOver(Offered(room, k))
       \/ /\ new.carry = 0
          /\ \A s \in Regions : Place(room, s) > k => share <= Positive(room[s])
  <2>1. CASE more = n - sum
    BY <1>2, <1>3, <1>7, <2>1
  <2>2. CASE more = share + carry
    <3>1. share <= p
      BY <1>2, <1>3, <2>2
    <3>2. \A s \in Regions : Place(room, s) > k => room[r] <= room[s]
      BY <1>1, PlacesDiffer
    <3>3. \A s \in Regions : Place(room, s) > k => share <= Positive(room[s])
      BY <1>1, <3>1, <3>2 DEF Positive
    <3> QED BY <1>2, <1>4, <2>2, <3>3
  <2>3. CASE more = p /\ more # share + carry /\ more # n - sum
    <3>1. sum # n
      BY <1>2, <1>3, <2>3
    <3>2. ~(carry = 0 /\ share <= p)
      BY <1>2, <1>3, <2>3
    <3>3. sum = SumOver(Offered(room, k - 1))
      BY <1>1, <3>1, <3>2 DEF Distributed
    <3>4. SumOver(Offered(room, k)) = SumOver(Offered(room, k - 1)) + p
      BY OfferedGrows DEF r
    <3> QED BY <1>7, <2>3, <3>3, <3>4
  <2> QED BY <1>3, <2>1, <2>2, <2>3
<1>11. SumOver(new.dist) <= n
  BY <1>2, <1>3, <1>7
<1> QED BY <1>5, <1>8, <1>9, <1>10, <1>11 DEF Distributed, new, r

(* The sum of nothing.                                                      *)
LEMMA SumOfZeros == SumOver(Zeros) = 0
<1>1. Zeros = [r \in Regions |-> 0]
  BY DEF Zeros
<1>2. SumOver([r \in Regions |-> 0]) = NRegions * 0
  <2>1. \A c \in Int : SumOver([r \in Regions |-> c]) = NRegions * c
    BY SumOfConstants
  <2>2. 0 \in Int
    OBVIOUS
  <2> QED BY <2>1, <2>2, Zenon
<1> QED BY <1>1, <1>2, RegionsAreNumbers

(* A distribution adds up: it gives every region at most its room, and in   *)
(* all n, or all the room there is, or the full share to every region.      *)
THEOREM DistributionAddsUp ==
  ASSUME NEW n \in Nat, NEW share \in Nat, NEW room \in [Regions -> Int]
  PROVE  LET dist == Distribute(n, share, room)
             offered == SumOver([r \in Regions |-> Positive(room[r])])
         IN /\ dist \in [Regions -> Nat]
            /\ \A r \in Regions : dist[r] <= Positive(room[r])
            /\ SumOver(dist) <= n /\ SumOver(dist) <= offered
            /\ SumOver(dist) \in {n, offered, NRegions * share}
<1> DEFINE rounds == Rounds(n, share, room)
           S == {k \in Nat : Distributed(n, share, room, k, rounds[k])}
           dist == Distribute(n, share, room)
           whole == [r \in Regions |-> Positive(room[r])]
<1>1. /\ rounds[0] = [dist |-> Zeros, carry |-> 0]
      /\ \A k \in Regions : rounds[k] = Round(n, share, room, rounds[k - 1], InOrder(room, k))
  BY RoundsAreDefined, RegionsAreNumbers DEF AreRounds, Regions
<1>2. 0 \in S
  <2>1. Offered(room, 0) = Zeros
    <3>1. \A r \in Regions : ~(Place(room, r) <= 0)
      BY PlacesAreRegions DEF Regions
    <3> QED BY <3>1 DEF Offered, Zeros
  <2>2. rounds[0].dist = Zeros /\ rounds[0].carry = 0
    BY <1>1
  <2>3. Zeros \in [Regions -> Nat] /\ \A r \in Regions : Zeros[r] = 0
    BY DEF Zeros
  <2>4. \A r \in Regions : 0 <= Positive(room[r])
    BY DEF Positive
  <2> HIDE DEF rounds
  <2> QED BY <2>1, <2>2, <2>3, <2>4, SumOfZeros DEF Distributed
<1>3. ASSUME NEW k \in Regions, k - 1 \in S PROVE k \in S
  BY <1>1, <1>3, RoundDistributes DEF Regions
<1>4. NRegions \in S
  <2> HIDE DEF S
  <2> QED BY <1>2, <1>3, RegionInduction
<1>5. Distributed(n, share, room, NRegions, rounds[NRegions]) /\ dist = rounds[NRegions].dist
  BY <1>4 DEF Distribute
<1>6. Offered(room, NRegions) = whole
  <2>1. \A r \in Regions : Place(room, r) <= NRegions
    BY PlacesAreRegions DEF Regions
  <2> QED BY <2>1 DEF Offered
<1>7. whole \in [Regions -> Int] /\ dist \in [Regions -> Nat] /\ dist \in [Regions -> Int]
  BY <1>5 DEF Distributed, Positive
<1> HIDE DEF rounds, dist, whole
<1>8. SumOver(whole) \in Int /\ SumOver(dist) \in Int
  BY <1>7, SumIsInteger
<1>9. \A r \in Regions : dist[r] <= whole[r]
  BY <1>5 DEF Distributed, whole
<1>10. SumOver(dist) <= SumOver(whole)
  BY <1>7, <1>9, SumIsMonotone
<1>11. SumOver(dist) \in {n, SumOver(whole), NRegions * share}
  <2>1. SumOver(dist) + rounds[NRegions].carry = NRegions * share
    BY <1>5 DEF Distributed
  <2> QED BY <1>5, <1>6, <1>8, <2>1 DEF Distributed
<1>12. SumOver(dist) <= n
  BY <1>5 DEF Distributed
<1>13. \A r \in Regions : dist[r] <= Positive(room[r])
  BY <1>5 DEF Distributed
<1> QED BY <1>7, <1>10, <1>11, <1>12, <1>13 DEF dist, whole

------------------------------------------------------------------------------
(* The jobs of a region, their counts, and what a step does to them.        *)

Statuses == Active \cup {"Ended"}
JobsType == /\ job \in [Regions -> Seq(Statuses)]
            /\ \A r \in Regions : Len(job[r]) <= MaxJobs[r]

PendingIn(r) == Cardinality(JobsIn(r, Pending))
RunningIn(r) == Cardinality(JobsIn(r, {"Running"}))
ActiveIn(r) == Cardinality(JobsIn(r, Active))

(* The statuses, spelled out.                                               *)
LEMMA KnownStatuses ==
  /\ Active = {"Paused", "Queued", "Waiting", "Preparing", "Starting", "Running"}
  /\ Pending = {"Paused", "Queued", "Waiting", "Preparing", "Starting"}
<1>1. Len(Priority) = 6 /\ Priority[1] = "Paused" /\ Priority[2] = "Queued"
      /\ Priority[3] = "Waiting" /\ Priority[4] = "Preparing" /\ Priority[5] = "Starting"
      /\ Priority[6] = "Running"
  BY DEF Priority
<1>2. Active = {Priority[1], Priority[2], Priority[3], Priority[4], Priority[5], Priority[6]}
  BY <1>1 DEF Active
<1> QED BY <1>1, <1>2 DEF Pending

(* Jobs start active, and advance from a pending status to an active one.   *)
LEMMA StagesAreActive ==
  /\ Stages[1] \in Active
  /\ \A s \in 1..(Len(Stages) - 1) : Stages[s] \in Pending /\ Stages[s + 1] \in Active
BY WorkforceAssumption

(* A region has finitely many jobs in any statuses, at most MaxJobs.        *)
LEMMA JobsAreFinite ==
  ASSUME JobsType, NEW r \in Regions, NEW X
  PROVE  /\ IsFiniteSet(JobsIn(r, X)) /\ Cardinality(JobsIn(r, X)) \in Nat
         /\ Cardinality(JobsIn(r, X)) <= MaxJobs[r] /\ MaxJobs[r] \in Nat
<1>1. Len(job[r]) \in Nat /\ DOMAIN job[r] = 1..Len(job[r]) /\ Len(job[r]) <= MaxJobs[r]
  BY DEF JobsType
<1>2. IsFiniteSet(1..Len(job[r])) /\ Cardinality(1..Len(job[r])) = Len(job[r])
  BY <1>1, FS_Interval
<1>3. JobsIn(r, X) \in SUBSET (1..Len(job[r]))
  BY <1>1 DEF JobsIn
<1>4. IsFiniteSet(JobsIn(r, X)) /\ Cardinality(JobsIn(r, X)) <= Len(job[r])
  BY <1>2, <1>3, FS_Subset
<1>5. Cardinality(JobsIn(r, X)) \in Nat
  BY <1>4, FS_CardinalityType
<1>6. MaxJobs[r] \in Nat
  BY WorkforceAssumption
<1> QED BY <1>1, <1>4, <1>5, <1>6

(* The active workers of a region are the pending and the running ones.     *)
LEMMA ActiveArePendingOrRunning ==
  ASSUME JobsType, NEW r \in Regions
  PROVE  ActiveIn(r) = PendingIn(r) + RunningIn(r)
<1>1. JobsIn(r, Active) = JobsIn(r, Pending) \cup JobsIn(r, {"Running"})
  BY KnownStatuses DEF JobsIn
<1>2. JobsIn(r, Pending) \cap JobsIn(r, {"Running"}) = {}
  BY KnownStatuses DEF JobsIn
<1>3. Cardinality(JobsIn(r, Pending) \cup JobsIn(r, {"Running"}))
        = Cardinality(JobsIn(r, Pending)) + Cardinality(JobsIn(r, {"Running"})) - Cardinality({})
  BY <1>2, JobsAreFinite, FS_Union
<1>4. Cardinality({}) = 0
  BY FS_EmptySet
<1> QED BY <1>1, <1>3, <1>4, JobsAreFinite DEF ActiveIn, PendingIn, RunningIn

(* One job changes its status.                                              *)
ChangesJob(r, i, status) ==
  r \in Regions /\ i \in DOMAIN job[r] /\ job' = [job EXCEPT ![r][i] = status]

(* What is left of the jobs when one changes its status.                    *)
LEMMA JobChanges ==
  ASSUME JobsType, NEW r, NEW i, NEW status \in Statuses, ChangesJob(r, i, status)
  PROVE  /\ JobsType'
         /\ \A q \in Regions : DOMAIN job'[q] = DOMAIN job[q]
         /\ \A q \in Regions : \A j \in DOMAIN job[q] :
              job'[q][j] = IF q = r /\ j = i THEN status ELSE job[q][j]
<1>1. job' = [job EXCEPT ![r] = [job[r] EXCEPT ![i] = status]] /\ r \in Regions
      /\ i \in DOMAIN job[r]
  BY DEF ChangesJob
<1>2. ASSUME NEW q \in Regions
      PROVE  /\ job'[q] \in Seq(Statuses) /\ Len(job'[q]) <= MaxJobs[q]
             /\ DOMAIN job'[q] = DOMAIN job[q]
             /\ \A j \in DOMAIN job[q] : job'[q][j] = IF q = r /\ j = i THEN status ELSE job[q][j]
  <2>1. job[q] \in Seq(Statuses) /\ Len(job[q]) <= MaxJobs[q] /\ DOMAIN job = Regions
    BY DEF JobsType
  <2>2. CASE q = r
    <3>1. job'[q] = [job[q] EXCEPT ![i] = status]
      BY <1>1, <2>1, <2>2
    <3>2. /\ [job[q] EXCEPT ![i] = status] \in Seq(Statuses)
          /\ Len([job[q] EXCEPT ![i] = status]) = Len(job[q])
      BY <1>1, <2>1, <2>2, ExceptSeq
    <3> QED BY <2>1, <2>2, <3>1, <3>2
  <2>3. CASE q # r
    BY <1>1, <2>1, <2>3
  <2> QED BY <2>2, <2>3
<1>3. job' \in [Regions -> Seq(Statuses)]
  <2>1. job' = [q \in Regions |-> job'[q]]
    BY <1>1 DEF JobsType
  <2> QED BY <1>2, <2>1
<1> QED BY <1>2, <1>3 DEF JobsType

(* Which jobs are in given statuses after one has changed.                  *)
LEMMA ChangedCounts ==
  ASSUME JobsType, NEW r, NEW i, NEW status \in Statuses, ChangesJob(r, i, status), NEW X
  PROVE  /\ \A q \in Regions \ {r} : JobsIn(q, X)' = JobsIn(q, X)
         /\ JobsIn(r, X)' = IF status \in X THEN JobsIn(r, X) \cup {i} ELSE JobsIn(r, X) \ {i}
<1>1. r \in Regions /\ i \in DOMAIN job[r]
  BY DEF ChangesJob
<1> QED BY <1>1, JobChanges DEF JobsIn

(* A job is added to a region that is not full.                             *)
AddsJob(r) ==
  r \in Regions /\ Len(job[r]) < MaxJobs[r] /\ job' = [job EXCEPT ![r] = Append(@, Stages[1])]

(* What is left of the jobs when one is added, and which are active then.   *)
LEMMA JobAdded ==
  ASSUME JobsType, NEW r, AddsJob(r)
  PROVE  /\ JobsType'
         /\ \A q \in Regions : DOMAIN job[q] \subseteq DOMAIN job'[q]
         /\ \A q \in Regions : ActiveIn(q)' = IF q = r THEN ActiveIn(q) + 1 ELSE ActiveIn(q)
<1>1. r \in Regions /\ job[r] \in Seq(Statuses) /\ Len(job[r]) < MaxJobs[r]
      /\ Stages[1] \in Active /\ Stages[1] \in Statuses /\ MaxJobs[r] \in Nat
  BY StagesAreActive, WorkforceAssumption DEF AddsJob, JobsType, Statuses
<1>2. job'[r] = Append(job[r], Stages[1]) /\ \A q \in Regions \ {r} : job'[q] = job[q]
  BY <1>1 DEF AddsJob, JobsType
<1>3. /\ job'[r] \in Seq(Statuses) /\ Len(job'[r]) = Len(job[r]) + 1
      /\ Len(job[r]) \in Nat
      /\ DOMAIN job'[r] = DOMAIN job[r] \cup {Len(job[r]) + 1}
      /\ Len(job[r]) + 1 \notin DOMAIN job[r]
      /\ job'[r][Len(job[r]) + 1] = Stages[1]
      /\ \A j \in DOMAIN job[r] : job'[r][j] = job[r][j]
  BY <1>1, <1>2
<1>4. JobsType'
  <2>1. job' = [q \in Regions |-> job'[q]]
    BY DEF JobsType, AddsJob
  <2>2. \A q \in Regions : job'[q] \in Seq(Statuses) /\ Len(job'[q]) <= MaxJobs[q]
    BY SMTT(30), <1>1, <1>2, <1>3 DEF JobsType
  <2> QED BY <2>1, <2>2 DEF JobsType
<1>5. JobsIn(r, Active)' = JobsIn(r, Active) \cup {Len(job[r]) + 1}
      /\ Len(job[r]) + 1 \notin JobsIn(r, Active)
  BY <1>1, <1>3 DEF JobsIn
<1>6. ActiveIn(r)' = ActiveIn(r) + 1
  <2>1. IsFiniteSet(JobsIn(r, Active))
    BY <1>1, JobsAreFinite
  <2> QED BY <1>5, <2>1, FS_AddElement DEF ActiveIn
<1>7. \A q \in Regions \ {r} : ActiveIn(q)' = ActiveIn(q)
  BY <1>2 DEF ActiveIn, JobsIn
<1> QED BY <1>2, <1>3, <1>4, <1>6, <1>7

------------------------------------------------------------------------------
(* The steps of the operation under way: they keep the types, and the       *)
(* operation ends or goes on in its region.                                 *)

Kinds == {"none", "scale", "hire", "layoffList", "layoff", "resumeList", "resume"}
Ops == [kind : Kinds, r : Regions, n : Nat, batch : 0..BatchSize, prime : BOOLEAN,
        seq : BOOLEAN, layoffs : BOOLEAN, att : 0..MaxRetries]

TodoType == \A i \in DOMAIN todo : /\ i \in DOMAIN job[op.r]
                                   /\ todo[i] \in [place : Nat, att : 0..MaxRetries]

(* There is someone to serve exactly while candidates are served, and       *)
(* someone to submit while workers are hired.                               *)
Underway ==
  /\ DOMAIN todo = {} <=> op.kind \notin {"layoff", "resume"}
  /\ op.kind = "none" => op = NoOp
  /\ op.kind = "hire" => op.n > 0 /\ op.batch > 0

WorkforceOK == WorkforceTypeOK /\ Underway

OpGoesOn ==
  /\ op.kind # "none"
  /\ \/ op' = NoOp
     \/ /\ op'.r = op.r /\ op'.kind # "none"
        /\ \/ op'.kind = op.kind
           \/ op.kind = "scale" /\ op'.kind \in {"hire", "layoffList"}
           \/ op.kind = "layoffList" /\ op'.kind = "layoff"
           \/ op.kind = "resumeList" /\ op'.kind = "resume"

(* The type invariant of Workforce, in its parts.                           *)
LEMMA WorkforceTypes ==
  /\ WorkforceTypeOK <=> JobsType /\ op \in Ops /\ TodoType /\ faults \in 0..MaxFaults
  /\ WorkforceTypeOK' <=> JobsType' /\ op' \in Ops /\ TodoType' /\ faults' \in 0..MaxFaults
BY DEF WorkforceTypeOK, JobsType, Statuses, Ops, Kinds, TodoType

(* The constants of Workforce are numbers.                                  *)
LEMMA NumbersOfWorkforce ==
  /\ BatchSize \in Nat /\ BatchSize > 0 /\ MaxRetries \in Nat /\ MaxFaults \in Nat
  /\ 1 \in Regions
BY WorkforceAssumption DEF Regions

(* No operation is an operation, of kind "none".                            *)
LEMMA NoOpIsOp == NoOp \in Ops /\ NoOp.kind = "none"
BY NumbersOfWorkforce DEF NoOp, Ops, Kinds

(* No one is served when no one is to be served.                            *)
LEMMA NoOneToServeIsEmpty == DOMAIN NoOneToServe = {}
BY DEF NoOneToServe

(* o is an operation of n workers in region r as it starts.                 *)
Started(o, kind, r, n) ==
  /\ o \in Ops
  /\ n <= 0 => o = NoOp
  /\ n > 0 => /\ o.kind = kind /\ o.r = r /\ o.n = n
              /\ kind = "hire" => o.batch > 0

(* Hires, lay-offs and resumptions start as operations of the size and      *)
(* region asked for.                                                        *)
LEMMA OpsStart ==
  ASSUME NEW r \in Regions, NEW n \in Int, NEW seq \in BOOLEAN
  PROVE  /\ Started(HireOp(r, n, seq), "hire", r, n)
         /\ Started(LayoffOp(r, n, seq), "layoffList", r, n)
         /\ Started(ResumeOp(r, n, seq), "resumeList", r, n)
<1>1. n > 0 => NextBatch(n) \in 0..BatchSize /\ NextBatch(n) > 0 /\ n \in Nat
  BY NumbersOfWorkforce DEF NextBatch
<1>2. ASSUME n > 0
      PROVE  /\ HireOp(r, n, seq) \in Ops
             /\ HireOp(r, n, seq).kind = "hire" /\ HireOp(r, n, seq).r = r
             /\ HireOp(r, n, seq).n = n /\ HireOp(r, n, seq).batch > 0
  <2>1. HireOp(r, n, seq) = [NoOp EXCEPT !.kind = "hire", !.r = r, !.n = n, !.seq = seq,
                                         !.batch = NextBatch(n), !.prime = TRUE]
    BY <1>2 DEF HireOp
  <2> DEFINE o == [NoOp EXCEPT !.kind = "hire", !.r = r, !.n = n, !.seq = seq,
                               !.batch = NextBatch(n), !.prime = TRUE]
  <2>2. o \in Ops
    BY <1>1, <1>2, NoOpIsOp DEF Ops, Kinds
  <2>3. o.kind = "hire" /\ o.r = r /\ o.n = n /\ o.batch = NextBatch(n)
    BY NoOpIsOp DEF Ops
  <2> HIDE DEF o
  <2> QED BY <1>1, <1>2, <2>1, <2>2, <2>3, NoOpIsOp DEF o
<1>3. ASSUME n > 0
      PROVE  /\ LayoffOp(r, n, seq) \in Ops
             /\ LayoffOp(r, n, seq).kind = "layoffList" /\ LayoffOp(r, n, seq).r = r
             /\ LayoffOp(r, n, seq).n = n
  <2>1. LayoffOp(r, n, seq) = [NoOp EXCEPT !.kind = "layoffList", !.r = r, !.n = n, !.seq = seq]
    BY <1>3 DEF LayoffOp
  <2>2. [NoOp EXCEPT !.kind = "layoffList", !.r = r, !.n = n, !.seq = seq] \in Ops
    BY <1>1, <1>3, NoOpIsOp DEF Ops, Kinds
  <2> QED BY <2>1, <2>2, NoOpIsOp DEF Ops
<1>4. ASSUME n > 0
      PROVE  /\ ResumeOp(r, n, seq) \in Ops
             /\ ResumeOp(r, n, seq).kind = "resumeList" /\ ResumeOp(r, n, seq).r = r
             /\ ResumeOp(r, n, seq).n = n
  <2>1. ResumeOp(r, n, seq) = [NoOp EXCEPT !.kind = "resumeList", !.r = r, !.n = n, !.seq = seq]
    BY <1>4 DEF ResumeOp
  <2>2. [NoOp EXCEPT !.kind = "resumeList", !.r = r, !.n = n, !.seq = seq] \in Ops
    BY <1>1, <1>4, NoOpIsOp DEF Ops, Kinds
  <2> QED BY <2>1, <2>2, NoOpIsOp DEF Ops
<1>5. n <= 0 => /\ HireOp(r, n, seq) = NoOp /\ LayoffOp(r, n, seq) = NoOp
                /\ ResumeOp(r, n, seq) = NoOp
  BY DEF HireOp, LayoffOp, ResumeOp
<1> QED BY <1>2, <1>3, <1>4, <1>5, NoOpIsOp DEF Started

(* A hire goes on with one worker fewer, or is over.                        *)
LEMMA SubmittedType ==
  ASSUME op \in Ops, op.kind = "hire", op.n > 0, op.batch > 0
  PROVE  /\ Submitted \in Ops
         /\ op.n = 1 => Submitted = NoOp
         /\ op.n # 1 => /\ Submitted.kind = "hire" /\ Submitted.r = op.r
                        /\ Submitted.n = op.n - 1 /\ Submitted.n > 0 /\ Submitted.batch > 0
<1>1. /\ op.n \in Nat /\ op.batch \in Nat /\ op.batch <= BatchSize
      /\ op.n # 1 => op.n - 1 \in Nat /\ op.n - 1 > 0
      /\ op.n # 1 => NextBatch(op.n - 1) \in 0..BatchSize /\ NextBatch(op.n - 1) > 0
      /\ op.batch # 1 => op.batch - 1 \in 0..BatchSize /\ op.batch - 1 > 0
  BY NumbersOfWorkforce DEF NextBatch, Ops
<1>2. CASE op.n = 1
  BY <1>2, NoOpIsOp DEF Submitted
<1>3. CASE op.n # 1 /\ op.batch = 1
  BY <1>1, <1>3 DEF Submitted, Ops
<1>4. CASE op.n # 1 /\ op.batch # 1
  BY <1>1, <1>4 DEF Submitted, Ops
<1> QED BY <1>2, <1>3, <1>4

(* Whoever is served, the operation goes on with the others or is over.     *)
LEMMA ServedKeepsTypes ==
  ASSUME WorkforceOK, JobsType', \A q \in Regions : DOMAIN job'[q] = DOMAIN job[q],
         NEW i \in DOMAIN todo, Served(i) \/ Raised(i), faults' \in 0..MaxFaults
  PROVE  WorkforceOK' /\ OpGoesOn
<1>1. op.kind \in {"layoff", "resume"} /\ op \in Ops /\ TodoType
  BY WorkforceTypes DEF WorkforceOK, Underway, Ops, Kinds
<1>2. CASE Served(i)
  <2>1. /\ DOMAIN todo' = DOMAIN todo \ {i}
        /\ \A j \in DOMAIN todo' : todo'[j] = todo[j]
    BY <1>2 DEF Served, Restrict
  <2>2. CASE DOMAIN todo = {i}
    <3>1. op' = NoOp /\ DOMAIN todo' = {}
      BY <1>2, <2>1, <2>2 DEF Served
    <3> QED BY <1>1, <3>1, NoOpIsOp, WorkforceTypes DEF WorkforceOK, Underway, TodoType, OpGoesOn
  <2>3. CASE DOMAIN todo # {i}
    <3>1. op' = op /\ DOMAIN todo' # {}
      BY <1>2, <2>1, <2>3 DEF Served
    <3>2. TodoType'
      BY <1>1, <2>1, <3>1 DEF TodoType, Ops
    <3> QED BY <1>1, <3>1, <3>2, WorkforceTypes DEF WorkforceOK, Underway, OpGoesOn
  <2> QED BY <2>2, <2>3
<1>3. CASE op' = NoOp /\ todo' = NoOneToServe
  BY <1>1, <1>3, NoOpIsOp, NoOneToServeIsEmpty, WorkforceTypes
     DEF WorkforceOK, Underway, TodoType, OpGoesOn
<1> QED BY <1>2, <1>3 DEF Raised

(* The candidates of a lay-off or a resumption are jobs of the region, each *)
(* with its place.                                                          *)
LEMMA CandidatesAreJobs ==
  ASSUME NEW r \in Regions, NEW X, NEW n \in Int, JobsType
  PROVE  /\ DOMAIN FirstOf(r, X, n) \subseteq JobsIn(r, X)
         /\ \A i \in DOMAIN FirstOf(r, X, n) :
              FirstOf(r, X, n)[i] \in [place : Nat, att : 0..MaxRetries]
<1> DEFINE place(i) == Cardinality({j \in JobsIn(r, X) : Precedes(r, j, i)})
<1>1. ASSUME NEW i PROVE place(i) \in Nat
  <2>1. IsFiniteSet(JobsIn(r, X)) /\ {j \in JobsIn(r, X) : Precedes(r, j, i)} \in SUBSET JobsIn(r, X)
    BY JobsAreFinite
  <2>2. IsFiniteSet({j \in JobsIn(r, X) : Precedes(r, j, i)})
    BY <2>1, FS_Subset
  <2> QED BY <2>2, FS_CardinalityType
<1>2. FirstOf(r, X, n) = [i \in {i \in JobsIn(r, X) : place(i) < n} |-> [place |-> place(i), att |-> 0]]
  BY DEF FirstOf
<1> HIDE DEF place
<1> QED BY <1>1, <1>2, NumbersOfWorkforce

(* Every step of an operation keeps the types, and its region.              *)
LEMMA WorkforceStepKeepsTypes ==
  ASSUME WorkforceOK, WorkforceStep
  PROVE  WorkforceOK' /\ OpGoesOn
<1>1. JobsType /\ op \in Ops /\ TodoType /\ faults \in 0..MaxFaults
  BY WorkforceTypes DEF WorkforceOK
<1>2. (Fault => faults' \in 0..MaxFaults) /\ (NoFault => faults' \in 0..MaxFaults)
  BY <1>1, NumbersOfWorkforce DEF Fault, NoFault
<1>3. CASE RequestRetried
  <2>1. op.att + 1 \in 0..MaxRetries
    BY <1>1, <1>3, NumbersOfWorkforce DEF RequestRetried, Ops
  <2>2. op' = [op EXCEPT !.att = op.att + 1] /\ op' \in Ops
    BY <1>1, <1>3, <2>1 DEF RequestRetried, Ops
  <2>3. op'.kind = op.kind /\ op'.r = op.r
    BY <1>1, <2>2 DEF Ops
  <2>4. DOMAIN todo = {} /\ todo' = todo /\ job' = job
    BY <1>3 DEF RequestRetried, WorkforceOK, Underway
  <2> QED
    BY <1>1, <1>2, <1>3, <2>2, <2>3, <2>4, WorkforceTypes
       DEF RequestRetried, WorkforceOK, Underway, TodoType, OpGoesOn, JobsType
<1>4. CASE RequestFailed
  <2>1. DOMAIN todo = {} /\ todo' = todo /\ job' = job /\ op' = NoOp
    BY <1>4 DEF RequestFailed, WorkforceOK, Underway
  <2> QED
    BY <1>1, <1>2, <1>4, <2>1, NoOpIsOp, WorkforceTypes
       DEF RequestFailed, WorkforceOK, Underway, TodoType, OpGoesOn, JobsType
<1>5. CASE ScaleTo
  <2> DEFINE toStart == op.n - CurrentState(op.r).running - CurrentState(op.r).pending
  <2> DEFINE toStop == -toStart
  <2>1. toStart \in Int /\ toStop \in Int /\ op.r \in Regions
    <3>1. CurrentState(op.r).running \in Nat /\ CurrentState(op.r).pending \in Nat
      BY <1>1, JobsAreFinite DEF CurrentState, Ops
    <3> QED BY <1>1, <3>1 DEF Ops
  <2>2. op' = IF toStart > 0 THEN HireOp(op.r, toStart, TRUE)
              ELSE IF op.layoffs THEN LayoffOp(op.r, toStop, TRUE) ELSE NoOp
    BY <1>5 DEF ScaleTo
  <2> HIDE DEF toStart, toStop
  <2>3. /\ op' \in Ops
        /\ \/ op' = NoOp
           \/ op'.kind = "hire" /\ op'.r = op.r /\ op'.n > 0 /\ op'.batch > 0
           \/ op'.kind = "layoffList" /\ op'.r = op.r
    <3>1. /\ Started(HireOp(op.r, toStart, TRUE), "hire", op.r, toStart)
          /\ Started(LayoffOp(op.r, toStop, TRUE), "layoffList", op.r, toStop)
      BY <2>1, OpsStart
    <3>2. CASE Started(op', "hire", op.r, toStart)
      BY <2>1, <3>2 DEF Started
    <3>3. CASE Started(op', "layoffList", op.r, toStop)
      BY <2>1, <3>3 DEF Started
    <3> QED BY <2>2, <3>1, <3>2, <3>3, NoOpIsOp
  <2>4. DOMAIN todo = {} /\ todo' = todo /\ job' = job
    BY <1>5 DEF ScaleTo, WorkforceOK, Underway
  <2> QED
    BY <1>1, <1>2, <1>5, <2>3, <2>4, NoOpIsOp, WorkforceTypes
       DEF ScaleTo, WorkforceOK, Underway, TodoType, OpGoesOn, JobsType
<1>6. CASE ListWorkers
  <2>1. PICK X : X \in {Active, {"Paused"}} /\ todo' = FirstOf(op.r, X, op.n)
    BY <1>6 DEF ListWorkers, LayoffCandidates, PausedCandidates
  <2>2. /\ DOMAIN todo' \subseteq DOMAIN job[op.r]
        /\ \A i \in DOMAIN todo' : todo'[i] \in [place : Nat, att : 0..MaxRetries]
    BY <1>1, <2>1, CandidatesAreJobs DEF Ops, JobsIn
  <2>3. job' = job /\ op.kind \in {"layoffList", "resumeList"}
    BY <1>6 DEF ListWorkers
  <2>4. CASE DOMAIN todo' = {}
    <3>1. op' = NoOp
      BY <1>6, <2>4 DEF ListWorkers
    <3> QED
      BY <1>1, <1>2, <1>6, <2>3, <2>4, <3>1, NoOpIsOp, WorkforceTypes
         DEF ListWorkers, WorkforceOK, Underway, TodoType, OpGoesOn, JobsType
  <2>5. CASE DOMAIN todo' # {}
    <3> DEFINE kind == IF op.kind = "layoffList" THEN "layoff" ELSE "resume"
    <3>1. op' = [op EXCEPT !.kind = kind, !.att = 0]
      BY <1>6, <2>5 DEF ListWorkers
    <3>2. kind \in Kinds /\ 0 \in 0..MaxRetries
      BY NumbersOfWorkforce DEF Kinds
    <3>3. op' \in Ops /\ op'.kind = kind /\ op'.r = op.r
      BY <1>1, <3>1, <3>2 DEF Ops
    <3>4. \/ op.kind = "layoffList" /\ op'.kind = "layoff"
          \/ op.kind = "resumeList" /\ op'.kind = "resume"
      BY <2>3, <3>3
    <3>5. TodoType' /\ JobsType' /\ faults' \in 0..MaxFaults
      BY <1>1, <1>2, <1>6, <2>2, <2>3, <3>3 DEF ListWorkers, TodoType, JobsType
    <3> QED BY <2>5, <3>3, <3>4, <3>5, WorkforceTypes DEF WorkforceOK, Underway, OpGoesOn
  <2> QED BY <2>4, <2>5
<1>7. ASSUME op.kind = "hire", UNCHANGED todo, JobsType', op' = NoOp \/ op' = Submitted,
             faults' \in 0..MaxFaults
      PROVE  WorkforceOK' /\ OpGoesOn
  <2>1. DOMAIN todo = {} /\ op.n > 0 /\ op.batch > 0
    BY <1>7 DEF WorkforceOK, Underway
  <2>2. /\ op' \in Ops
        /\ \/ op' = NoOp
           \/ op'.kind = "hire" /\ op'.r = op.r /\ op'.n > 0 /\ op'.batch > 0
    BY <1>1, <1>7, <2>1, NoOpIsOp, SubmittedType
  <2> QED
    BY <1>7, <2>1, <2>2, NoOpIsOp, WorkforceTypes DEF WorkforceOK, Underway, TodoType, OpGoesOn
<1>8. CASE SubmitJob
  BY <1>1, <1>2, <1>7, <1>8, JobAdded DEF SubmitJob, AddsJob, Ops
<1>9. CASE SubmitFails
  <2>1. JobsType'
    <3>1. job' = job \/ AddsJob(op.r)
      BY <1>1, <1>9 DEF SubmitFails, AddsJob, Ops
    <3> QED BY <1>1, <3>1, JobAdded DEF JobsType
  <2> QED BY <1>2, <1>7, <1>9, <2>1 DEF SubmitFails
<1>10. ASSUME NEW i \in DOMAIN todo,
              \/ CancelOne(i) \/ CancelFails(i)
              \/ ResumeOne(i) \/ ResumeTooLate(i) \/ ResumeRetried(i) \/ ResumeFails(i)
       PROVE  WorkforceOK' /\ OpGoesOn
  <2>1. i \in DOMAIN job[op.r] /\ op.r \in Regions
    BY <1>1 DEF TodoType, Ops
  <2>2. job' = job \/ ChangesJob(op.r, i, "Ended") \/ ChangesJob(op.r, i, Stages[1])
    BY <1>10, <2>1
       DEF CancelOne, CancelFails, ResumeOne, ResumeTooLate, ResumeRetried, ResumeFails,
           Cancelled, Resumed, ChangesJob
  <2>3. "Ended" \in Statuses /\ Stages[1] \in Statuses
    BY StagesAreActive DEF Statuses
  <2>4. JobsType' /\ \A q \in Regions : DOMAIN job'[q] = DOMAIN job[q]
    <3>1. CASE job' = job
      BY <1>1, <3>1 DEF JobsType
    <3>2. CASE ChangesJob(op.r, i, "Ended")
      BY <1>1, <2>3, <3>2, JobChanges
    <3>3. CASE ChangesJob(op.r, i, Stages[1])
      BY <1>1, <2>3, <3>3, JobChanges
    <3> QED BY <2>2, <3>1, <3>2, <3>3
  <2>5. faults' \in 0..MaxFaults
    BY <1>2, <1>10
       DEF CancelOne, CancelFails, ResumeOne, ResumeTooLate, ResumeRetried, ResumeFails
  <2>6. CASE ResumeRetried(i)
    <3>1. op' = op /\ todo' = [todo EXCEPT ![i].att = todo[i].att + 1] /\ todo[i].att < MaxRetries
      BY <2>6 DEF ResumeRetried
    <3>2. DOMAIN todo' = DOMAIN todo
      BY <3>1
    <3>3. ASSUME NEW j \in DOMAIN todo
          PROVE  todo'[j] \in [place : Nat, att : 0..MaxRetries]
      <4>1. todo[j] \in [place : Nat, att : 0..MaxRetries]
            /\ todo[i] \in [place : Nat, att : 0..MaxRetries]
        BY <1>1 DEF TodoType
      <4>2. j = i => todo'[j] = [todo[i] EXCEPT !.att = todo[i].att + 1]
        BY <3>1
      <4>3. j # i => todo'[j] = todo[j]
        BY <3>1
      <4>4. todo[i].att + 1 \in 0..MaxRetries
        BY <3>1, <4>1, NumbersOfWorkforce
      <4> QED BY <4>1, <4>2, <4>3, <4>4
    <3>4. TodoType'
      BY <1>1, <2>1, <2>4, <3>1, <3>2, <3>3 DEF TodoType
    <3> QED
      BY <1>1, <2>4, <2>5, <2>6, <3>1, <3>2, <3>4, WorkforceTypes
         DEF ResumeRetried, WorkforceOK, Underway, OpGoesOn
  <2>7. CASE ~ResumeRetried(i)
    <3>1. Served(i) \/ Raised(i)
      BY <1>10, <2>7 DEF CancelOne, CancelFails, ResumeOne, ResumeTooLate, ResumeFails
    <3> QED BY <2>4, <2>5, <3>1, ServedKeepsTypes
  <2> QED BY <2>6, <2>7
<1> QED BY <1>3, <1>4, <1>5, <1>6, <1>8, <1>9, <1>10 DEF WorkforceStep

------------------------------------------------------------------------------
(* Types.                                                                   *)

Sizes == [pending : Nat, running : Nat]
Phases == {"idle", "running", "pending", "queue", "determine", "zero", "planLayoff",
           "capacity", "query", "layoff", "hire", "discover", "resume", "down"}
Modes == {"auto", "zero", "manual", "scaleTo"}

TickTypeOK ==
  /\ pc \in Phases /\ mode \in Modes /\ manual \in ManualHires \cup {0}
  /\ unread \subseteq Regions /\ lazy \in BOOLEAN /\ cached \in BOOLEAN
  /\ states \in [Regions -> Sizes] /\ lastGood \in [Regions -> Sizes]
  /\ have \in Nat /\ pending \in Nat /\ size \in Nat /\ total \in Int
  /\ avail \in [Regions -> Int] /\ plan \in [Regions -> Nat]
  /\ history \in [ceiling : Nat, trusted : BOOLEAN, faulty : BOOLEAN, slack : [Regions -> Int]]

(* The type invariant of the scheduler, in its parts.                       *)
LEMMA Types ==
  /\ TypeOK <=> WorkforceTypeOK /\ TickTypeOK
  /\ TypeOK' <=> WorkforceTypeOK' /\ TickTypeOK'
BY DEF TypeOK, TickTypeOK, Sizes, Phases, Modes

(* The constants of the scheduler are numbers.                              *)
LEMMA NumbersOfScheduler ==
  /\ NRegions \in Nat /\ NRegions > 0 /\ MaxNumWorkers \in Nat
  /\ WorkersPerJob \in Nat /\ WorkersPerJob > 0
  /\ \A n \in ManualHires \cup {0} : n \in Int
  /\ \A n \in QueueSizes : n \in Nat
  /\ \A n \in ScaleTargets : n \in Nat
  /\ \A b \in LazyChoices : b \in BOOLEAN
  /\ \A r \in Regions : MaxNodes[r] \in Nat /\ MaxJobs[r] \in Nat
BY SchedulerAssumption, WorkforceAssumption

(* The sums of naturals and of integers, as members of sets.                *)
LEMMA SumIsNatural ==
  ASSUME NEW f \in [Regions -> Nat]
  PROVE  SumOver(f) \in Nat
<1>1. Zeros \in [Regions -> Int] /\ f \in [Regions -> Int] /\ \A r \in Regions : Zeros[r] <= f[r]
  BY DEF Zeros
<1>2. SumOver(Zeros) <= SumOver(f) /\ SumOver(f) \in Int
  BY <1>1, SumIsMonotone, SumIsInteger
<1> QED BY <1>2, SumOfZeros

(* A plan of nothing is a plan.                                             *)
LEMMA ZerosType == Zeros \in [Regions -> Nat] /\ Zeros \in [Regions -> Int]
BY DEF Zeros

(* A state read holds the pending and the running workers, at most MaxJobs. *)
LEMMA CurrentStateType ==
  ASSUME JobsType, NEW r \in Regions
  PROVE  /\ CurrentState(r) \in Sizes
         /\ CurrentState(r).pending = PendingIn(r) /\ CurrentState(r).running = RunningIn(r)
         /\ PendingIn(r) \in Nat /\ RunningIn(r) \in Nat /\ ActiveIn(r) \in Nat
         /\ PendingIn(r) <= MaxJobs[r]
BY JobsAreFinite DEF CurrentState, Sizes, PendingIn, RunningIn, ActiveIn

(* The number of active workers is the sum over the regions.                *)
LEMMA ActiveCountType ==
  ASSUME JobsType
  PROVE  /\ ActiveCount \in Nat
         /\ [r \in Regions |-> ActiveIn(r)] \in [Regions -> Nat]
         /\ ActiveCount = SumOver([r \in Regions |-> ActiveIn(r)])
<1>1. [r \in Regions |-> ActiveIn(r)] \in [Regions -> Nat]
  BY CurrentStateType
<1>2. ActiveCount = SumOver([r \in Regions |-> ActiveIn(r)])
  BY DEF ActiveCount, ActiveIn
<1> QED BY <1>1, <1>2, SumIsNatural

(* A target is never above MaxNumWorkers.                                   *)
LEMMA TargetSizeType ==
  ASSUME NEW q \in Nat, NEW running \in Nat
  PROVE  TargetSize(q, running) \in Int /\ TargetSize(q, running) <= MaxNumWorkers
<1> DEFINE perJob == q \div WorkersPerJob
           tier == CASE perJob > 100000 -> 5000
                     [] perJob > 50000 /\ perJob <= 100000 -> 2000
                     [] perJob > 10000 /\ perJob <= 50000 -> 1000
                     [] perJob > 1000 /\ perJob <= 10000 -> 400
                     [] perJob > 100 /\ perJob <= 1000 -> 50
                     [] perJob > 20 /\ perJob <= 100 -> 15
                     [] perJob > 10 /\ perJob <= 20 -> 5
                     [] OTHER -> 1
<1>1. perJob \in Int
  BY NumbersOfScheduler
<1>2. tier \in Int
  <2> HIDE DEF perJob
  <2> QED BY <1>1
<1>3. TargetSize(q, running) = Least(Least((1 + running) * 10, tier), Least(q, MaxNumWorkers))
  BY DEF TargetSize
<1> HIDE DEF tier
<1> QED BY <1>2, <1>3, NumbersOfScheduler DEF Least

(* The plans of a lay-off and of a hire are naturals, whatever the room.    *)
LEMMA PlansAreTyped ==
  ASSUME TickTypeOK, total > 0
  PROVE  /\ [r \in Regions |-> states[r].pending] \in [Regions -> Int]
         /\ Distribute(total, total \div NRegions, [r \in Regions |-> states[r].pending])
              \in [Regions -> Nat]
         /\ Distribute(total, 1 + total \div NRegions, avail) \in [Regions -> Nat]
<1>1. total \in Nat /\ total \div NRegions \in Nat /\ 1 + total \div NRegions \in Nat
  BY DivisionBounds DEF TickTypeOK
<1>2. [r \in Regions |-> states[r].pending] \in [Regions -> Int] /\ avail \in [Regions -> Int]
  BY DEF TickTypeOK, Sizes
<1> QED BY <1>1, <1>2, DistributionAddsUp

(* The counts of a tick are naturals.                                       *)
LEMMA SumsAreTyped ==
  ASSUME TickTypeOK
  PROVE  /\ [r \in Regions |-> states[r].running] \in [Regions -> Nat]
         /\ [r \in Regions |-> states[r].pending] \in [Regions -> Nat]
         /\ SumOver([r \in Regions |-> states[r].running]) \in Nat
         /\ SumOver([r \in Regions |-> states[r].pending]) \in Nat
<1>1. /\ [r \in Regions |-> states[r].running] \in [Regions -> Nat]
      /\ [r \in Regions |-> states[r].pending] \in [Regions -> Nat]
  BY DEF TickTypeOK, Sizes
<1> QED BY <1>1, SumIsNatural

(* A tick that returns leaves variables of their types.                     *)
LEMMA TickReturnsTyped ==
  ASSUME TickTypeOK, TickReturns, UNCHANGED <<mode, lazy, history>>,
         lastGood' \in [Regions -> Sizes]
  PROVE  TickTypeOK'
<1>1. [r \in Regions |-> NoState] \in [Regions -> Sizes]
  BY DEF NoState, Sizes
<1>2. /\ pc' \in Phases /\ unread' \subseteq Regions /\ cached' \in BOOLEAN
      /\ manual' \in ManualHires \cup {0} /\ states' \in [Regions -> Sizes]
      /\ have' \in Nat /\ pending' \in Nat /\ size' \in Nat /\ total' \in Int
      /\ avail' \in [Regions -> Int] /\ plan' \in [Regions -> Nat]
  <2>1. pc' \in Phases /\ unread' \subseteq Regions /\ manual' \in ManualHires \cup {0}
    BY DEF TickReturns, Phases
  <2>2. cached' \in BOOLEAN
    BY Zenon DEF TickReturns
  <2>3. have' \in Nat /\ pending' \in Nat /\ size' \in Nat /\ total' \in Int
    BY DEF TickReturns
  <2> QED BY <1>1, <2>1, <2>2, <2>3, ZerosType DEF TickReturns
<1> QED BY <1>2 DEF TickTypeOK

(* The beginning of a reading phase leaves variables of their types.        *)
LEMMA FetchTyped ==
  ASSUME TickTypeOK, NEW phase \in Phases, Fetch(phase)
  PROVE  pc' \in Phases /\ unread' \subseteq Regions
BY DEF Fetch

(* A decision leaves variables of their types.                              *)
LEMMA DecideTyped ==
  ASSUME TickTypeOK, NEW toHire \in Int, Decide(toHire),
         size' \in Nat, UNCHANGED <<mode, lazy, lastGood, history>>
  PROVE  TickTypeOK'
<1>1. manual \in Int
  BY NumbersOfScheduler DEF TickTypeOK
<1>2. ASSUME NEW phase \in Phases, Fetch(phase), total' \in Int,
             UNCHANGED <<manual, states, cached, have, pending, avail, plan>>
      PROVE  TickTypeOK'
  BY <1>2, FetchTyped DEF TickTypeOK
<1>3. CASE mode = "zero" /\ Fetch("zero")
           /\ UNCHANGED <<manual, states, cached, have, pending, size, total, avail, plan>>
  BY <1>2, <1>3 DEF Phases, TickTypeOK
<1>4. CASE /\ mode = "manual" /\ manual # 0 /\ ApplyUniformChange
           /\ UNCHANGED <<manual, states, cached, have, pending, size, total, avail>>
  <2>1. plan' \in [Regions -> Nat] /\ unread' \subseteq Regions /\ pc' \in Phases
    BY <1>1, <1>4 DEF ApplyUniformChange, Act, Phases
  <2> QED BY <1>4, <2>1 DEF TickTypeOK
<1>5. CASE TickReturns
  BY <1>5, TickReturnsTyped DEF TickTypeOK
<1>6. CASE total' = -toHire /\ Fetch("planLayoff")
           /\ UNCHANGED <<manual, states, cached, have, pending, size, avail, plan>>
  BY <1>2, <1>6 DEF Phases
<1>7. CASE total' = toHire /\ Fetch("capacity")
           /\ UNCHANGED <<manual, states, cached, have, pending, size, avail, plan>>
  BY <1>2, <1>7 DEF Phases
<1> QED BY <1>3, <1>4, <1>5, <1>6, <1>7 DEF Decide

------------------------------------------------------------------------------
(* The inductive invariant.                                                 *)

Reading == {"running", "pending", "queue", "determine", "zero", "planLayoff", "capacity"}
Acting == {"layoff", "hire", "resume"}

(* Which operation may be under way when, and whose: the operations of a    *)
(* tick concern a region its phase has already visited.                     *)
Control ==
  /\ Underway
  /\ op # NoOp => pc \in Acting \cup {"idle"}
  /\ op # NoOp /\ pc # "idle" => op.r \notin unread
  /\ op # NoOp /\ pc = "idle" =>
       mode = "scaleTo" /\ op.kind \in {"scale", "hire", "layoffList", "layoff"}
  /\ pc = "layoff" => op.kind \in {"none", "layoffList", "layoff"}
  /\ pc = "hire" => op.kind \in {"none", "hire"}
  /\ pc = "resume" => op.kind \in {"none", "resumeList", "resume"}

(* Which command is in which phase; states once read are cached for it; a   *)
(* lazy tick reads them once, and what it plans is never nothing.           *)
Progress ==
  /\ mode = "scaleTo" => pc = "idle"
  /\ pc = "zero" => mode = "zero"
  /\ pc \in {"planLayoff", "capacity", "query", "discover", "resume"} => mode = "auto"
  /\ pc = "hire" => mode \in {"auto", "manual"}
  /\ mode # "manual" \/ pc = "idle" => manual = 0
  /\ pc \in Reading \cup {"query"} /\ (pc = "running" => unread # Regions) => cached
  /\ lazy /\ pc \in Reading \ {"running"} => unread = {}
  /\ pc \in {"planLayoff", "capacity", "query"} => total > 0
  /\ ~history.faulty => history.trusted
  /\ pc = "down" => history.faulty

(* No more pending workers were ever counted than jobs can exist.           *)
Bounded ==
  \A r \in Regions : states[r].pending <= MaxJobs[r] /\ lastGood[r].pending <= MaxJobs[r]

(* While a tick reads and plans nobody is hired, so a region has at most as *)
(* many workers as were read there.                                         *)
SizeOf(r) == states[r].running + states[r].pending

Sized ==
  history.trusted =>
    /\ pc \in Reading => \A r \in Regions \ unread : ActiveIn(r) <= SizeOf(r)
    /\ lazy /\ pc = "query" => \A r \in Regions : ActiveIn(r) <= SizeOf(r)

(* The counts of a lazy tick are those of one reading, and what it hires    *)
(* does not lead beyond MaxNumWorkers.                                      *)
RunningRead == SumOver([r \in Regions |-> states[r].running])
WorkersRead == SumOver([r \in Regions |-> SizeOf(r)])

Counted ==
  lazy =>
    /\ pc = "pending" => have = RunningRead
    /\ pc \in {"queue", "determine"} => have = WorkersRead
    /\ pc \in {"capacity", "query"} => total + WorkersRead <= MaxNumWorkers

(* The workers there are, those the operation under way may still bring     *)
(* about, and those that are planned for other regions keep to the ceiling. *)
Coming == CASE op.kind = "hire" -> op.n
            [] op.kind = "scale" -> Positive(op.n - ActiveIn(op.r))
            [] OTHER -> 0

Awaiting == [r \in Regions |-> IF r \in unread THEN plan[r] ELSE 0]

Planning == CASE pc = "hire" -> SumOver(Awaiting)
              [] pc \in {"running", "pending", "queue", "determine"} -> NRegions * Positive(manual)
              [] OTHER -> 0

Ceiling ==
  /\ mode = "auto" /\ pc # "idle" => history.ceiling >= MaxNumWorkers
  /\ lazy /\ history.trusted /\ (pc # "idle" \/ op # NoOp) =>
       ActiveCount + Coming + Planning <= history.ceiling

(* A scale-to-zero without a failure: every worker of a region still to be  *)
(* visited is planned for, the region being visited lays off all it has,    *)
(* and the regions visited have none.                                       *)
Zeroed ==
  mode = "zero" /\ ~history.faulty =>
    /\ pc = "layoff" =>
         \A r \in Regions :
           /\ r \in unread => ActiveIn(r) <= plan[r]
           /\ r \notin unread /\ (op = NoOp \/ op.r # r) => JobsIn(r, Active) = {}
    /\ pc = "idle" => \A r \in Regions : JobsIn(r, Active) = {}
    /\ op.kind = "layoffList" => ActiveIn(op.r) <= op.n
    /\ op.kind = "layoff" => JobsIn(op.r, Active) \subseteq DOMAIN todo

(* The slack of a region makes up for the pending workers that were read    *)
(* and are no longer pending: it is at least the number of running ones the *)
(* lay-off under way has chosen.                                            *)
RunningToLayOff == DOMAIN todo \cap JobsIn(op.r, {"Running"})

Slackened ==
  history.trusted =>
    /\ \A r \in Regions : history.slack[r] >= 0
    /\ mode = "auto" =>
         /\ pc \in Reading \ {"zero", "capacity"} =>
              \A r \in Regions \ unread : states[r].pending <= PendingIn(r) + history.slack[r]
         /\ pc = "layoff" =>
              /\ \A r \in unread : states[r].pending <= PendingIn(r) + history.slack[r]
              /\ op.kind = "layoffList" =>
                   op.n <= PendingIn(op.r) + history.slack[op.r] /\ op.n <= MaxJobs[op.r]
              /\ op.kind = "layoff" => Cardinality(RunningToLayOff) <= history.slack[op.r]

Structure == TypeOK /\ Control /\ Progress

IInv == Structure /\ Bounded /\ Sized /\ Counted /\ Ceiling /\ Zeroed /\ Slackened /\ PlansAddUp

------------------------------------------------------------------------------
(* What the service does in a step.                                         *)

(* The service changes the status of one job that was active.               *)
Moves(r, i, status) ==
  /\ ChangesJob(r, i, status) /\ job[r][i] \in Active
  /\ \/ status = "Ended"
     \/ job[r][i] = "Running" /\ status = "Paused"
     \/ job[r][i] \in Pending /\ status \in Active
  /\ UNCHANGED <<op, todo, faults, tickVars>>

(* A step of the service changes one job that was active.                   *)
LEMMA PlatformMoves ==
  ASSUME NEW r \in Regions, PlatformActs(r)
  PROVE  \E i \in DOMAIN job[r], status \in Statuses : Moves(r, i, status)
<1>1. PlatformStep(r) /\ UNCHANGED tickVars
  BY DEF PlatformActs
<1>2. PICK i \in DOMAIN job[r] : JobAdvances(r, i) \/ JobPreempted(r, i) \/ JobEnds(r, i)
  BY <1>1 DEF PlatformStep
<1>3. ASSUME NEW status \in Statuses, Becomes(r, i, status), job[r][i] \in Active,
             \/ status = "Ended"
             \/ job[r][i] = "Running" /\ status = "Paused"
             \/ job[r][i] \in Pending /\ status \in Active
      PROVE  Moves(r, i, status)
  BY <1>1, <1>2, <1>3 DEF Becomes, Moves, ChangesJob
<1>4. CASE JobAdvances(r, i)
  <2>1. PICK s \in 1..(Len(Stages) - 1) : job[r][i] = Stages[s] /\ Becomes(r, i, Stages[s + 1])
    BY <1>4 DEF JobAdvances
  <2>2. Stages[s] \in Pending /\ Stages[s] \in Active /\ Stages[s + 1] \in Active
    BY StagesAreActive, KnownStatuses
  <2> QED BY <1>3, <2>1, <2>2 DEF Statuses
<1>5. CASE JobPreempted(r, i)
  BY <1>3, <1>5, KnownStatuses DEF JobPreempted, Statuses
<1>6. CASE JobEnds(r, i)
  BY <1>3, <1>6 DEF JobEnds, Statuses
<1> QED BY <1>2, <1>4, <1>5, <1>6

------------------------------------------------------------------------------
(* Type correctness: first of the operation under way, then of the tick.    *)

LEMMA WorkforceTypesKept ==
  ASSUME Structure, Next
  PROVE  WorkforceOK'
<1>1. WorkforceOK /\ JobsType /\ op \in Ops /\ TodoType /\ faults \in 0..MaxFaults
      /\ TickTypeOK
  BY Types, WorkforceTypes DEF Structure, Control, WorkforceOK
<1>2. (Fault => faults' \in 0..MaxFaults) /\ (NoFault => faults' \in 0..MaxFaults)
  BY <1>1, NumbersOfWorkforce DEF Fault, NoFault
<1>3. ASSUME UNCHANGED <<job, op, todo>>, faults' \in 0..MaxFaults
      PROVE  WorkforceOK'
  BY <1>1, <1>3, WorkforceTypes DEF WorkforceOK, Underway, JobsType, TodoType
<1>4. ASSUME op = NoOp, UNCHANGED <<job, todo, faults>>, op' \in Ops,
             op'.kind \notin {"layoff", "resume"},
             op'.kind = "none" => op' = NoOp,
             op'.kind = "hire" => op'.n > 0 /\ op'.batch > 0
      PROVE  WorkforceOK'
  <2>1. DOMAIN todo = {} /\ todo' = todo
    BY <1>1, <1>4, NoOpIsOp DEF WorkforceOK, Underway
  <2> QED BY <1>1, <1>4, <2>1, WorkforceTypes DEF WorkforceOK, Underway, JobsType, TodoType
<1>5. CASE \/ \E r \in Regions : StateRead(r) \/ StateReadFails(r) \/ QueryCapacity(r)
                                 \/ DiscoverPaused(r)
           \/ CountRunning \/ CountPending \/ (\E n \in QueueSizes : ReadQueueSize(n))
           \/ QueueSizeFails \/ DetermineNumberOfWorkers
           \/ ScaleToZero \/ PlanLayoff \/ SnapshotStates \/ PlanHire
           \/ Acted \/ ResumeAllRegions \/ Restarts
           \/ RunForever \/ TickBegins("zero", 0) \/ (\E n \in ManualHires : TickBegins("manual", n))
  <2>1. UNCHANGED <<job, op, todo>>
    BY <1>5
       DEF StateRead, StateReadFails, QueryCapacity, DiscoverPaused, CountRunning, CountPending,
           ReadQueueSize, QueueSizeFails, DetermineNumberOfWorkers, ScaleToZero, PlanLayoff,
           SnapshotStates, PlanHire, Acted, ResumeAllRegions, Restarts, RunForever, TickBegins,
           workforceVars
  <2>2. faults' \in 0..MaxFaults
    BY <1>1, <1>2, <1>5
       DEF StateRead, StateReadFails, QueryCapacity, DiscoverPaused, CountRunning, CountPending,
           ReadQueueSize, QueueSizeFails, DetermineNumberOfWorkers, ScaleToZero, PlanLayoff,
           SnapshotStates, PlanHire, Acted, ResumeAllRegions, Restarts, RunForever, TickBegins,
           workforceVars
  <2> QED BY <1>3, <2>1, <2>2
<1>6. CASE ActInRegion
  <2>1. PICK r \in unread :
          op' = CASE pc = "layoff" -> LayoffOp(r, plan[r], FALSE)
                  [] pc = "hire" -> HireOp(r, plan[r], FALSE)
                  [] pc = "resume" -> ResumeOp(r, plan[r], FALSE)
    BY <1>6 DEF ActInRegion, HireOn
  <2>2. r \in Regions /\ plan[r] \in Int
    BY <1>1 DEF TickTypeOK
  <2>3. \E kind \in {"hire", "layoffList", "resumeList"} : Started(op', kind, r, plan[r])
    <3>1. pc \in {"layoff", "hire", "resume"}
      BY <1>6 DEF ActInRegion
    <3>2. /\ Started(HireOp(r, plan[r], FALSE), "hire", r, plan[r])
          /\ Started(LayoffOp(r, plan[r], FALSE), "layoffList", r, plan[r])
          /\ Started(ResumeOp(r, plan[r], FALSE), "resumeList", r, plan[r])
      BY <2>2, OpsStart
    <3> QED BY <2>1, <3>1, <3>2
  <2>4. /\ op' \in Ops /\ op'.kind \notin {"layoff", "resume"}
        /\ op'.kind = "none" => op' = NoOp
        /\ op'.kind = "hire" => op'.n > 0 /\ op'.batch > 0
    BY <2>2, <2>3, NoOpIsOp DEF Started
  <2> QED BY <1>4, <1>6, <2>4 DEF ActInRegion
<1>7. CASE WorkforceActs
  BY <1>1, <1>7, WorkforceStepKeepsTypes DEF WorkforceActs
<1>8. CASE \E r \in Regions : PlatformActs(r)
  <2>1. PICK r \in Regions : PlatformActs(r)
    BY <1>8
  <2>2. PICK i \in DOMAIN job[r], status \in Statuses : Moves(r, i, status)
    BY <2>1, PlatformMoves
  <2>3. JobsType' /\ \A q \in Regions : DOMAIN job'[q] = DOMAIN job[q]
    BY <1>1, <2>2, JobChanges DEF Moves
  <2> QED BY <1>1, <2>2, <2>3, WorkforceTypes DEF WorkforceOK, Underway, TodoType, Ops, Moves
<1>9. CASE \E r \in Regions, n \in ScaleTargets, layoffs \in BOOLEAN : ScaleToCalled(r, n, layoffs)
  <2>1. PICK r \in Regions, n \in ScaleTargets, layoffs \in BOOLEAN : ScaleToCalled(r, n, layoffs)
    BY <1>9
  <2>2. n \in Nat
    BY NumbersOfScheduler
  <2>3. op' = [NoOp EXCEPT !.kind = "scale", !.r = r, !.n = n, !.layoffs = layoffs]
    BY <2>1 DEF ScaleToCalled
  <2>4. op' \in Ops /\ op'.kind = "scale"
    BY <2>2, <2>3, NoOpIsOp DEF Ops, Kinds
  <2> QED BY <1>4, <2>1, <2>4 DEF ScaleToCalled, Idle
<1> QED BY <1>5, <1>6, <1>7, <1>8, <1>9 DEF Next, TickStep, Commands

(* Every step keeps the types of the tick's variables.                      *)
LEMMA TickTypesKept ==
  ASSUME Structure, Next
  PROVE  TickTypeOK'
<1>1. JobsType /\ op \in Ops /\ TickTypeOK
  BY Types, WorkforceTypes DEF Structure
<1>2. history \in [ceiling : Nat, trusted : BOOLEAN, faulty : BOOLEAN, slack : [Regions -> Int]]
      /\ manual \in Int /\ have \in Nat
  BY <1>1, NumbersOfScheduler DEF TickTypeOK
<1>3. ASSUME NEW r \in Regions, StateRead(r)
      PROVE  TickTypeOK'
  <2>1. CurrentState(r) \in Sizes
    BY <1>1, CurrentStateType
  <2>2. states' \in [Regions -> Sizes] /\ lastGood' \in [Regions -> Sizes]
    BY <1>1, <1>3, <2>1 DEF StateRead, TickTypeOK
  <2>3. cached' \in BOOLEAN
    BY <1>3, Zenon DEF StateRead
  <2> QED BY <1>1, <1>3, <2>2, <2>3 DEF StateRead, TickTypeOK
<1>4. ASSUME NEW r \in Regions, StateReadFails(r)
      PROVE  TickTypeOK'
  <2>1. states' \in [Regions -> Sizes] /\ unread' \subseteq Regions
    BY <1>1, <1>4 DEF StateReadFails, TickTypeOK
  <2>2. cached' \in BOOLEAN
    BY <1>4, Zenon DEF StateReadFails
  <2>3. history' = [history EXCEPT !.trusted = FALSE, !.faulty = TRUE]
    BY <1>4 DEF StateReadFails
  <2>4. history' \in [ceiling : Nat, trusted : BOOLEAN, faulty : BOOLEAN, slack : [Regions -> Int]]
    BY <1>2, <2>3
  <2> QED BY <1>1, <1>4, <2>1, <2>2, <2>4 DEF StateReadFails, TickTypeOK
<1>5. ASSUME NEW r \in Regions, QueryCapacity(r)
      PROVE  TickTypeOK'
  <2>1. AvailableToHire(r, states[r]) \in Int
    BY <1>1, JobsAreFinite, NumbersOfScheduler DEF AvailableToHire, TargetNodeCount, TickTypeOK, Sizes
  <2>2. avail' \in [Regions -> Int]
    BY <1>1, <1>5, <2>1 DEF QueryCapacity, TickTypeOK
  <2> QED BY <1>1, <1>5, <2>2 DEF QueryCapacity, TickTypeOK
<1>6. ASSUME NEW r \in Regions, DiscoverPaused(r)
      PROVE  TickTypeOK'
  <2>1. Cardinality(JobsIn(r, {"Paused"})) \in Nat
    BY <1>1, JobsAreFinite
  <2>2. plan' \in [Regions -> Nat]
    BY <1>1, <1>6, <2>1 DEF DiscoverPaused, TickTypeOK
  <2> QED BY <1>1, <1>6, <2>2 DEF DiscoverPaused, TickTypeOK
<1>7. CASE CountRunning
  <2>1. have' \in Nat
    BY <1>1, <1>7, SumsAreTyped DEF CountRunning
  <2>2. "pending" \in Phases
    BY DEF Phases
  <2>3. pc' \in Phases /\ unread' \subseteq Regions
    BY <1>1, <1>7, <2>2, FetchTyped DEF CountRunning
  <2> QED BY <1>1, <1>7, <2>1, <2>3 DEF CountRunning, TickTypeOK
<1>8. CASE CountPending
  <2>1. pending' \in Nat
    BY <1>1, <1>8, SumsAreTyped DEF CountPending
  <2>2. have' \in Nat /\ pc' \in Phases
    BY <1>2, <1>8, <2>1 DEF CountPending, Phases
  <2> QED BY <1>1, <1>8, <2>1, <2>2 DEF CountPending, TickTypeOK
<1>9. ASSUME NEW n \in QueueSizes, ReadQueueSize(n)
      PROVE  TickTypeOK'
  <2>1. n \in Nat /\ 0 - have \in Int /\ size \in Nat
    BY <1>1, <1>2, NumbersOfScheduler DEF TickTypeOK
  <2>2. CASE n = 0
    <3>1. Decide(0 - have) /\ UNCHANGED <<mode, lazy, lastGood, history>>
      BY <1>9, <2>2 DEF ReadQueueSize
    <3>2. size' \in Nat
      BY <2>1, <3>1 DEF Decide, TickReturns
    <3> QED BY <1>1, <2>1, <3>1, <3>2, DecideTyped
  <2>3. CASE n # 0
    <3>1. Fetch("determine") /\ size' = n
      BY <1>9, <2>3 DEF ReadQueueSize
    <3>2. "determine" \in Phases
      BY DEF Phases
    <3>3. pc' \in Phases /\ unread' \subseteq Regions
      BY <1>1, <3>1, <3>2, FetchTyped
    <3> QED BY <1>1, <1>9, <2>1, <2>3, <3>1, <3>3 DEF ReadQueueSize, TickTypeOK
  <2> QED BY <2>2, <2>3
<1>10. CASE QueueSizeFails
  <2>1. history' = [history EXCEPT !.faulty = TRUE]
    BY <1>10 DEF QueueSizeFails
  <2>2. history' \in [ceiling : Nat, trusted : BOOLEAN, faulty : BOOLEAN, slack : [Regions -> Int]]
    BY <1>2, <2>1
  <2> QED BY <1>1, <1>10, <2>2 DEF QueueSizeFails, TickTypeOK, Phases
<1>11. CASE DetermineNumberOfWorkers
  <2> DEFINE target == TargetSize(size, SumOver([r \in Regions |-> states[r].running]))
  <2>1. target \in Int
    BY <1>1, SumsAreTyped, TargetSizeType DEF TickTypeOK
  <2>2. Decide(target - have) /\ UNCHANGED <<mode, lazy, lastGood, history>>
    BY <1>11 DEF DetermineNumberOfWorkers
  <2> HIDE DEF target
  <2>3. target - have \in Int /\ size \in Nat
    BY <1>1, <1>2, <2>1 DEF TickTypeOK
  <2>4. size' \in Nat
    BY <2>2, <2>3 DEF Decide, TickReturns
  <2> QED BY <1>1, <2>2, <2>3, <2>4, DecideTyped
<1>12. ASSUME NEW phase \in Phases, NEW p \in [Regions -> Nat], Act(phase, p),
              UNCHANGED <<mode, manual, lazy, states, cached, lastGood, have, pending,
                          size, total, avail, history>>
       PROVE  TickTypeOK'
  BY <1>1, <1>12 DEF Act, TickTypeOK
<1>13. "layoff" \in Phases /\ "hire" \in Phases /\ "resume" \in Phases /\ "discover" \in Phases
       /\ "query" \in Phases /\ "running" \in Phases
  BY DEF Phases
<1>14. CASE ScaleToZero
  <2>1. [r \in Regions |-> states[r].running + states[r].pending] \in [Regions -> Nat]
    BY <1>1 DEF TickTypeOK, Sizes
  <2> QED BY <1>12, <1>13, <1>14, <2>1 DEF ScaleToZero
<1>15. CASE PlanLayoff
  <2>1. total > 0
    BY <1>15 DEF PlanLayoff, Structure, Progress
  <2> QED BY <1>1, <1>12, <1>13, <1>15, <2>1, PlansAreTyped DEF PlanLayoff
<1>16. CASE SnapshotStates
  BY <1>1, <1>13, <1>16 DEF SnapshotStates, TickTypeOK
<1>17. CASE PlanHire
  <2>1. total > 0
    BY <1>17 DEF PlanHire, Structure, Progress
  <2> QED BY <1>1, <1>12, <1>13, <1>17, <2>1, PlansAreTyped DEF PlanHire
<1>18. CASE ActInRegion
  BY <1>1, <1>18 DEF ActInRegion, TickTypeOK
<1>19. CASE Acted
  <2>1. CASE TickReturns
    BY <1>1, <1>19, <2>1, TickReturnsTyped DEF Acted, TickTypeOK
  <2>2. CASE ~TickReturns
    BY <1>1, <1>13, <1>19, <2>2, ZerosType DEF Acted, TickTypeOK
  <2> QED BY <2>1, <2>2
<1>20. CASE ResumeAllRegions
  BY <1>1, <1>12, <1>13, <1>20 DEF ResumeAllRegions, TickTypeOK
<1>21. CASE Restarts
  <2>1. [r \in Regions |-> NoState] \in [Regions -> Sizes]
    BY DEF NoState, Sizes
  <2> QED BY <1>1, <1>21, <2>1, TickReturnsTyped DEF Restarts
<1>22. ASSUME NEW m \in Modes, NEW n \in ManualHires \cup {0}, TickBegins(m, n)
       PROVE  TickTypeOK'
  <2>1. n \in Int /\ ActiveCount \in Nat
    BY <1>1, NumbersOfScheduler, ActiveCountType
  <2>2. NRegions * Positive(n) \in Nat
    BY <2>1, NumbersOfScheduler DEF Positive
  <2> DEFINE ceiling == IF m = "auto" /\ ActiveCount < MaxNumWorkers THEN MaxNumWorkers
                        ELSE ActiveCount + NRegions * Positive(n)
  <2>3. ceiling \in Nat
    BY <2>1, <2>2, NumbersOfScheduler
  <2>4. history' = [history EXCEPT !.ceiling = ceiling, !.trusted = TRUE, !.faulty = FALSE,
                                   !.slack = Zeros]
    BY <1>22 DEF TickBegins
  <2> HIDE DEF ceiling
  <2>5. history' \in [ceiling : Nat, trusted : BOOLEAN, faulty : BOOLEAN, slack : [Regions -> Int]]
    BY <1>2, <2>3, <2>4, ZerosType
  <2>6. cached' \in BOOLEAN
    BY <1>22, Zenon DEF TickBegins
  <2> QED BY <1>1, <1>13, <1>22, <2>5, <2>6 DEF TickBegins, TickTypeOK
<1>23. CASE RunForever \/ TickBegins("zero", 0) \/ (\E n \in ManualHires : TickBegins("manual", n))
  BY <1>22, <1>23 DEF RunForever, Modes
<1>24. CASE WorkforceActs
  <2> DEFINE slack == IF pc = "layoff" /\ mode = "auto"
                      THEN [r \in Regions |-> history.slack[r] - LaidOffRunning(r)]
                      ELSE history.slack
             faulty == history.faulty \/ faults' # faults
  <2>1. slack \in [Regions -> Int]
    <3>1. ASSUME NEW r \in Regions PROVE LaidOffRunning(r) \in Int
      <4>1. IsFiniteSet(JobsIn(r, {"Running"})) /\ LaidOffRunning(r) =
              Cardinality({i \in JobsIn(r, {"Running"}) : job'[r][i] = "Ended"})
        BY <1>1, JobsAreFinite DEF LaidOffRunning, JobsIn
      <4>2. IsFiniteSet({i \in JobsIn(r, {"Running"}) : job'[r][i] = "Ended"})
        BY <4>1, FS_Subset
      <4> QED BY <4>1, <4>2, FS_CardinalityType
    <3>2. history.slack \in [Regions -> Int]
      BY <1>2
    <3> QED BY <3>1, <3>2
  <2>2. faulty \in BOOLEAN
    BY <1>2
  <2>3. history' = [history EXCEPT !.faulty = faulty, !.slack = slack]
    BY <1>24 DEF WorkforceActs
  <2> HIDE DEF slack, faulty
  <2>4. history' \in [ceiling : Nat, trusted : BOOLEAN, faulty : BOOLEAN, slack : [Regions -> Int]]
    BY <1>2, <2>1, <2>2, <2>3
  <2> QED BY <1>1, <1>24, <2>4 DEF WorkforceActs, TickTypeOK, tickVars
<1>25. ASSUME NEW r \in Regions, PlatformActs(r)
       PROVE  TickTypeOK'
  <2>1. Least(history.slack[r] + 1, MaxJobs[r]) \in Int
    BY <1>2, NumbersOfScheduler DEF Least
  <2>2. history' \in {history, [history EXCEPT !.slack[r] = Least(history.slack[r] + 1, MaxJobs[r])]}
    BY <1>25 DEF PlatformActs
  <2>3. history' \in [ceiling : Nat, trusted : BOOLEAN, faulty : BOOLEAN, slack : [Regions -> Int]]
    BY <1>2, <2>1, <2>2
  <2> QED BY <1>1, <1>25, <2>3 DEF PlatformActs, TickTypeOK, tickVars
<1>26. ASSUME NEW r \in Regions, NEW n \in ScaleTargets, NEW layoffs \in BOOLEAN,
              ScaleToCalled(r, n, layoffs)
       PROVE  TickTypeOK'
  <2> DEFINE ceiling == ActiveCount + Positive(n - Cardinality(JobsIn(r, Active)))
  <2>1. ceiling \in Nat
    BY <1>1, ActiveCountType, JobsAreFinite, NumbersOfScheduler DEF Positive
  <2>2. history' = [history EXCEPT !.ceiling = ceiling, !.trusted = TRUE, !.faulty = FALSE,
                                   !.slack = Zeros]
    BY <1>26 DEF ScaleToCalled
  <2> HIDE DEF ceiling
  <2>3. history' \in [ceiling : Nat, trusted : BOOLEAN, faulty : BOOLEAN, slack : [Regions -> Int]]
    BY <1>2, <2>1, <2>2, ZerosType
  <2> QED BY <1>1, <1>26, <2>3 DEF ScaleToCalled, TickTypeOK, Modes
<1> QED
  BY <1>3, <1>4, <1>5, <1>6, <1>7, <1>8, <1>9, <1>10, <1>11, <1>14, <1>15, <1>16, <1>17, <1>18,
     <1>19, <1>20, <1>21, <1>23, <1>24, <1>25, <1>26 DEF Next, TickStep, Commands

(* Which steps find no operation under way and leave none.                  *)
QuietStep ==
  \/ \E r \in Regions : StateRead(r) \/ StateReadFails(r) \/ QueryCapacity(r) \/ DiscoverPaused(r)
  \/ CountRunning \/ CountPending \/ (\E n \in QueueSizes : ReadQueueSize(n))
  \/ QueueSizeFails \/ DetermineNumberOfWorkers
  \/ ScaleToZero \/ PlanLayoff \/ SnapshotStates \/ PlanHire
  \/ Acted \/ ResumeAllRegions \/ Restarts
  \/ (\E m \in Modes, n \in ManualHires \cup {0} : TickBegins(m, n) /\ (m # "manual" => n = 0)
                                                   /\ m # "scaleTo")

(* Every step is a quiet one, the start of an operation, a step of one, a   *)
(* step of the service, or a call of scale_to.                              *)
LEMMA StepsOfNext ==
  ASSUME Next
  PROVE  \/ QuietStep \/ ActInRegion \/ WorkforceActs \/ (\E r \in Regions : PlatformActs(r))
         \/ \E r \in Regions, n \in ScaleTargets, layoffs \in BOOLEAN : ScaleToCalled(r, n, layoffs)
BY DEF Next, TickStep, Commands, RunForever, QuietStep, Modes

(* In a quiet step no operation is under way and no job changes.            *)
LEMMA QuietStepsAreQuiet ==
  ASSUME Structure, QuietStep
  PROVE  op = NoOp /\ UNCHANGED <<job, op, todo>>
<1>1. UNCHANGED <<job, op, todo>>
  BY DEF QuietStep, StateRead, StateReadFails, QueryCapacity, DiscoverPaused, CountRunning,
         CountPending, ReadQueueSize, QueueSizeFails, DetermineNumberOfWorkers, ScaleToZero,
         PlanLayoff, SnapshotStates, PlanHire, Acted, ResumeAllRegions, Restarts, TickBegins,
         workforceVars
<1>2. op = NoOp \/ pc \notin Acting \cup {"idle"}
  BY DEF QuietStep, StateRead, StateReadFails, QueryCapacity, DiscoverPaused, CountRunning,
         CountPending, ReadQueueSize, QueueSizeFails, DetermineNumberOfWorkers, ScaleToZero,
         PlanLayoff, SnapshotStates, PlanHire, Acted, ResumeAllRegions, Restarts, TickBegins,
         Idle, Fetching, Acting
<1> QED BY <1>1, <1>2 DEF Structure, Control

(* Every step keeps which operation may be under way when.                  *)
LEMMA ControlKept ==
  ASSUME Structure, Next
  PROVE  Control'
<1>1. WorkforceOK' /\ Underway' /\ Control /\ WorkforceOK /\ op \in Ops /\ TickTypeOK
  BY WorkforceTypesKept, WorkforceTypes, Types DEF WorkforceOK, Structure, Control
<1>2. ASSUME op' = NoOp PROVE Control'
  BY <1>1, <1>2, NoOpIsOp DEF Control
<1>3. CASE QuietStep
  BY <1>2, <1>3, QuietStepsAreQuiet
<1>4. CASE ActInRegion
  <2>1. PICK r \in unread :
          /\ unread' = unread \ {r}
          /\ op' = CASE pc = "layoff" -> LayoffOp(r, plan[r], FALSE)
                     [] pc = "hire" -> HireOp(r, plan[r], FALSE)
                     [] pc = "resume" -> ResumeOp(r, plan[r], FALSE)
    BY <1>4 DEF ActInRegion, HireOn
  <2>2. r \in Regions /\ plan[r] \in Int /\ pc \in Acting /\ pc' = pc
    BY <1>1, <1>4 DEF TickTypeOK, ActInRegion, Acting
  <2>3. /\ pc = "layoff" => Started(op', "layoffList", r, plan[r])
        /\ pc = "hire" => Started(op', "hire", r, plan[r])
        /\ pc = "resume" => Started(op', "resumeList", r, plan[r])
    <3>1. /\ Started(HireOp(r, plan[r], FALSE), "hire", r, plan[r])
          /\ Started(LayoffOp(r, plan[r], FALSE), "layoffList", r, plan[r])
          /\ Started(ResumeOp(r, plan[r], FALSE), "resumeList", r, plan[r])
      BY <2>2, OpsStart
    <3> QED BY <2>1, <3>1
  <2>4. op' = NoOp \/ (/\ op'.r = r
                       /\ pc = "layoff" => op'.kind = "layoffList"
                       /\ pc = "hire" => op'.kind = "hire"
                       /\ pc = "resume" => op'.kind = "resumeList")
    BY <2>2, <2>3 DEF Started, Acting
  <2> QED BY <1>1, <1>2, <2>1, <2>2, <2>4 DEF Control, Acting
<1>5. CASE WorkforceActs
  <2>1. OpGoesOn /\ UNCHANGED tickVars
    BY <1>1, <1>5, WorkforceStepKeepsTypes DEF WorkforceActs
  <2>2. CASE op' # NoOp
    <3>1. /\ op'.r = op.r /\ op.kind # "none" /\ op # NoOp
          /\ \/ op'.kind = op.kind
             \/ op.kind = "scale" /\ op'.kind \in {"hire", "layoffList"}
             \/ op.kind = "layoffList" /\ op'.kind = "layoff"
             \/ op.kind = "resumeList" /\ op'.kind = "resume"
      BY <2>1, <2>2, NoOpIsOp DEF OpGoesOn
    <3> QED BY <1>1, <2>1, <3>1 DEF Control, tickVars, Acting
  <2> QED BY <1>2, <2>2
<1>6. CASE \E r \in Regions : PlatformActs(r)
  <2>1. UNCHANGED <<op, todo, tickVars>>
    BY <1>6, PlatformMoves DEF Moves
  <2> QED BY <1>1, <2>1 DEF Control, tickVars
<1>7. ASSUME NEW r \in Regions, NEW n \in ScaleTargets, NEW layoffs \in BOOLEAN,
             ScaleToCalled(r, n, layoffs)
      PROVE  Control'
  <2>1. op' = [NoOp EXCEPT !.kind = "scale", !.r = r, !.n = n, !.layoffs = layoffs]
        /\ pc = "idle" /\ pc' = pc /\ mode' = "scaleTo"
    BY <1>7 DEF ScaleToCalled, Idle
  <2>2. op'.kind = "scale"
    BY <2>1, NoOpIsOp DEF Ops
  <2> QED BY <1>1, <2>1, <2>2 DEF Control
<1> QED BY <1>3, <1>4, <1>5, <1>6, <1>7, StepsOfNext

(* A decision leads to a phase that belongs to the command, with what it    *)
(* needs to go on.                                                          *)
LEMMA DecisionProgress ==
  ASSUME Structure, NEW toHire \in Int, Decide(toHire), pc \in {"queue", "determine"},
         lazy => unread = {}, UNCHANGED <<mode, lazy, history>>
  PROVE  Progress'
<1>1. TickTypeOK /\ Progress /\ cached /\ mode # "scaleTo"
  BY Types DEF Structure, Progress, Reading
<1>2. ASSUME NEW phase \in Reading \ {"running"}, Fetch(phase),
             phase = "zero" => mode = "zero",
             phase \in {"planLayoff", "capacity"} => mode = "auto" /\ total' > 0,
             UNCHANGED <<manual, cached>>
      PROVE  Progress'
  <2>1. cached' /\ pc' = phase /\ (lazy => unread' = {})
    BY <1>1, <1>2 DEF Fetch
  <2>2. phase \notin {"query", "idle", "hire", "discover", "resume", "down", "running"}
    BY <1>2 DEF Reading
  <2> QED BY <1>1, <1>2, <2>1, <2>2 DEF Progress
<1>3. CASE mode = "zero"
  <2>1. Fetch("zero") /\ UNCHANGED <<manual, cached>>
    BY <1>3 DEF Decide
  <2> QED BY <1>2, <1>3, <2>1 DEF Reading
<1>4. CASE TickReturns
  BY <1>1, <1>4 DEF TickReturns, Progress, Reading
<1>5. CASE mode = "manual" /\ manual # 0
  <2>1. pc' \in {"hire", "layoff"}
    BY <1>5 DEF Decide, ApplyUniformChange, Act, TickReturns
  <2> QED BY <1>1, <1>5, <2>1 DEF Progress, Reading
<1>6. CASE mode = "auto" /\ toHire < 0 /\ pending > 0
  <2>1. Fetch("planLayoff") /\ total' > 0 /\ UNCHANGED <<manual, cached>>
    BY <1>6 DEF Decide
  <2> QED BY <1>2, <1>6, <2>1 DEF Reading
<1>7. CASE mode = "auto" /\ toHire > 0
  <2>1. Fetch("capacity") /\ total' > 0 /\ UNCHANGED <<manual, cached>>
    BY <1>7 DEF Decide
  <2> QED BY <1>2, <1>7, <2>1 DEF Reading
<1> QED BY <1>3, <1>4, <1>5, <1>6, <1>7 DEF Decide

(* Every step keeps which command is in which phase.                        *)
LEMMA ProgressKept ==
  ASSUME Structure, Next
  PROVE  Progress'
<1>1. TickTypeOK /\ Progress /\ WorkforceOK /\ faults \in Nat
  BY Types, WorkforceTypes, NumbersOfWorkforce DEF Structure, Control, WorkforceOK
<1>2. history \in [ceiling : Nat, trusted : BOOLEAN, faulty : BOOLEAN, slack : [Regions -> Int]]
  BY <1>1 DEF TickTypeOK
<1>3. ASSUME NEW r \in Regions, StateRead(r)
      PROVE  Progress'
  <2>1. cached' /\ unread' = unread \ {r} /\ UNCHANGED <<pc, mode, manual, lazy, total>>
    BY <1>3, Zenon DEF StateRead
  <2>2. history' = [history EXCEPT !.slack[r] = 0]
    BY <1>3 DEF StateRead
  <2>3. history'.faulty = history.faulty /\ history'.trusted = history.trusted
    BY <1>2, <2>2
  <2> QED BY <1>1, <2>1, <2>3 DEF Progress
<1>4. ASSUME NEW r \in Regions, StateReadFails(r)
      PROVE  Progress'
  <2>1. cached' /\ unread' = unread \ {r} /\ UNCHANGED <<pc, mode, manual, lazy, total>>
    BY <1>4, Zenon DEF StateReadFails
  <2>2. history' = [history EXCEPT !.trusted = FALSE, !.faulty = TRUE]
    BY <1>4 DEF StateReadFails
  <2>3. history'.faulty
    BY <1>2, <2>2
  <2> QED BY <1>1, <2>1, <2>3 DEF Progress
<1>5. ASSUME NEW r \in Regions, QueryCapacity(r) \/ DiscoverPaused(r)
      PROVE  Progress'
  <2>1. pc \in {"query", "discover"}
        /\ UNCHANGED <<pc, mode, manual, lazy, cached, total, history>>
    BY <1>5 DEF QueryCapacity, DiscoverPaused
  <2> QED BY <1>1, <2>1 DEF Progress, Reading
<1>6. CASE CountRunning
  <2>1. cached
    BY <1>1, <1>6, NumbersOfWorkforce DEF CountRunning, Progress, Reading
  <2> QED BY <1>1, <1>6, <2>1 DEF CountRunning, Fetch, Progress, Reading
<1>7. CASE CountPending
  BY <1>1, <1>7 DEF CountPending, Progress, Reading
<1>8. ASSUME NEW n \in QueueSizes, ReadQueueSize(n)
      PROVE  Progress'
  <2>1. pc = "queue" /\ (lazy => unread = {}) /\ 0 - have \in Int
    BY <1>1, <1>8 DEF ReadQueueSize, Progress, Reading, TickTypeOK
  <2>2. CASE n = 0
    BY <1>8, <2>1, <2>2, DecisionProgress DEF ReadQueueSize
  <2>3. CASE n # 0
    BY <1>1, <1>8, <2>1, <2>3 DEF ReadQueueSize, Fetch, Progress, Reading
  <2> QED BY <2>2, <2>3
<1>9. CASE QueueSizeFails
  <2>1. history' = [history EXCEPT !.faulty = TRUE]
    BY <1>9 DEF QueueSizeFails
  <2>2. history'.faulty
    BY <1>2, <2>1
  <2> QED BY <1>1, <1>9, <2>2 DEF QueueSizeFails, Progress, Reading
<1>10. CASE DetermineNumberOfWorkers
  <2> DEFINE toHire == TargetSize(size, SumOver([r \in Regions |-> states[r].running])) - have
  <2>1. toHire \in Int
    BY <1>1, SumsAreTyped, TargetSizeType DEF TickTypeOK
  <2>2. Decide(toHire) /\ UNCHANGED <<mode, lazy, lastGood, history>> /\ unread = {}
        /\ pc = "determine"
    BY <1>10 DEF DetermineNumberOfWorkers
  <2> HIDE DEF toHire
  <2> QED BY <2>1, <2>2, DecisionProgress
<1>11. CASE ScaleToZero \/ PlanLayoff \/ PlanHire \/ ResumeAllRegions
  BY <1>1, <1>11 DEF ScaleToZero, PlanLayoff, PlanHire, ResumeAllRegions, Act, Progress, Reading
<1>12. CASE SnapshotStates
  BY <1>1, <1>12 DEF SnapshotStates, Progress, Reading
<1>13. CASE ActInRegion
  BY <1>1, <1>13 DEF ActInRegion, Progress, Reading
<1>14. CASE Acted \/ Restarts
  <2>1. CASE TickReturns
    BY <1>1, <1>14, <2>1 DEF Acted, Restarts, TickReturns, Progress, Reading
  <2>2. CASE ~TickReturns
    BY <1>1, <1>14, <2>2 DEF Acted, Restarts, Progress, Reading
  <2> QED BY <2>1, <2>2
<1>15. ASSUME NEW m \in Modes, NEW n \in ManualHires \cup {0}, TickBegins(m, n),
              m # "manual" => n = 0, m # "scaleTo"
       PROVE  Progress'
  <2>1. PICK c : history' = [history EXCEPT !.ceiling = c, !.trusted = TRUE, !.faulty = FALSE,
                                            !.slack = Zeros]
    BY <1>15 DEF TickBegins
  <2>2. history'.trusted
    BY <1>2, <2>1
  <2> QED BY <1>1, <1>15, <2>2 DEF TickBegins, Progress, Reading
<1>16. CASE WorkforceActs
  <2> DEFINE slack == IF pc = "layoff" /\ mode = "auto"
                      THEN [r \in Regions |-> history.slack[r] - LaidOffRunning(r)]
                      ELSE history.slack
             faulty == history.faulty \/ faults' # faults
  <2>1. history' = [history EXCEPT !.faulty = faulty, !.slack = slack]
    BY <1>16 DEF WorkforceActs
  <2> HIDE DEF slack
  <2>2. history'.trusted = history.trusted /\ history'.faulty = faulty
    BY <1>2, <2>1
  <2> QED BY <1>1, <1>16, <2>2 DEF WorkforceActs, Progress, tickVars
<1>17. ASSUME NEW r \in Regions, PlatformActs(r)
       PROVE  Progress'
  <2>1. history' = history \/
          history' = [history EXCEPT !.slack[r] = Least(history.slack[r] + 1, MaxJobs[r])]
    BY <1>17 DEF PlatformActs
  <2>2. history'.trusted = history.trusted /\ history'.faulty = history.faulty
    BY <1>2, <2>1
  <2> QED BY <1>1, <1>17, <2>2 DEF PlatformActs, Progress, tickVars
<1>18. ASSUME NEW r \in Regions, NEW n \in ScaleTargets, NEW layoffs \in BOOLEAN,
              ScaleToCalled(r, n, layoffs)
       PROVE  Progress'
  <2>1. PICK c : history' = [history EXCEPT !.ceiling = c, !.trusted = TRUE, !.faulty = FALSE,
                                            !.slack = Zeros]
    BY <1>18 DEF ScaleToCalled
  <2>2. history'.trusted
    BY <1>2, <2>1
  <2> QED BY <1>1, <1>18, <2>2 DEF ScaleToCalled, Idle, Progress, Reading
<1> QED
  BY <1>3, <1>4, <1>5, <1>6, <1>7, <1>8, <1>9, <1>10, <1>11, <1>12, <1>13, <1>14, <1>15, <1>16,
     <1>17, <1>18, StepsOfNext DEF QuietStep

(* Every step keeps the types, the control and the progress.                *)
LEMMA StructureKept ==
  ASSUME Structure, Next
  PROVE  Structure'
BY WorkforceTypesKept, TickTypesKept, ControlKept, ProgressKept, Types DEF Structure, WorkforceOK

------------------------------------------------------------------------------
(* What the steps do to the counts of jobs.                                 *)

LEMMA SameJobs ==
  ASSUME job' = job
  PROVE  /\ \A r, X : JobsIn(r, X)' = JobsIn(r, X)
         /\ \A r : ActiveIn(r)' = ActiveIn(r) /\ PendingIn(r)' = PendingIn(r)
         /\ ActiveCount' = ActiveCount
<1>1. \A r, X : JobsIn(r, X)' = JobsIn(r, X)
  BY DEF JobsIn
<1>2. \A r : ActiveIn(r)' = ActiveIn(r) /\ PendingIn(r)' = PendingIn(r)
  BY <1>1 DEF ActiveIn, PendingIn
<1>3. ActiveCount' = ActiveCount
  BY DEF ActiveCount, JobsIn
<1> QED BY <1>1, <1>2, <1>3

(* The number of workers in all regions follows that of the one region      *)
(* whose jobs change.                                                       *)
LEMMA CountFollows ==
  ASSUME JobsType, JobsType', NEW r \in Regions,
         \A q \in Regions \ {r} : ActiveIn(q)' = ActiveIn(q)
  PROVE  ActiveCount' = ActiveCount + ActiveIn(r)' - ActiveIn(r)
<1> DEFINE f == [q \in Regions |-> ActiveIn(q)]
           v == ActiveIn(r)'
<1>1. f \in [Regions -> Nat] /\ ActiveCount = SumOver(f)
  BY ActiveCountType
<1>2. ActiveCount' = SumOver([q \in Regions |-> ActiveIn(q)'])
  BY DEF ActiveCount, ActiveIn
<1>3. v \in Nat
  <2>1. \A q \in Regions : ActiveIn(q)' \in Nat
    <3> SUFFICES ASSUME NEW q \in Regions PROVE ActiveIn(q)' \in Nat
      OBVIOUS
    <3>1. Len(job'[q]) \in Nat /\ DOMAIN job'[q] = 1..Len(job'[q])
      BY DEF JobsType
    <3>2. IsFiniteSet(1..Len(job'[q]))
      BY <3>1, FS_Interval
    <3>3. JobsIn(q, Active)' \in SUBSET (1..Len(job'[q]))
      BY <3>1 DEF JobsIn
    <3> QED BY <3>2, <3>3, FS_Subset, FS_CardinalityType DEF ActiveIn
  <2> QED BY <2>1
<1>4. [q \in Regions |-> ActiveIn(q)'] = [f EXCEPT ![r] = v]
  BY <1>1
<1> HIDE DEF v
<1>5. f[r] = ActiveIn(r) /\ f \in [Regions -> Int]
  BY <1>1
<1> HIDE DEF f
<1>6. SumOver([f EXCEPT ![r] = v]) = SumOver(f) + v - f[r]
  <2>1. v \in Int
    BY <1>3
  <2> QED BY <1>5, <2>1, SumOfUpdate, Zenon
<1> QED BY <1>1, <1>2, <1>4, <1>5, <1>6 DEF v

(* A job that changes its status does not make a region's workers more.     *)
LEMMA FewerActive ==
  ASSUME JobsType, NEW r, NEW i, NEW status \in Statuses, ChangesJob(r, i, status),
         job[r][i] \in Active \/ status = "Ended"
  PROVE  /\ r \in Regions /\ JobsType'
         /\ \A q \in Regions : /\ JobsIn(q, Active)' \subseteq JobsIn(q, Active)
                               /\ ActiveIn(q) \in Nat /\ ActiveIn(q)' \in Nat
                               /\ ActiveIn(q)' <= ActiveIn(q)
         /\ \A q \in Regions \ {r} : ActiveIn(q)' = ActiveIn(q)
         /\ ActiveCount' = ActiveCount + ActiveIn(r)' - ActiveIn(r)
<1>1. r \in Regions /\ JobsType'
  BY JobChanges DEF ChangesJob
<1>2. /\ \A q \in Regions \ {r} : JobsIn(q, Active)' = JobsIn(q, Active)
      /\ JobsIn(r, Active)' \subseteq JobsIn(r, Active)
  <2>1. /\ \A q \in Regions \ {r} : JobsIn(q, Active)' = JobsIn(q, Active)
        /\ JobsIn(r, Active)'
             = IF status \in Active THEN JobsIn(r, Active) \cup {i} ELSE JobsIn(r, Active) \ {i}
    BY ChangedCounts
  <2>2. status \in Active => i \in JobsIn(r, Active)
    BY KnownStatuses DEF JobsIn, ChangesJob
  <2> QED BY <2>1, <2>2
<1>3. ASSUME NEW q \in Regions
      PROVE  /\ JobsIn(q, Active)' \subseteq JobsIn(q, Active)
             /\ ActiveIn(q) \in Nat /\ ActiveIn(q)' \in Nat /\ ActiveIn(q)' <= ActiveIn(q)
  <2>1. IsFiniteSet(JobsIn(q, Active)) /\ JobsIn(q, Active)' \in SUBSET JobsIn(q, Active)
    BY <1>2, JobsAreFinite
  <2>2. /\ IsFiniteSet(JobsIn(q, Active)')
        /\ Cardinality(JobsIn(q, Active)') <= Cardinality(JobsIn(q, Active))
    BY <2>1, FS_Subset
  <2> QED BY <2>1, <2>2, FS_CardinalityType DEF ActiveIn
<1>4. \A q \in Regions \ {r} : ActiveIn(q)' = ActiveIn(q)
  BY <1>2 DEF ActiveIn
<1>5. ActiveCount' = ActiveCount + ActiveIn(r)' - ActiveIn(r)
  BY <1>1, <1>4, CountFollows
<1> QED BY <1>1, <1>3, <1>4, <1>5

(* So it is with every job the service changes.                             *)
LEMMA FewerAtTheService ==
  ASSUME JobsType, NEW r \in Regions, PlatformActs(r)
  PROVE  /\ JobsType' /\ UNCHANGED <<op, todo, faults, tickVars>>
         /\ \A q \in Regions : /\ JobsIn(q, Active)' \subseteq JobsIn(q, Active)
                               /\ ActiveIn(q) \in Nat /\ ActiveIn(q)' \in Nat
                               /\ ActiveIn(q)' <= ActiveIn(q)
         /\ \A q \in Regions \ {r} : ActiveIn(q)' = ActiveIn(q)
         /\ ActiveCount' = ActiveCount + ActiveIn(r)' - ActiveIn(r)
<1>1. PICK i \in DOMAIN job[r], status \in Statuses : Moves(r, i, status)
  BY PlatformMoves
<1> QED BY <1>1, FewerActive DEF Moves

------------------------------------------------------------------------------
(* What was read and counted.                                               *)

LEMMA TickReturnsReads ==
  ASSUME TickReturns
  PROVE  /\ \A r \in Regions : states'[r].pending = 0 /\ states'[r].running = 0
         /\ pc' = "idle"
BY DEF TickReturns, NoState

(* Every step keeps the states read within MaxJobs.                         *)
LEMMA BoundedKept ==
  ASSUME Structure, Bounded, Next
  PROVE  Bounded'
<1>1. JobsType /\ TickTypeOK /\ \A r \in Regions : MaxJobs[r] \in Nat
  BY Types, WorkforceTypes, NumbersOfScheduler DEF Structure
<1>2. CASE UNCHANGED <<states, lastGood>>
  BY <1>2 DEF Bounded
<1>3. ASSUME NEW r \in Regions, StateRead(r)
      PROVE  Bounded'
  <2>1. /\ states' = [states EXCEPT ![r] = CurrentState(r)]
        /\ lastGood' = [lastGood EXCEPT ![r] = CurrentState(r)]
        /\ CurrentState(r).pending <= MaxJobs[r]
    BY <1>1, <1>3, CurrentStateType DEF StateRead
  <2> HIDE DEF CurrentState
  <2> QED BY <1>1, <2>1 DEF Bounded, TickTypeOK
<1>4. ASSUME NEW r \in Regions, StateReadFails(r)
      PROVE  Bounded'
  <2>1. states' = [states EXCEPT ![r] = lastGood[r]] /\ lastGood' = lastGood
    BY <1>4 DEF StateReadFails
  <2> QED BY <1>1, <2>1 DEF Bounded, TickTypeOK
<1>5. ASSUME TickReturns, lastGood' = lastGood \/ lastGood' = [r \in Regions |-> NoState]
      PROVE  Bounded'
  BY <1>1, <1>5, TickReturnsReads DEF Bounded, NoState
<1>6. ASSUME NEW toHire, Decide(toHire), lastGood' = lastGood
      PROVE  Bounded'
  BY <1>2, <1>5, <1>6 DEF Decide
<1>7. CASE QuietStep
  <2>1. CASE DetermineNumberOfWorkers
    BY <1>6, <2>1 DEF DetermineNumberOfWorkers
  <2>2. ASSUME NEW n \in QueueSizes, ReadQueueSize(n) PROVE Bounded'
    BY <1>2, <1>6, <2>2 DEF ReadQueueSize
  <2>3. CASE Acted
    BY <1>2, <1>5, <2>3 DEF Acted
  <2>4. CASE Restarts
    BY <1>5, <2>4 DEF Restarts
  <2>5. CASE \/ \E r \in Regions : QueryCapacity(r) \/ DiscoverPaused(r)
             \/ CountRunning \/ CountPending \/ QueueSizeFails
             \/ ScaleToZero \/ PlanLayoff \/ SnapshotStates \/ PlanHire \/ ResumeAllRegions
             \/ \E m, n : TickBegins(m, n)
    <3>1. UNCHANGED <<states, lastGood>>
      BY <2>5 DEF QueryCapacity, DiscoverPaused, CountRunning, CountPending, QueueSizeFails,
                  ScaleToZero, PlanLayoff, SnapshotStates, PlanHire, ResumeAllRegions, TickBegins
    <3> QED BY <1>2, <3>1
  <2> QED BY <1>3, <1>4, <1>7, <2>1, <2>2, <2>3, <2>4, <2>5 DEF QuietStep
<1>8. CASE ~QuietStep
  <2>1. UNCHANGED <<states, lastGood>>
    BY <1>8, StepsOfNext DEF ActInRegion, WorkforceActs, PlatformActs, ScaleToCalled, tickVars
  <2> QED BY <1>2, <2>1
<1> QED BY <1>7, <1>8

(* The size read of a region is a natural number.                           *)
LEMMA SizeIsNatural ==
  ASSUME TickTypeOK
  PROVE  /\ \A r \in Regions : SizeOf(r) \in Nat
         /\ [r \in Regions |-> SizeOf(r)] \in [Regions -> Nat]
         /\ WorkersRead \in Nat
<1>1. \A r \in Regions : SizeOf(r) \in Nat
  BY DEF TickTypeOK, Sizes, SizeOf
<1>2. [r \in Regions |-> SizeOf(r)] \in [Regions -> Nat]
  BY <1>1
<1> QED BY <1>1, <1>2, SumIsNatural DEF WorkersRead

(* A phase that reads again knows nothing, one that does not knows all.     *)
LEMMA SizedOnceFetched ==
  ASSUME Structure, Sized, UNCHANGED <<job, states, history>>, NEW phase, Fetch(phase),
         phase # "query", pc \in Reading, unread = {} \/ (lazy => unread = {})
  PROVE  Sized'
<1>1. pc' = phase /\ (unread' = Regions \/ (unread' = {} /\ unread = {}))
  BY DEF Fetch
<1> QED BY <1>1, SameJobs DEF Sized, SizeOf

(* Every step keeps what was read an upper bound of who is there.           *)
LEMMA SizedKept ==
  ASSUME Structure, Sized, Next
  PROVE  Sized'
<1>1. JobsType /\ TickTypeOK /\ Control /\ Progress
  BY Types, WorkforceTypes DEF Structure
<1>2. CASE pc' \notin Reading \cup {"query"}
  BY <1>2 DEF Sized
<1>3. ASSUME NEW r \in Regions, StateRead(r)
      PROVE  Sized'
  <2>1. /\ states' = [states EXCEPT ![r] = CurrentState(r)]
        /\ job' = job /\ unread' = unread \ {r} /\ UNCHANGED <<pc, lazy>> /\ pc # "query"
        /\ history' = [history EXCEPT !.slack[r] = 0]
    BY <1>3 DEF StateRead, workforceVars, Fetching
  <2>2. CurrentState(r).running + CurrentState(r).pending = ActiveIn(r)
    BY <1>1, CurrentStateType, ActiveArePendingOrRunning
  <2>3. SizeOf(r)' = ActiveIn(r) /\ \A q \in Regions \ {r} : SizeOf(q)' = SizeOf(q)
    BY <1>1, <2>1, <2>2 DEF SizeOf, TickTypeOK
  <2>4. ActiveIn(r) <= SizeOf(r)'
    BY <1>1, <2>3, CurrentStateType
  <2>5. history'.trusted = history.trusted
    BY <1>1, <2>1 DEF TickTypeOK
  <2> QED BY <2>1, <2>3, <2>4, <2>5, SameJobs DEF Sized
<1>4. ASSUME NEW r \in Regions, StateReadFails(r)
      PROVE  Sized'
  <2>1. history' = [history EXCEPT !.trusted = FALSE, !.faulty = TRUE]
    BY <1>4 DEF StateReadFails
  <2>2. history'.trusted = FALSE
    BY <1>1, <2>1 DEF TickTypeOK
  <2> QED BY <2>2 DEF Sized
<1>5. ASSUME NEW toHire, Decide(toHire), UNCHANGED <<job, history>>, pc \in Reading,
             unread = {} \/ (lazy => unread = {})
      PROVE  Sized'
  <2>1. CASE pc' \in Reading
    <3>1. PICK phase \in Reading : Fetch(phase) /\ states' = states
      BY <1>5, <2>1 DEF Decide, ApplyUniformChange, Act, TickReturns, Reading
    <3> QED BY <1>5, <3>1, SizedOnceFetched DEF Reading
  <2>2. CASE pc' \notin Reading
    <3>1. pc' # "query"
      BY <1>5, <2>2 DEF Decide, ApplyUniformChange, Act, TickReturns, Fetch
    <3> QED BY <1>2, <2>2, <3>1
  <2> QED BY <2>1, <2>2
<1>6. CASE QuietStep
  <2>1. CASE DetermineNumberOfWorkers
    BY <1>5, <2>1 DEF DetermineNumberOfWorkers, Reading, workforceVars
  <2>2. ASSUME NEW n \in QueueSizes, ReadQueueSize(n) PROVE Sized'
    <3>1. pc \in Reading /\ (lazy => unread = {}) /\ UNCHANGED <<job, history>>
      BY <1>1, <2>2 DEF ReadQueueSize, Progress, Reading, workforceVars
    <3>2. CASE n = 0
      BY <1>5, <2>2, <3>1, <3>2 DEF ReadQueueSize
    <3>3. CASE n # 0
      BY <2>2, <3>1, <3>3, SizedOnceFetched DEF ReadQueueSize
    <3> QED BY <3>2, <3>3
  <2>3. CASE CountRunning
    BY <2>3, SizedOnceFetched DEF CountRunning, Reading, workforceVars
  <2>4. CASE CountPending
    BY <2>4, SameJobs DEF CountPending, Sized, SizeOf, Reading, workforceVars
  <2>5. CASE SnapshotStates
    BY <2>5, SameJobs DEF SnapshotStates, Sized, SizeOf, Reading, workforceVars
  <2>6. ASSUME NEW r \in Regions, QueryCapacity(r) PROVE Sized'
    BY <2>6, SameJobs DEF QueryCapacity, Sized, SizeOf, Reading
  <2>7. ASSUME NEW m, NEW n, TickBegins(m, n) PROVE Sized'
    BY <2>7, SameJobs DEF TickBegins, Sized, Reading, workforceVars
  <2>8. CASE \/ \E r \in Regions : DiscoverPaused(r)
             \/ QueueSizeFails \/ ScaleToZero \/ PlanLayoff \/ PlanHire \/ ResumeAllRegions
             \/ Acted \/ Restarts
    <3>1. pc' \notin Reading \cup {"query"}
      BY <2>8 DEF DiscoverPaused, QueueSizeFails, ScaleToZero, PlanLayoff, PlanHire, Acted,
                  Restarts, ResumeAllRegions, Act, TickReturns, Reading
    <3> QED BY <1>2, <3>1
  <2> QED BY <1>3, <1>4, <1>6, <2>1, <2>2, <2>3, <2>4, <2>5, <2>6, <2>7, <2>8 DEF QuietStep
<1>7. ASSUME NEW r \in Regions, PlatformActs(r)
      PROVE  Sized'
  <2>1. UNCHANGED tickVars /\ \A q \in Regions : /\ ActiveIn(q) \in Nat /\ ActiveIn(q)' \in Nat
                                                 /\ ActiveIn(q)' <= ActiveIn(q)
    BY <1>1, <1>7, FewerAtTheService
  <2>2. history'.trusted = history.trusted
    <3>1. history' = history \/
            history' = [history EXCEPT !.slack[r] = Least(history.slack[r] + 1, MaxJobs[r])]
      BY <1>7 DEF PlatformActs
    <3> QED BY <1>1, <3>1 DEF TickTypeOK
  <2>3. \A q \in Regions : SizeOf(q)' = SizeOf(q) /\ SizeOf(q) \in Nat
    BY <1>1, <2>1, SizeIsNatural DEF SizeOf, tickVars
  <2>4. \A q \in Regions : ActiveIn(q) <= SizeOf(q) => ActiveIn(q)' <= SizeOf(q)'
    BY <2>1, <2>3
  <2>5. UNCHANGED <<pc, lazy, unread>>
    BY <2>1 DEF tickVars
  <2> QED BY <2>2, <2>4, <2>5 DEF Sized
<1>8. CASE ActInRegion \/ WorkforceActs
           \/ \E r \in Regions, n \in ScaleTargets, layoffs \in BOOLEAN : ScaleToCalled(r, n, layoffs)
  <2>1. WorkforceActs => op # NoOp
    BY <1>1, WorkforceStepKeepsTypes, WorkforceTypes, NoOpIsOp, Types
       DEF WorkforceActs, OpGoesOn, Structure, Control, WorkforceOK
  <2>2. pc' \in Acting \cup {"idle"}
    BY <1>1, <1>8, <2>1 DEF ActInRegion, WorkforceActs, ScaleToCalled, Idle, tickVars, Acting, Control
  <2> QED BY <1>2, <2>2 DEF Acting, Reading
<1> QED BY <1>6, <1>7, <1>8, StepsOfNext

(* Every step keeps the counts of a lazy tick those of one reading.         *)
LEMMA CountedKept ==
  ASSUME Structure, Counted, Next
  PROVE  Counted'
<1>1. JobsType /\ TickTypeOK /\ Control /\ Progress
  BY Types, WorkforceTypes DEF Structure
<1>2. CASE pc' \notin {"pending", "queue", "determine", "capacity", "query"}
  BY <1>2 DEF Counted
<1>3. ASSUME UNCHANGED <<pc, lazy, states, have, total>>
      PROVE  Counted'
  BY <1>3 DEF Counted, RunningRead, WorkersRead, SizeOf
<1>4. ASSUME NEW r \in Regions, StateRead(r) \/ StateReadFails(r)
      PROVE  Counted'
  <2>1. /\ UNCHANGED <<pc, lazy>> /\ unread # {}
        /\ pc \in {"running", "pending", "determine", "zero", "planLayoff", "capacity"}
    BY <1>4 DEF StateRead, StateReadFails, Fetching, InTurn
  <2>2. lazy => pc \notin {"pending", "queue", "determine", "capacity", "query"}
    BY <1>1, <2>1 DEF Progress, Reading
  <2> QED BY <2>1, <2>2 DEF Counted
<1>5. CASE CountRunning
  BY <1>5 DEF CountRunning, Fetch, Counted, RunningRead
<1>6. CASE CountPending
  <2> DEFINE running == [r \in Regions |-> states[r].running]
             waiting == [r \in Regions |-> states[r].pending]
  <2>1. running \in [Regions -> Int] /\ waiting \in [Regions -> Int]
    BY <1>1, SumsAreTyped
  <2>2. [r \in Regions |-> SizeOf(r)] = [r \in Regions |-> running[r] + waiting[r]]
    BY DEF SizeOf
  <2>3. have' = have + SumOver(waiting) /\ (lazy => have = SumOver(running))
        /\ pc' = "queue" /\ UNCHANGED <<lazy, states>>
    BY <1>6 DEF CountPending, Counted, RunningRead
  <2> HIDE DEF running, waiting
  <2>4. WorkersRead = SumOver(running) + SumOver(waiting)
    BY <2>1, <2>2, SumOfSums DEF WorkersRead
  <2>5. lazy => have' = WorkersRead'
    BY <2>3, <2>4 DEF WorkersRead, SizeOf
  <2> QED BY <2>3, <2>5 DEF Counted
<1>7. ASSUME NEW toHire \in Int, Decide(toHire), UNCHANGED lazy,
             lazy => toHire + WorkersRead <= MaxNumWorkers
      PROVE  Counted'
  <2>1. CASE pc' = "capacity"
    <3>1. total' = toHire /\ UNCHANGED states
      BY <1>7, <2>1 DEF Decide, Fetch, ApplyUniformChange, Act, TickReturns
    <3> QED BY <1>7, <2>1, <3>1 DEF Counted, WorkersRead, SizeOf
  <2>2. CASE pc' # "capacity"
    <3>1. pc' \notin {"pending", "queue", "determine", "capacity", "query"}
      BY <1>7, <2>2 DEF Decide, Fetch, ApplyUniformChange, Act, TickReturns
    <3> QED BY <1>2, <3>1
  <2> QED BY <2>1, <2>2
<1>8. ASSUME NEW n \in QueueSizes, ReadQueueSize(n)
      PROVE  Counted'
  <2>1. have \in Nat /\ WorkersRead \in Nat /\ MaxNumWorkers \in Nat /\ pc = "queue"
        /\ UNCHANGED lazy
    BY <1>1, <1>8, SizeIsNatural, NumbersOfScheduler DEF TickTypeOK, ReadQueueSize
  <2>2. CASE n = 0
    <3>1. Decide(0 - have) /\ 0 - have \in Int
      BY <1>8, <2>1, <2>2 DEF ReadQueueSize
    <3>2. lazy => (0 - have) + WorkersRead <= MaxNumWorkers
      BY <2>1 DEF Counted
    <3> QED BY <1>7, <2>1, <3>1, <3>2
  <2>3. CASE n # 0
    BY <1>8, <2>1, <2>3 DEF ReadQueueSize, Fetch, Counted, WorkersRead, SizeOf
  <2> QED BY <2>2, <2>3
<1>9. CASE DetermineNumberOfWorkers
  <2> DEFINE target == TargetSize(size, SumOver([r \in Regions |-> states[r].running]))
  <2>1. target \in Int /\ target <= MaxNumWorkers
    BY <1>1, SumsAreTyped, TargetSizeType DEF TickTypeOK
  <2>2. have \in Nat /\ WorkersRead \in Nat /\ MaxNumWorkers \in Nat
    BY <1>1, SizeIsNatural, NumbersOfScheduler DEF TickTypeOK
  <2>3. Decide(target - have) /\ pc = "determine" /\ UNCHANGED lazy
    BY <1>9 DEF DetermineNumberOfWorkers
  <2> HIDE DEF target
  <2>4. target - have \in Int /\ (lazy => (target - have) + WorkersRead <= MaxNumWorkers)
    BY <2>1, <2>2, <2>3 DEF Counted
  <2> QED BY <1>7, <2>3, <2>4
<1>10. CASE SnapshotStates
  BY <1>10 DEF SnapshotStates, Counted, WorkersRead, SizeOf
<1>11. CASE \/ ScaleToZero \/ PlanLayoff \/ PlanHire \/ ResumeAllRegions
            \/ Acted \/ Restarts \/ QueueSizeFails \/ \E m, n : TickBegins(m, n)
  <2>1. pc' \notin {"pending", "queue", "determine", "capacity", "query"}
    BY <1>11 DEF ScaleToZero, PlanLayoff, PlanHire, ResumeAllRegions, Act, Acted, Restarts,
                 TickReturns, QueueSizeFails, TickBegins
  <2> QED BY <1>2, <2>1
<1>12. CASE \/ \E r \in Regions : QueryCapacity(r) \/ DiscoverPaused(r)
            \/ ActInRegion \/ WorkforceActs \/ (\E r \in Regions : PlatformActs(r))
            \/ \E r \in Regions, n \in ScaleTargets, layoffs \in BOOLEAN : ScaleToCalled(r, n, layoffs)
  <2>1. UNCHANGED <<pc, lazy, states, have, total>>
    BY <1>12 DEF QueryCapacity, DiscoverPaused, ActInRegion, WorkforceActs, PlatformActs,
                 ScaleToCalled, tickVars
  <2> QED BY <1>3, <2>1
<1> QED
  BY <1>4, <1>5, <1>6, <1>8, <1>9, <1>10, <1>11, <1>12, StepsOfNext DEF QuietStep

(* The plans add up once they are made, and are not changed afterwards.     *)
LEMMA PlansAreExact ==
  ASSUME TickTypeOK, total > 0
  PROVE  LET room == SumOver([r \in Regions |-> Positive(avail[r])])
             hires == Distribute(total, 1 + total \div NRegions, avail)
         IN /\ \A r \in Regions : hires[r] <= Positive(avail[r])
            /\ SumOver(hires) = Least(total, room)
            /\ SumOver(hires) <= total
<1> DEFINE room == SumOver([r \in Regions |-> Positive(avail[r])])
           share == 1 + total \div NRegions
           hires == Distribute(total, share, avail)
           all == NRegions * share
<1>1. total \in Nat /\ share \in Nat /\ all > total /\ avail \in [Regions -> Int]
  BY DivisionBounds DEF TickTypeOK
<1> HIDE DEF share
<1>2. /\ \A r \in Regions : hires[r] <= Positive(avail[r])
      /\ SumOver(hires) <= total /\ SumOver(hires) <= room
      /\ SumOver(hires) \in {total, room, all}
      /\ hires \in [Regions -> Nat]
  BY <1>1, DistributionAddsUp
<1>3. SumOver(hires) \in Nat /\ room \in Int /\ all \in Int
  <2>1. [r \in Regions |-> Positive(avail[r])] \in [Regions -> Int]
    BY <1>1 DEF Positive
  <2> QED BY <1>1, <1>2, <2>1, SumIsNatural, SumIsInteger, NumbersOfScheduler
<1> HIDE DEF hires, room, all
<1>4. SumOver(hires) = Least(total, room)
  BY <1>1, <1>2, <1>3 DEF Least
<1> QED BY <1>2, <1>4 DEF hires, room, share

(* A planned lay-off adds up.                                               *)
LEMMA LayoffsAreMeant ==
  ASSUME TickTypeOK, total > 0
  PROVE  LET waiting == [r \in Regions |-> states[r].pending]
             layoffs == Distribute(total, total \div NRegions, waiting)
         IN /\ \A r \in Regions : layoffs[r] <= states[r].pending
            /\ SumOver(layoffs) <= total
            /\ SumOver(layoffs) > Least(total, SumOver(waiting)) - NRegions
<1> DEFINE waiting == [r \in Regions |-> states[r].pending]
           share == total \div NRegions
           layoffs == Distribute(total, share, waiting)
           all == NRegions * share
           queued == SumOver(waiting)
<1>1. total \in Nat /\ share \in Nat /\ all > total - NRegions
  BY DivisionBounds DEF TickTypeOK
<1>2. waiting \in [Regions -> Nat] /\ waiting \in [Regions -> Int] /\ queued \in Nat
  BY SumsAreTyped
<1> HIDE DEF share
<1>3. [r \in Regions |-> Positive(waiting[r])] = waiting
  BY <1>2 DEF Positive
<1>4. \A r \in Regions : waiting[r] = states[r].pending /\ Positive(waiting[r]) = waiting[r]
  BY <1>2 DEF Positive
<1> HIDE DEF waiting
<1>5. /\ \A r \in Regions : layoffs[r] <= Positive(waiting[r])
      /\ SumOver(layoffs) <= total
      /\ SumOver(layoffs) \in {total, queued, all}
      /\ layoffs \in [Regions -> Nat]
  BY <1>1, <1>2, <1>3, DistributionAddsUp
<1>6. SumOver(layoffs) \in Nat /\ all \in Int /\ NRegions \in Nat /\ NRegions > 0
  BY <1>1, <1>5, SumIsNatural, NumbersOfScheduler
<1> HIDE DEF layoffs, queued, all
<1>7. SumOver(layoffs) > Least(total, queued) - NRegions
  BY <1>1, <1>2, <1>5, <1>6 DEF Least
<1> QED BY <1>4, <1>5, <1>7 DEF layoffs, waiting, share, queued

(* Every step keeps that the plans add up.                                  *)
LEMMA PlansKept ==
  ASSUME Structure, PlansAddUp, Next
  PROVE  PlansAddUp'
<1>1. TickTypeOK /\ Control /\ Progress
  BY Types DEF Structure
<1>2. CASE mode' # "auto" \/ pc' \notin {"hire", "layoff"}
  BY <1>2 DEF PlansAddUp
<1>3. ASSUME UNCHANGED <<pc, mode, avail, plan, total, states>>
      PROVE  PlansAddUp'
  BY <1>3 DEF PlansAddUp
<1>4. CASE PlanHire
  <2>1. total > 0 /\ pc' = "hire" /\ UNCHANGED <<avail, total, states>>
        /\ plan' = Distribute(total, 1 + total \div NRegions, avail)
    BY <1>1, <1>4 DEF PlanHire, Act, Progress
  <2> QED BY <1>1, <2>1, PlansAreExact DEF PlansAddUp
<1>5. CASE PlanLayoff
  <2>1. total > 0 /\ pc' = "layoff" /\ UNCHANGED <<avail, total, states>>
        /\ plan' = Distribute(total, total \div NRegions, [r \in Regions |-> states[r].pending])
    BY <1>1, <1>5 DEF PlanLayoff, Act, Progress
  <2> QED BY <1>1, <2>1, LayoffsAreMeant DEF PlansAddUp
<1>6. CASE \/ \E r \in Regions : QueryCapacity(r) \/ DiscoverPaused(r) \/ StateRead(r)
                                 \/ StateReadFails(r)
           \/ CountRunning \/ CountPending \/ QueueSizeFails
           \/ SnapshotStates \/ ResumeAllRegions \/ ScaleToZero \/ Acted \/ Restarts
           \/ DetermineNumberOfWorkers \/ (\E n \in QueueSizes : ReadQueueSize(n))
           \/ \E m, n : TickBegins(m, n)
  <2>1. mode' # "auto" \/ pc' \notin {"hire", "layoff"}
    <3>1. ASSUME NEW toHire, Decide(toHire), mode' = mode
          PROVE  mode' # "auto" \/ pc' \notin {"hire", "layoff"}
      BY <3>1 DEF Decide, Fetch, TickReturns
    <3>2. CASE DetermineNumberOfWorkers \/ \E n \in QueueSizes : ReadQueueSize(n)
      BY <3>1, <3>2 DEF DetermineNumberOfWorkers, ReadQueueSize, Fetch
    <3>3. CASE ScaleToZero
      BY <1>1, <3>3 DEF ScaleToZero, Progress
    <3>4. CASE \/ \E r \in Regions : QueryCapacity(r) \/ DiscoverPaused(r) \/ StateRead(r)
                                     \/ StateReadFails(r)
               \/ CountRunning \/ CountPending \/ QueueSizeFails
               \/ SnapshotStates \/ ResumeAllRegions \/ Acted \/ Restarts
               \/ \E m, n : TickBegins(m, n)
      BY <3>4 DEF QueryCapacity, DiscoverPaused, StateRead, StateReadFails, Fetching,
                  CountRunning, CountPending, Fetch, QueueSizeFails, SnapshotStates,
                  ResumeAllRegions, Act, Acted, Restarts, TickReturns, TickBegins
    <3> QED BY <1>6, <3>2, <3>3, <3>4
  <2> QED BY <1>2, <2>1
<1>7. CASE ActInRegion \/ WorkforceActs \/ (\E r \in Regions : PlatformActs(r))
  <2>1. UNCHANGED <<pc, mode, avail, plan, total, states>>
    BY <1>7 DEF ActInRegion, WorkforceActs, PlatformActs, tickVars
  <2> QED BY <1>3, <2>1
<1>8. CASE \E r \in Regions, n \in ScaleTargets, layoffs \in BOOLEAN : ScaleToCalled(r, n, layoffs)
  BY <1>2, <1>8 DEF ScaleToCalled
<1> QED BY <1>4, <1>5, <1>6, <1>7, <1>8, StepsOfNext DEF QuietStep

------------------------------------------------------------------------------
(* The ceiling.                                                             *)

LEMMA ComingIs ==
  /\ op.kind = "hire" => Coming = op.n
  /\ op.kind = "scale" => Coming = Positive(op.n - ActiveIn(op.r))
  /\ op.kind \notin {"hire", "scale"} => Coming = 0
  /\ op'.kind = "hire" => Coming' = op'.n
  /\ op'.kind = "scale" => \A r : r = op'.r => Coming' = Positive(op'.n - ActiveIn(r)')
  /\ op'.kind \notin {"hire", "scale"} => Coming' = 0
BY DEF Coming

(* Nothing is to come when no operation is under way.                       *)
LEMMA NoneComing == op' = NoOp => Coming' = 0
BY ComingIs, NoOpIsOp

(* What is planned for other regions, phase by phase.                       *)
LEMMA PlanningIs ==
  /\ pc = "hire" => Planning = SumOver(Awaiting)
  /\ pc \in {"running", "pending", "queue", "determine"} => Planning = NRegions * Positive(manual)
  /\ pc \notin {"hire", "running", "pending", "queue", "determine"} => Planning = 0
  /\ pc' = "hire" => Planning' = SumOver(Awaiting')
  /\ pc' \in {"running", "pending", "queue", "determine"} => Planning' = NRegions * Positive(manual')
  /\ pc' \notin {"hire", "running", "pending", "queue", "determine"} => Planning' = 0
BY DEF Planning

(* What is planned for other regions is a natural number.                   *)
LEMMA PlanningIsNatural ==
  ASSUME TickTypeOK
  PROVE  Planning \in Nat /\ Awaiting \in [Regions -> Nat]
<1>1. Awaiting \in [Regions -> Nat]
  BY DEF Awaiting, TickTypeOK
<1>2. NRegions * Positive(manual) \in Nat
  BY NumbersOfScheduler DEF TickTypeOK, Positive
<1> QED BY <1>1, <1>2, PlanningIs, SumIsNatural

(* What the operation under way may still bring about is a natural number.  *)
LEMMA ComingIsNatural ==
  ASSUME WorkforceTypeOK
  PROVE  Coming \in Nat /\ ActiveCount \in Nat /\ op.n \in Nat /\ op.r \in Regions
<1>1. JobsType /\ op \in Ops
  BY WorkforceTypes
<1>2. ActiveIn(op.r) \in Nat /\ op.r \in Regions /\ op.n \in Nat /\ op.kind \in Kinds
  BY <1>1, CurrentStateType DEF Ops
<1>3. Coming \in Nat
  <2>1. Positive(op.n - ActiveIn(op.r)) \in Nat
    BY <1>2 DEF Positive
  <2> QED BY <1>2, <2>1, ComingIs DEF Kinds
<1> QED BY <1>1, <1>2, <1>3, ActiveCountType

(* A job added is one more active worker.                                   *)
LEMMA OneMore ==
  ASSUME JobsType, NEW r \in Regions, AddsJob(r)
  PROVE  ActiveCount' = ActiveCount + 1
<1>1. /\ \A q \in Regions \ {r} : ActiveIn(q)' = ActiveIn(q)
      /\ ActiveIn(r)' = ActiveIn(r) + 1 /\ JobsType'
  BY JobAdded
<1>2. ActiveCount' = ActiveCount + ActiveIn(r)' - ActiveIn(r)
  BY <1>1, CountFollows
<1>3. ActiveIn(r) \in Nat /\ ActiveCount \in Nat
  BY CurrentStateType, ActiveCountType
<1> QED BY <1>1, <1>2, <1>3

(* What the operation under way adds to the workers it takes from those     *)
(* that were coming.                                                        *)
LEMMA ComingBecomesActive ==
  ASSUME WorkforceOK, WorkforceStep
  PROVE  ActiveCount' + Coming' <= ActiveCount + Coming
<1>1. JobsType /\ op \in Ops /\ TodoType /\ op.r \in Regions /\ op.n \in Nat
      /\ Coming \in Nat /\ ActiveCount \in Nat /\ ActiveIn(op.r) \in Nat
  BY WorkforceTypes, ComingIsNatural, CurrentStateType DEF WorkforceOK
<1>2. JobsType' /\ op' \in Ops
  BY WorkforceStepKeepsTypes, WorkforceTypes DEF WorkforceOK
<1>3. ASSUME job' = job, op'.kind \notin {"hire", "scale"}
      PROVE  ActiveCount' + Coming' <= ActiveCount + Coming
  BY <1>1, <1>3, SameJobs, ComingIs
<1>4. CASE RequestRetried
  <2>1. job' = job /\ op' = [op EXCEPT !.att = @ + 1]
    BY <1>4 DEF RequestRetried
  <2>2. op'.kind = op.kind /\ op'.n = op.n /\ op'.r = op.r
    BY <1>1, <2>1 DEF Ops
  <2>3. ActiveCount' = ActiveCount /\ \A r : ActiveIn(r)' = ActiveIn(r)
    BY <2>1, SameJobs
  <2>4. op.kind \in {"scale", "layoffList", "resumeList"}
    BY <1>4 DEF RequestRetried
  <2>5. CASE op.kind = "scale"
    <3>1. PICK r : r = op.r
      OBVIOUS
    <3>2. Coming' = Positive(op.n - ActiveIn(r)) /\ Coming = Positive(op.n - ActiveIn(r))
      BY <2>2, <2>3, <2>5, <3>1, ComingIs
    <3> QED BY <1>1, <2>3, <3>2
  <2> QED BY <1>1, <1>3, <2>1, <2>2, <2>4, <2>5
<1>5. CASE RequestFailed
  BY <1>3, <1>5, NoOpIsOp DEF RequestFailed
<1>6. CASE ListWorkers
  <2>1. op' = NoOp \/ op' = [op EXCEPT !.kind = IF @ = "layoffList" THEN "layoff" ELSE "resume",
                                       !.att = 0]
    BY <1>6 DEF ListWorkers
  <2>2. op'.kind \notin {"hire", "scale"}
    BY <1>1, <2>1, NoOpIsOp DEF Ops
  <2> QED BY <1>3, <1>6, <2>2 DEF ListWorkers
<1>7. CASE ScaleTo
  <2> DEFINE toStart == op.n - CurrentState(op.r).running - CurrentState(op.r).pending
             toStop == -toStart
  <2>1. toStart = op.n - ActiveIn(op.r) /\ toStart \in Int /\ toStop \in Int
    BY <1>1, CurrentStateType, ActiveArePendingOrRunning
  <2>2. /\ op' = IF toStart > 0 THEN HireOp(op.r, toStart, TRUE)
                 ELSE IF op.layoffs THEN LayoffOp(op.r, toStop, TRUE) ELSE NoOp
        /\ job' = job /\ op.kind = "scale"
    BY <1>7 DEF ScaleTo
  <2> HIDE DEF toStart, toStop
  <2>3. /\ Started(HireOp(op.r, toStart, TRUE), "hire", op.r, toStart)
        /\ Started(LayoffOp(op.r, toStop, TRUE), "layoffList", op.r, toStop)
    BY <1>1, <2>1, OpsStart
  <2>4. CASE toStart > 0
    <3>1. op'.kind = "hire" /\ op'.n = toStart
      BY <2>2, <2>3, <2>4 DEF Started
    <3>2. Coming' = toStart /\ Coming = toStart
      BY <2>1, <2>2, <2>4, <3>1, ComingIs DEF Positive
    <3> QED BY <1>1, <2>1, <2>2, <3>2, SameJobs
  <2>5. CASE ~(toStart > 0)
    <3>1. op' = NoOp \/ Started(op', "layoffList", op.r, toStop)
      BY <2>2, <2>3, <2>5
    <3>2. op'.kind \notin {"hire", "scale"}
      BY <2>1, <3>1, NoOpIsOp DEF Started
    <3> QED BY <1>3, <2>2, <3>2
  <2> QED BY <2>4, <2>5
<1>8. CASE SubmitJob \/ SubmitFails
  <2>1. op.kind = "hire" /\ op.n > 0 /\ op.batch > 0 /\ Coming = op.n
    BY <1>8, ComingIs DEF SubmitJob, SubmitFails, WorkforceOK, Underway
  <2>2. Coming' <= op.n - 1 /\ Coming' \in Nat
    <3>1. op' = NoOp \/ op' = Submitted
      BY <1>8 DEF SubmitJob, SubmitFails
    <3>2. CASE op' = NoOp
      BY <1>1, <2>1, <3>2, NoneComing
    <3>3. CASE op' = Submitted /\ op' # NoOp
      <4>1. op'.kind = "hire" /\ op'.n = op.n - 1
        BY <1>1, <2>1, <3>3, SubmittedType
      <4> QED BY <1>1, <2>1, <4>1, ComingIs
    <3> QED BY <3>1, <3>2, <3>3
  <2>3. ActiveCount' \in Nat /\ ActiveCount' <= ActiveCount + 1
    <3>1. job' = job \/ AddsJob(op.r)
      BY <1>1, <1>8 DEF SubmitJob, SubmitFails, AddsJob
    <3>2. CASE job' = job
      BY <1>1, <3>2, SameJobs
    <3>3. CASE AddsJob(op.r)
      <4>1. PICK r : r = op.r
        OBVIOUS
      <4> QED BY <1>1, <3>3, <4>1, OneMore
    <3> QED BY <3>1, <3>2, <3>3
  <2> QED BY <1>1, <2>1, <2>2, <2>3
<1>9. ASSUME NEW i \in DOMAIN todo,
             \/ CancelOne(i) \/ CancelFails(i)
             \/ ResumeOne(i) \/ ResumeTooLate(i) \/ ResumeRetried(i) \/ ResumeFails(i)
      PROVE  ActiveCount' + Coming' <= ActiveCount + Coming
  <2>1. i \in DOMAIN job[op.r] /\ op.kind \in {"layoff", "resume"}
    BY <1>1, <1>9
       DEF TodoType, CancelOne, CancelFails, ResumeOne, ResumeTooLate, ResumeRetried, ResumeFails
  <2>2. \/ job' = job \/ ChangesJob(op.r, i, "Ended")
        \/ ChangesJob(op.r, i, Stages[1]) /\ job[op.r][i] = "Paused"
    BY <1>1, <1>9, <2>1
       DEF CancelOne, CancelFails, ResumeOne, ResumeTooLate, ResumeRetried, ResumeFails,
           Cancelled, Resumed, ChangesJob
  <2>3. ActiveCount' \in Nat /\ ActiveCount' <= ActiveCount
    <3>1. "Ended" \in Statuses /\ Stages[1] \in Statuses /\ "Paused" \in Active
      BY StagesAreActive, KnownStatuses DEF Statuses
    <3>2. CASE job' = job
      BY <1>1, <3>2, SameJobs
    <3>3. ASSUME NEW status \in Statuses, ChangesJob(op.r, i, status),
                 job[op.r][i] \in Active \/ status = "Ended"
          PROVE  ActiveCount' <= ActiveCount
      BY <1>1, <3>3, FewerActive
    <3>4. ActiveCount' <= ActiveCount
      BY <1>1, <2>2, <3>1, <3>2, <3>3
    <3>5. ActiveCount' \in Nat
      <4>1. CASE job' = job
        BY <1>1, <4>1, SameJobs
      <4>2. ASSUME NEW status \in Statuses, ChangesJob(op.r, i, status),
                   job[op.r][i] \in Active \/ status = "Ended"
            PROVE  ActiveCount' \in Nat
        <5>1. ActiveCount' = SumOver([q \in Regions |-> ActiveIn(q)'])
          BY DEF ActiveCount, ActiveIn
        <5>2. [q \in Regions |-> ActiveIn(q)'] \in [Regions -> Nat]
          BY <1>1, <4>2, FewerActive
        <5> QED BY <5>1, <5>2, SumIsNatural
      <4> QED BY <2>2, <3>1, <4>1, <4>2
    <3> QED BY <3>4, <3>5
  <2>4. op'.kind \notin {"hire", "scale"}
    <3>1. op' = op \/ op' = NoOp
      BY <1>9 DEF CancelOne, CancelFails, ResumeOne, ResumeTooLate, ResumeRetried, ResumeFails,
                  Served, Raised
    <3> QED BY <2>1, <3>1, NoOpIsOp
  <2>5. Coming = 0 /\ Coming' = 0
    BY <2>1, <2>4, ComingIs
  <2>6. PICK a, b : a = ActiveCount' /\ b = Coming'
    OBVIOUS
  <2>7. a \in Nat /\ a <= ActiveCount /\ b = 0
    BY <2>3, <2>5, <2>6
  <2>8. ActiveCount \in Nat /\ Coming = 0
    BY <1>1, <2>5
  <2>9. a + b <= ActiveCount + Coming
    BY <2>7, <2>8
  <2> QED BY <2>6, <2>9
<1> QED BY <1>4, <1>5, <1>6, <1>7, <1>8, <1>9 DEF WorkforceStep

(* What is planned where nobody has been yet is all that is planned.        *)
LEMMA AwaitingAll ==
  ASSUME NEW p \in [Regions -> Nat], plan' = p, unread' = {r \in Regions : p[r] > 0}
  PROVE  Awaiting' = p
BY DEF Awaiting

(* Starting in a region takes its plan from what is awaited.                *)
LEMMA AwaitingLess ==
  ASSUME TickTypeOK, NEW r \in unread, unread' = unread \ {r}, plan' = plan
  PROVE  SumOver(Awaiting') = SumOver(Awaiting) - plan[r]
<1>1. Awaiting \in [Regions -> Nat] /\ Awaiting \in [Regions -> Int] /\ r \in Regions
  BY PlanningIsNatural DEF TickTypeOK
<1>2. Awaiting' = [Awaiting EXCEPT ![r] = 0] /\ Awaiting[r] = plan[r]
  BY <1>1 DEF Awaiting
<1>3. SumOver([Awaiting EXCEPT ![r] = 0]) = SumOver(Awaiting) + 0 - Awaiting[r]
  <2>1. 0 \in Int
    OBVIOUS
  <2> QED BY <1>1, <2>1, SumOfUpdate, Zenon
<1>4. SumOver(Awaiting) \in Nat /\ plan[r] \in Nat
  BY <1>1, SumIsNatural DEF TickTypeOK
<1> QED BY <1>2, <1>3, <1>4

InCommand == pc # "idle" \/ op # NoOp
Kept == lazy /\ history.trusted /\ InCommand => ActiveCount + Coming + Planning <= history.ceiling
Reached == mode = "auto" /\ pc # "idle" => history.ceiling >= MaxNumWorkers

(* The ceiling, in its parts.                                               *)
LEMMA CeilingParts ==
  (Ceiling <=> Reached /\ Kept) /\ (Ceiling' <=> Reached' /\ Kept')
BY DEF Ceiling, Reached, Kept, InCommand

(* A quiet step within a command that does not plan more than was planned.  *)
LEMMA CeilingOfQuietStep ==
  ASSUME Structure, Ceiling, QuietStep, pc # "idle", UNCHANGED <<mode, lazy>>,
         history'.ceiling = history.ceiling, history'.trusted => history.trusted,
         Planning' \in {0, Planning}
  PROVE  Ceiling'
<1>1. WorkforceTypeOK /\ TickTypeOK /\ JobsType
  BY Types, WorkforceTypes DEF Structure
<1>2. op = NoOp /\ op' = NoOp /\ job' = job
  BY QuietStepsAreQuiet
<1>3. Coming = 0 /\ Coming' = 0 /\ ActiveCount' = ActiveCount
  BY <1>2, NoOpIsOp, ComingIs, SameJobs
<1>4. ActiveCount \in Nat /\ Planning \in Nat /\ history.ceiling \in Nat
  BY <1>1, ActiveCountType, PlanningIsNatural DEF TickTypeOK
<1>5. Reached'
  BY CeilingParts DEF Reached
<1>6. Kept'
  BY <1>3, <1>4, CeilingParts DEF Kept, InCommand
<1> QED BY <1>5, <1>6, CeilingParts

(* The plan of a manual hire is as large as was allowed for.                *)
LEMMA PlanningOfDecision ==
  ASSUME TickTypeOK, NEW toHire, Decide(toHire), pc \in {"queue", "determine"}
  PROVE  Planning' \in {0, Planning}
<1>1. manual \in Int /\ NRegions \in Nat
  BY NumbersOfScheduler DEF TickTypeOK
<1>2. CASE pc' = "hire"
  <2>1. ApplyUniformChange
    BY <1>2 DEF Decide, Fetch, TickReturns
  <2>2. manual > 0
    BY <1>2, <2>1 DEF ApplyUniformChange, Act
  <2> DEFINE each == [r \in Regions |-> manual]
  <2>3. each \in [Regions -> Nat] /\ plan' = each /\ unread' = {r \in Regions : each[r] > 0}
    BY <1>1, <2>1, <2>2 DEF ApplyUniformChange, Act
  <2>4. SumOver(each) = NRegions * manual
    BY <1>1, SumOfConstants
  <2> HIDE DEF each
  <2>5. Awaiting' = each
    BY <2>3, AwaitingAll
  <2>6. Planning' = SumOver(each)
    BY <1>2, <2>5, PlanningIs
  <2>7. Planning = NRegions * manual
    BY <2>2, PlanningIs DEF Positive
  <2> QED BY <2>4, <2>6, <2>7
<1>3. CASE pc' # "hire"
  <2>1. pc' \in {"zero", "layoff", "idle", "planLayoff", "capacity"}
    BY <1>3 DEF Decide, Fetch, TickReturns, ApplyUniformChange, Act
  <2> QED BY <2>1, PlanningIs
<1> QED BY <1>2, <1>3

(* Nobody is hired beyond the ceiling by a tick that plans to hire.         *)
LEMMA CeilingOfPlan ==
  ASSUME Structure, Sized, Counted, Ceiling, PlanHire
  PROVE  Ceiling'
<1>1. WorkforceTypeOK /\ TickTypeOK /\ JobsType /\ Progress /\ total > 0
  BY Types, WorkforceTypes DEF Structure, PlanHire, Progress
<1>2. op = NoOp /\ op' = NoOp /\ job' = job
  BY QuietStepsAreQuiet DEF QuietStep
<1>3. Coming' = 0 /\ ActiveCount' = ActiveCount
  BY <1>2, NoneComing, SameJobs
<1> DEFINE hires == Distribute(total, 1 + total \div NRegions, avail)
<1>4. hires \in [Regions -> Nat] /\ SumOver(hires) <= total
  BY <1>1, PlansAreTyped, PlansAreExact
<1>5. /\ pc = "query" /\ pc' = "hire" /\ plan' = hires
      /\ unread' = {r \in Regions : hires[r] > 0} /\ UNCHANGED <<mode, lazy, history>>
  BY DEF PlanHire, Act
<1> HIDE DEF hires
<1>6. Planning' = SumOver(hires)
  BY <1>4, <1>5, AwaitingAll, PlanningIs
<1>7. mode = "auto" /\ history.ceiling >= MaxNumWorkers
  BY <1>1, <1>5 DEF Ceiling, Progress
<1>8. lazy /\ history.trusted => ActiveCount <= WorkersRead
  <2> SUFFICES ASSUME lazy, history.trusted PROVE ActiveCount <= WorkersRead
    OBVIOUS
  <2> DEFINE f == [r \in Regions |-> ActiveIn(r)]
             g == [r \in Regions |-> SizeOf(r)]
  <2>1. f \in [Regions -> Int] /\ g \in [Regions -> Int] /\ \A r \in Regions : f[r] <= g[r]
    BY <1>1, <1>5, ActiveCountType, SizeIsNatural DEF Sized
  <2>2. ActiveCount = SumOver(f) /\ WorkersRead = SumOver(g)
    BY <1>1, ActiveCountType DEF WorkersRead
  <2> HIDE DEF f, g
  <2> QED BY <2>1, <2>2, SumIsMonotone
<1>9. lazy => total + WorkersRead <= MaxNumWorkers
  BY <1>5 DEF Counted
<1>10. /\ ActiveCount \in Nat /\ WorkersRead \in Nat /\ SumOver(hires) \in Nat /\ total \in Int
       /\ MaxNumWorkers \in Nat /\ history.ceiling \in Nat
  BY <1>1, <1>4, ActiveCountType, SizeIsNatural, SumIsNatural, NumbersOfScheduler DEF TickTypeOK
<1>11. lazy /\ history.trusted => ActiveCount + 0 + SumOver(hires) <= history.ceiling
  BY <1>4, <1>7, <1>8, <1>9, <1>10
<1>12. Kept'
  BY <1>3, <1>5, <1>6, <1>11 DEF Kept
<1>13. Reached'
  BY <1>5, <1>7 DEF Reached
<1> QED BY <1>12, <1>13, CeilingParts

(* The ceiling of a tick holds as the tick begins.                          *)
LEMMA CeilingOfTick ==
  ASSUME Structure, NEW m \in Modes, NEW n \in ManualHires \cup {0}, TickBegins(m, n),
         m # "manual" => n = 0
  PROVE  Ceiling'
<1>1. TickTypeOK /\ JobsType
  BY Types, WorkforceTypes DEF Structure
<1>2. n \in Int /\ ActiveCount \in Nat /\ MaxNumWorkers \in Nat /\ NRegions \in Nat
  BY <1>1, NumbersOfScheduler, ActiveCountType
<1> DEFINE allowed == NRegions * Positive(n)
           ceiling == IF m = "auto" /\ ActiveCount < MaxNumWorkers THEN MaxNumWorkers
                      ELSE ActiveCount + allowed
<1>3. history' = [history EXCEPT !.ceiling = ceiling, !.trusted = TRUE, !.faulty = FALSE,
                                 !.slack = Zeros]
  BY DEF TickBegins
<1>4. allowed \in Nat /\ (m = "auto" => allowed = 0)
  BY <1>2 DEF Positive
<1> HIDE DEF allowed
<1>5. ActiveCount + allowed <= ceiling /\ (m = "auto" => ceiling >= MaxNumWorkers)
  BY <1>2, <1>4
<1> HIDE DEF ceiling
<1>6. history'.ceiling = ceiling
  BY <1>1, <1>3 DEF TickTypeOK
<1>7. Planning' = allowed /\ op' = NoOp /\ job' = job /\ mode' = m
  BY PlanningIs DEF TickBegins, Idle, workforceVars, allowed
<1>8. Coming' = 0 /\ ActiveCount' = ActiveCount
  BY <1>7, NoneComing, SameJobs
<1>9. ActiveCount + 0 + allowed <= ceiling
  BY <1>2, <1>4, <1>5
<1>10. Kept'
  BY <1>6, <1>7, <1>8, <1>9 DEF Kept
<1>11. Reached'
  BY <1>5, <1>6, <1>7 DEF Reached
<1> QED BY <1>10, <1>11, CeilingParts

(* It is kept when an operation of the plan starts.                         *)
LEMMA CeilingOfAction ==
  ASSUME Structure, Ceiling, ActInRegion
  PROVE  Ceiling'
<1>1. WorkforceTypeOK /\ TickTypeOK /\ JobsType
  BY Types, WorkforceTypes DEF Structure
<1>2. PICK r \in unread :
        /\ unread' = unread \ {r}
        /\ op' = CASE pc = "layoff" -> LayoffOp(r, plan[r], FALSE)
                   [] pc = "hire" -> HireOp(r, plan[r], FALSE)
                   [] pc = "resume" -> ResumeOp(r, plan[r], FALSE)
  BY DEF ActInRegion, HireOn
<1>3. /\ pc \in Acting /\ op = NoOp
      /\ UNCHANGED <<job, pc, mode, manual, lazy, plan, history>>
  BY DEF ActInRegion, Acting
<1>4. r \in Regions /\ plan[r] \in Nat /\ plan[r] \in Int
  BY <1>1 DEF TickTypeOK
<1>5. /\ Started(HireOp(r, plan[r], FALSE), "hire", r, plan[r])
      /\ Started(LayoffOp(r, plan[r], FALSE), "layoffList", r, plan[r])
      /\ Started(ResumeOp(r, plan[r], FALSE), "resumeList", r, plan[r])
  BY <1>4, OpsStart
<1>6. Coming = 0 /\ ActiveCount' = ActiveCount
  BY <1>3, NoOpIsOp, ComingIs, SameJobs
<1>7. ActiveCount \in Nat /\ Planning \in Nat /\ history.ceiling \in Nat
  BY <1>1, ActiveCountType, PlanningIsNatural DEF TickTypeOK
<1>8. Coming' + Planning' <= Planning /\ Coming' \in Nat /\ Planning' \in Int
  <2>1. CASE pc = "hire"
    <3>1. Started(op', "hire", r, plan[r])
      BY <1>2, <1>5, <2>1
    <3>2. Coming' = plan[r]
      <4>1. CASE plan[r] > 0
        BY <1>4, <3>1, <4>1, ComingIs DEF Started
      <4>2. CASE plan[r] = 0
        <5>1. op' = NoOp
          BY <3>1, <4>2 DEF Started
        <5> QED BY <4>2, <5>1, NoneComing
      <4> QED BY <1>4, <4>1, <4>2
    <3>3. Planning' = Planning - plan[r]
      BY <1>1, <1>2, <1>3, <2>1, AwaitingLess, PlanningIs
    <3> QED BY <1>4, <1>7, <3>2, <3>3
  <2>2. CASE pc # "hire"
    <3>1. pc \in {"layoff", "resume"}
      BY <1>3, <2>2 DEF Acting
    <3>2. Started(op', "layoffList", r, plan[r]) \/ Started(op', "resumeList", r, plan[r])
      BY <1>2, <1>5, <3>1
    <3>3. op'.kind \notin {"hire", "scale"}
      BY <1>4, <3>2, NoOpIsOp DEF Started
    <3>4. Coming' = 0 /\ Planning' = 0 /\ Planning = 0
      BY <1>3, <3>1, <3>3, ComingIs, PlanningIs
    <3> QED BY <3>4
  <2> QED BY <2>1, <2>2
<1>9. Kept'
  <2> SUFFICES ASSUME lazy, history.trusted PROVE ActiveCount' + Coming' + Planning' <= history.ceiling
    BY <1>3 DEF Kept
  <2>1. ActiveCount + Coming + Planning <= history.ceiling
    BY <1>3, CeilingParts DEF Kept, InCommand, Acting
  <2>2. PICK a, b, c : a = ActiveCount' /\ b = Coming' /\ c = Planning'
    OBVIOUS
  <2>3. a = ActiveCount /\ b + c <= Planning /\ b \in Nat /\ c \in Int
    BY <1>6, <1>8, <2>2
  <2>4. a + b + c <= history.ceiling
    BY <1>6, <1>7, <2>1, <2>3
  <2> QED BY <2>2, <2>4
<1>10. Reached'
  BY <1>3, CeilingParts DEF Reached
<1> QED BY <1>9, <1>10, CeilingParts

(* The number of active workers of a region after a step.                   *)
LEMMA CurrentStateTypeNext ==
  ASSUME JobsType'
  PROVE  \A q \in Regions : ActiveIn(q)' \in Nat
<1> SUFFICES ASSUME NEW q \in Regions PROVE ActiveIn(q)' \in Nat
  OBVIOUS
<1>1. Len(job'[q]) \in Nat /\ DOMAIN job'[q] = 1..Len(job'[q])
  BY DEF JobsType
<1>2. IsFiniteSet(1..Len(job'[q]))
  BY <1>1, FS_Interval
<1>3. JobsIn(q, Active)' \in SUBSET (1..Len(job'[q]))
  BY <1>1 DEF JobsIn
<1> QED BY <1>2, <1>3, FS_Subset, FS_CardinalityType DEF ActiveIn

(* What may come after a step is a natural number.                          *)
LEMMA ComingIsNaturalNext ==
  ASSUME WorkforceTypeOK'
  PROVE  ActiveCount' \in Nat /\ Coming' \in Nat
<1>1. JobsType' /\ op' \in Ops
  BY WorkforceTypes
<1>2. PICK r : r = op'.r
  OBVIOUS
<1>3. \A q \in Regions : ActiveIn(q)' \in Nat
  BY <1>1, CurrentStateTypeNext
<1>4. op'.n \in Nat /\ op'.kind \in Kinds /\ r \in Regions /\ ActiveIn(r)' \in Nat
  BY <1>1, <1>2, <1>3 DEF Ops
<1>5. Coming' \in Nat
  <2>1. PICK a : a = ActiveIn(r)'
    OBVIOUS
  <2>2. Positive(op'.n - a) \in Nat
    BY <1>4, <2>1 DEF Positive
  <2> QED BY <1>2, <1>4, <2>1, <2>2, ComingIs DEF Kinds
<1>6. ActiveCount' = SumOver([q \in Regions |-> ActiveIn(q)'])
  BY DEF ActiveCount, ActiveIn
<1>7. [q \in Regions |-> ActiveIn(q)'] \in [Regions -> Nat]
  BY <1>3
<1> QED BY <1>5, <1>6, <1>7, SumIsNatural

(* The ceiling is kept by the steps of an operation.                        *)
LEMMA CeilingOfWorkforce ==
  ASSUME Structure, Ceiling, WorkforceActs
  PROVE  Ceiling'
<1>1. WorkforceTypeOK /\ TickTypeOK /\ JobsType /\ WorkforceOK /\ WorkforceStep
  BY Types, WorkforceTypes DEF Structure, Control, WorkforceOK, WorkforceActs
<1>2. UNCHANGED <<pc, mode, manual, lazy, plan, unread>>
  BY DEF WorkforceActs, tickVars
<1>3. history'.trusted = history.trusted /\ history'.ceiling = history.ceiling
  <2> DEFINE slack == IF pc = "layoff" /\ mode = "auto"
                      THEN [r \in Regions |-> history.slack[r] - LaidOffRunning(r)]
                      ELSE history.slack
             faulty == history.faulty \/ faults' # faults
  <2>1. history' = [history EXCEPT !.faulty = faulty, !.slack = slack]
    BY DEF WorkforceActs
  <2> HIDE DEF slack, faulty
  <2> QED BY <1>1, <2>1 DEF TickTypeOK
<1>4. op # NoOp
  BY <1>1, WorkforceStepKeepsTypes, NoOpIsOp DEF OpGoesOn
<1>5. Planning' = Planning
  BY <1>2 DEF Planning, Awaiting
<1>6. /\ ActiveCount \in Nat /\ Coming \in Nat /\ Planning \in Nat /\ history.ceiling \in Nat
  BY <1>1, ComingIsNatural, PlanningIsNatural DEF TickTypeOK
<1>7. WorkforceTypeOK'
  BY <1>1, WorkforceStepKeepsTypes DEF WorkforceOK
<1>8. ActiveCount' \in Nat /\ Coming' \in Nat
  BY <1>7, ComingIsNaturalNext
<1>9. Kept'
  <2> SUFFICES ASSUME lazy, history.trusted
               PROVE  ActiveCount' + Coming' + Planning' <= history'.ceiling
    BY <1>2, <1>3 DEF Kept
  <2>1. ActiveCount + Coming + Planning <= history.ceiling
    BY <1>4, CeilingParts DEF Kept, InCommand
  <2>2. PICK a, b, c : a = ActiveCount' /\ b = Coming' /\ c = Planning'
    OBVIOUS
  <2>3. a + b <= ActiveCount + Coming /\ c = Planning /\ a \in Nat /\ b \in Nat
    BY <1>1, <1>5, <1>8, <2>2, ComingBecomesActive
  <2>4. a + b + c <= history.ceiling
    BY <1>6, <2>1, <2>3
  <2> QED BY <1>3, <2>2, <2>4
<1>10. Reached'
  BY <1>2, <1>3, CeilingParts DEF Reached
<1> QED BY <1>9, <1>10, CeilingParts

(* It is kept by the service, which starts no new worker.                   *)
LEMMA CeilingOfPlatform ==
  ASSUME Structure, Ceiling, NEW r \in Regions, PlatformActs(r)
  PROVE  Ceiling'
<1>1. WorkforceTypeOK /\ TickTypeOK /\ JobsType
  BY Types, WorkforceTypes DEF Structure
<1>2. /\ UNCHANGED <<op, todo, faults, tickVars>>
      /\ ActiveIn(r) \in Nat /\ ActiveIn(r)' \in Nat /\ ActiveIn(r)' <= ActiveIn(r)
      /\ \A q \in Regions \ {r} : ActiveIn(q)' = ActiveIn(q)
      /\ ActiveCount' = ActiveCount + ActiveIn(r)' - ActiveIn(r)
  BY <1>1, FewerAtTheService
<1>3. UNCHANGED <<pc, mode, manual, lazy, plan, unread>> /\ Planning' = Planning
  BY <1>2 DEF tickVars, Planning, Awaiting
<1>4. history'.trusted = history.trusted /\ history'.ceiling = history.ceiling
  <2>1. history' = history \/
          history' = [history EXCEPT !.slack[r] = Least(history.slack[r] + 1, MaxJobs[r])]
    BY DEF PlatformActs
  <2> QED BY <1>1, <2>1 DEF TickTypeOK
<1>5. /\ ActiveCount \in Nat /\ Coming \in Nat /\ op.n \in Nat /\ op.r \in Regions
      /\ Planning \in Nat /\ history.ceiling \in Nat
  BY <1>1, ComingIsNatural, PlanningIsNatural DEF TickTypeOK
<1>6. PICK a, b, c, d : a = ActiveCount' /\ b = Coming' /\ c = Planning' /\ d = ActiveIn(r)'
  OBVIOUS
<1>7. d \in Nat /\ d <= ActiveIn(r) /\ a = ActiveCount + d - ActiveIn(r) /\ c = Planning
  BY <1>2, <1>3, <1>6
<1>8. b = Coming \/ (Coming = Positive(op.n - ActiveIn(r)) /\ b = Positive(op.n - d))
  <2>1. CASE op.kind = "scale" /\ op.r = r
    BY <1>2, <1>6, <2>1, ComingIs
  <2>2. CASE op.kind = "scale" /\ op.r # r
    <3>1. PICK q \in Regions : q = op.r
      BY <1>5
    <3>2. ActiveIn(q)' = ActiveIn(q)
      BY <1>2, <2>2, <3>1
    <3> QED BY <1>2, <1>6, <2>2, <3>1, <3>2, ComingIs
  <2>3. CASE op.kind # "scale"
    <3>1. op'.kind = op.kind /\ op'.n = op.n
      BY <1>2
    <3> QED BY <1>6, <2>3, <3>1, ComingIs
  <2> QED BY <2>1, <2>2, <2>3
<1>9. a + b + c <= ActiveCount + Coming + Planning /\ b \in Nat /\ a \in Int
  <2>1. CASE b = Coming
    BY <1>2, <1>5, <1>7, <2>1
  <2>2. CASE Coming = Positive(op.n - ActiveIn(r)) /\ b = Positive(op.n - d)
    BY <1>2, <1>5, <1>7, <2>2 DEF Positive
  <2> QED BY <1>8, <2>1, <2>2
<1>10. Kept'
  <2> SUFFICES ASSUME lazy, history.trusted, InCommand PROVE a + b + c <= history.ceiling
    BY <1>2, <1>3, <1>4, <1>6 DEF Kept, InCommand
  <2>1. ActiveCount + Coming + Planning <= history.ceiling
    BY CeilingParts DEF Kept
  <2> QED BY <1>5, <1>7, <1>9, <2>1
<1>11. Reached'
  BY <1>3, <1>4, CeilingParts DEF Reached
<1> QED BY <1>10, <1>11, CeilingParts

(* It holds when scale_to is called.                                        *)
LEMMA CeilingOfScaleTo ==
  ASSUME Structure, NEW r \in Regions, NEW n \in ScaleTargets, NEW layoffs \in BOOLEAN,
         ScaleToCalled(r, n, layoffs)
  PROVE  Ceiling'
<1>1. TickTypeOK /\ JobsType
  BY Types, WorkforceTypes DEF Structure
<1> DEFINE coming == Positive(n - Cardinality(JobsIn(r, Active)))
           ceiling == ActiveCount + coming
<1>2. history' = [history EXCEPT !.ceiling = ceiling, !.trusted = TRUE, !.faulty = FALSE,
                                 !.slack = Zeros]
  BY DEF ScaleToCalled
<1>3. coming \in Nat /\ ActiveCount \in Nat /\ coming = Positive(n - ActiveIn(r))
  BY <1>1, JobsAreFinite, NumbersOfScheduler, ActiveCountType DEF Positive, ActiveIn
<1> HIDE DEF coming
<1> HIDE DEF ceiling
<1>4. history'.ceiling = ceiling
  BY <1>1, <1>2 DEF TickTypeOK
<1>5. op' = [NoOp EXCEPT !.kind = "scale", !.r = r, !.n = n, !.layoffs = layoffs]
      /\ job' = job /\ pc' = "idle" /\ mode' = "scaleTo"
  BY DEF ScaleToCalled, Idle
<1>6. op'.kind = "scale" /\ op'.r = r /\ op'.n = n
  BY <1>5, NoOpIsOp DEF Ops
<1>7. ActiveIn(r)' = ActiveIn(r) /\ ActiveCount' = ActiveCount /\ Planning' = 0
  BY <1>5, SameJobs, PlanningIs
<1>8. Coming' = coming
  BY <1>3, <1>6, <1>7, ComingIs
<1>9. ActiveCount + coming + 0 <= ceiling
  BY <1>3 DEF ceiling
<1>10. Kept'
  BY <1>4, <1>7, <1>8, <1>9 DEF Kept
<1>11. Reached'
  BY <1>5 DEF Reached
<1> QED BY <1>10, <1>11, CeilingParts

(* Every step keeps the ceiling.                                            *)
LEMMA CeilingPreserved ==
  ASSUME Structure, Sized, Counted, Ceiling, Next
  PROVE  Ceiling'
<1>1. TickTypeOK /\ Control /\ Progress
  BY Types DEF Structure
<1>2. ASSUME QuietStep, UNCHANGED <<mode, lazy, history, pc, manual>>, pc \notin {"idle", "hire"}
      PROVE  Ceiling'
  <2>1. Planning' = Planning
    BY <1>2, PlanningIs
  <2> QED BY <1>2, <2>1, CeilingOfQuietStep
<1>3. ASSUME QuietStep, UNCHANGED <<mode, lazy, history>>, pc # "idle",
             pc' \notin {"hire", "running", "pending", "queue", "determine"}
      PROVE  Ceiling'
  <2>1. Planning' = 0
    BY <1>3, PlanningIs
  <2> QED BY <1>3, <2>1, CeilingOfQuietStep
<1>4. CASE QuietStep
  <2>1. CASE \E r \in Regions : QueryCapacity(r) \/ DiscoverPaused(r)
    <3>1. UNCHANGED <<mode, lazy, history, pc, manual>> /\ pc \notin {"idle", "hire"}
      BY <2>1 DEF QueryCapacity, DiscoverPaused
    <3> QED BY <1>2, <1>4, <3>1
  <2>11. ASSUME NEW r \in Regions, StateRead(r) PROVE Ceiling'
    <3>1. history' = [history EXCEPT !.slack[r] = 0]
          /\ UNCHANGED <<mode, lazy, pc, manual>> /\ pc \notin {"idle", "hire"}
      BY <2>11 DEF StateRead, Fetching
    <3>2. history'.ceiling = history.ceiling /\ history'.trusted = history.trusted
      BY <1>1, <3>1 DEF TickTypeOK
    <3>3. Planning' = Planning
      BY <3>1, PlanningIs
    <3> QED BY <1>4, <3>1, <3>2, <3>3, CeilingOfQuietStep
  <2>2. ASSUME NEW r \in Regions, StateReadFails(r) PROVE Ceiling'
    <3>1. history' = [history EXCEPT !.trusted = FALSE, !.faulty = TRUE]
          /\ UNCHANGED <<mode, lazy, pc, manual>> /\ pc \notin {"idle", "hire"}
      BY <2>2 DEF StateReadFails, Fetching
    <3>2. history'.ceiling = history.ceiling /\ history'.trusted = FALSE
      BY <1>1, <3>1 DEF TickTypeOK
    <3>3. Planning' = Planning
      BY <3>1, PlanningIs
    <3> QED BY <1>4, <3>1, <3>2, <3>3, CeilingOfQuietStep
  <2>3. CASE CountRunning \/ CountPending
    <3>1. UNCHANGED <<mode, lazy, history, manual>> /\ pc # "idle"
          /\ {pc, pc'} \subseteq {"running", "pending", "queue"}
      BY <2>3 DEF CountRunning, CountPending, Fetch
    <3>2. Planning' = Planning
      BY <3>1, PlanningIs
    <3> QED BY <1>4, <3>1, <3>2, CeilingOfQuietStep
  <2>4. ASSUME NEW toHire, Decide(toHire), pc \in {"queue", "determine"},
               UNCHANGED <<mode, lazy, history>>
        PROVE  Ceiling'
    <3>1. Planning' \in {0, Planning} /\ pc # "idle"
      BY <1>1, <2>4, PlanningOfDecision
    <3> QED BY <1>4, <2>4, <3>1, CeilingOfQuietStep
  <2>5. ASSUME NEW n \in QueueSizes, ReadQueueSize(n) PROVE Ceiling'
    <3>1. CASE n = 0
      BY <2>4, <2>5, <3>1 DEF ReadQueueSize
    <3>2. CASE n # 0
      <4>1. UNCHANGED <<mode, lazy, history, manual>> /\ pc = "queue" /\ pc' = "determine"
        BY <2>5, <3>2 DEF ReadQueueSize, Fetch
      <4>2. Planning' = Planning
        BY <4>1, PlanningIs
      <4> QED BY <1>4, <4>1, <4>2, CeilingOfQuietStep
    <3> QED BY <3>1, <3>2
  <2>6. CASE DetermineNumberOfWorkers
    BY <2>4, <2>6 DEF DetermineNumberOfWorkers
  <2>7. CASE QueueSizeFails
    <3>1. history' = [history EXCEPT !.faulty = TRUE]
          /\ UNCHANGED <<mode, lazy, manual>> /\ pc = "queue" /\ pc' = "down"
      BY <2>7 DEF QueueSizeFails
    <3>2. history'.ceiling = history.ceiling /\ history'.trusted = history.trusted
      BY <1>1, <3>1 DEF TickTypeOK
    <3>3. Planning' = 0
      BY <3>1, PlanningIs
    <3> QED BY <1>4, <3>1, <3>2, <3>3, CeilingOfQuietStep
  <2>8. CASE ScaleToZero \/ PlanLayoff \/ SnapshotStates \/ ResumeAllRegions \/ Acted \/ Restarts
    <3>1. UNCHANGED <<mode, lazy, history>> /\ pc # "idle"
          /\ pc' \in {"layoff", "query", "resume", "discover", "idle"}
      BY <2>8 DEF ScaleToZero, PlanLayoff, SnapshotStates, ResumeAllRegions, Act, Acted,
                  Restarts, TickReturns
    <3> QED BY <1>3, <1>4, <3>1
  <2>9. CASE PlanHire
    BY <2>9, CeilingOfPlan
  <2>10. CASE \E m \in Modes, n \in ManualHires \cup {0} :
                TickBegins(m, n) /\ (m # "manual" => n = 0)
    BY <2>10, CeilingOfTick
  <2> QED
    BY <1>4, <2>1, <2>2, <2>3, <2>5, <2>6, <2>7, <2>8, <2>9, <2>10, <2>11 DEF QuietStep
<1> QED
  BY <1>4, CeilingOfAction, CeilingOfWorkforce, CeilingOfPlatform, CeilingOfScaleTo, StepsOfNext

------------------------------------------------------------------------------
(* Scaling to zero.                                                         *)

LEMMA NoneActive ==
  ASSUME JobsType, NEW r \in Regions, ActiveIn(r) <= 0
  PROVE  JobsIn(r, Active) = {}
<1>1. IsFiniteSet(JobsIn(r, Active)) /\ ActiveIn(r) \in Nat
  BY JobsAreFinite DEF ActiveIn
<1>2. Cardinality(JobsIn(r, Active)) = 0
  BY <1>1 DEF ActiveIn
<1> QED BY <1>1, <1>2, FS_EmptySet

(* A lay-off of as many as there are takes all.                             *)
LEMMA AllAreCandidates ==
  ASSUME JobsType, NEW r \in Regions, NEW n \in Int, ActiveIn(r) <= n
  PROVE  DOMAIN LayoffCandidates(r, n) = JobsIn(r, Active)
<1> DEFINE before(i) == {j \in JobsIn(r, Active) : Precedes(r, j, i)}
           place(i) == Cardinality(before(i))
<1>1. ASSUME NEW i \in JobsIn(r, Active) PROVE place(i) < n
  <2>1. i \notin before(i)
    <3>1. Rank(job[r][i]) \in 1..Len(Priority) /\ i \in Nat
      <4>1. job[r][i] \in Active /\ i \in DOMAIN job[r]
        BY DEF JobsIn
      <4>2. \E k \in 1..Len(Priority) : Priority[k] = job[r][i]
        BY <4>1 DEF Active
      <4>3. i \in Nat
        BY <4>1 DEF JobsType
      <4> QED BY <4>2, <4>3 DEF Rank
    <3>2. Rank(job[r][i]) \in Int
      BY <3>1 DEF Priority
    <3> QED BY <3>1, <3>2 DEF Precedes
  <2>2. before(i) \in SUBSET JobsIn(r, Active) /\ before(i) # JobsIn(r, Active)
    BY <2>1
  <2>3. IsFiniteSet(JobsIn(r, Active)) /\ ActiveIn(r) \in Nat
    BY JobsAreFinite DEF ActiveIn
  <2>4. /\ IsFiniteSet(before(i)) /\ Cardinality(before(i)) <= Cardinality(JobsIn(r, Active))
        /\ Cardinality(before(i)) = Cardinality(JobsIn(r, Active)) => before(i) = JobsIn(r, Active)
    BY <2>2, <2>3, FS_Subset
  <2>5. place(i) \in Nat
    BY <2>4, FS_CardinalityType
  <2> HIDE DEF before
  <2> QED BY <2>2, <2>3, <2>4, <2>5 DEF ActiveIn
<1>2. DOMAIN LayoffCandidates(r, n) = {i \in JobsIn(r, Active) : place(i) < n}
  BY DEF LayoffCandidates, FirstOf
<1> HIDE DEF place
<1> QED BY <1>1, <1>2

(* What a scale-to-zero in a lay-off phase knows of the regions.            *)
RegionsZeroed ==
  \A r \in Regions :
    /\ r \in unread => ActiveIn(r) <= plan[r]
    /\ r \notin unread /\ (op = NoOp \/ op.r # r) => JobsIn(r, Active) = {}

RegionOfOpZeroed ==
  /\ op.kind = "layoffList" => ActiveIn(op.r) <= op.n
  /\ op.kind = "layoff" => JobsIn(op.r, Active) \subseteq DOMAIN todo

(* What a scale-to-zero keeps, in its parts.                                *)
LEMMA ZeroedParts ==
  /\ Zeroed <=>
       (mode = "zero" /\ ~history.faulty =>
          /\ pc = "layoff" => RegionsZeroed
          /\ pc = "idle" => \A r \in Regions : JobsIn(r, Active) = {}
          /\ RegionOfOpZeroed)
  /\ Zeroed' <=>
       (mode' = "zero" /\ ~history'.faulty =>
          /\ pc' = "layoff" => RegionsZeroed'
          /\ pc' = "idle" => \A r \in Regions : JobsIn(r, Active)' = {}
          /\ RegionOfOpZeroed')
BY DEF Zeroed, RegionsZeroed, RegionOfOpZeroed

(* A scale-to-zero plans for all the workers that are there.                *)
LEMMA ZeroedByPlan ==
  ASSUME Structure, Sized, Zeroed, ScaleToZero
  PROVE  Zeroed'
<1>1. JobsType /\ TickTypeOK /\ Progress
  BY Types, WorkforceTypes DEF Structure
<1>2. op = NoOp /\ op' = NoOp /\ job' = job
  BY QuietStepsAreQuiet DEF QuietStep
<1>3. /\ pc = "zero" /\ pc' = "layoff" /\ unread = {} /\ history' = history /\ states' = states
      /\ plan' = [r \in Regions |-> states[r].running + states[r].pending]
      /\ unread' = {r \in Regions : states[r].running + states[r].pending > 0}
  BY DEF ScaleToZero, Act
<1>4. CASE ~history.faulty
  <2>1. \A r \in Regions : ActiveIn(r) <= SizeOf(r) /\ ActiveIn(r) \in Nat /\ SizeOf(r) \in Nat
    BY <1>1, <1>3, <1>4, CurrentStateType, SizeIsNatural DEF Sized, Progress, Reading
  <2>2. ASSUME NEW r \in Regions
        PROVE  /\ r \in unread' => ActiveIn(r)' <= plan'[r]
               /\ r \notin unread' => JobsIn(r, Active)' = {}
    <3>1. r \in unread' => ActiveIn(r)' <= plan'[r]
      BY <1>2, <1>3, <2>1, SameJobs DEF SizeOf
    <3>2. r \notin unread' => ActiveIn(r) <= 0
      BY <1>3, <2>1 DEF SizeOf
    <3> QED BY <1>1, <1>2, <3>1, <3>2, NoneActive, SameJobs
  <2>3. RegionsZeroed'
    BY <2>2 DEF RegionsZeroed
  <2>4. RegionOfOpZeroed'
    BY <1>2, NoOpIsOp DEF RegionOfOpZeroed
  <2> QED BY <1>3, <2>3, <2>4, ZeroedParts
<1>5. CASE history.faulty
  BY <1>3, <1>5, ZeroedParts
<1> QED BY <1>4, <1>5

(* Quiet steps keep what a scale-to-zero promises.                          *)
LEMMA ZeroedByQuietStep ==
  ASSUME Structure, Sized, Zeroed, QuietStep
  PROVE  Zeroed'
<1>1. JobsType /\ TickTypeOK /\ Progress
  BY Types, WorkforceTypes DEF Structure
<1>2. op = NoOp /\ op' = NoOp /\ job' = job
  BY QuietStepsAreQuiet
<1>3. RegionOfOpZeroed'
  BY <1>2, NoOpIsOp DEF RegionOfOpZeroed
<1>4. CASE mode' # "zero" \/ history'.faulty
  BY <1>4, ZeroedParts
<1>5. CASE pc' \notin {"layoff", "idle"}
  BY <1>3, <1>5, ZeroedParts
<1>6. CASE \E r \in Regions : StateRead(r) \/ StateReadFails(r) \/ QueryCapacity(r)
                              \/ DiscoverPaused(r)
  BY <1>5, <1>6 DEF StateRead, StateReadFails, QueryCapacity, DiscoverPaused, Fetching
<1>7. ASSUME NEW toHire, Decide(toHire), mode' = mode
      PROVE  Zeroed'
  <2>1. mode = "zero" => pc' = "zero"
    BY <1>7 DEF Decide, Fetch
  <2> QED BY <1>4, <1>5, <1>7, <2>1
<1>8. CASE DetermineNumberOfWorkers \/ \E n \in QueueSizes : ReadQueueSize(n)
  BY <1>5, <1>7, <1>8 DEF DetermineNumberOfWorkers, ReadQueueSize, Fetch
<1>9. CASE \/ CountRunning \/ CountPending \/ QueueSizeFails \/ SnapshotStates \/ PlanHire
           \/ ResumeAllRegions \/ \E m, n : TickBegins(m, n)
  BY <1>5, <1>9 DEF CountRunning, CountPending, QueueSizeFails, SnapshotStates, PlanHire,
                    ResumeAllRegions, TickBegins, Fetch, Act
<1>10. CASE PlanLayoff
  BY <1>1, <1>4, <1>10 DEF PlanLayoff, Progress
<1>11. CASE Restarts
  BY <1>1, <1>4, <1>11 DEF Restarts, Progress
<1>12. CASE Acted
  <2>1. CASE mode = "zero" /\ ~history.faulty
    <3>1. pc = "layoff" /\ unread = {} /\ pc' = "idle"
      BY <1>1, <1>12, <2>1 DEF Acted, Progress, TickReturns
    <3>2. \A r \in Regions : JobsIn(r, Active) = {}
      BY <1>2, <2>1, <3>1, ZeroedParts DEF RegionsZeroed
    <3> QED BY <1>2, <1>3, <3>1, <3>2, SameJobs, ZeroedParts
  <2>2. CASE ~(mode = "zero" /\ ~history.faulty)
    BY <1>4, <1>12, <2>2 DEF Acted
  <2> QED BY <2>1, <2>2
<1> QED BY <1>6, <1>8, <1>9, <1>10, <1>11, <1>12, ZeroedByPlan DEF QuietStep

(* So does the start of a lay-off, of all the workers of its region.        *)
LEMMA ZeroedByAction ==
  ASSUME Structure, Zeroed, ActInRegion
  PROVE  Zeroed'
<1>1. JobsType /\ TickTypeOK /\ Progress
  BY Types, WorkforceTypes DEF Structure
<1>2. /\ op = NoOp /\ job' = job /\ UNCHANGED <<pc, mode, plan, history>>
      /\ pc \in {"layoff", "hire", "resume"}
  BY DEF ActInRegion
<1>3. CASE mode # "zero" \/ history.faulty
  BY <1>2, <1>3, ZeroedParts
<1>4. CASE mode = "zero" /\ ~history.faulty
  <2>1. pc = "layoff" /\ RegionsZeroed
    BY <1>1, <1>2, <1>4, ZeroedParts DEF Progress
  <2>2. PICK r \in unread : unread' = unread \ {r} /\ op' = LayoffOp(r, plan[r], FALSE)
    BY <2>1 DEF ActInRegion
  <2>3. r \in Regions /\ plan[r] \in Nat /\ Started(op', "layoffList", r, plan[r])
        /\ ActiveIn(r) <= plan[r] /\ ActiveIn(r) \in Nat
    <3>1. r \in Regions /\ plan[r] \in Nat /\ plan[r] \in Int
      BY <1>1 DEF TickTypeOK
    <3>2. Started(LayoffOp(r, plan[r], FALSE), "layoffList", r, plan[r])
      BY <3>1, OpsStart
    <3>3. ActiveIn(r) <= plan[r]
      BY <2>1, <3>1 DEF RegionsZeroed
    <3> QED BY <1>1, <2>2, <3>1, <3>2, <3>3, CurrentStateType
  <2>4. CASE plan[r] > 0
    <3>1. op'.kind = "layoffList" /\ op'.r = r /\ op'.n = plan[r] /\ op' # NoOp
      BY <2>3, <2>4, NoOpIsOp DEF Started
    <3>2. RegionOfOpZeroed'
      <4>1. ActiveIn(r)' <= op'.n
        BY <1>2, <2>3, <3>1, SameJobs
      <4> QED BY <3>1, <4>1 DEF RegionOfOpZeroed
    <3>3. RegionsZeroed'
      BY <1>2, <2>1, <2>2, <3>1, SameJobs DEF RegionsZeroed
    <3> QED BY <1>2, <2>1, <3>2, <3>3, ZeroedParts
  <2>5. CASE plan[r] = 0
    <3>1. op' = NoOp /\ JobsIn(r, Active) = {}
      BY <1>1, <2>3, <2>5, NoneActive DEF Started
    <3>2. RegionOfOpZeroed'
      BY <3>1, NoOpIsOp DEF RegionOfOpZeroed
    <3>3. RegionsZeroed'
      BY <1>2, <2>1, <2>2, <3>1, SameJobs DEF RegionsZeroed
    <3> QED BY <1>2, <2>1, <3>2, <3>3, ZeroedParts
  <2> QED BY <2>3, <2>4, <2>5
<1> QED BY <1>3, <1>4

(* So does the service, which starts no new worker.                         *)
LEMMA ZeroedByPlatform ==
  ASSUME Structure, Zeroed, NEW r \in Regions, PlatformActs(r)
  PROVE  Zeroed'
<1>1. JobsType /\ TickTypeOK
  BY Types, WorkforceTypes DEF Structure
<1>2. /\ UNCHANGED <<op, todo, faults, tickVars>>
      /\ \A q \in Regions : /\ JobsIn(q, Active)' \subseteq JobsIn(q, Active)
                            /\ ActiveIn(q) \in Nat /\ ActiveIn(q)' \in Nat
                            /\ ActiveIn(q)' <= ActiveIn(q)
  BY <1>1, FewerAtTheService
<1>3. UNCHANGED <<pc, mode, unread, plan, op, todo>>
  BY <1>2 DEF tickVars
<1>4. history'.faulty = history.faulty
  <2>1. history' = history \/
          history' = [history EXCEPT !.slack[r] = Least(history.slack[r] + 1, MaxJobs[r])]
    BY DEF PlatformActs
  <2> QED BY <1>1, <2>1 DEF TickTypeOK
<1>5. RegionsZeroed => RegionsZeroed'
  <2> SUFFICES ASSUME RegionsZeroed, NEW q \in Regions
               PROVE  /\ q \in unread => ActiveIn(q)' <= plan[q]
                      /\ q \notin unread /\ (op = NoOp \/ op.r # q) => JobsIn(q, Active)' = {}
    BY <1>3 DEF RegionsZeroed
  <2>1. plan[q] \in Nat
    BY <1>1 DEF TickTypeOK
  <2> QED BY <1>2, <2>1 DEF RegionsZeroed
<1>6. RegionOfOpZeroed => RegionOfOpZeroed'
  <2>1. op \in Ops
    BY Types, WorkforceTypes DEF Structure
  <2>2. PICK q \in Regions : q = op.r
    BY <2>1 DEF Ops
  <2>3. op.n \in Nat
    BY <2>1 DEF Ops
  <2>4. ActiveIn(q) <= op.n => ActiveIn(q)' <= op.n
    BY <1>2, <2>3
  <2>5. JobsIn(q, Active) \subseteq DOMAIN todo => JobsIn(q, Active)' \subseteq DOMAIN todo
    BY <1>2
  <2>6. /\ RegionOfOpZeroed <=>
             (op.kind = "layoffList" => ActiveIn(q) <= op.n)
               /\ (op.kind = "layoff" => JobsIn(q, Active) \subseteq DOMAIN todo)
        /\ RegionOfOpZeroed' <=>
             (op.kind = "layoffList" => ActiveIn(q)' <= op.n)
               /\ (op.kind = "layoff" => JobsIn(q, Active)' \subseteq DOMAIN todo)
    BY <1>3, <2>2 DEF RegionOfOpZeroed
  <2> QED BY <2>4, <2>5, <2>6
<1>7. (\A q \in Regions : JobsIn(q, Active) = {}) => \A q \in Regions : JobsIn(q, Active)' = {}
  BY <1>2
<1> QED BY <1>3, <1>4, <1>5, <1>6, <1>7, ZeroedParts

(* The steps of a lay-off.                                                  *)
LEMMA LayoffSteps ==
  ASSUME WorkforceStep, op.kind \in {"layoffList", "layoff"}
  PROVE  \/ RequestRetried \/ RequestFailed \/ ListWorkers
         \/ \E i \in DOMAIN todo : CancelOne(i) \/ CancelFails(i)
BY DEF WorkforceStep, ScaleTo, SubmitJob, SubmitFails, ResumeOne, ResumeTooLate, ResumeRetried,
       ResumeFails

(* A request that is tried again is the same request.                       *)
LEMMA OpRetried ==
  ASSUME op \in Ops, RequestRetried
  PROVE  op'.kind = op.kind /\ op'.r = op.r /\ op'.n = op.n
BY DEF RequestRetried, Ops

(* A lay-off with its candidates listed serves them, or is over if there    *)
(* are none.                                                                *)
LEMMA OpListed ==
  ASSUME op \in Ops, ListWorkers, op.kind = "layoffList"
  PROVE  /\ todo' = LayoffCandidates(op.r, op.n) /\ job' = job
         /\ DOMAIN todo' = {} => op' = NoOp
         /\ DOMAIN todo' # {} => op'.kind = "layoff" /\ op'.r = op.r /\ op' # NoOp
<1>1. /\ todo' = LayoffCandidates(op.r, op.n) /\ job' = job
      /\ DOMAIN todo' = {} => op' = NoOp
  BY DEF ListWorkers
<1>2. DOMAIN todo' # {} => op' = [op EXCEPT !.kind = "layoff", !.att = 0]
  BY DEF ListWorkers
<1>3. ASSUME DOMAIN todo' # {} PROVE op'.kind = "layoff" /\ op'.r = op.r
  BY <1>2, <1>3 DEF Ops
<1> QED BY <1>1, <1>3, NoOpIsOp

(* A candidate that is served is no longer to be served; the last one ends  *)
(* the operation.                                                           *)
LEMMA OpServed ==
  ASSUME NEW i \in DOMAIN todo, Served(i)
  PROVE  /\ DOMAIN todo' = DOMAIN todo \ {i}
         /\ DOMAIN todo' = {} => op' = NoOp
         /\ DOMAIN todo' # {} => op' = op
BY DEF Served, Restrict

(* What the history keeps of a step of an operation.                        *)
LEMMA HistoryOfWorkforce ==
  ASSUME TickTypeOK, WorkforceActs
  PROVE  /\ history'.trusted = history.trusted
         /\ history'.faulty = (history.faulty \/ faults' # faults)
         /\ history'.slack = IF pc = "layoff" /\ mode = "auto"
                             THEN [r \in Regions |-> history.slack[r] - LaidOffRunning(r)]
                             ELSE history.slack
<1> DEFINE slack == IF pc = "layoff" /\ mode = "auto"
                    THEN [r \in Regions |-> history.slack[r] - LaidOffRunning(r)]
                    ELSE history.slack
           faulty == history.faulty \/ faults' # faults
<1>1. history' = [history EXCEPT !.faulty = faulty, !.slack = slack]
  BY DEF WorkforceActs
<1> HIDE DEF slack, faulty
<1>2. history'.trusted = history.trusted /\ history'.faulty = faulty /\ history'.slack = slack
  BY <1>1 DEF TickTypeOK
<1> QED BY <1>2 DEF slack, faulty

(* The steps of a lay-off without a failure keep what a scale-to-zero       *)
(* promises.                                                                *)
LEMMA ZeroedByWorkforce ==
  ASSUME Structure, Zeroed, WorkforceActs
  PROVE  Zeroed'
<1>1. JobsType /\ TickTypeOK /\ Progress /\ Control /\ WorkforceOK /\ op \in Ops /\ TodoType
      /\ faults \in 0..MaxFaults
  BY Types, WorkforceTypes DEF Structure, Control, WorkforceOK
<1>2. UNCHANGED <<pc, mode, unread, plan>> /\ WorkforceStep
  BY DEF WorkforceActs, tickVars
<1>3. history'.faulty = (history.faulty \/ faults' # faults)
  BY <1>1, HistoryOfWorkforce
<1>4. CASE mode # "zero" \/ history.faulty \/ faults' # faults
  BY <1>2, <1>3, <1>4, ZeroedParts
<1>5. CASE mode = "zero" /\ ~history.faulty /\ faults' = faults
  <2>1. op # NoOp /\ op.kind # "none"
    BY <1>1, <1>2, WorkforceStepKeepsTypes, NoOpIsOp DEF OpGoesOn
  <2>2. pc = "layoff" /\ op.kind \in {"layoffList", "layoff"}
    BY <1>1, <1>5, <2>1 DEF Control, Progress, Acting
  <2>3. RegionsZeroed /\ RegionOfOpZeroed
    BY <1>5, <2>2, ZeroedParts
  <2>4. ~Fault
    BY <1>1, <1>5, NumbersOfWorkforce DEF Fault
  <2>5. PICK r \in Regions : r = op.r
    BY <1>1 DEF Ops
  <2>6. ASSUME RegionOfOpZeroed',
               \/ op' = NoOp /\ JobsIn(r, Active)' = {}
               \/ op'.r = r /\ op' # NoOp,
               \A q \in Regions \ {r} : JobsIn(q, Active)' = JobsIn(q, Active),
               r \notin unread
        PROVE  Zeroed'
    <3>1. RegionsZeroed'
      <4> SUFFICES ASSUME NEW q \in Regions
                   PROVE  /\ q \in unread => ActiveIn(q)' <= plan[q]
                          /\ q \notin unread /\ (op' = NoOp \/ op'.r # q) => JobsIn(q, Active)' = {}
        BY <1>2 DEF RegionsZeroed
      <4>1. CASE q = r
        BY <2>6, <4>1
      <4>2. CASE q # r
        <5>1. JobsIn(q, Active)' = JobsIn(q, Active) /\ ActiveIn(q)' = ActiveIn(q)
          BY <2>6, <4>2 DEF ActiveIn
        <5> QED BY <2>3, <2>5, <4>2, <5>1 DEF RegionsZeroed
      <4> QED BY <4>1, <4>2
    <3> QED BY <1>2, <2>2, <2>6, <3>1, ZeroedParts
  <2>7. r \notin unread
    BY <1>1, <2>1, <2>2, <2>5 DEF Control
  <2>8. CASE RequestRetried
    <3>1. op'.kind = op.kind /\ op'.r = op.r /\ op'.n = op.n /\ job' = job /\ todo' = todo
      BY <1>1, <2>8, OpRetried DEF RequestRetried
    <3>2. op' # NoOp
      BY <2>1, <3>1, NoOpIsOp
    <3>3. RegionOfOpZeroed'
      <4>1. /\ op.kind = "layoffList" => ActiveIn(r) <= op.n
            /\ op.kind = "layoff" => JobsIn(r, Active) \subseteq DOMAIN todo
        BY <2>3, <2>5 DEF RegionOfOpZeroed
      <4>2. ActiveIn(r)' = ActiveIn(r) /\ JobsIn(r, Active)' = JobsIn(r, Active)
        BY <3>1, SameJobs
      <4> QED BY <2>5, <3>1, <4>1, <4>2 DEF RegionOfOpZeroed
    <3>4. \A q \in Regions : JobsIn(q, Active)' = JobsIn(q, Active)
      BY <3>1, SameJobs
    <3> QED BY <2>5, <2>6, <2>7, <3>1, <3>2, <3>3, <3>4
  <2>9. CASE RequestFailed
    BY <2>4, <2>9 DEF RequestFailed
  <2>10. CASE ListWorkers
    <3>1. op.kind = "layoffList"
      BY <2>2, <2>10 DEF ListWorkers
    <3>2. op.n \in Int /\ ActiveIn(r) <= op.n
      BY <1>1, <2>3, <2>5, <3>1 DEF RegionOfOpZeroed, Ops
    <3>3. DOMAIN todo' = JobsIn(r, Active) /\ job' = job
      BY <1>1, <2>5, <2>10, <3>1, <3>2, OpListed, AllAreCandidates
    <3>4. \A q \in Regions : JobsIn(q, Active)' = JobsIn(q, Active)
      BY <3>3, SameJobs
    <3>5. CASE DOMAIN todo' = {}
      <4>1. op' = NoOp /\ JobsIn(r, Active)' = {}
        BY <1>1, <2>10, <3>1, <3>3, <3>4, <3>5, OpListed
      <4>2. RegionOfOpZeroed'
        BY <4>1, NoOpIsOp DEF RegionOfOpZeroed
      <4> QED BY <2>6, <2>7, <3>4, <4>1, <4>2
    <3>6. CASE DOMAIN todo' # {}
      <4>1. op'.kind = "layoff" /\ op'.r = r /\ op' # NoOp
        BY <1>1, <2>5, <2>10, <3>1, <3>6, OpListed
      <4>2. RegionOfOpZeroed'
        <5>1. JobsIn(r, Active)' \subseteq DOMAIN todo'
          BY <3>3, <3>4
        <5> QED BY <4>1, <5>1 DEF RegionOfOpZeroed
      <4> QED BY <2>6, <2>7, <3>4, <4>1, <4>2
    <3> QED BY <3>5, <3>6
  <2>11. ASSUME NEW i \in DOMAIN todo, CancelOne(i)
         PROVE  Zeroed'
    <3>1. op.kind = "layoff" /\ Served(i) /\ i \in DOMAIN job[r]
      BY <1>1, <2>5, <2>11 DEF CancelOne, TodoType
    <3>2. ChangesJob(r, i, "Ended") /\ "Ended" \in Statuses /\ "Ended" \notin Active
      BY <2>5, <2>11, <3>1, KnownStatuses DEF CancelOne, Cancelled, ChangesJob, Statuses
    <3>3. /\ \A q \in Regions \ {r} : JobsIn(q, Active)' = JobsIn(q, Active)
          /\ JobsIn(r, Active)' = JobsIn(r, Active) \ {i}
      BY <1>1, <3>2, ChangedCounts
    <3>4. JobsIn(r, Active)' \subseteq DOMAIN todo'
      BY <2>3, <2>5, <2>11, <3>1, <3>3, OpServed DEF RegionOfOpZeroed
    <3>5. CASE DOMAIN todo' = {}
      <4>1. op' = NoOp /\ JobsIn(r, Active)' = {}
        BY <2>11, <3>1, <3>4, <3>5, OpServed
      <4>2. RegionOfOpZeroed'
        BY <4>1, NoOpIsOp DEF RegionOfOpZeroed
      <4> QED BY <2>6, <2>7, <3>3, <4>1, <4>2
    <3>6. CASE DOMAIN todo' # {}
      <4>1. op' = op
        BY <2>11, <3>1, <3>6, OpServed
      <4>2. RegionOfOpZeroed'
        BY <2>5, <3>1, <3>4, <4>1 DEF RegionOfOpZeroed
      <4> QED BY <2>1, <2>5, <2>6, <2>7, <3>3, <4>1, <4>2
    <3> QED BY <3>5, <3>6
  <2>12. ASSUME NEW i \in DOMAIN todo, CancelFails(i)
         PROVE  Zeroed'
    BY <2>4, <2>12 DEF CancelFails
  <2> QED BY <1>2, <2>2, <2>8, <2>9, <2>10, <2>11, <2>12, LayoffSteps
<1> QED BY <1>4, <1>5

(* Every step keeps what a scale-to-zero promises.                          *)
LEMMA ZeroedKept ==
  ASSUME Structure, Sized, Zeroed, Next
  PROVE  Zeroed'
<1>1. CASE \E r \in Regions, n \in ScaleTargets, layoffs \in BOOLEAN : ScaleToCalled(r, n, layoffs)
  <2>1. mode' # "zero"
    BY <1>1 DEF ScaleToCalled
  <2> QED BY <2>1, ZeroedParts
<1> QED
  BY <1>1, ZeroedByQuietStep, ZeroedByAction, ZeroedByWorkforce, ZeroedByPlatform, StepsOfNext

------------------------------------------------------------------------------
(* Running workers are laid off in place of others.                         *)

LEMMA RunningIsLast ==
  /\ Rank("Running") = 6
  /\ \A s \in Pending : Rank(s) \in Nat /\ Rank(s) < 6
<1>1. Len(Priority) = 6 /\ Priority[1] = "Paused" /\ Priority[2] = "Queued"
      /\ Priority[3] = "Waiting" /\ Priority[4] = "Preparing" /\ Priority[5] = "Starting"
      /\ Priority[6] = "Running"
  BY DEF Priority
<1>2. \A s : (\E k \in 1..6 : Priority[k] = s) => Rank(s) \in 1..6 /\ Priority[Rank(s)] = s
  BY <1>1 DEF Rank
<1>3. Rank("Running") = 6
  <2>1. Rank("Running") \in 1..6 /\ Priority[Rank("Running")] = "Running"
    BY <1>1, <1>2
  <2> HIDE DEF Rank
  <2> QED BY <1>1, <2>1
<1>4. ASSUME NEW s \in Pending PROVE Rank(s) \in Nat /\ Rank(s) < 6
  <2>1. s \in {"Paused", "Queued", "Waiting", "Preparing", "Starting"}
    BY KnownStatuses
  <2>2. \E k \in 1..6 : Priority[k] = s
    BY <1>1, <2>1
  <2>3. Rank(s) \in 1..6 /\ Priority[Rank(s)] = s
    BY <1>2, <2>2
  <2> HIDE DEF Rank
  <2> QED BY <1>1, <2>1, <2>3
<1> QED BY <1>3, <1>4

(* A non-empty set of jobs has a youngest.                                  *)
LEMMA GreatestJob ==
  ASSUME JobsType, NEW r \in Regions, NEW C \in SUBSET DOMAIN job[r], C # {}
  PROVE  \E m \in C : \A k \in C : k <= m
<1>1. Len(job[r]) \in Nat /\ DOMAIN job[r] = 1..Len(job[r])
  BY DEF JobsType
<1> DEFINE T == {k \in Nat : Len(job[r]) - k \in C}
<1>2. T # {}
  <2>1. PICK i \in C : TRUE
    OBVIOUS
  <2>2. Len(job[r]) - i \in Nat /\ Len(job[r]) - (Len(job[r]) - i) = i
    BY <1>1
  <2> QED BY <2>2
<1>3. PICK k \in T : \A j \in T : k <= j
  BY <1>2, LeastNatural
<1>4. ASSUME NEW i \in C PROVE i <= Len(job[r]) - k
  <2>1. Len(job[r]) - i \in Nat /\ Len(job[r]) - (Len(job[r]) - i) = i /\ i \in Nat
    BY <1>1
  <2>2. Len(job[r]) - i \in T
    BY <2>1
  <2>3. k <= Len(job[r]) - i
    BY <1>3, <2>2
  <2> QED BY <1>1, <2>1, <2>3
<1> QED BY <1>3, <1>4

(* A lay-off of n workers takes no running one before all that are pending. *)
LEMMA RunningCandidates ==
  ASSUME JobsType, NEW r \in Regions, NEW n \in Int
  PROVE  Cardinality(DOMAIN LayoffCandidates(r, n) \cap JobsIn(r, {"Running"}))
           <= Positive(n - PendingIn(r))
<1> DEFINE C == DOMAIN LayoffCandidates(r, n) \cap JobsIn(r, {"Running"})
           before(i) == {j \in JobsIn(r, Active) : Precedes(r, j, i)}
<1>1. PendingIn(r) \in Nat /\ IsFiniteSet(JobsIn(r, {"Running"})) /\ IsFiniteSet(JobsIn(r, Active))
      /\ IsFiniteSet(JobsIn(r, Pending))
  BY JobsAreFinite DEF PendingIn
<1>2. C \in SUBSET JobsIn(r, {"Running"}) /\ C \in SUBSET DOMAIN job[r] /\ IsFiniteSet(C)
      /\ Cardinality(C) \in Nat
  <2>1. C \in SUBSET JobsIn(r, {"Running"}) /\ C \in SUBSET DOMAIN job[r]
    BY DEF JobsIn
  <2> QED BY <1>1, <2>1, FS_Subset, FS_CardinalityType
<1>3. \A i \in C : Cardinality(before(i)) < n
  BY DEF LayoffCandidates, FirstOf
<1>4. CASE C = {}
  <2>1. Cardinality(C) = 0
    BY <1>4, FS_EmptySet
  <2> QED BY <1>1, <2>1 DEF Positive
<1>5. CASE C # {}
  <2>1. PICK m \in C : \A k \in C : k <= m
    BY <1>2, <1>5, GreatestJob
  <2>2. \A i \in C : i \in Nat /\ i \in JobsIn(r, Active) /\ job[r][i] = "Running"
    BY <1>2, KnownStatuses DEF JobsIn, JobsType
  <2>3. (C \ {m}) \subseteq before(m)
    <3> SUFFICES ASSUME NEW j \in C, j # m PROVE j \in before(m)
      OBVIOUS
    <3>1. j < m /\ job[r][j] = job[r][m] /\ j \in JobsIn(r, Active)
      BY <2>1, <2>2
    <3> QED BY <3>1 DEF Precedes
  <2>4. JobsIn(r, Pending) \subseteq before(m)
    <3> SUFFICES ASSUME NEW j \in JobsIn(r, Pending) PROVE j \in before(m)
      OBVIOUS
    <3>1. j \in JobsIn(r, Active) /\ job[r][j] \in Pending /\ job[r][m] = "Running"
      BY <2>2, KnownStatuses DEF JobsIn
    <3>2. Rank(job[r][j]) < Rank(job[r][m])
      BY <3>1, RunningIsLast
    <3> QED BY <3>1, <3>2 DEF Precedes
  <2>5. JobsIn(r, Pending) \cap (C \ {m}) = {}
    BY <2>2, KnownStatuses DEF JobsIn
  <2>6. IsFiniteSet(C \ {m}) /\ Cardinality(C \ {m}) = Cardinality(C) - 1
    BY <1>2, FS_RemoveElement
  <2>7. Cardinality(JobsIn(r, Pending) \cup (C \ {m})) = PendingIn(r) + (Cardinality(C) - 1)
        /\ IsFiniteSet(JobsIn(r, Pending) \cup (C \ {m}))
    <3>1. Cardinality(JobsIn(r, Pending) \cup (C \ {m}))
            = Cardinality(JobsIn(r, Pending)) + Cardinality(C \ {m}) - Cardinality({})
          /\ IsFiniteSet(JobsIn(r, Pending) \cup (C \ {m}))
      BY <1>1, <2>5, <2>6, FS_Union
    <3>2. Cardinality({}) = 0
      BY FS_EmptySet
    <3> HIDE DEF C
    <3> QED BY <1>1, <1>2, <2>6, <3>1, <3>2 DEF PendingIn
  <2>8. before(m) \in SUBSET JobsIn(r, Active) /\ JobsIn(r, Pending) \cup (C \ {m}) \in SUBSET before(m)
    BY <2>3, <2>4
  <2>9. IsFiniteSet(before(m)) /\ Cardinality(before(m)) \in Nat
        /\ Cardinality(JobsIn(r, Pending) \cup (C \ {m})) <= Cardinality(before(m))
    <3>1. IsFiniteSet(before(m))
      BY <1>1, <2>8, FS_Subset
    <3> HIDE DEF before, C
    <3> QED BY <2>8, <3>1, FS_Subset, FS_CardinalityType
  <2>10. Cardinality(before(m)) < n
    BY <1>3
  <2> HIDE DEF before, C
  <2>11. PendingIn(r) + (Cardinality(C) - 1) < n
    BY <1>1, <1>2, <2>7, <2>9, <2>10
  <2> QED BY <1>1, <1>2, <2>11 DEF Positive, C
<1> QED BY <1>4, <1>5

(* The job the service changes was pending or not.                          *)
LEMMA PendingAtTheService ==
  ASSUME JobsType, NEW r \in Regions, PlatformActs(r)
  PROVE  /\ \A q \in Regions \ {r} : /\ PendingIn(q)' = PendingIn(q)
                                     /\ JobsIn(q, {"Running"})' = JobsIn(q, {"Running"})
         /\ PendingIn(r)' \in Nat
         /\ ~MovedOn(r) => /\ PendingIn(r)' >= PendingIn(r)
                           /\ JobsIn(r, {"Running"})' \subseteq JobsIn(r, {"Running"})
         /\ MovedOn(r) => /\ PendingIn(r)' >= PendingIn(r) - 1
                          /\ \E i : JobsIn(r, {"Running"})' \subseteq JobsIn(r, {"Running"}) \cup {i}
<1>1. PICK i \in DOMAIN job[r], status \in Statuses : Moves(r, i, status)
  BY PlatformMoves
<1>2. /\ \A q \in Regions \ {r} : JobsIn(q, Pending)' = JobsIn(q, Pending)
      /\ JobsIn(r, Pending)'
           = IF status \in Pending THEN JobsIn(r, Pending) \cup {i} ELSE JobsIn(r, Pending) \ {i}
  BY <1>1, ChangedCounts DEF Moves
<1>3. /\ \A q \in Regions \ {r} : JobsIn(q, {"Running"})' = JobsIn(q, {"Running"})
      /\ JobsIn(r, {"Running"})'
           = IF status \in {"Running"} THEN JobsIn(r, {"Running"}) \cup {i}
             ELSE JobsIn(r, {"Running"}) \ {i}
  <2>1. ASSUME NEW X
        PROVE  /\ \A q \in Regions \ {r} : JobsIn(q, X)' = JobsIn(q, X)
               /\ JobsIn(r, X)' = IF status \in X THEN JobsIn(r, X) \cup {i}
                                  ELSE JobsIn(r, X) \ {i}
    BY <1>1, ChangedCounts DEF Moves
  <2> QED BY <2>1, Zenon
<1>4. IsFiniteSet(JobsIn(r, Pending)) /\ PendingIn(r) \in Nat
  BY JobsAreFinite DEF PendingIn
<1> DEFINE P == JobsIn(r, Pending)
           Q == JobsIn(r, Pending)'
<1>5. IsFiniteSet(Q) /\ Cardinality(Q) \in Nat
  <2>1. IsFiniteSet(P \cup {i}) /\ IsFiniteSet(P \ {i})
    BY <1>4, FS_AddElement, FS_RemoveElement
  <2> QED BY <1>2, <2>1, FS_CardinalityType
<1>6. CASE MovedOn(r)
  <2>1. P \ {i} \in SUBSET Q
    BY <1>2
  <2>2. Cardinality(P \ {i}) <= Cardinality(Q)
    <3> HIDE DEF P, Q
    <3> QED BY <1>5, <2>1, FS_Subset
  <2>3. Cardinality(P \ {i}) >= Cardinality(P) - 1 /\ Cardinality(P \ {i}) \in Nat
    <3>1. Cardinality(P \ {i}) = IF i \in P THEN Cardinality(P) - 1 ELSE Cardinality(P)
      BY <1>4, FS_RemoveElement
    <3>2. IsFiniteSet(P \ {i}) /\ Cardinality(P) \in Nat
      BY <1>4, FS_RemoveElement, FS_CardinalityType
    <3>3. Cardinality(P \ {i}) \in Nat
      BY <3>2, FS_CardinalityType
    <3> HIDE DEF P
    <3> QED BY <3>1, <3>2, <3>3
  <2>4. Cardinality(Q) >= Cardinality(P) - 1
    <3>1. Cardinality(P) \in Nat
      BY <1>4, FS_CardinalityType
    <3> HIDE DEF P, Q
    <3> QED BY <1>5, <2>2, <2>3, <3>1
  <2>5. JobsIn(r, {"Running"})' \subseteq JobsIn(r, {"Running"}) \cup {i}
    BY <1>3
  <2> QED BY <1>2, <1>3, <1>5, <1>6, <2>4, <2>5 DEF PendingIn
<1>7. CASE ~MovedOn(r)
  <2>1. job[r][i] \notin Pending \/ job'[r][i] \in Pending
    BY <1>1, <1>7 DEF MovedOn
  <2>2. job'[r][i] = status
    BY <1>1, JobChanges DEF Moves
  <2>3. \/ job[r][i] = "Running" /\ status \in {"Paused", "Ended"}
        \/ job[r][i] \in Pending /\ status \in Pending
    BY <1>1, <2>1, <2>2, KnownStatuses DEF Moves
  <2>4. P \in SUBSET Q /\ JobsIn(r, {"Running"})' \subseteq JobsIn(r, {"Running"})
    BY <1>2, <1>3, <2>3, KnownStatuses DEF JobsIn
  <2>5. Cardinality(P) <= Cardinality(Q)
    <3> HIDE DEF P, Q
    <3> QED BY <1>5, <2>4, FS_Subset
  <2> QED BY <1>2, <1>3, <1>4, <1>5, <1>7, <2>4, <2>5 DEF PendingIn
<1> QED BY <1>6, <1>7

(* The slack of the regions still to be laid off in, and of the region of   *)
(* the operation under way.                                                 *)
SlackRead == \A r \in Regions \ unread : states[r].pending <= PendingIn(r) + history.slack[r]
SlackToCome == \A r \in unread : states[r].pending <= PendingIn(r) + history.slack[r]
SlackOfOp ==
  /\ op.kind = "layoffList" =>
       op.n <= PendingIn(op.r) + history.slack[op.r] /\ op.n <= MaxJobs[op.r]
  /\ op.kind = "layoff" => Cardinality(RunningToLayOff) <= history.slack[op.r]
NoDebt == \A r \in Regions : history.slack[r] >= 0

ReadingForLayoff == Reading \ {"zero", "capacity"}

(* The slack, in its parts.                                                 *)
LEMMA SlackParts ==
  /\ Slackened <=>
       (history.trusted =>
          /\ NoDebt
          /\ mode = "auto" => /\ pc \in ReadingForLayoff => SlackRead
                              /\ pc = "layoff" => SlackToCome /\ SlackOfOp)
  /\ Slackened' <=>
       (history'.trusted =>
          /\ NoDebt'
          /\ mode' = "auto" => /\ pc' \in ReadingForLayoff => SlackRead'
                               /\ pc' = "layoff" => SlackToCome' /\ SlackOfOp')
BY DEF Slackened, SlackRead, SlackToCome, SlackOfOp, NoDebt, ReadingForLayoff

(* Quiet steps keep the slack: a state just read needs none.                *)
LEMMA SlackOfQuietStep ==
  ASSUME Structure, Slackened, QuietStep
  PROVE  Slackened'
<1>1. JobsType /\ TickTypeOK /\ Progress
  BY Types, WorkforceTypes DEF Structure
<1>2. op = NoOp /\ op' = NoOp /\ job' = job
  BY QuietStepsAreQuiet
<1>3. SlackOfOp'
  BY <1>2, NoOpIsOp DEF SlackOfOp
<1>4. \A q : PendingIn(q)' = PendingIn(q)
  BY <1>2, SameJobs
<1>5. ASSUME history'.slack = history.slack, history'.trusted => history.trusted,
             mode' # "auto" \/ pc' \notin ReadingForLayoff \cup {"layoff"}
      PROVE  Slackened'
  BY <1>5, SlackParts DEF NoDebt
<1>6. ASSUME UNCHANGED <<history, states, mode>>, NEW phase \in ReadingForLayoff, Fetch(phase),
             pc \in ReadingForLayoff, unread = {} \/ (lazy => unread = {})
      PROVE  Slackened'
  <2>1. pc' = phase /\ (unread' = Regions \/ (unread' = {} /\ unread = {}))
    BY <1>6 DEF Fetch
  <2>2. SlackRead => SlackRead'
    BY <1>4, <1>6, <2>1 DEF SlackRead
  <2>3. NoDebt => NoDebt'
    BY <1>6 DEF NoDebt
  <2>4. pc' # "layoff"
    BY <1>6, <2>1 DEF ReadingForLayoff, Reading
  <2> QED BY <1>6, <2>2, <2>3, <2>4, SlackParts
<1>7. ASSUME NEW r \in Regions, StateRead(r)
      PROVE  Slackened'
  <2>1. /\ states' = [states EXCEPT ![r] = CurrentState(r)]
        /\ history' = [history EXCEPT !.slack[r] = 0]
        /\ unread' = unread \ {r} /\ UNCHANGED <<pc, mode>> /\ pc # "layoff"
    BY <1>7 DEF StateRead, Fetching
  <2>2. CurrentState(r).pending = PendingIn(r) /\ PendingIn(r) \in Nat
    BY <1>1, CurrentStateType
  <2>3. /\ history'.trusted = history.trusted /\ history'.slack[r] = 0
        /\ \A q \in Regions \ {r} : history'.slack[q] = history.slack[q]
    BY <1>1, <2>1 DEF TickTypeOK
  <2>4. SlackRead => SlackRead'
    <3> SUFFICES ASSUME SlackRead, NEW q \in Regions \ unread'
                 PROVE  states'[q].pending <= PendingIn(q) + history'.slack[q]
      BY <1>4, <2>1 DEF SlackRead
    <3>1. CASE q = r
      <4>1. states'[q].pending = PendingIn(q)
        BY <1>1, <2>1, <2>2, <3>1 DEF TickTypeOK
      <4> QED BY <2>2, <2>3, <3>1, <4>1
    <3>2. CASE q # r
      <4>1. states'[q] = states[q] /\ q \in Regions \ unread
        BY <1>1, <2>1, <3>2 DEF TickTypeOK
      <4> QED BY <2>3, <3>2, <4>1 DEF SlackRead
    <3> QED BY <3>1, <3>2
  <2>5. NoDebt => NoDebt'
    BY <2>3 DEF NoDebt
  <2> QED BY <2>1, <2>3, <2>4, <2>5, SlackParts
<1>8. ASSUME NEW r \in Regions, StateReadFails(r)
      PROVE  Slackened'
  <2>1. history' = [history EXCEPT !.trusted = FALSE, !.faulty = TRUE]
    BY <1>8 DEF StateReadFails
  <2>2. history'.trusted = FALSE
    BY <1>1, <2>1 DEF TickTypeOK
  <2> QED BY <2>2, SlackParts
<1>9. CASE CountRunning
  BY <1>6, <1>9 DEF CountRunning, ReadingForLayoff, Reading
<1>10. CASE CountPending
  <2>1. UNCHANGED <<states, history, mode, unread>> /\ pc = "pending" /\ pc' = "queue"
    BY <1>10 DEF CountPending
  <2>2. SlackRead => SlackRead'
    BY <1>4, <2>1 DEF SlackRead
  <2>3. NoDebt => NoDebt'
    BY <2>1 DEF NoDebt
  <2> QED BY <2>1, <2>2, <2>3, SlackParts DEF ReadingForLayoff, Reading
<1>11. ASSUME NEW toHire, Decide(toHire), UNCHANGED <<history, mode>>, pc \in {"queue", "determine"},
              unread = {} \/ (lazy => unread = {})
       PROVE  Slackened'
  <2>1. CASE mode = "auto" /\ pc' = "planLayoff"
    <3>1. Fetch("planLayoff") /\ states' = states
      BY <1>11, <2>1 DEF Decide, TickReturns, Fetch
    <3> QED BY <1>6, <1>11, <3>1 DEF ReadingForLayoff, Reading
  <2>2. CASE ~(mode = "auto" /\ pc' = "planLayoff")
    <3>1. mode' # "auto" \/ pc' \notin ReadingForLayoff \cup {"layoff"}
      BY <1>11, <2>2 DEF Decide, TickReturns, Fetch, ReadingForLayoff, Reading
    <3> QED BY <1>5, <1>11, <3>1
  <2> QED BY <2>1, <2>2
<1>12. ASSUME NEW n \in QueueSizes, ReadQueueSize(n)
       PROVE  Slackened'
  <2>1. pc = "queue" /\ (lazy => unread = {}) /\ UNCHANGED <<mode, history>>
    BY <1>1, <1>12 DEF ReadQueueSize, Progress, Reading
  <2>2. CASE n = 0
    BY <1>11, <1>12, <2>1, <2>2 DEF ReadQueueSize
  <2>3. CASE n # 0
    BY <1>6, <1>12, <2>1, <2>3 DEF ReadQueueSize, ReadingForLayoff, Reading
  <2> QED BY <2>2, <2>3
<1>13. CASE DetermineNumberOfWorkers
  BY <1>11, <1>13 DEF DetermineNumberOfWorkers
<1>14. CASE PlanLayoff
  <2>1. /\ UNCHANGED <<states, history, mode>> /\ pc = "planLayoff" /\ unread = {}
        /\ pc' = "layoff" /\ unread' \subseteq Regions
    BY <1>14 DEF PlanLayoff, Act
  <2>2. SlackRead => SlackToCome'
    BY <1>4, <2>1 DEF SlackRead, SlackToCome
  <2>3. NoDebt => NoDebt'
    BY <2>1 DEF NoDebt
  <2> QED BY <1>3, <2>1, <2>2, <2>3, SlackParts DEF ReadingForLayoff, Reading
<1>15. CASE ScaleToZero
  <2>1. mode' # "auto" /\ history' = history
    BY <1>1, <1>15 DEF ScaleToZero, Progress
  <2> QED BY <1>5, <2>1
<1>16. CASE QueueSizeFails
  <2>1. history' = [history EXCEPT !.faulty = TRUE] /\ pc' = "down"
    BY <1>16 DEF QueueSizeFails
  <2>2. history'.slack = history.slack /\ history'.trusted = history.trusted
    BY <1>1, <2>1 DEF TickTypeOK
  <2> QED BY <1>5, <2>1, <2>2 DEF ReadingForLayoff, Reading
<1>17. CASE \/ \E r \in Regions : QueryCapacity(r) \/ DiscoverPaused(r)
            \/ SnapshotStates \/ PlanHire \/ ResumeAllRegions \/ Acted \/ Restarts
  <2>1. history' = history /\ pc' \notin ReadingForLayoff \cup {"layoff"}
    BY <1>17 DEF QueryCapacity, DiscoverPaused, SnapshotStates, PlanHire, ResumeAllRegions, Act,
                 Acted, Restarts, TickReturns, ReadingForLayoff, Reading
  <2> QED BY <1>5, <2>1
<1>18. ASSUME NEW m, NEW n, TickBegins(m, n)
       PROVE  Slackened'
  <2>1. PICK c : history' = [history EXCEPT !.ceiling = c, !.trusted = TRUE, !.faulty = FALSE,
                                            !.slack = Zeros]
    BY <1>18 DEF TickBegins
  <2>2. history'.slack = Zeros
    BY <1>1, <2>1 DEF TickTypeOK
  <2>3. NoDebt'
    BY <2>2 DEF NoDebt, Zeros
  <2>4. pc' = "running" /\ unread' = Regions
    BY <1>18 DEF TickBegins
  <2>5. SlackRead'
    BY <2>4 DEF SlackRead
  <2> QED BY <2>3, <2>4, <2>5, SlackParts
<1> QED
  BY <1>7, <1>8, <1>9, <1>10, <1>12, <1>13, <1>14, <1>15, <1>16, <1>17, <1>18 DEF QuietStep

(* So does the start of a lay-off, of no more than were pending.            *)
LEMMA SlackOfAction ==
  ASSUME Structure, Bounded, Slackened, PlansAddUp, ActInRegion
  PROVE  Slackened'
<1>1. JobsType /\ TickTypeOK /\ Progress
  BY Types, WorkforceTypes DEF Structure
<1>2. /\ op = NoOp /\ job' = job /\ UNCHANGED <<pc, mode, plan, history, states>>
      /\ pc \in {"layoff", "hire", "resume"}
  BY DEF ActInRegion
<1>3. NoDebt => NoDebt'
  BY <1>2 DEF NoDebt
<1>4. CASE ~(pc = "layoff" /\ mode = "auto" /\ history.trusted)
  BY <1>2, <1>3, <1>4, SlackParts DEF ReadingForLayoff, Reading
<1>5. CASE pc = "layoff" /\ mode = "auto" /\ history.trusted
  <2>1. NoDebt /\ SlackToCome
    BY <1>5, SlackParts
  <2>2. PICK r \in unread : unread' = unread \ {r} /\ op' = LayoffOp(r, plan[r], FALSE)
    BY <1>5 DEF ActInRegion
  <2>3. SlackToCome'
    BY <1>2, <2>1, <2>2, SameJobs DEF SlackToCome
  <2>4. r \in Regions /\ plan[r] \in Nat /\ Started(op', "layoffList", r, plan[r])
    <3>1. r \in Regions /\ plan[r] \in Nat /\ plan[r] \in Int
      BY <1>1 DEF TickTypeOK
    <3> QED BY <2>2, <3>1, OpsStart
  <2>5. plan[r] <= PendingIn(r) + history.slack[r] /\ plan[r] <= MaxJobs[r]
    <3>1. plan[r] <= states[r].pending
      BY <1>5, <2>4 DEF PlansAddUp
    <3>2. states[r].pending <= PendingIn(r) + history.slack[r] /\ states[r].pending <= MaxJobs[r]
      BY <2>1, <2>4 DEF SlackToCome, Bounded
    <3>3. /\ states[r].pending \in Nat /\ history.slack[r] \in Int /\ PendingIn(r) \in Nat
          /\ MaxJobs[r] \in Nat
      BY <1>1, <2>4, CurrentStateType, NumbersOfScheduler DEF TickTypeOK, Sizes
    <3> QED BY <2>4, <3>1, <3>2, <3>3
  <2>6. SlackOfOp'
    <3>1. CASE plan[r] > 0
      <4>1. op'.kind = "layoffList" /\ op'.r = r /\ op'.n = plan[r]
        BY <2>4, <3>1 DEF Started
      <4>2. PendingIn(r)' = PendingIn(r)
        BY <1>2, SameJobs
      <4> QED BY <1>2, <2>5, <4>1, <4>2 DEF SlackOfOp
    <3>2. CASE plan[r] = 0
      BY <2>4, <3>2, NoOpIsOp DEF SlackOfOp, Started
    <3> QED BY <2>4, <3>1, <3>2
  <2> QED BY <1>2, <1>3, <1>5, <2>1, <2>3, <2>6, SlackParts DEF ReadingForLayoff, Reading
<1> QED BY <1>4, <1>5

(* What a lay-off knows once its workers are listed, and what it takes.     *)
LEMMA NoneTaken ==
  ASSUME job' = job
  PROVE  \A r \in Regions : LaidOffRunning(r) = 0
<1>1. ASSUME NEW r \in Regions PROVE LaidOffRunning(r) = 0
  <2>1. {i \in DOMAIN job[r] : job[r][i] = "Running" /\ job'[r][i] = "Ended"} = {}
    OBVIOUS
  <2> QED BY <2>1, FS_EmptySet DEF LaidOffRunning
<1> QED BY <1>1

(* A worker that is cancelled was running or not.                           *)
LEMMA OneTaken ==
  ASSUME JobsType, NEW r \in Regions, NEW i \in DOMAIN job[r], job' = Cancelled(r, i)
  PROVE  /\ \A q \in Regions \ {r} : LaidOffRunning(q) = 0
         /\ LaidOffRunning(r) = IF i \in JobsIn(r, {"Running"}) THEN 1 ELSE 0
<1>1. /\ ChangesJob(r, i, "Ended") /\ "Ended" \in Statuses
  BY KnownStatuses DEF Cancelled, ChangesJob, Statuses
<1>2. \A q \in Regions : \A j \in DOMAIN job[q] :
        job'[q][j] = IF q = r /\ j = i THEN "Ended" ELSE job[q][j]
  BY <1>1, JobChanges
<1>3. ASSUME NEW q \in Regions \ {r} PROVE LaidOffRunning(q) = 0
  <2>1. {j \in DOMAIN job[q] : job[q][j] = "Running" /\ job'[q][j] = "Ended"} = {}
    BY <1>2
  <2> QED BY <2>1, FS_EmptySet DEF LaidOffRunning
<1>4. {j \in DOMAIN job[r] : job[r][j] = "Running" /\ job'[r][j] = "Ended"}
        = IF i \in JobsIn(r, {"Running"}) THEN {i} ELSE {}
  BY <1>2 DEF JobsIn
<1> QED BY <1>3, <1>4, FS_EmptySet, FS_Singleton DEF LaidOffRunning

(* The steps of a lay-off keep the slack: a running worker is cancelled     *)
(* only if there was slack for it.                                          *)
LEMMA SlackOfWorkforce ==
  ASSUME Structure, Slackened, WorkforceActs
  PROVE  Slackened'
<1>1. JobsType /\ TickTypeOK /\ Control /\ WorkforceOK /\ op \in Ops /\ TodoType
  BY Types, WorkforceTypes DEF Structure, Control, WorkforceOK
<1>2. UNCHANGED <<pc, mode, unread, plan, states>> /\ WorkforceStep
  BY DEF WorkforceActs, tickVars
<1>3. op # NoOp /\ op.kind # "none"
  BY <1>1, <1>2, WorkforceStepKeepsTypes, NoOpIsOp DEF OpGoesOn
<1>4. pc \notin ReadingForLayoff
  BY <1>1, <1>3 DEF Control, Acting, ReadingForLayoff, Reading
<1>5. CASE ~(pc = "layoff" /\ mode = "auto" /\ history.trusted)
  <2>1. CASE ~history.trusted
    BY <1>1, <2>1, HistoryOfWorkforce, SlackParts
  <2>2. CASE ~(pc = "layoff" /\ mode = "auto")
    <3>1. history'.trusted = history.trusted /\ history'.slack = history.slack
      BY <1>1, <2>2, HistoryOfWorkforce
    <3>2. NoDebt => NoDebt'
      BY <3>1 DEF NoDebt
    <3> QED BY <1>2, <1>4, <2>2, <3>1, <3>2, SlackParts
  <2> QED BY <1>5, <2>1, <2>2
<1>6. CASE pc = "layoff" /\ mode = "auto" /\ history.trusted
  <2>1. op.kind \in {"layoffList", "layoff"}
    BY <1>1, <1>3, <1>6 DEF Control
  <2>2. NoDebt /\ SlackToCome /\ SlackOfOp
    BY <1>6, SlackParts
  <2>3. PICK r \in Regions : r = op.r
    BY <1>1 DEF Ops
  <2>4. r \notin unread
    BY <1>1, <1>3, <1>6, <2>3 DEF Control
  <2>5. \A q \in Regions : /\ history'.slack[q] = history.slack[q] - LaidOffRunning(q)
                           /\ history.slack[q] \in Int
    <3>1. history'.slack = [q \in Regions |-> history.slack[q] - LaidOffRunning(q)]
      BY <1>1, <1>6, HistoryOfWorkforce
    <3> HIDE DEF LaidOffRunning
    <3> QED BY <1>1, <3>1 DEF TickTypeOK
  <2>6. ASSUME SlackOfOp', history'.slack[r] >= 0,
               \A q \in Regions \ {r} : LaidOffRunning(q) = 0 /\ PendingIn(q)' = PendingIn(q)
        PROVE  Slackened'
    <3>1. \A q \in Regions \ {r} : history'.slack[q] = history.slack[q]
      BY <2>5, <2>6
    <3>2. NoDebt'
      BY <2>2, <2>6, <3>1 DEF NoDebt
    <3>3. SlackToCome'
      <4> SUFFICES ASSUME NEW q \in unread
                   PROVE  states[q].pending <= PendingIn(q)' + history'.slack[q]
        BY <1>2 DEF SlackToCome
      <4>1. q \in Regions \ {r}
        BY <1>1, <2>4 DEF TickTypeOK
      <4> QED BY <2>2, <2>6, <3>1, <4>1 DEF SlackToCome
    <3> QED BY <1>2, <1>4, <2>6, <3>2, <3>3, SlackParts
  <2>7. ASSUME job' = job
        PROVE  /\ history'.slack[r] = history.slack[r] /\ history'.slack[r] >= 0
               /\ \A q \in Regions \ {r} : LaidOffRunning(q) = 0 /\ PendingIn(q)' = PendingIn(q)
    <3>1. \A q \in Regions : LaidOffRunning(q) = 0 /\ PendingIn(q)' = PendingIn(q)
      BY <2>7, NoneTaken, SameJobs
    <3>2. history'.slack[r] = history.slack[r]
      BY <2>5, <3>1
    <3> QED BY <2>2, <2>5, <3>1, <3>2 DEF NoDebt
  <2>8. op' = NoOp => SlackOfOp'
    BY NoOpIsOp DEF SlackOfOp
  <2>9. CASE RequestFailed
    BY <2>6, <2>7, <2>8, <2>9 DEF RequestFailed
  <2>10. CASE RequestRetried
    <3>1. op'.kind = op.kind /\ op'.r = op.r /\ op'.n = op.n /\ job' = job /\ todo' = todo
          /\ op.kind = "layoffList"
      BY <1>1, <2>1, <2>10, OpRetried DEF RequestRetried
    <3>2. PendingIn(r)' = PendingIn(r) /\ history'.slack[r] = history.slack[r]
      BY <2>7, <3>1, SameJobs
    <3>3. SlackOfOp'
      BY <2>2, <2>3, <3>1, <3>2 DEF SlackOfOp
    <3> QED BY <2>6, <2>7, <3>1, <3>3
  <2>11. CASE ListWorkers
    <3>1. op.kind = "layoffList" /\ op.n \in Int
      BY <1>1, <2>1, <2>11 DEF ListWorkers, Ops
    <3>2. todo' = LayoffCandidates(r, op.n) /\ job' = job
      BY <1>1, <2>3, <2>11, <3>1, OpListed
    <3>3. CASE DOMAIN todo' = {}
      BY <1>1, <2>6, <2>7, <2>8, <2>11, <3>1, <3>2, <3>3, OpListed
    <3>4. CASE DOMAIN todo' # {}
      <4>1. op'.kind = "layoff" /\ op'.r = r
        BY <1>1, <2>3, <2>11, <3>1, <3>4, OpListed
      <4>2. JobsIn(r, {"Running"})' = JobsIn(r, {"Running"})
        BY <3>2, SameJobs
      <4>3. Cardinality(DOMAIN todo' \cap JobsIn(r, {"Running"})') <= Positive(op.n - PendingIn(r))
        BY <1>1, <3>1, <3>2, <4>2, RunningCandidates
      <4>4. RunningToLayOff' = DOMAIN todo' \cap JobsIn(r, {"Running"})'
        BY <4>1 DEF RunningToLayOff
      <4>5. PICK c : c = Cardinality(RunningToLayOff')
        OBVIOUS
      <4>6. c \in Nat
        <5>1. IsFiniteSet(JobsIn(r, {"Running"}))
          BY <1>1, JobsAreFinite
        <5>2. RunningToLayOff' \in SUBSET JobsIn(r, {"Running"})
          BY <4>2, <4>4
        <5> QED BY <4>5, <5>1, <5>2, FS_Subset, FS_CardinalityType
      <4>7. Positive(op.n - PendingIn(r)) <= history.slack[r]
        <5>1. op.n <= PendingIn(r) + history.slack[r] /\ history.slack[r] >= 0
          BY <2>2, <2>3, <3>1 DEF SlackOfOp, NoDebt
        <5>2. PendingIn(r) \in Nat /\ history.slack[r] \in Int
          BY <1>1, <2>5, CurrentStateType
        <5> QED BY <3>1, <5>1, <5>2 DEF Positive
      <4>8. Positive(op.n - PendingIn(r)) \in Int
        BY <1>1, <3>1, CurrentStateType DEF Positive
      <4>9. c <= history.slack[r]
        BY <2>5, <4>3, <4>4, <4>5, <4>6, <4>7, <4>8
      <4>10. SlackOfOp'
        BY <2>7, <3>2, <4>1, <4>5, <4>9 DEF SlackOfOp
      <4> QED BY <2>6, <2>7, <3>2, <4>10
    <3> QED BY <3>3, <3>4
  <2>12. RunningToLayOff = DOMAIN todo \cap JobsIn(r, {"Running"})
         /\ IsFiniteSet(RunningToLayOff) /\ Cardinality(RunningToLayOff) \in Nat
    <3>1. IsFiniteSet(JobsIn(r, {"Running"}))
      BY <1>1, JobsAreFinite
    <3>2. RunningToLayOff = DOMAIN todo \cap JobsIn(r, {"Running"})
      BY <2>3 DEF RunningToLayOff
    <3>3. RunningToLayOff \in SUBSET JobsIn(r, {"Running"})
      BY <3>2
    <3> QED BY <3>1, <3>2, <3>3, FS_Subset, FS_CardinalityType
  <2>13. ASSUME NEW i \in DOMAIN todo, CancelFails(i)
         PROVE  Slackened'
    <3>1. op.kind = "layoff" /\ job' = job /\ (Served(i) \/ op' = NoOp)
      BY <2>13 DEF CancelFails, Raised
    <3>2. CASE op' = NoOp
      BY <2>6, <2>7, <2>8, <3>1, <3>2
    <3>3. CASE op' # NoOp
      <4>1. op' = op /\ DOMAIN todo' = DOMAIN todo \ {i}
        BY <3>1, <3>3, OpServed
      <4>2. RunningToLayOff' \in SUBSET RunningToLayOff
        BY <2>3, <2>12, <3>1, <4>1, SameJobs DEF RunningToLayOff
      <4>3. PICK c : c = Cardinality(RunningToLayOff')
        OBVIOUS
      <4>4. c \in Nat /\ c <= Cardinality(RunningToLayOff)
        BY <2>12, <4>2, <4>3, FS_Subset, FS_CardinalityType
      <4>5. c <= history.slack[r]
        BY <2>2, <2>3, <2>5, <2>12, <3>1, <4>4 DEF SlackOfOp
      <4>6. SlackOfOp'
        BY <2>3, <2>7, <3>1, <4>1, <4>3, <4>5 DEF SlackOfOp
      <4> QED BY <2>6, <2>7, <3>1, <4>6
    <3> QED BY <3>2, <3>3
  <2>14. ASSUME NEW i \in DOMAIN todo, CancelOne(i)
         PROVE  Slackened'
    <3>1. op.kind = "layoff" /\ Served(i) /\ job' = Cancelled(r, i) /\ i \in DOMAIN job[r]
      BY <1>1, <2>3, <2>14 DEF CancelOne, TodoType
    <3>2. /\ \A q \in Regions \ {r} : LaidOffRunning(q) = 0
          /\ LaidOffRunning(r) = IF i \in RunningToLayOff THEN 1 ELSE 0
      BY <1>1, <2>12, <3>1, OneTaken
    <3>3. ChangesJob(r, i, "Ended") /\ "Ended" \in Statuses
      BY <3>1, KnownStatuses DEF Cancelled, ChangesJob, Statuses
    <3>4. \A q \in Regions \ {r} : PendingIn(q)' = PendingIn(q)
      BY <1>1, <3>3, ChangedCounts DEF PendingIn
    <3>5. JobsIn(r, {"Running"})' = JobsIn(r, {"Running"}) \ {i}
      <4>1. ASSUME NEW X
            PROVE  JobsIn(r, X)' = IF "Ended" \in X THEN JobsIn(r, X) \cup {i} ELSE JobsIn(r, X) \ {i}
        BY <1>1, <3>3, ChangedCounts
      <4>2. "Ended" \notin {"Running"}
        OBVIOUS
      <4> QED BY <4>1, <4>2, Zenon
    <3>6. Cardinality(RunningToLayOff) <= history.slack[r]
      BY <2>2, <2>3, <3>1 DEF SlackOfOp
    <3>7. Cardinality(RunningToLayOff \ {i})
            = IF i \in RunningToLayOff THEN Cardinality(RunningToLayOff) - 1
              ELSE Cardinality(RunningToLayOff)
      BY <2>12, FS_RemoveElement
    <3>8. Cardinality(RunningToLayOff \ {i}) \in Nat
      <4>1. IsFiniteSet(RunningToLayOff \ {i})
        BY <2>12, FS_RemoveElement
      <4> QED BY <4>1, FS_CardinalityType
    <3>9. PICK c : c = Cardinality(RunningToLayOff \ {i})
      OBVIOUS
    <3>10. PICK l : l = LaidOffRunning(r)
      OBVIOUS
    <3>11. c <= history.slack[r] - l /\ history.slack[r] - l >= 0
      BY <2>5, <2>12, <3>2, <3>6, <3>7, <3>8, <3>9, <3>10
    <3>12. history'.slack[r] = history.slack[r] - l
      BY <2>5, <3>10
    <3>13. CASE op' = NoOp
      BY <2>6, <2>8, <3>2, <3>4, <3>11, <3>12, <3>13
    <3>14. CASE op' # NoOp
      <4>1. op' = op /\ DOMAIN todo' = DOMAIN todo \ {i}
        BY <3>1, <3>14, OpServed
      <4>2. RunningToLayOff' = RunningToLayOff \ {i}
        BY <2>3, <2>12, <3>5, <4>1 DEF RunningToLayOff
      <4>3. SlackOfOp'
        BY <2>3, <3>1, <3>9, <3>11, <3>12, <4>1, <4>2 DEF SlackOfOp
      <4> QED BY <2>6, <3>2, <3>4, <3>11, <3>12, <4>3
    <3> QED BY <3>13, <3>14
  <2> QED BY <1>2, <2>1, <2>9, <2>10, <2>11, <2>13, <2>14, LayoffSteps
<1> QED BY <1>5, <1>6

(* The service keeps the slack: a pending worker that moves on adds to it.  *)
LEMMA SlackOfPlatform ==
  ASSUME Structure, Bounded, Slackened, NEW r \in Regions, PlatformActs(r)
  PROVE  Slackened'
<1>1. JobsType /\ TickTypeOK /\ op \in Ops
  BY Types, WorkforceTypes DEF Structure
<1>2. UNCHANGED <<op, todo, pc, mode, unread, states>>
  <2>1. UNCHANGED <<op, todo, faults, tickVars>>
    BY <1>1, FewerAtTheService
  <2> QED BY <2>1 DEF tickVars
<1> DEFINE Counts == mode = "auto" /\ MovedOn(r) /\ pc \in ReadingForLayoff \cup {"layoff"}
           more == Least(history.slack[r] + 1, MaxJobs[r])
<1>3. history' = IF Counts THEN [history EXCEPT !.slack[r] = more] ELSE history
  BY DEF PlatformActs, ReadingForLayoff, Reading
<1>4. /\ \A q \in Regions : /\ history.slack[q] \in Int /\ states[q].pending \in Nat
                            /\ PendingIn(q) \in Nat /\ MaxJobs[q] \in Nat
      /\ PendingIn(r)' \in Nat /\ more \in Int
  <2>1. \A q \in Regions : history.slack[q] \in Int /\ states[q].pending \in Nat
    BY <1>1 DEF TickTypeOK, Sizes
  <2>2. \A q \in Regions : PendingIn(q) \in Nat /\ MaxJobs[q] \in Nat
    BY <1>1, CurrentStateType, NumbersOfScheduler
  <2>3. PendingIn(r)' \in Nat
    BY <1>1, PendingAtTheService
  <2> QED BY <2>1, <2>2, <2>3 DEF Least
<1> HIDE DEF more
<1>5. /\ history'.trusted = history.trusted
      /\ \A q \in Regions : history'.slack[q] = IF q = r /\ Counts THEN more ELSE history.slack[q]
  <2>1. CASE Counts
    <3>1. history' = [history EXCEPT !.slack[r] = more]
      BY <1>3, <2>1
    <3> HIDE DEF Counts
    <3> QED BY <1>1, <2>1, <3>1 DEF TickTypeOK
  <2>2. CASE ~Counts
    BY <1>3, <2>2
  <2> QED BY <2>1, <2>2
<1>6. more = history.slack[r] + 1 \/ more = MaxJobs[r]
  BY DEF more, Least
<1>7. NoDebt => NoDebt'
  <2> SUFFICES ASSUME NoDebt, NEW q \in Regions PROVE history'.slack[q] >= 0
    BY DEF NoDebt
  <2>1. history.slack[q] >= 0
    BY DEF NoDebt
  <2>2. q = r => more >= 0
    BY <1>4, <1>6, <2>1
  <2> QED BY <1>5, <2>1, <2>2
<1>8. CASE ~(history.trusted /\ mode = "auto" /\ pc \in ReadingForLayoff \cup {"layoff"})
  BY <1>2, <1>5, <1>7, <1>8, SlackParts
<1>9. CASE history.trusted /\ mode = "auto" /\ pc \in ReadingForLayoff \cup {"layoff"}
  <2>1. Counts <=> MovedOn(r)
    BY <1>9
  <2> HIDE DEF Counts
  <2>2. ASSUME NEW q \in Regions, NEW n \in Int, n <= MaxJobs[q],
               n <= PendingIn(q) + history.slack[q]
        PROVE  n <= PendingIn(q)' + history'.slack[q]
    <3>1. CASE q # r
      <4>1. PendingIn(q)' = PendingIn(q) /\ history'.slack[q] = history.slack[q]
        BY <1>1, <1>5, <3>1, PendingAtTheService
      <4> QED BY <2>2, <4>1
    <3>2. CASE q = r /\ ~MovedOn(r)
      <4>1. PendingIn(q)' >= PendingIn(q) /\ history'.slack[q] = history.slack[q]
        BY <1>1, <1>5, <2>1, <3>2, PendingAtTheService
      <4>2. PendingIn(q)' \in Nat
        BY <1>4, <3>2
      <4> QED BY <1>4, <2>2, <4>1, <4>2
    <3>3. CASE q = r /\ MovedOn(r)
      <4>1. PendingIn(q)' >= PendingIn(q) - 1 /\ history'.slack[q] = more
        BY <1>1, <1>5, <2>1, <3>3, PendingAtTheService
      <4>2. PICK p : p = PendingIn(q)'
        OBVIOUS
      <4>3. p \in Nat /\ p >= PendingIn(q) - 1
        BY <1>4, <3>3, <4>1, <4>2
      <4>4. CASE more = history.slack[r] + 1
        BY <1>4, <2>2, <3>3, <4>1, <4>2, <4>3, <4>4
      <4>5. CASE more = MaxJobs[r]
        BY <1>4, <2>2, <3>3, <4>1, <4>2, <4>3, <4>5
      <4> QED BY <1>6, <4>4, <4>5
    <3> QED BY <3>1, <3>2, <3>3
  <2>3. SlackRead => SlackRead'
    BY <1>2, <1>4, <2>2 DEF SlackRead, Bounded
  <2>4. SlackToCome => SlackToCome'
    <3>1. unread \subseteq Regions
      BY <1>1 DEF TickTypeOK
    <3> QED BY <1>2, <1>4, <2>2, <3>1 DEF SlackToCome, Bounded
  <2>5. SlackOfOp => SlackOfOp'
    <3> SUFFICES ASSUME SlackOfOp PROVE SlackOfOp'
      OBVIOUS
    <3>1. PICK q \in Regions : q = op.r
      BY <1>1 DEF Ops
    <3>2. CASE op.kind = "layoffList"
      <4>1. op.n <= PendingIn(q) + history.slack[q] /\ op.n <= MaxJobs[q] /\ op.n \in Int
        BY <1>1, <3>1, <3>2 DEF SlackOfOp, Ops
      <4>2. op.n <= PendingIn(q)' + history'.slack[q]
        BY <2>2, <4>1
      <4> QED BY <1>2, <3>1, <3>2, <4>1, <4>2 DEF SlackOfOp
    <3>3. CASE op.kind = "layoff"
      <4> DEFINE R == DOMAIN todo \cap JobsIn(q, {"Running"})
      <4>1. RunningToLayOff = R /\ RunningToLayOff' = R'
        BY <1>2, <3>1 DEF RunningToLayOff
      <4>2. IsFiniteSet(JobsIn(q, {"Running"})) /\ IsFiniteSet(R) /\ Cardinality(R) \in Nat
        <5>1. IsFiniteSet(JobsIn(q, {"Running"})) /\ R \in SUBSET JobsIn(q, {"Running"})
          BY <1>1, JobsAreFinite
        <5> QED BY <5>1, FS_Subset, FS_CardinalityType
      <4>3. Cardinality(R) <= history.slack[q]
        BY <3>1, <3>3, <4>1 DEF SlackOfOp
      <4>4. JobsType'
        BY <1>1, FewerAtTheService
      <4>5. IsFiniteSet(JobsIn(q, {"Running"})') /\ IsFiniteSet(R')
            /\ Cardinality(R') \in Nat /\ Cardinality(R') <= MaxJobs[q]
        <5>1. ASSUME NEW X
              PROVE  IsFiniteSet(JobsIn(q, X)') /\ Cardinality(JobsIn(q, X)') <= MaxJobs[q]
          <6>1. DOMAIN job'[q] = 1..Len(job'[q]) /\ Len(job'[q]) \in Nat /\ Len(job'[q]) <= MaxJobs[q]
            BY <4>4 DEF JobsType
          <6>2. IsFiniteSet(DOMAIN job'[q]) /\ Cardinality(DOMAIN job'[q]) = Len(job'[q])
            <7>1. 1 \in Int /\ Len(job'[q]) \in Int
              BY <6>1
            <7>2. IsFiniteSet(1..Len(job'[q])) /\ Cardinality(1..Len(job'[q])) = Len(job'[q])
              BY <6>1, <7>1, FS_Interval
            <7> QED BY <6>1, <7>2
          <6>3. JobsIn(q, X)' \in SUBSET DOMAIN job'[q]
            BY DEF JobsIn
          <6>4. IsFiniteSet(JobsIn(q, X)') /\ Cardinality(JobsIn(q, X)') <= Cardinality(DOMAIN job'[q])
            BY <6>2, <6>3, FS_Subset
          <6>5. Cardinality(JobsIn(q, X)') \in Nat
            BY <6>4, FS_CardinalityType
          <6> QED BY <1>4, <6>1, <6>2, <6>4, <6>5
        <5>2. IsFiniteSet(JobsIn(q, {"Running"})')
              /\ Cardinality(JobsIn(q, {"Running"})') <= MaxJobs[q]
          BY <5>1, Zenon
        <5>3. R' \in SUBSET JobsIn(q, {"Running"})'
          OBVIOUS
        <5>4. IsFiniteSet(R') /\ Cardinality(R') <= Cardinality(JobsIn(q, {"Running"})')
          BY <5>2, <5>3, FS_Subset
        <5>5. Cardinality(R') \in Nat /\ Cardinality(JobsIn(q, {"Running"})') \in Nat
          BY <5>2, <5>4, FS_CardinalityType
        <5> HIDE DEF R
        <5> QED BY <1>4, <5>2, <5>4, <5>5
      <4>6. Cardinality(R') <= history'.slack[q]
        <5>1. CASE q # r
          <6>1. R' = R /\ history'.slack[q] = history.slack[q]
            BY <1>1, <1>2, <1>5, <5>1, PendingAtTheService
          <6> QED BY <4>3, <6>1
        <5>2. CASE q = r /\ ~MovedOn(r)
          <6>1. R' \in SUBSET R /\ history'.slack[q] = history.slack[q]
            BY <1>1, <1>2, <1>5, <2>1, <5>2, PendingAtTheService
          <6> HIDE DEF R
          <6>2. Cardinality(R') <= Cardinality(R)
            BY <4>2, <6>1, FS_Subset
          <6> QED BY <1>4, <4>2, <4>3, <4>5, <6>1, <6>2
        <5>3. CASE q = r /\ MovedOn(r)
          <6>1. PICK i : JobsIn(r, {"Running"})' \subseteq JobsIn(r, {"Running"}) \cup {i}
            BY <1>1, <5>3, PendingAtTheService
          <6>2. R' \in SUBSET (R \cup {i}) /\ history'.slack[q] = more
            BY <1>2, <1>5, <2>1, <5>3, <6>1
          <6>3. IsFiniteSet(R \cup {i})
                /\ Cardinality(R \cup {i}) = IF i \in R THEN Cardinality(R) ELSE Cardinality(R) + 1
            BY <4>2, FS_AddElement
          <6> HIDE DEF R
          <6>4. Cardinality(R') <= Cardinality(R \cup {i})
            BY <6>2, <6>3, FS_Subset
          <6>5. Cardinality(R') <= history.slack[q] + 1
            BY <1>4, <4>2, <4>3, <4>5, <6>3, <6>4
          <6> QED BY <1>4, <1>6, <4>5, <5>3, <6>2, <6>5
        <5> QED BY <5>1, <5>2, <5>3
      <4> QED BY <1>2, <3>1, <3>3, <4>1, <4>6 DEF SlackOfOp
    <3>4. CASE op.kind \notin {"layoffList", "layoff"}
      BY <1>2, <3>4 DEF SlackOfOp
    <3> QED BY <3>2, <3>3, <3>4
  <2> QED BY <1>2, <1>5, <1>7, <1>9, <2>3, <2>4, <2>5, SlackParts
<1> QED BY <1>8, <1>9

(* Every step keeps the slack.                                              *)
LEMMA SlackenedKept ==
  ASSUME Structure, Bounded, Slackened, PlansAddUp, Next
  PROVE  Slackened'
<1>1. ASSUME NEW r \in Regions, NEW n, NEW layoffs, ScaleToCalled(r, n, layoffs)
      PROVE  Slackened'
  <2>1. PICK c : history' = [history EXCEPT !.ceiling = c, !.trusted = TRUE, !.faulty = FALSE,
                                            !.slack = Zeros]
    BY <1>1 DEF ScaleToCalled
  <2>2. history'.slack = Zeros
    BY <2>1, Types DEF Structure, TickTypeOK
  <2>3. NoDebt'
    BY <2>2 DEF NoDebt, Zeros
  <2>4. mode' # "auto"
    BY <1>1 DEF ScaleToCalled
  <2> QED BY <2>3, <2>4, SlackParts
<1> QED
  BY <1>1, SlackOfQuietStep, SlackOfAction, SlackOfWorkforce, SlackOfPlatform, StepsOfNext

------------------------------------------------------------------------------
(* The invariant holds at first, and at every step.                         *)

LEMMA InitIInv == Init => IInv
<1> SUFFICES ASSUME Init PROVE IInv
  OBVIOUS
<1>1. /\ op = NoOp /\ todo = NoOneToServe /\ faults = 0 /\ pc = "idle" /\ mode = "auto"
      /\ manual = 0 /\ unread = {} /\ lazy \in LazyChoices /\ cached = FALSE
      /\ states = [r \in Regions |-> NoState] /\ lastGood = states
      /\ have = 0 /\ pending = 0 /\ size = 0 /\ total = 0 /\ avail = Zeros /\ plan = Zeros
      /\ history = [ceiling |-> 0, trusted |-> TRUE, faulty |-> FALSE, slack |-> Zeros]
      /\ job \in [Regions -> {<<>>, <<"Running">>, <<"Queued">>}]
      /\ \A r \in Regions : Len(job[r]) <= MaxJobs[r]
  BY DEF Init, WorkforceInit
<1>2. WorkforceTypeOK
  <2>1. JobsType
    <3>1. "Running" \in Statuses /\ "Queued" \in Statuses
      BY KnownStatuses DEF Statuses
    <3>2. {<<>>, <<"Running">>, <<"Queued">>} \subseteq Seq(Statuses)
      BY <3>1
    <3> QED BY <1>1, <3>2 DEF JobsType
  <2>2. op \in Ops /\ TodoType /\ faults \in 0..MaxFaults
    BY <1>1, NoOpIsOp, NoOneToServeIsEmpty, NumbersOfWorkforce DEF TodoType
  <2> QED BY <2>1, <2>2, WorkforceTypes
<1>3. TickTypeOK
  <2>1. lazy \in BOOLEAN
    BY <1>1, SchedulerAssumption
  <2>2. states \in [Regions -> Sizes] /\ NoState \in Sizes
    BY <1>1 DEF NoState, Sizes
  <2>3. Zeros \in [Regions -> Nat] /\ Zeros \in [Regions -> Int]
    BY DEF Zeros
  <2>4. cached \in BOOLEAN
    BY <1>1
  <2> QED BY <1>1, <2>1, <2>2, <2>3, <2>4 DEF TickTypeOK, Phases, Modes
<1>4. Control /\ Progress
  <2>1. Control
    BY <1>1, NoOpIsOp, NoOneToServeIsEmpty DEF Control, Underway, Acting
  <2>2. Progress
    BY <1>1 DEF Progress, Reading
  <2> QED BY <2>1, <2>2
<1>5. Structure
  BY <1>2, <1>3, <1>4, Types DEF Structure
<1>6. Bounded
  BY <1>1, NumbersOfScheduler DEF Bounded, NoState
<1>7. Sized /\ Counted
  BY <1>1 DEF Sized, Counted, Reading
<1>8. Ceiling
  BY <1>1 DEF Ceiling
<1>9. Zeroed /\ PlansAddUp
  BY <1>1, NoOpIsOp DEF Zeroed, PlansAddUp
<1>10. Slackened
  BY <1>1 DEF Slackened, Reading, Zeros
<1> QED BY <1>5, <1>6, <1>7, <1>8, <1>9, <1>10 DEF IInv

(* Every step keeps the invariant.                                          *)
LEMMA NextIInv ==
  ASSUME IInv, Next
  PROVE  IInv'
<1> USE DEF IInv
<1>1. Structure'
  BY StructureKept
<1>2. Bounded'
  BY BoundedKept
<1>3. Sized'
  BY SizedKept
<1>4. Counted'
  BY CountedKept
<1>5. Ceiling'
  BY CeilingPreserved
<1>6. Zeroed'
  BY ZeroedKept
<1>7. Slackened'
  BY SlackenedKept
<1>8. PlansAddUp'
  BY PlansKept
<1> QED BY <1>1, <1>2, <1>3, <1>4, <1>5, <1>6, <1>7, <1>8

(* A step that changes nothing keeps it.                                    *)
LEMMA StutterIInv ==
  ASSUME IInv, UNCHANGED vars
  PROVE  IInv'
<1>1. UNCHANGED <<job, op, todo, faults, pc, mode, manual, unread, lazy, states, cached, lastGood,
                  have, pending, size, total, avail, plan, history>>
  BY DEF vars, workforceVars, tickVars
<1>2. \A r, X : JobsIn(r, X)' = JobsIn(r, X)
  BY <1>1, SameJobs
<1>3. \A r : ActiveIn(r)' = ActiveIn(r) /\ PendingIn(r)' = PendingIn(r)
  BY <1>1, SameJobs
<1>4. ActiveCount' = ActiveCount
  BY <1>1, SameJobs
<1>5. TypeOK' /\ Control' /\ Progress'
  <2>1. TypeOK'
    <3>1. WorkforceTypeOK'
      BY <1>1 DEF IInv, Structure, TypeOK, WorkforceTypeOK
    <3>2. TickTypeOK'
      <4>1. {lazy', cached'} \subseteq BOOLEAN
        BY <1>1, Zenon DEF IInv, Structure, TypeOK
      <4> QED BY <1>1, <4>1, Types DEF IInv, Structure, TickTypeOK
    <3> QED BY <3>1, <3>2, Types
  <2>2. Control'
    BY <1>1 DEF IInv, Structure, Control, Underway
  <2>3. Progress'
    BY <1>1 DEF IInv, Structure, Progress
  <2> QED BY <2>1, <2>2, <2>3
<1>6. Bounded' /\ Sized' /\ Counted'
  BY <1>1, <1>3 DEF IInv, Bounded, Sized, SizeOf, Counted, RunningRead, WorkersRead
<1>7. Ceiling'
  <2>1. Coming' = Coming /\ Planning' = Planning
    BY <1>1, <1>3 DEF Coming, Planning, Awaiting
  <2> QED BY <1>1, <1>4, <2>1 DEF IInv, Ceiling
<1>8. Zeroed' /\ PlansAddUp'
  BY <1>1, <1>2, <1>3 DEF IInv, Zeroed, PlansAddUp
<1>9. Slackened'
  <2>1. RunningToLayOff' = RunningToLayOff
    BY <1>1, <1>2 DEF RunningToLayOff
  <2> QED BY <1>1, <1>3, <2>1 DEF IInv, Slackened
<1> QED BY <1>5, <1>6, <1>7, <1>8, <1>9 DEF IInv, Structure

------------------------------------------------------------------------------
(* The theorems.                                                            *)

(* The inductive invariant holds in every reachable state.                  *)
THEOREM Invariance == Spec => []IInv
<1>1. IInv /\ [Next]_vars => IInv'
  BY NextIInv, StutterIInv
<1> QED BY InitIInv, <1>1, PTL DEF Spec

(* The variables of the workforces and of the tick keep their types: the    *)
(* threads serve jobs that exist, no plan is negative, no count either.     *)
THEOREM TypeCorrect == Spec => []TypeOK
<1>1. IInv => TypeOK
  BY DEF IInv, Structure
<1> QED BY <1>1, Invariance, PTL

(* A command brings about no more active workers than its ceiling, whatever *)
(* jobs do meanwhile and whichever submissions fail, if the tick counts in  *)
(* one reading and every region could be read.                              *)
THEOREM CeilingIsKept == Spec => []CeilingKept
<1>1. ASSUME IInv PROVE CeilingKept
  <2>1. WorkforceTypeOK /\ TickTypeOK
    BY <1>1, Types DEF IInv, Structure
  <2>2. ActiveCount \in Nat /\ Coming \in Nat /\ Planning \in Nat /\ history.ceiling \in Nat
    BY <2>1, ComingIsNatural, PlanningIsNatural DEF TickTypeOK
  <2>3. lazy /\ history.trusted /\ (pc # "idle" \/ op # NoOp) =>
          ActiveCount + Coming + Planning <= history.ceiling
    BY <1>1 DEF IInv, Ceiling
  <2> QED BY <2>2, <2>3 DEF CeilingKept
<1> QED BY <1>1, Invariance, PTL

(* The plans of an automatic tick add up: a hire to all that is to be hired *)
(* and fits, a lay-off to what is to go, short of the remainder.            *)
THEOREM PlansAlwaysAddUp == Spec => []PlansAddUp
<1>1. IInv => PlansAddUp
  BY DEF IInv
<1> QED BY <1>1, Invariance, PTL

(* A scale-down lays off a running worker of a region only in place of one  *)
(* that was pending when the region was last read and has started to run or *)
(* ended since.                                                             *)
THEOREM RunningOnesAreSpared == Spec => []RunningLaidOffForOthers
<1>1. IInv => RunningLaidOffForOthers
  BY DEF IInv, Slackened, RunningLaidOffForOthers
<1> QED BY <1>1, Invariance, PTL

(* A scale-to-zero in which no call failed leaves no worker.                *)
THEOREM ZeroIsZero == Spec => []ZeroMeansZero
<1>1. ASSUME IInv PROVE ZeroMeansZero
  <2> SUFFICES ASSUME pc = "idle", mode = "zero", ~history.faulty
               PROVE  ActiveCount = 0
    BY DEF ZeroMeansZero
  <2>1. \A r \in Regions : JobsIn(r, Active) = {}
    BY <1>1 DEF IInv, Zeroed
  <2>2. \A r \in Regions : Cardinality(JobsIn(r, Active)) = 0
    BY <2>1, FS_EmptySet
  <2>3. [r \in Regions |-> Cardinality(JobsIn(r, Active))] = Zeros
    BY <2>2 DEF Zeros
  <2> QED BY <2>3, SumOfZeros DEF ActiveCount
<1> QED BY <1>1, Invariance, PTL
==============================================================================
