------------------------ MODULE OracleConsensusProofs ------------------------
(***************************************************************************)
(* What the agreement operators guarantee when at most f of the observers  *)
(* of an item are Byzantine: an agreed value was observed by an honest     *)
(* oracle, and an ordered consensus lies between two honest observations.  *)
(***************************************************************************)
EXTENDS OracleConsensus, FiniteSetTheorems, TLAPS

\* A non-empty set of naturals has a least element.
LEMMA LeastNatural ==
    ASSUME NEW T, T \subseteq Nat, T # {}
    PROVE  \E n \in T : \A m \in T : n <= m
<1> DEFINE R == OpToRel(<, Nat)
<1>1. PICK x \in T : \A y \in T : ~ (<<y, x>> \in R)
    <2>1. IsWellFoundedOn(R, Nat)
        BY NatLessThanWellFounded
    <2> HIDE DEF R
    <2> QED
        BY <2>1, WFMin
<1>2. \A y \in T : x <= y
    <2> SUFFICES ASSUME NEW y \in T, y < x PROVE FALSE
        OBVIOUS
    <2>1. <<y, x>> \in R
        BY DEF OpToRel
    <2> QED
        BY <1>1, <2>1
<1> QED
    BY <1>2

\* More observers than Byzantine ones: at least one of them is honest.
LEMMA HonestMember ==
    ASSUME NEW S, IsFiniteSet(S), NEW B, IsFiniteSet(B),
           NEW f \in Nat, Cardinality(B) <= f, Cardinality(S) > f
    PROVE  \E o \in S : o \notin B
<1> SUFFICES ASSUME S \subseteq B PROVE FALSE
    OBVIOUS
<1>1. Cardinality(S) <= Cardinality(B)
    BY FS_Subset
<1>2. Cardinality(S) \in Nat /\ Cardinality(B) \in Nat
    BY FS_CardinalityType
<1> QED
    BY <1>1, <1>2

\* minObservation.GetValid and GetConsensusMap: what is agreed with a
\* threshold above the number of Byzantine observers was observed by an
\* honest oracle, whatever the others observed.
THEOREM AgreedItemIsHonest ==
    ASSUME NEW obs, IsFiniteSet(DOMAIN obs), NEW B, IsFiniteSet(B),
           NEW f \in Nat, Cardinality(B) <= f,
           NEW t \in Nat, t > f, HasConsensus(obs, t)
    PROVE  \E o \in DOMAIN obs : o \notin B /\ obs[o] = ConsensusItem(obs, t)
<1> DEFINE v == ConsensusItem(obs, t)
<1>1. v \in GetValid(obs, t)
    <2>1. GetValid(obs, t) # {}
        BY FS_EmptySet DEF HasConsensus
    <2> QED
        BY <2>1 DEF ConsensusItem
<1>2. Cardinality(Supporters(obs, v)) >= t
    BY <1>1 DEF GetValid
<1>3. IsFiniteSet(Supporters(obs, v))
    BY FS_Subset DEF Supporters
<1>4. Cardinality(Supporters(obs, v)) \in Nat
    BY <1>3, FS_CardinalityType
<1>5. \E o \in Supporters(obs, v) : o \notin B
    BY <1>2, <1>3, <1>4, HonestMember
<1> QED
    BY <1>5 DEF Supporters

\* GetOrderedConsensus: the value at index f of the sorted observations
\* exists when there are more than f of them.
LEMMA SortedAtExists ==
    ASSUME NEW D, IsFiniteSet(D), NEW bound \in Nat, NEW obs \in [D -> 0..bound],
           NEW f \in Nat, Cardinality(D) > f
    PROVE  /\ SortedAt(obs, f) \in {obs[o] : o \in D}
           /\ IsSortedAt(obs, f, SortedAt(obs, f))
<1> DEFINE T == {v \in Nat : Cardinality(UpTo(obs, v)) > f}
<1>1. bound \in T
    <2>1. UpTo(obs, bound) = D
        BY DEF UpTo
    <2> QED
        BY <2>1
<1>2. PICK v \in T : \A m \in T : v <= m
    <2>1. T \subseteq Nat /\ T # {}
        BY <1>1
    <2> HIDE DEF T
    <2> QED
        BY <2>1, LeastNatural
<1>3. IsFiniteSet(Below(obs, v)) /\ IsFiniteSet(UpTo(obs, v))
    BY FS_Subset DEF Below, UpTo
<1>4. Cardinality(Below(obs, v)) \in Nat /\ Cardinality(UpTo(obs, v)) \in Nat
    BY <1>3, FS_CardinalityType
<1>5. Cardinality(Below(obs, v)) <= f
    <2>1. CASE v = 0
        <3>1. Below(obs, v) = {}
            BY <2>1 DEF Below
        <3> QED
            BY <3>1, FS_EmptySet
    <2>2. CASE v # 0
        <3>1. v - 1 \in Nat /\ v - 1 \notin T
            BY <1>2, <2>2
        <3>2. Below(obs, v) = UpTo(obs, v - 1)
            BY <1>2 DEF Below, UpTo
        <3>3. ~(Cardinality(UpTo(obs, v - 1)) > f)
            BY <3>1
        <3> QED
            BY <1>4, <3>2, <3>3
    <2> QED
        BY <2>1, <2>2
<1>6. v \in {obs[o] : o \in D}
    <2> SUFFICES ASSUME \A o \in D : obs[o] # v PROVE FALSE
        OBVIOUS
    <2>1. Below(obs, v) = UpTo(obs, v)
        BY <1>2 DEF Below, UpTo
    <2> QED
        BY <1>2, <1>4, <1>5, <2>1
<1>7. IsSortedAt(obs, f, v)
    BY <1>2, <1>5 DEF IsSortedAt
<1> QED
    BY <1>6, <1>7 DEF SortedAt

\* An element of the sorted observations that has at least f others on either
\* side lies between two honest observations.
LEMMA SortedBetweenHonest ==
    ASSUME NEW D, IsFiniteSet(D), NEW bound \in Nat, NEW obs \in [D -> 0..bound],
           NEW B, IsFiniteSet(B), NEW f \in Nat, Cardinality(B) <= f,
           NEW i \in Nat, f <= i, i + f < Cardinality(D)
    PROVE  /\ \E o \in D : o \notin B /\ SortedAt(obs, i) <= obs[o]
           /\ \E o \in D : o \notin B /\ obs[o] <= SortedAt(obs, i)
           /\ SortedAt(obs, i) \in {obs[o] : o \in D}
<1> DEFINE v == SortedAt(obs, i)
           AtLeast == D \ Below(obs, v)
<1>1. Cardinality(D) \in Nat /\ Cardinality(D) > i
    BY FS_CardinalityType
<1>2. v \in {obs[o] : o \in D} /\ IsSortedAt(obs, i, v)
    BY <1>1, SortedAtExists
<1>3. v \in 0..bound
    BY <1>2
<1>4. Below(obs, v) \subseteq D /\ UpTo(obs, v) \subseteq D
    BY DEF Below, UpTo
<1>5. /\ IsFiniteSet(Below(obs, v)) /\ IsFiniteSet(UpTo(obs, v)) /\ IsFiniteSet(AtLeast)
      /\ AtLeast \cap Below(obs, v) = {} /\ AtLeast \cup Below(obs, v) = D
    BY <1>4, FS_Subset
<1>6. /\ Cardinality(Below(obs, v)) \in Nat
      /\ Cardinality(UpTo(obs, v)) \in Nat
      /\ Cardinality(AtLeast) \in Nat
    BY <1>5, FS_CardinalityType
<1>7. Cardinality(AtLeast) > f
    <2>1. Cardinality(D) = Cardinality(AtLeast) + Cardinality(Below(obs, v))
                             - Cardinality(AtLeast \cap Below(obs, v))
        BY <1>5, FS_Union
    <2>2. Cardinality(AtLeast \cap Below(obs, v)) = 0
        BY <1>5, FS_EmptySet
    <2> QED
        BY <1>1, <1>2, <1>6, <2>1, <2>2 DEF IsSortedAt
<1>8. \E o \in AtLeast : o \notin B
    BY <1>5, <1>7, HonestMember
<1>9. \E o \in UpTo(obs, v) : o \notin B
    <2>1. Cardinality(UpTo(obs, v)) > f
        BY <1>2, <1>6 DEF IsSortedAt
    <2> QED
        BY <1>5, <2>1, HonestMember
<1> QED
    BY <1>2, <1>3, <1>8, <1>9 DEF Below, UpTo

\* The ordered consensus is bounded by honest observations on both sides:
\* with at most f Byzantine observers no choice of theirs moves sorted[f]
\* outside what honest oracles observed.
THEOREM SortedAtBetweenHonest ==
    ASSUME NEW D, IsFiniteSet(D), NEW bound \in Nat, NEW obs \in [D -> 0..bound],
           NEW B, IsFiniteSet(B), NEW f \in Nat, Cardinality(B) <= f,
           Cardinality(D) >= TwoFPlus1(f)
    PROVE  /\ \E o \in D : o \notin B /\ SortedAt(obs, f) <= obs[o]
           /\ \E o \in D : o \notin B /\ obs[o] <= SortedAt(obs, f)
           /\ SortedAt(obs, f) \in 0..bound
<1>1. f <= f /\ f + f < Cardinality(D)
    BY FS_CardinalityType DEF TwoFPlus1
<1> QED
    BY <1>1, SortedBetweenHonest

\* So is the median of 2f+1 or more observations, which the price processors
\* report.
THEOREM MedianBetweenHonest ==
    ASSUME NEW D, IsFiniteSet(D), NEW bound \in Nat, NEW obs \in [D -> 0..bound],
           NEW B, IsFiniteSet(B), NEW f \in Nat, Cardinality(B) <= f,
           Cardinality(D) >= TwoFPlus1(f)
    PROVE  /\ \E o \in D : o \notin B /\ Median(obs) <= obs[o]
           /\ \E o \in D : o \notin B /\ obs[o] <= Median(obs)
           /\ Median(obs) \in {obs[o] : o \in D}
<1> DEFINE i == Cardinality(D) \div 2
<1>1. Cardinality(D) \in Nat
    BY FS_CardinalityType
<1>2. i \in Nat /\ f <= i /\ i + f < Cardinality(D)
    BY <1>1 DEF TwoFPlus1
<1>3. Median(obs) = SortedAt(obs, i)
    BY DEF Median
<1> HIDE DEF i
<1> QED
    BY <1>2, <1>3, SortedBetweenHonest
=============================================================================
