------------------------ MODULE ExecuteReportProofs ------------------------
(***************************************************************************)
(* What the operators of the report builder compute, for every input: the  *)
(* facts that the proofs about ExecuteReportBuilder and Execute rest on.   *)
(*                                                                         *)
(* The loops of the builder are recursive functions on 0..n. Each of them  *)
(* gets a predicate that says "g runs the loop for its first n steps", a   *)
(* lemma that there is such a g, and from then on inductions over the      *)
(* steps, which UpToN provides as a fact about sets of numbers.            *)
(***************************************************************************)
EXTENDS ExecuteReport, OracleConsensusProofs

-----------------------------------------------------------------------------
(* Induction over the steps of a loop.                                     *)

LEMMA UpToN ==
    ASSUME NEW n \in Nat, NEW T, 0 \in T, \A i \in 1..n : i - 1 \in T => i \in T
    PROVE  0..n \subseteq T
  <1> SUFFICES ASSUME ~(0..n \subseteq T) PROVE FALSE OBVIOUS
  <1> DEFINE U == {i \in 0..n : i \notin T}
  <1>1. U \in SUBSET Nat /\ U # {} OBVIOUS
  <1>2. PICK x \in U : \A y \in U : x <= y BY <1>1, LeastNatural
  <1>3. x # 0 /\ x \in 1..n OBVIOUS
  <1>4. x - 1 \in 0..n /\ ~(x <= x - 1) BY <1>3
  <1>5. x - 1 \in T BY <1>2, <1>4
  <1> QED BY <1>3, <1>5

-----------------------------------------------------------------------------
(* Sums.                                                                   *)

IsSum(s, g, n) == g = [i \in 0..n |-> IF i = 0 THEN 0 ELSE g[i - 1] + s[i]]

LEMMA SumExists ==
    ASSUME NEW s, NEW n \in Nat
    PROVE  \E g : IsSum(s, g, n)
  <1> DEFINE T == {k \in 0..n : \E g : IsSum(s, g, k)}
  <1>1. 0 \in T
    <2>1. IsSum(s, [i \in 0..0 |-> 0], 0) BY DEF IsSum
    <2> QED BY <2>1
  <1>2. ASSUME NEW k \in 1..n, k - 1 \in T PROVE k \in T
    <2>1. PICK g : IsSum(s, g, k - 1) BY <1>2
    <2> DEFINE h == [i \in 0..k |-> IF i = k THEN g[k - 1] + s[k] ELSE g[i]]
    <2>2. IsSum(s, h, k) BY <2>1 DEF IsSum
    <2> QED BY <2>2
  <1> HIDE DEF T
  <1>3. 0..n \subseteq T BY <1>1, <1>2, UpToN
  <1> QED BY <1>3 DEF T

LEMMA SumIs ==
    ASSUME NEW s, Len(s) \in Nat
    PROVE  \E g : IsSum(s, g, Len(s)) /\ Sum(s) = g[Len(s)]
  <1>1. \E g : IsSum(s, g, Len(s)) BY SumExists
  <1> QED BY <1>1 DEF Sum, IsSum

\* Two sums of sequences that agree on their first n numbers.
LEMMA SumsAgree ==
    ASSUME NEW s, NEW t, NEW n \in Nat, NEW m \in Nat, n <= m, NEW g, NEW h,
           IsSum(s, g, n), IsSum(t, h, m), \A i \in 1..n : s[i] = t[i]
    PROVE  g[n] = h[n]
  <1> DEFINE T == {i \in 0..n : g[i] = h[i]}
  <1>1. 0 \in T BY DEF IsSum
  <1>2. ASSUME NEW i \in 1..n, i - 1 \in T PROVE i \in T
    BY <1>2 DEF IsSum
  <1> HIDE DEF T
  <1>3. 0..n \subseteq T BY <1>1, <1>2, UpToN
  <1> QED BY <1>3 DEF T

LEMMA SumType ==
    ASSUME NEW s \in Seq(Nat)
    PROVE  Sum(s) \in Nat
  <1>1. PICK n \in Nat : n = Len(s) OBVIOUS
  <1>2. PICK g : IsSum(s, g, n) /\ Sum(s) = g[n] BY <1>1, SumIs
  <1>3. \A i \in 1..n : s[i] \in Nat BY <1>1
  <1> DEFINE T == {i \in 0..n : g[i] \in Nat}
  <1>4. 0 \in T BY <1>2 DEF IsSum
  <1>5. ASSUME NEW i \in 1..n, i - 1 \in T PROVE i \in T
    <2>1. g[i] = g[i - 1] + s[i] BY <1>2 DEF IsSum
    <2> QED BY <1>3, <1>5, <2>1
  <1> HIDE DEF T
  <1>6. 0..n \subseteq T BY <1>4, <1>5, UpToN
  <1> QED BY <1>2, <1>6 DEF T

LEMMA SumEmpty ==
    ASSUME NEW s, Len(s) = 0
    PROVE  Sum(s) = 0
  <1>1. PICK g : IsSum(s, g, 0) /\ Sum(s) = g[0] BY SumIs
  <1> QED BY <1>1 DEF IsSum

LEMMA SumAppend ==
    ASSUME NEW s, NEW t, NEW n \in Nat, Len(s) = n + 1, Len(t) = n,
           \A i \in 1..n : t[i] = s[i]
    PROVE  Sum(s) = Sum(t) + s[n + 1]
  <1>1. PICK g : IsSum(s, g, n + 1) /\ Sum(s) = g[n + 1] BY SumIs
  <1>2. PICK h : IsSum(t, h, n) /\ Sum(t) = h[n] BY SumIs
  <1>3. h[n] = g[n] BY <1>1, <1>2, SumsAgree
  <1>4. g[n + 1] = g[n] + s[n + 1] BY <1>1 DEF IsSum
  <1> QED BY <1>1, <1>2, <1>3, <1>4

-----------------------------------------------------------------------------
(* Finite sets of numbers in order.                                        *)

\* Ranks below the number of elements, all different, are all taken.
LEMMA RanksTaken ==
    ASSUME NEW A, IsFiniteSet(A), NEW f \in [A -> 0..(Cardinality(A) - 1)],
           \A x, y \in A : f[x] = f[y] => x = y
    PROVE  \A v \in 0..(Cardinality(A) - 1) : \E x \in A : f[x] = v
  <1>0. PICK N \in Nat : N = Cardinality(A) BY FS_CardinalityType
  <1> TAKE v \in 0..(Cardinality(A) - 1)
  <1> SUFFICES ASSUME \A x \in A : f[x] # v PROVE FALSE OBVIOUS
  <1> DEFINE U == 0..(N - 1)
             T == U \ {v}
  <1>1. IsFiniteSet(U) /\ Cardinality(U) = N /\ v \in U BY <1>0, FS_Interval
  <1>2. f \in [A -> T] BY <1>0
  <1> HIDE DEF U
  <1>3. IsFiniteSet(T) /\ Cardinality(T) = N - 1 BY <1>1, FS_RemoveElement
  <1> HIDE DEF T
  <1>4. Cardinality(T) < Cardinality(A) BY <1>0, <1>3
  <1>5. \E x, y \in A : x # y /\ f[x] = f[y]
    BY <1>2, <1>3, <1>4, FS_PigeonHole
  <1> QED BY <1>5

SmallerIn(S, x) == {y \in S : y < x}

LEMMA RankGrows ==
    ASSUME NEW S \in SUBSET Nat, IsFiniteSet(S), NEW x \in S
    PROVE  /\ Cardinality(SmallerIn(S, x)) \in 0..(Cardinality(S) - 1)
           /\ \A y \in S : x < y => Cardinality(SmallerIn(S, x)) < Cardinality(SmallerIn(S, y))
  <1>1. \A y \in S : IsFiniteSet(SmallerIn(S, y)) /\ Cardinality(SmallerIn(S, y)) \in Nat
    <2> TAKE y \in S
    <2>1. SmallerIn(S, y) \subseteq S BY DEF SmallerIn
    <2> QED BY <2>1, FS_Subset, FS_CardinalityType
  <1>2. Cardinality(SmallerIn(S, x)) <= Cardinality(S) - 1
    <2>1. SmallerIn(S, x) \subseteq S \ {x} BY DEF SmallerIn
    <2>2. IsFiniteSet(S \ {x}) /\ Cardinality(S \ {x}) = Cardinality(S) - 1
      BY FS_RemoveElement
    <2>3. Cardinality(SmallerIn(S, x)) <= Cardinality(S \ {x}) BY <2>1, <2>2, FS_Subset
    <2> QED BY <2>2, <2>3
  <1>3. ASSUME NEW y \in S, x < y
        PROVE  Cardinality(SmallerIn(S, x)) < Cardinality(SmallerIn(S, y))
    <2>0. x \in Nat /\ y \in Nat /\ x < y /\ \A z \in S : z \in Nat BY <1>3
    <2>1. SmallerIn(S, x) \subseteq SmallerIn(S, y) \ {x} /\ x \in SmallerIn(S, y)
      <3>1. x \in SmallerIn(S, y) BY <2>0 DEF SmallerIn
      <3>2. \A z \in S : z < x => z < y /\ z # x BY <2>0
      <3> QED BY <3>1, <3>2 DEF SmallerIn
    <2>2. /\ IsFiniteSet(SmallerIn(S, y) \ {x})
          /\ Cardinality(SmallerIn(S, y) \ {x}) = Cardinality(SmallerIn(S, y)) - 1
      BY <1>1, <2>1, FS_RemoveElement
    <2>3. Cardinality(SmallerIn(S, x)) <= Cardinality(SmallerIn(S, y) \ {x})
      BY <2>1, <2>2, FS_Subset
    <2> QED BY <1>1, <2>2, <2>3
  <1>4. Cardinality(S) \in Nat BY FS_CardinalityType
  <1> QED BY <1>1, <1>2, <1>3, <1>4

LEMMA AscendingIs ==
    ASSUME NEW S \in SUBSET Nat, IsFiniteSet(S)
    PROVE  /\ Cardinality(S) \in Nat
           /\ Ascending(S) \in [1..Cardinality(S) -> S]
           /\ \A i, j \in 1..Cardinality(S) : i < j => Ascending(S)[i] < Ascending(S)[j]
           /\ \A x \in S : \E i \in 1..Cardinality(S) : Ascending(S)[i] = x
  <1> DEFINE rank == [x \in S |-> Cardinality(SmallerIn(S, x))]
             a == Ascending(S)
             N == Cardinality(S)
  <1>1. N \in Nat BY FS_CardinalityType
  <1>2. /\ rank \in [S -> 0..(N - 1)]
        /\ \A x, y \in S : x < y => rank[x] < rank[y]
    BY RankGrows
  <1>3. a = [i \in 1..N |-> CHOOSE x \in S : rank[x] = i - 1]
    <2>1. \A i \in 1..N : (CHOOSE x \in S : rank[x] = i - 1)
             = (CHOOSE x \in S : Cardinality({y \in S : y < x}) = i - 1)
      BY DEF SmallerIn
    <2> QED BY <2>1 DEF Ascending
  <1> HIDE DEF rank, a
  <1>4. \A x, y \in S : rank[x] = rank[y] => x = y
    <2> SUFFICES ASSUME NEW x \in S, NEW y \in S, rank[x] = rank[y], x # y PROVE FALSE
      OBVIOUS
    <2>1. x < y \/ y < x OBVIOUS
    <2>2. rank[x] \in Nat /\ rank[y] \in Nat BY <1>1, <1>2
    <2> QED BY <1>2, <2>1, <2>2
  <1>5. \A v \in 0..(N - 1) : \E x \in S : rank[x] = v
    BY <1>2, <1>4, RanksTaken
  <1> HIDE DEF N
  <1>6. \A i \in 1..N : a[i] \in S /\ rank[a[i]] = i - 1
    <2> TAKE i \in 1..N
    <2>1. i - 1 \in 0..(N - 1) BY <1>1
    <2>2. \E x \in S : rank[x] = i - 1 BY <1>5, <2>1
    <2> QED BY <1>3, <2>2
  <1>7. a \in [1..N -> S] BY <1>3, <1>6
  <1>8. ASSUME NEW i \in 1..N, NEW j \in 1..N, i < j PROVE a[i] < a[j]
    <2>1. a[i] \in S /\ a[j] \in S /\ rank[a[i]] < rank[a[j]] BY <1>6, <1>8
    <2>2. PICK x \in S : x = a[i] BY <2>1
    <2>3. PICK y \in S : y = a[j] BY <2>1
    <2>4. rank[x] < rank[y] /\ rank[x] \in Nat /\ rank[y] \in Nat
      BY <1>1, <1>2, <2>1, <2>2, <2>3
    <2>5. x # y /\ ~(y < x) BY <1>2, <2>4
    <2>6. x \in Nat /\ y \in Nat OBVIOUS
    <2> QED BY <2>2, <2>3, <2>5, <2>6
  <1>9. ASSUME NEW x \in S PROVE \E i \in 1..N : a[i] = x
    <2>1. rank[x] \in 0..(N - 1) BY <1>2
    <2>2. rank[x] + 1 \in 1..N /\ (rank[x] + 1) - 1 = rank[x] BY <1>1, <2>1
    <2>3. a[rank[x] + 1] \in S /\ rank[a[rank[x] + 1]] = rank[x] BY <1>6, <2>2
    <2> QED BY <1>4, <2>2, <2>3
  <1> QED BY <1>1, <1>7, <1>8, <1>9 DEF a, N

-----------------------------------------------------------------------------
(* The messages of a chain report.                                         *)

LEMMA CostType ==
    ASSUME NEW senders, NEW msgs \in Seq(Message(senders))
    PROVE  cost(msgs) \in Nat
  <1>1. PICK n \in Nat : n = Len(msgs) OBVIOUS
  <1>2. \A i \in 1..n : msgs[i].cost \in Nat
    <2>1. \A i \in 1..n : msgs[i] \in Message(senders) BY <1>1
    <2> QED BY <2>1 DEF Message
  <1> DEFINE s == [i \in 1..n |-> msgs[i].cost]
  <1>3. s \in Seq(Nat) BY <1>2
  <1> HIDE DEF s
  <1>4. Sum(s) \in Nat BY <1>3, SumType
  <1> QED BY <1>1, <1>4 DEF s, cost

LEMMA SelectedMessages ==
    ASSUME NEW chains, NEW senders, NEW c \in CommitData(chains, senders),
           NEW S \in SUBSET (1..Len(c.messages))
    PROVE  /\ IsFiniteSet(S) /\ Cardinality(S) \in Nat
           /\ selectMessages(c, S) \in Seq(Message(senders))
           /\ Len(selectMessages(c, S)) = Cardinality(S)
           /\ \A j \in 1..Cardinality(S) :
                 Ascending(S)[j] \in S /\ selectMessages(c, S)[j] = c.messages[Ascending(S)[j]]
           /\ \A i, j \in 1..Cardinality(S) : i < j => Ascending(S)[i] < Ascending(S)[j]
           /\ \A i \in S : \E j \in 1..Cardinality(S) : selectMessages(c, S)[j] = c.messages[i]
  <1>1. c.messages \in Seq(Message(senders)) BY DEF CommitData
  <1>2. PICK n \in Nat : n = Len(c.messages) BY <1>1
  <1>3. \A i \in 1..n : c.messages[i] \in Message(senders) BY <1>1, <1>2
  <1>4. S \in SUBSET Nat /\ S \subseteq 1..n BY <1>2
  <1>5. IsFiniteSet(S)
    <2>1. IsFiniteSet(1..n) BY FS_Interval
    <2> QED BY <1>4, <2>1, FS_Subset
  <1>6. /\ Cardinality(S) \in Nat
        /\ Ascending(S) \in [1..Cardinality(S) -> S]
        /\ \A i, j \in 1..Cardinality(S) : i < j => Ascending(S)[i] < Ascending(S)[j]
        /\ \A x \in S : \E i \in 1..Cardinality(S) : Ascending(S)[i] = x
    BY <1>4, <1>5, AscendingIs
  <1>7. selectMessages(c, S) = [i \in 1..Cardinality(S) |-> c.messages[Ascending(S)[i]]]
    BY DEF selectMessages
  <1>8. \A j \in 1..Cardinality(S) :
           Ascending(S)[j] \in S /\ selectMessages(c, S)[j] = c.messages[Ascending(S)[j]]
    BY <1>6, <1>7
  <1>9. \A j \in 1..Cardinality(S) : selectMessages(c, S)[j] \in Message(senders)
    BY <1>3, <1>4, <1>8
  <1>10. /\ selectMessages(c, S) \in Seq(Message(senders))
         /\ Len(selectMessages(c, S)) = Cardinality(S)
    BY <1>6, <1>7, <1>9
  <1>11. \A i \in S : \E j \in 1..Cardinality(S) : selectMessages(c, S)[j] = c.messages[i]
    BY <1>6, <1>8
  <1> QED BY <1>5, <1>6, <1>8, <1>10, <1>11

\* A message that is within the budget fits alone.
LEMMA OneFits ==
    ASSUME NEW chains, NEW senders, NEW c \in CommitData(chains, senders),
           NEW i \in 1..Len(c.messages), NEW settings, NEW used,
           c.messages[i].cost <= settings.maxGas - used
    PROVE  fits(settings, used, c, {i})
  <1> DEFINE sel == selectMessages(c, {i})
             s == [j \in 1..1 |-> sel[j].cost]
  <1>1. Cardinality({i}) = 1 BY FS_Singleton
  <1>2. /\ Len(sel) = 1 /\ sel \in Seq(Message(senders))
        /\ sel[1] = c.messages[i]
    <2>1. {i} \in SUBSET (1..Len(c.messages)) OBVIOUS
    <2>2. /\ Len(sel) = Cardinality({i}) /\ sel \in Seq(Message(senders))
          /\ \A j \in 1..Cardinality({i}) :
                Ascending({i})[j] \in {i} /\ sel[j] = c.messages[Ascending({i})[j]]
      BY <2>1, SelectedMessages
    <2>3. 1 \in 1..Cardinality({i}) BY <1>1
    <2>4. Ascending({i})[1] = i /\ sel[1] = c.messages[Ascending({i})[1]] BY <2>2, <2>3
    <2> HIDE DEF sel
    <2> QED BY <1>1, <2>2, <2>4
  <1>3. c.messages[i].cost \in Nat
    <2>1. c.messages \in Seq(Message(senders)) BY DEF CommitData
    <2>2. c.messages[i] \in Message(senders) BY <2>1
    <2> QED BY <2>2 DEF Message
  <1>4. sel[1].cost = c.messages[i].cost BY <1>2
  <1> HIDE DEF sel
  <1>5. cost(sel) = Sum(s) BY <1>2 DEF cost
  <1>6. Len(s) = 1 /\ s[1] = c.messages[i].cost BY <1>4
  <1> HIDE DEF s
  <1>7. Sum(s) = Sum(<<>>) + s[1]
    <2>1. PICK t : t = <<>> OBVIOUS
    <2>2. PICK n \in Nat : n = 0 OBVIOUS
    <2>3. Len(s) = n + 1 /\ Len(t) = n /\ \A j \in 1..n : t[j] = s[j] BY <1>6, <2>1, <2>2
    <2>4. Sum(s) = Sum(t) + s[n + 1] BY <2>3, SumAppend
    <2> QED BY <2>1, <2>2, <2>4
  <1>8. Sum(<<>>) = 0 BY SumEmpty
  <1>9. cost(sel) <= settings.maxGas - used BY <1>3, <1>5, <1>6, <1>7, <1>8
  <1>10. verifyReportNonceContinuity(sel)
    <2>1. DOMAIN sel = 1..1 BY <1>2
    <2>2. \A k, j \in DOMAIN sel : ~(k < j) BY <2>1
    <2> QED BY <2>2 DEF verifyReportNonceContinuity
  <1> QED BY <1>9, <1>10 DEF fits, verifyReport, sel

-----------------------------------------------------------------------------
(* The messages that are ready.                                            *)

IsExtraction(expected, nonces, c, g, n) ==
    g = [i \in 0..n |-> IF i = 0 THEN [ready |-> {}, expected |-> expected]
                        ELSE extractMessage(nonces, c, g[i - 1], i)]

LEMMA ExtractionExists ==
    ASSUME NEW expected, NEW nonces, NEW c, NEW n \in Nat
    PROVE  \E g : IsExtraction(expected, nonces, c, g, n)
  <1> DEFINE T == {k \in 0..n : \E g : IsExtraction(expected, nonces, c, g, k)}
  <1>1. 0 \in T
    <2>1. IsExtraction(expected, nonces, c,
                       [i \in 0..0 |-> [ready |-> {}, expected |-> expected]], 0)
      BY DEF IsExtraction
    <2> QED BY <2>1
  <1>2. ASSUME NEW k \in 1..n, k - 1 \in T PROVE k \in T
    <2>1. PICK g : IsExtraction(expected, nonces, c, g, k - 1) BY <1>2
    <2> DEFINE h == [i \in 0..k |-> IF i = k THEN extractMessage(nonces, c, g[k - 1], k)
                                    ELSE g[i]]
               step(f, i) == IF i = 0 THEN [ready |-> {}, expected |-> expected]
                             ELSE extractMessage(nonces, c, f[i - 1], i)
    <2>2. IsExtraction(expected, nonces, c, h, k)
      <3>1. g = [i \in 0..(k - 1) |-> step(g, i)] BY <2>1 DEF IsExtraction
      <3>2. /\ h = [i \in 0..k |-> h[i]] /\ \A i \in 0..(k - 1) : h[i] = g[i]
            /\ h[k] = step(g, k)
        OBVIOUS
      <3>3. \A i \in 0..k : i = 0 \/ i - 1 \in 0..(k - 1) OBVIOUS
      <3>4. \A i \in 0..k : step(h, i) = step(g, i) BY <3>2, <3>3
      <3> HIDE DEF h, step
      <3>5. \A i \in 0..k : h[i] = step(h, i)
        <4>1. \A i \in 0..(k - 1) : g[i] = step(g, i) BY <3>1
        <4>2. \A i \in 0..k : i = k \/ i \in 0..(k - 1) OBVIOUS
        <4> QED BY <3>2, <3>4, <4>1, <4>2
      <3>6. h = [i \in 0..k |-> step(h, i)] BY <3>2, <3>5
      <3> QED BY <3>6 DEF IsExtraction, step
    <2> QED BY <2>2
  <1> HIDE DEF T
  <1>3. 0..n \subseteq T BY <1>1, <1>2, UpToN
  <1> QED BY <1>3 DEF T

LEMMA ExtractionIs ==
    ASSUME NEW expected, NEW nonces, NEW c, Len(c.messages) \in Nat
    PROVE  \E g : /\ IsExtraction(expected, nonces, c, g, Len(c.messages))
                  /\ extractReadyMessages(expected, nonces, c) = g[Len(c.messages)]
  <1>1. \E g : IsExtraction(expected, nonces, c, g, Len(c.messages)) BY ExtractionExists
  <1> QED BY <1>1 DEF extractReadyMessages, IsExtraction

KeyOf(c, i) == SenderKey(c, c.messages[i])
NonceOf(c, i) == c.messages[i].nonce

\* What checkMessage looks at besides the nonce.
Passable(c, i) ==
    /\ ~c.messages[i].deleted /\ c.messages[i].tokenReady
    /\ c.messages[i].seqNum \notin c.executed

\* The nonces expected are beyond those executed.
WellNonced(expected, nonces) ==
    /\ expected \in [DOMAIN expected -> Nat]
    /\ \A k \in DOMAIN expected : k \in DOMAIN nonces /\ nonces[k] < expected[k]

\* The three things that may happen to message i: it does not pass, it passes
\* and may come in any order, or it has the nonce expected of its sender.
Fails(nonces, c, e, i) ==
    /\ Passable(c, i) => NonceOf(c, i) # 0
    /\ Passable(c, i) /\ KeyOf(c, i) \in DOMAIN nonces =>
          NonceOf(c, i) # ExpectedNonce(e, nonces, KeyOf(c, i))
MovesOn(nonces, c, e, e1, i) ==
    /\ NonceOf(c, i) # 0 /\ KeyOf(c, i) \in DOMAIN nonces
    /\ NonceOf(c, i) = ExpectedNonce(e, nonces, KeyOf(c, i))
    /\ e1 = [x \in DOMAIN e \cup {KeyOf(c, i)} |->
                IF x = KeyOf(c, i) THEN NonceOf(c, i) + 1 ELSE e[x]]

LEMMA ExtractStep ==
    ASSUME NEW nonces, NEW c, NEW acc, NEW i, NEW acc1,
           acc1 = extractMessage(nonces, c, acc, i)
    PROVE  \/ /\ acc1.ready = acc.ready /\ acc1.expected = acc.expected
              /\ Fails(nonces, c, acc.expected, i)
           \/ /\ acc1.ready = acc.ready \cup {i} /\ Passable(c, i)
              /\ NonceOf(c, i) = 0 /\ acc1.expected = acc.expected
           \/ /\ acc1.ready = acc.ready \cup {i} /\ Passable(c, i)
              /\ MovesOn(nonces, c, acc.expected, acc1.expected, i)
  <1> DEFINE msg == c.messages[i]
             e(x) == IF x = KeyOf(c, i) THEN msg.nonce + 1 ELSE acc.expected[x]
  <1>1. CASE ~checkMessage(acc.expected, nonces, c, msg)
    <2>1. acc1 = acc BY <1>1 DEF extractMessage
    <2>2. Fails(nonces, c, acc.expected, i)
      BY <1>1 DEF checkMessage, CheckNonces, Passable, Fails, KeyOf, NonceOf
    <2> QED BY <2>1, <2>2
  <1>2. CASE checkMessage(acc.expected, nonces, c, msg)
    <2>1. acc1 = [ready |-> acc.ready \cup {i},
                  expected |-> IF msg.nonce = 0 THEN acc.expected
                               ELSE [x \in DOMAIN acc.expected \cup {KeyOf(c, i)} |-> e(x)]]
      BY <1>2 DEF extractMessage, KeyOf
    <2>2. /\ acc1.ready = acc.ready \cup {i}
          /\ acc1.expected = IF msg.nonce = 0 THEN acc.expected
                             ELSE [x \in DOMAIN acc.expected \cup {KeyOf(c, i)} |-> e(x)]
      BY <2>1
    <2>3. Passable(c, i) BY <1>2 DEF checkMessage, Passable
    <2>4. \/ msg.nonce = 0
          \/ /\ KeyOf(c, i) \in DOMAIN nonces
             /\ msg.nonce = ExpectedNonce(acc.expected, nonces, KeyOf(c, i))
      BY <1>2 DEF checkMessage, CheckNonces, KeyOf
    <2> QED BY <2>2, <2>3, <2>4 DEF MovesOn, NonceOf
  <1> QED BY <1>1, <1>2

\* After the first n messages: what is ready passed the checks, everything that
\* may come in any order and passes them is ready, and the nonces expected have
\* only grown from e0 to e.
ExtractedBasic(e0, nonces, c, ready, e, n) ==
    /\ ready \subseteq 1..n /\ \A i \in ready : Passable(c, i)
    /\ \A i \in 1..n : Passable(c, i) /\ NonceOf(c, i) = 0 => i \in ready
    /\ WellNonced(e, nonces)
    /\ \A k \in DOMAIN e0 : k \in DOMAIN e /\ e0[k] <= e[k]

\* The ordered ones that are ready grow, from the nonce expected at first to
\* the one expected now.
InRange(e0, nonces, c, e, i) ==
    /\ KeyOf(c, i) \in DOMAIN e /\ NonceOf(c, i) < e[KeyOf(c, i)]
    /\ KeyOf(c, i) \in DOMAIN nonces /\ nonces[KeyOf(c, i)] < NonceOf(c, i)
    /\ KeyOf(c, i) \in DOMAIN e0 => e0[KeyOf(c, i)] <= NonceOf(c, i)
ExtractedOrder(e0, nonces, c, ready, e) ==
    \A i \in ready : NonceOf(c, i) # 0 =>
        /\ InRange(e0, nonces, c, e, i)
        /\ \A j \in ready : j < i /\ NonceOf(c, j) # 0 /\ KeyOf(c, j) = KeyOf(c, i)
               => NonceOf(c, j) < NonceOf(c, i)

\* A sender enters with the nonce after the last one executed.
First(nonces, c, i) ==
    /\ NonceOf(c, i) # 0 /\ KeyOf(c, i) \in DOMAIN nonces
    /\ NonceOf(c, i) = nonces[KeyOf(c, i)] + 1
ExtractedFirst(e0, nonces, c, ready, e, n) ==
    /\ \A k \in DOMAIN e \ DOMAIN e0 :
          \E i \in ready : KeyOf(c, i) = k /\ First(nonces, c, i)
    /\ \A i \in 1..n : /\ Passable(c, i) /\ First(nonces, c, i)
                        /\ KeyOf(c, i) \notin DOMAIN e0
                        => i \in ready

HasMovedOn(e0, nonces, c, e, e1, i) ==
    /\ WellNonced(e1, nonces)
    /\ \A k \in DOMAIN e0 : k \in DOMAIN e1 /\ e0[k] <= e1[k]
    /\ \A k \in DOMAIN e : k \in DOMAIN e1 /\ e[k] <= e1[k] /\ e[k] \in Nat /\ e1[k] \in Nat
    /\ KeyOf(c, i) \in DOMAIN e => NonceOf(c, i) = e[KeyOf(c, i)]
    /\ KeyOf(c, i) \notin DOMAIN e => First(nonces, c, i)
    /\ DOMAIN e1 = DOMAIN e \cup {KeyOf(c, i)}
    /\ InRange(e0, nonces, c, e1, i)

LEMMA MovedOn ==
    ASSUME NEW nonces, NEW c, NEW e0, NEW e, NEW e1, NEW i, NonceOf(c, i) \in Nat,
           nonces \in [DOMAIN nonces -> Nat], WellNonced(e, nonces),
           e0 \in [DOMAIN e0 -> Nat],
           \A k \in DOMAIN e0 : k \in DOMAIN e /\ e0[k] <= e[k],
           MovesOn(nonces, c, e, e1, i)
    PROVE  HasMovedOn(e0, nonces, c, e, e1, i)
  <1> DEFINE k == KeyOf(c, i)
             v == NonceOf(c, i)
  <1>1. /\ k \in DOMAIN nonces /\ nonces[k] \in Nat /\ v \in Nat /\ v # 0
        /\ k \in DOMAIN e => v = e[k]
        /\ k \notin DOMAIN e => v = nonces[k] + 1
        /\ \A x \in DOMAIN e : e[x] \in Nat /\ x \in DOMAIN nonces /\ nonces[x] < e[x]
    BY DEF MovesOn, ExpectedNonce, WellNonced
  <1>2. e1 = [x \in DOMAIN e \cup {k} |-> IF x = k THEN v + 1 ELSE e[x]]
    BY DEF MovesOn
  <1> HIDE DEF k, v
  <1>3. /\ DOMAIN e1 = DOMAIN e \cup {k} /\ e1[k] = v + 1
        /\ \A x \in DOMAIN e : x # k => e1[x] = e[x]
    BY <1>2
  <1>4. nonces[k] < v BY <1>1
  <1>5. \A x \in DOMAIN e : x \in DOMAIN e1 /\ e[x] <= e1[x] /\ e1[x] \in Nat
    BY <1>1, <1>3
  <1>6. WellNonced(e1, nonces)
    <2>1. \A x \in DOMAIN e1 : e1[x] \in Nat /\ x \in DOMAIN nonces /\ nonces[x] < e1[x]
      BY <1>1, <1>3, <1>4
    <2>2. e1 \in [DOMAIN e1 -> Nat] BY <1>2, <2>1
    <2> QED BY <2>1, <2>2 DEF WellNonced
  <1>7. \A x \in DOMAIN e0 : x \in DOMAIN e1 /\ e0[x] <= e1[x]
    BY <1>1, <1>5
  <1>8. InRange(e0, nonces, c, e1, i)
    <2>1. k \in DOMAIN e0 => e0[k] <= v BY <1>1
    <2>2. k \in DOMAIN e1 /\ v < e1[k] BY <1>1, <1>3
    <2> QED BY <1>1, <1>4, <2>1, <2>2 DEF InRange, k, v
  <1> QED BY <1>1, <1>3, <1>5, <1>6, <1>7, <1>8 DEF First, HasMovedOn, k, v

LEMMA ExtractedBasicStep ==
    ASSUME NEW nonces, NEW c, NEW e0, NEW i \in Nat \ {0},
           nonces \in [DOMAIN nonces -> Nat], e0 \in [DOMAIN e0 -> Nat], NonceOf(c, i) \in Nat,
           NEW acc, NEW acc1, acc1 = extractMessage(nonces, c, acc, i),
           ExtractedBasic(e0, nonces, c, acc.ready, acc.expected, i - 1)
    PROVE  ExtractedBasic(e0, nonces, c, acc1.ready, acc1.expected, i)
  <1>1. \A j \in 1..i : j \in 1..(i - 1) \/ j = i OBVIOUS
  <1>2. 1..(i - 1) \subseteq 1..i /\ i \in 1..i OBVIOUS
  <1>3. CASE /\ acc1.ready = acc.ready /\ acc1.expected = acc.expected
             /\ Fails(nonces, c, acc.expected, i)
    BY <1>1, <1>2, <1>3 DEF ExtractedBasic, Fails
  <1>4. CASE /\ acc1.ready = acc.ready \cup {i} /\ Passable(c, i)
             /\ NonceOf(c, i) = 0 /\ acc1.expected = acc.expected
    BY <1>1, <1>2, <1>4 DEF ExtractedBasic
  <1>5. CASE /\ acc1.ready = acc.ready \cup {i} /\ Passable(c, i)
             /\ MovesOn(nonces, c, acc.expected, acc1.expected, i)
    <2>1. /\ WellNonced(acc1.expected, nonces)
          /\ \A k \in DOMAIN e0 : k \in DOMAIN acc1.expected /\ e0[k] <= acc1.expected[k]
      BY <1>5, MovedOn DEF ExtractedBasic, HasMovedOn
    <2> QED BY <1>1, <1>2, <1>5, <2>1 DEF ExtractedBasic
  <1> QED BY <1>3, <1>4, <1>5, ExtractStep

LEMMA ExtractedOrderStep ==
    ASSUME NEW nonces, NEW c, NEW e0, NEW i \in Nat \ {0},
           nonces \in [DOMAIN nonces -> Nat], e0 \in [DOMAIN e0 -> Nat],
           \A j \in 1..i : NonceOf(c, j) \in Nat,
           NEW acc, NEW acc1, acc1 = extractMessage(nonces, c, acc, i),
           ExtractedBasic(e0, nonces, c, acc.ready, acc.expected, i - 1),
           ExtractedOrder(e0, nonces, c, acc.ready, acc.expected)
    PROVE  ExtractedOrder(e0, nonces, c, acc1.ready, acc1.expected)
  <1> DEFINE e == acc.expected
             e1 == acc1.expected
  <1>1. \A j \in acc.ready : /\ j \in 1..i /\ j < i /\ ~(i < j) /\ NonceOf(c, j) \in Nat
    BY DEF ExtractedBasic
  <1>2. CASE acc1.ready = acc.ready /\ acc1.expected = acc.expected
    BY <1>2
  <1>3. CASE /\ acc1.ready = acc.ready \cup {i}
             /\ NonceOf(c, i) = 0 /\ acc1.expected = acc.expected
    BY <1>3 DEF ExtractedOrder
  <1>4. CASE /\ acc1.ready = acc.ready \cup {i}
             /\ MovesOn(nonces, c, acc.expected, acc1.expected, i)
    <2>0. i \in 1..i OBVIOUS
    <2>1. /\ \A k \in DOMAIN e : k \in DOMAIN e1 /\ e[k] <= e1[k] /\ e[k] \in Nat /\ e1[k] \in Nat
          /\ KeyOf(c, i) \in DOMAIN e => NonceOf(c, i) = e[KeyOf(c, i)]
          /\ InRange(e0, nonces, c, e1, i)
      <3>1. /\ WellNonced(acc.expected, nonces) /\ NonceOf(c, i) \in Nat
            /\ \A k \in DOMAIN e0 : k \in DOMAIN acc.expected /\ e0[k] <= acc.expected[k]
        BY <2>0 DEF ExtractedBasic
      <3>2. HasMovedOn(e0, nonces, c, acc.expected, acc1.expected, i) BY <1>4, <3>1, MovedOn
      <3> QED BY <3>2 DEF HasMovedOn
    <2> HIDE DEF e, e1
    <2>2. ASSUME NEW j \in acc.ready, NonceOf(c, j) # 0
          PROVE  /\ InRange(e0, nonces, c, e1, j)
                 /\ KeyOf(c, j) = KeyOf(c, i) => NonceOf(c, j) < NonceOf(c, i)
      <3>1. InRange(e0, nonces, c, e, j) BY <2>2 DEF ExtractedOrder, e
      <3>2. NonceOf(c, j) \in Nat BY <1>1
      <3> QED BY <2>1, <3>1, <3>2 DEF InRange
    <2>3. \A h, j \in acc1.ready :
             \/ h \in acc.ready /\ j \in acc.ready
             \/ h \in acc.ready /\ j = i
             \/ ~(h < j)
      BY <1>1, <1>4
    <2>4. \A j \in acc1.ready : NonceOf(c, j) # 0 => InRange(e0, nonces, c, e1, j)
      BY <1>4, <2>1, <2>2
    <2>5. \A h, j \in acc1.ready :
             NonceOf(c, j) # 0 /\ h < j /\ NonceOf(c, h) # 0 /\ KeyOf(c, h) = KeyOf(c, j)
                 => NonceOf(c, h) < NonceOf(c, j)
      BY <2>2, <2>3 DEF ExtractedOrder
    <2> QED BY <2>4, <2>5 DEF ExtractedOrder, e1
  <1> QED BY <1>2, <1>3, <1>4, ExtractStep

LEMMA ExtractedFirstStep ==
    ASSUME NEW nonces, NEW c, NEW e0, NEW i \in Nat \ {0}, NEW n \in Nat, i <= n,
           nonces \in [DOMAIN nonces -> Nat], e0 \in [DOMAIN e0 -> Nat],
           \A j \in 1..n : NonceOf(c, j) \in Nat,
           \A h, j \in 1..n : KeyOf(c, h) = KeyOf(c, j) /\ NonceOf(c, h) = NonceOf(c, j)
                                /\ NonceOf(c, h) # 0 => h = j,
           NEW acc, NEW acc1, acc1 = extractMessage(nonces, c, acc, i),
           ExtractedBasic(e0, nonces, c, acc.ready, acc.expected, i - 1),
           ExtractedFirst(e0, nonces, c, acc.ready, acc.expected, i - 1)
    PROVE  ExtractedFirst(e0, nonces, c, acc1.ready, acc1.expected, i)
  <1> DEFINE e == acc.expected
             e1 == acc1.expected
             k == KeyOf(c, i)
  <1>1. /\ \A j \in 1..i : j \in 1..(i - 1) \/ j = i
        /\ i \in 1..n /\ acc.ready \subseteq 1..n /\ i \notin acc.ready
    BY DEF ExtractedBasic
  <1>2. CASE /\ acc1.ready = acc.ready /\ acc1.expected = acc.expected
             /\ Fails(nonces, c, acc.expected, i)
    <2>1. ASSUME Passable(c, i), First(nonces, c, i), k \notin DOMAIN e0 PROVE FALSE
      <3>1. k \in DOMAIN e
        BY <1>2, <2>1 DEF Fails, First, ExpectedNonce
      <3>2. PICK j \in acc.ready : KeyOf(c, j) = k /\ First(nonces, c, j)
        BY <2>1, <3>1 DEF ExtractedFirst
      <3>3. NonceOf(c, j) = NonceOf(c, i) /\ NonceOf(c, j) # 0 BY <2>1, <3>2 DEF First
      <3> QED BY <1>1, <3>2, <3>3
    <2> QED BY <1>1, <1>2, <2>1 DEF ExtractedFirst
  <1>3. CASE /\ acc1.ready = acc.ready \cup {i}
             /\ NonceOf(c, i) = 0 /\ acc1.expected = acc.expected
    BY <1>1, <1>3 DEF ExtractedFirst
  <1>4. CASE /\ acc1.ready = acc.ready \cup {i}
             /\ MovesOn(nonces, c, acc.expected, acc1.expected, i)
    <2>1. /\ k \notin DOMAIN e => First(nonces, c, i)
          /\ DOMAIN e1 = DOMAIN e \cup {k}
      <3>1. /\ WellNonced(acc.expected, nonces) /\ NonceOf(c, i) \in Nat
            /\ \A x \in DOMAIN e0 : x \in DOMAIN acc.expected /\ e0[x] <= acc.expected[x]
        BY <1>1 DEF ExtractedBasic
      <3>2. HasMovedOn(e0, nonces, c, acc.expected, acc1.expected, i) BY <1>4, <3>1, MovedOn
      <3> QED BY <3>2 DEF HasMovedOn
    <2> QED BY <1>1, <1>4, <2>1 DEF ExtractedFirst
  <1> QED BY <1>2, <1>3, <1>4, ExtractStep

UniqueNonces(c) ==
    \A h, j \in 1..Len(c.messages) :
        KeyOf(c, h) = KeyOf(c, j) /\ NonceOf(c, h) = NonceOf(c, j) /\ NonceOf(c, h) # 0 => h = j
Extracted(e0, nonces, c, ready, e, n) ==
    /\ ExtractedBasic(e0, nonces, c, ready, e, n)
    /\ ExtractedOrder(e0, nonces, c, ready, e)
    /\ UniqueNonces(c) => ExtractedFirst(e0, nonces, c, ready, e, n)

LEMMA ReadyMessages ==
    ASSUME NEW chains, NEW senders, NEW c \in CommitData(chains, senders),
           NEW nonces, nonces \in [DOMAIN nonces -> Nat], NEW e0, WellNonced(e0, nonces),
           NEW x, x = extractReadyMessages(e0, nonces, c)
    PROVE  Extracted(e0, nonces, c, x.ready, x.expected, Len(c.messages))
  <1>1. PICK n \in Nat : n = Len(c.messages)
    <2>1. c.messages \in Seq(Message(senders)) BY DEF CommitData
    <2> QED BY <2>1
  <1>2. \A i \in 1..n : NonceOf(c, i) \in Nat
    <2>1. c.messages \in Seq(Message(senders)) BY DEF CommitData
    <2>2. \A i \in 1..n : c.messages[i] \in Message(senders) BY <1>1, <2>1
    <2> QED BY <2>2 DEF Message, NonceOf
  <1>3. PICK g : IsExtraction(e0, nonces, c, g, n) /\ x = g[n] BY <1>1, ExtractionIs
  <1>4. e0 \in [DOMAIN e0 -> Nat] BY DEF WellNonced
  <1> DEFINE T == {i \in 0..n : Extracted(e0, nonces, c, g[i].ready, g[i].expected, i)}
  <1>5. 0 \in T
    <2>1. g[0] = [ready |-> {}, expected |-> e0] BY <1>3 DEF IsExtraction
    <2>2. g[0].ready = {} /\ g[0].expected = e0 BY <2>1
    <2>3. \A k \in DOMAIN e0 : e0[k] <= e0[k] BY <1>4
    <2>4. ExtractedBasic(e0, nonces, c, {}, e0, 0) BY <2>3 DEF ExtractedBasic
    <2>5. ExtractedOrder(e0, nonces, c, {}, e0) BY DEF ExtractedOrder
    <2>6. ExtractedFirst(e0, nonces, c, {}, e0, 0) BY DEF ExtractedFirst
    <2>7. Extracted(e0, nonces, c, {}, e0, 0) BY <2>4, <2>5, <2>6 DEF Extracted
    <2> QED BY <2>2, <2>7
  <1>6. ASSUME NEW i \in 1..n, i - 1 \in T PROVE i \in T
    <2>1. g[i] = extractMessage(nonces, c, g[i - 1], i)
      <3>1. i \in 0..n /\ i # 0 OBVIOUS
      <3> HIDE DEF T
      <3> QED BY <1>3, <3>1 DEF IsExtraction
    <2>2. Extracted(e0, nonces, c, g[i - 1].ready, g[i - 1].expected, i - 1) BY <1>6
    <2>3. i \in Nat \ {0} /\ i <= n /\ NonceOf(c, i) \in Nat
          /\ \A j \in 1..i : NonceOf(c, j) \in Nat
      BY <1>2
    <2>4. ExtractedBasic(e0, nonces, c, g[i].ready, g[i].expected, i)
      BY <1>4, <2>1, <2>2, <2>3, ExtractedBasicStep DEF Extracted
    <2>5. ExtractedOrder(e0, nonces, c, g[i].ready, g[i].expected)
      BY <1>4, <2>1, <2>2, <2>3, ExtractedOrderStep DEF Extracted
    <2>6. ASSUME UniqueNonces(c)
          PROVE  ExtractedFirst(e0, nonces, c, g[i].ready, g[i].expected, i)
      <3>1. \A h, j \in 1..n : KeyOf(c, h) = KeyOf(c, j) /\ NonceOf(c, h) = NonceOf(c, j)
                                /\ NonceOf(c, h) # 0 => h = j
        BY <1>1, <2>6 DEF UniqueNonces
      <3> QED BY <1>2, <1>4, <2>1, <2>2, <2>3, <2>6, <3>1, ExtractedFirstStep DEF Extracted
    <2> QED BY <2>4, <2>5, <2>6 DEF Extracted
  <1> HIDE DEF T
  <1>7. 0..n \subseteq T BY <1>5, <1>6, UpToN
  <1>8. Extracted(e0, nonces, c, g[n].ready, g[n].expected, n) BY <1>7 DEF T
  <1> QED BY <1>1, <1>3, <1>8

-----------------------------------------------------------------------------
(* The choice among them.                                                  *)

IsTaking(settings, used, c, ready, g, n) ==
    g = [i \in 0..n |-> IF i = 0 THEN {}
                        ELSE takeMessage(settings, used, c, ready, g[i - 1], i)]

LEMMA TakingExists ==
    ASSUME NEW settings, NEW used, NEW c, NEW ready, NEW n \in Nat
    PROVE  \E g : IsTaking(settings, used, c, ready, g, n)
  <1> DEFINE T == {k \in 0..n : \E g : IsTaking(settings, used, c, ready, g, k)}
  <1>1. 0 \in T
    <2>1. IsTaking(settings, used, c, ready, [i \in 0..0 |-> {}], 0) BY DEF IsTaking
    <2> QED BY <2>1
  <1>2. ASSUME NEW k \in 1..n, k - 1 \in T PROVE k \in T
    <2>1. PICK g : IsTaking(settings, used, c, ready, g, k - 1) BY <1>2
    <2> DEFINE step(f, i) == IF i = 0 THEN {}
                             ELSE takeMessage(settings, used, c, ready, f[i - 1], i)
               h == [i \in 0..k |-> IF i = k THEN step(g, k) ELSE g[i]]
    <2>2. IsTaking(settings, used, c, ready, h, k)
      <3>1. g = [i \in 0..(k - 1) |-> step(g, i)] BY <2>1 DEF IsTaking
      <3>2. /\ h = [i \in 0..k |-> h[i]] /\ \A i \in 0..(k - 1) : h[i] = g[i]
            /\ h[k] = step(g, k)
        OBVIOUS
      <3>3. \A i \in 0..k : i = 0 \/ i - 1 \in 0..(k - 1) OBVIOUS
      <3>4. \A i \in 0..k : step(h, i) = step(g, i) BY <3>2, <3>3
      <3> HIDE DEF h, step
      <3>5. \A i \in 0..k : h[i] = step(h, i)
        <4>1. \A i \in 0..(k - 1) : g[i] = step(g, i) BY <3>1
        <4>2. \A i \in 0..k : i = k \/ i \in 0..(k - 1) OBVIOUS
        <4> QED BY <3>2, <3>4, <4>1, <4>2
      <3>6. h = [i \in 0..k |-> step(h, i)] BY <3>2, <3>5
      <3> QED BY <3>6 DEF IsTaking, step
    <2> QED BY <2>2
  <1> HIDE DEF T
  <1>3. 0..n \subseteq T BY <1>1, <1>2, UpToN
  <1> QED BY <1>3 DEF T

LEMMA TakingIs ==
    ASSUME NEW settings, NEW used, NEW c, NEW ready, Len(c.messages) \in Nat
    PROVE  \E g : /\ IsTaking(settings, used, c, ready, g, Len(c.messages))
                  /\ takeOneByOne(settings, used, c, ready) = g[Len(c.messages)]
  <1>1. \E g : IsTaking(settings, used, c, ready, g, Len(c.messages)) BY TakingExists
  <1> QED BY <1>1 DEF takeOneByOne, IsTaking

\* What is chosen is ready and fits, and if nothing is, then nothing that is
\* ready fits even alone.
Taken(settings, used, c, ready, S, n) ==
    /\ S \subseteq ready
    /\ S # {} => fits(settings, used, c, S)
    /\ S = {} => \A i \in ready : i <= n => ~fits(settings, used, c, {i})

LEMMA SingleChainReport ==
    ASSUME NEW chains, NEW senders, NEW c \in CommitData(chains, senders),
           NEW settings \in BuilderSetting, NEW used,
           NEW ready \in SUBSET (1..Len(c.messages)), NEW S,
           S = buildSingleChainReport(settings, used, c, ready)
    PROVE  Taken(settings, used, c, ready, S, Len(c.messages))
  <1>1. PICK n \in Nat : n = Len(c.messages)
    <2>1. c.messages \in Seq(Message(senders)) BY DEF CommitData
    <2> QED BY <2>1
  <1>2. settings.maxMessages \in Nat BY DEF BuilderSetting
  <1>3. CASE settings.maxMessages = 0 /\ fits(settings, used, c, ready)
    <2>1. S = ready BY <1>3 DEF buildSingleChainReport
    <2> QED BY <1>3, <2>1 DEF Taken
  <1>4. CASE ~(settings.maxMessages = 0 /\ fits(settings, used, c, ready))
    <2>1. S = takeOneByOne(settings, used, c, ready) BY <1>4 DEF buildSingleChainReport
    <2>2. PICK g : IsTaking(settings, used, c, ready, g, n) /\ S = g[n]
      BY <1>1, <2>1, TakingIs
    <2> DEFINE T == {i \in 0..n : Taken(settings, used, c, ready, g[i], i)}
    <2>3. 0 \in T
      <3>1. g[0] = {} BY <2>2 DEF IsTaking
      <3>2. \A i \in ready : ~(i <= 0) OBVIOUS
      <3> QED BY <3>1, <3>2 DEF Taken
    <2>4. ASSUME NEW i \in 1..n, i - 1 \in T PROVE i \in T
      <3>1. g[i] = takeMessage(settings, used, c, ready, g[i - 1], i)
        <4>1. i \in 0..n /\ i # 0 OBVIOUS
        <4> HIDE DEF T
        <4> QED BY <2>2, <4>1 DEF IsTaking
      <3>2. Taken(settings, used, c, ready, g[i - 1], i - 1) BY <2>4
      <3>3. \A j \in ready : j <= i => j <= i - 1 \/ j = i BY <1>1
      <3>4. ASSUME g[i - 1] = {} PROVE ~atLimit(settings, g[i - 1])
        <4>1. Cardinality(g[i - 1]) = 0 BY <3>4, FS_EmptySet
        <4> QED BY <1>2, <4>1 DEF atLimit
      <3>5. {} \cup {i} = {i} OBVIOUS
      <3> HIDE DEF T
      <3>6. Taken(settings, used, c, ready, g[i], i)
        BY <3>1, <3>2, <3>3, <3>4, <3>5 DEF Taken, takeMessage
      <3> QED BY <3>6 DEF T
    <2> HIDE DEF T
    <2>5. 0..n \subseteq T BY <2>3, <2>4, UpToN
    <2>6. Taken(settings, used, c, ready, g[n], n) BY <2>5 DEF T
    <2> QED BY <1>1, <2>2, <2>6
  <1> QED BY <1>3, <1>4

-----------------------------------------------------------------------------
(* Where the messages are.                                                 *)

LEMMA PlaceIs ==
    ASSUME NEW R, NEW p
    PROVE  p \in Places(R) <=>
              \E r \in DOMAIN R : \E i \in DOMAIN R[r] : \E j \in DOMAIN R[r][i].messages :
                  p = <<r, i, j>>
  BY DEF Places

LEMMA PlaceIntro ==
    ASSUME NEW R, NEW p, p = <<p[1], p[2], p[3]>>, p[1] \in DOMAIN R, p[2] \in DOMAIN R[p[1]],
           p[3] \in DOMAIN R[p[1]][p[2]].messages
    PROVE  p \in Places(R)
  <1>1. PICK r, i, j : r = p[1] /\ i = p[2] /\ j = p[3] OBVIOUS
  <1>2. /\ r \in DOMAIN R /\ i \in DOMAIN R[r] /\ j \in DOMAIN R[r][i].messages
        /\ p = <<r, i, j>>
    BY <1>1
  <1> QED BY <1>2, PlaceIs

Parts(chains, senders, R, p) ==
    /\ p = <<p[1], p[2], p[3]>>
    /\ p[1] \in 1..Len(R) /\ p[2] \in 1..Len(R[p[1]])
    /\ p[3] \in 1..Len(R[p[1]][p[2]].messages)
    /\ p[1] \in Nat /\ p[2] \in Nat /\ p[3] \in Nat
    /\ MessageAt(R, p) \in Message(senders) /\ ChainAt(R, p) \in chains

LEMMA PlaceParts ==
    ASSUME NEW chains, NEW senders, NEW R \in Seq(Seq(ChainReport(chains, senders))),
           NEW p \in Places(R)
    PROVE  Parts(chains, senders, R, p)
  <1>1. PICK r \in DOMAIN R : \E i \in DOMAIN R[r] : \E j \in DOMAIN R[r][i].messages :
           p = <<r, i, j>>
    BY PlaceIs
  <1>2. PICK i \in DOMAIN R[r] : \E j \in DOMAIN R[r][i].messages : p = <<r, i, j>> BY <1>1
  <1>3. PICK j \in DOMAIN R[r][i].messages : p = <<r, i, j>> BY <1>2
  <1>4. p[1] = r /\ p[2] = i /\ p[3] = j BY <1>3
  <1>5. r \in 1..Len(R) /\ R[r] \in Seq(ChainReport(chains, senders)) OBVIOUS
  <1>6. i \in 1..Len(R[r]) /\ R[r][i] \in ChainReport(chains, senders) BY <1>5
  <1>7. R[r][i].messages \in Seq(Message(senders)) /\ R[r][i].chain \in chains
    BY <1>6 DEF ChainReport
  <1>8. j \in 1..Len(R[r][i].messages) /\ R[r][i].messages[j] \in Message(senders)
    BY <1>7
  <1>9. MessageAt(R, p) = R[r][i].messages[j] /\ ChainAt(R, p) = R[r][i].chain
    BY <1>4 DEF MessageAt, ChainAt
  <1>10. r \in Nat /\ i \in Nat /\ j \in Nat BY <1>5, <1>6, <1>7, <1>8
  <1> QED BY <1>3, <1>4, <1>5, <1>6, <1>7, <1>8, <1>9, <1>10 DEF Parts

\* What was in R stays where it is in R1.
Kept(R, R1) ==
    \A p \in Places(R) : /\ p \in Places(R1)
                         /\ MessageAt(R1, p) = MessageAt(R, p)
                         /\ ChainAt(R1, p) = ChainAt(R, p)

\* What is new in R1 is msgs, in order, behind all that was there.
NewPlaces(R, R1) == {p \in Places(R1) : p \notin Places(R)}
Added(R, R1, chain, msgs) ==
    /\ \A q \in NewPlaces(R, R1) :
          /\ ChainAt(R1, q) = chain /\ q[3] \in 1..Len(msgs) /\ MessageAt(R1, q) = msgs[q[3]]
          /\ \A p \in Places(R) : ~Earlier(q, p)
          /\ \A p \in NewPlaces(R, R1) : /\ Earlier(p, q) => p[3] < q[3]
                                         /\ p[3] = q[3] => p = q
    /\ \A j \in 1..Len(msgs) : \E q \in NewPlaces(R, R1) : MessageAt(R1, q) = msgs[j]

AppendLast(R, cr) == [R EXCEPT ![Len(R)] = Append(@, cr)]

LEMMA AppendKeeps ==
    ASSUME NEW chains, NEW senders, NEW R \in Seq(Seq(ChainReport(chains, senders))),
           Len(R) # 0, NEW cr \in ChainReport(chains, senders)
    PROVE  /\ AppendLast(R, cr) \in Seq(Seq(ChainReport(chains, senders)))
           /\ Len(AppendLast(R, cr)) = Len(R)
           /\ AppendLast(R, cr)[Len(R)] = Append(R[Len(R)], cr)
           /\ \A r \in 1..Len(R) : r # Len(R) => AppendLast(R, cr)[r] = R[r]
           /\ Kept(R, AppendLast(R, cr))
           /\ Added(R, AppendLast(R, cr), cr.chain, cr.messages)
  <1>0. PICK n \in Nat \ {0} : n = Len(R) OBVIOUS
  <1>a. PICK R1 : R1 = AppendLast(R, cr) OBVIOUS
  <1>b. R1 = [R EXCEPT ![n] = Append(@, cr)] BY <1>0, <1>a DEF AppendLast
  <1>1. n \in 1..n /\ R[n] \in Seq(ChainReport(chains, senders)) BY <1>0
  <1>2. PICK m \in Nat : m = Len(R[n]) BY <1>1
  <1>3. /\ Append(R[n], cr) \in Seq(ChainReport(chains, senders))
        /\ Len(Append(R[n], cr)) = m + 1
        /\ \A i \in 1..m : Append(R[n], cr)[i] = R[n][i]
        /\ Append(R[n], cr)[m + 1] = cr
    BY <1>1, <1>2
  <1>4. /\ R1 \in Seq(Seq(ChainReport(chains, senders))) /\ Len(R1) = n
        /\ R1[n] = Append(R[n], cr) /\ \A r \in 1..n : r # n => R1[r] = R[r]
    BY <1>0, <1>b, <1>3
  <1>5. /\ Len(R1[n]) = m + 1 /\ R1[n][m + 1] = cr
        /\ \A i \in 1..m : R1[n][i] = R[n][i]
        /\ R1[n] \in Seq(ChainReport(chains, senders))
    BY <1>3, <1>4
  <1>6. cr.messages \in Seq(Message(senders)) BY DEF ChainReport
  <1>7. ASSUME NEW p \in Places(R)
        PROVE  /\ p \in Places(R1) /\ R1[p[1]][p[2]] = R[p[1]][p[2]]
               /\ ~(p[1] = n /\ p[2] = m + 1) /\ p[1] <= n /\ (p[1] = n => p[2] <= m)
               /\ p[1] \in Nat /\ p[2] \in Nat /\ p[3] \in Nat
    <2>1. /\ p = <<p[1], p[2], p[3]>>
          /\ p[1] \in 1..n /\ p[2] \in 1..Len(R[p[1]])
          /\ p[3] \in 1..Len(R[p[1]][p[2]].messages)
          /\ p[1] \in Nat /\ p[2] \in Nat /\ p[3] \in Nat
      <3>1. Parts(chains, senders, R, p) BY PlaceParts
      <3> QED BY <1>0, <3>1 DEF Parts
    <2>2. R1[p[1]][p[2]] = R[p[1]][p[2]] /\ p[2] \in DOMAIN R1[p[1]]
      <3>1. CASE p[1] = n
        <4>1. p[2] \in 1..m /\ p[2] \in 1..(m + 1) BY <1>2, <2>1, <3>1
        <4> QED BY <1>5, <3>1, <4>1
      <3>2. CASE p[1] # n
        <4>1. R1[p[1]] = R[p[1]] /\ R[p[1]] \in Seq(ChainReport(chains, senders))
          BY <1>0, <1>4, <2>1, <3>2
        <4> QED BY <2>1, <4>1
      <3> QED BY <3>1, <3>2
    <2>3. R[p[1]][p[2]] \in ChainReport(chains, senders)
      <3>1. R[p[1]] \in Seq(ChainReport(chains, senders)) BY <1>0, <2>1
      <3> QED BY <2>1, <3>1
    <2>4. R[p[1]][p[2]].messages \in Seq(Message(senders)) BY <2>3 DEF ChainReport
    <2>5. p[3] \in DOMAIN R1[p[1]][p[2]].messages BY <2>1, <2>2, <2>4
    <2>6. p[1] \in DOMAIN R1 BY <1>4, <2>1
    <2>7. p \in Places(R1) BY <2>1, <2>2, <2>5, <2>6, PlaceIntro
    <2>8. p[1] <= n /\ (p[1] = n => p[2] <= m) BY <1>2, <2>1
    <2> QED BY <2>1, <2>2, <2>7, <2>8
  <1>8. Kept(R, R1) BY <1>7 DEF Kept, MessageAt, ChainAt
  <1>9. ASSUME NEW q \in NewPlaces(R, R1)
        PROVE  /\ q = <<n, m + 1, q[3]>> /\ q[1] = n /\ q[2] = m + 1
               /\ q[3] \in 1..Len(cr.messages) /\ q[3] \in Nat
               /\ R1[q[1]][q[2]] = cr
    <2>1. q \in Places(R1) /\ q \notin Places(R) BY DEF NewPlaces
    <2>2. /\ q = <<q[1], q[2], q[3]>>
          /\ q[1] \in 1..n /\ q[2] \in 1..Len(R1[q[1]])
          /\ q[3] \in 1..Len(R1[q[1]][q[2]].messages)
          /\ q[1] \in Nat /\ q[2] \in Nat /\ q[3] \in Nat
      <3>1. Parts(chains, senders, R1, q) BY <1>4, <2>1, PlaceParts
      <3> QED BY <1>4, <3>1 DEF Parts
    <2>3. ASSUME ~(q[1] = n /\ q[2] = m + 1) PROVE FALSE
      <3>1. /\ R1[q[1]][q[2]] = R[q[1]][q[2]] /\ q[2] \in DOMAIN R[q[1]]
            /\ R[q[1]][q[2]] \in ChainReport(chains, senders)
        <4>1. CASE q[1] = n
          <5>0. q[2] \in 1..(m + 1) /\ q[2] # m + 1 BY <1>5, <2>2, <2>3, <4>1
          <5>1. q[2] \in 1..m BY <5>0
          <5> QED BY <1>1, <1>2, <1>5, <4>1, <5>1
        <4>2. CASE q[1] # n
          <5>1. R1[q[1]] = R[q[1]] /\ R[q[1]] \in Seq(ChainReport(chains, senders))
            BY <1>0, <1>4, <2>2, <4>2
          <5> QED BY <2>2, <5>1
        <4> QED BY <4>1, <4>2
      <3>2. R[q[1]][q[2]].messages \in Seq(Message(senders)) BY <3>1 DEF ChainReport
      <3>3. q[3] \in DOMAIN R[q[1]][q[2]].messages BY <2>2, <3>1, <3>2
      <3>4. q[1] \in DOMAIN R BY <1>0, <2>2
      <3>5. q \in Places(R) BY <2>2, <3>1, <3>3, <3>4, PlaceIntro
      <3> QED BY <2>1, <3>5
    <2>4. R1[q[1]][q[2]] = cr BY <1>5, <2>3
    <2> QED BY <2>2, <2>3, <2>4
  <1>10. ASSUME NEW j \in 1..Len(cr.messages)
         PROVE  <<n, m + 1, j>> \in NewPlaces(R, R1)
    <2>1. n \in DOMAIN R1 /\ m + 1 \in DOMAIN R1[n] /\ j \in DOMAIN R1[n][m + 1].messages
      BY <1>4, <1>5, <1>6
    <2>2. <<n, m + 1, j>> \in Places(R1) BY <2>1, PlaceIs
    <2>3. PICK p : p = <<n, m + 1, j>> OBVIOUS
    <2>4. p[1] = n /\ p[2] = m + 1 BY <2>3
    <2>5. p \notin Places(R) BY <1>7, <2>4
    <2> QED BY <2>2, <2>3, <2>5 DEF NewPlaces
  <1>11. ASSUME NEW q \in NewPlaces(R, R1)
         PROVE  /\ ChainAt(R1, q) = cr.chain /\ q[3] \in 1..Len(cr.messages)
                /\ MessageAt(R1, q) = cr.messages[q[3]]
                /\ \A p \in Places(R) : ~Earlier(q, p)
                /\ \A p \in NewPlaces(R, R1) : /\ Earlier(p, q) => p[3] < q[3]
                                               /\ p[3] = q[3] => p = q
    <2>1. /\ ChainAt(R1, q) = cr.chain /\ q[3] \in 1..Len(cr.messages)
          /\ MessageAt(R1, q) = cr.messages[q[3]]
      BY <1>9 DEF ChainAt, MessageAt
    <2>2. ASSUME NEW p \in Places(R), Earlier(q, p) PROVE FALSE
      <3>1. /\ p[1] <= n /\ (p[1] = n => p[2] <= m) /\ p[1] \in Nat /\ p[2] \in Nat
        BY <1>7
      <3>2. q[1] = n /\ q[2] = m + 1 BY <1>9
      <3>3. ~(n < p[1]) /\ (n = p[1] => ~(m + 1 < p[2]) /\ ~(m + 1 = p[2])) BY <3>1
      <3> QED BY <2>2, <3>2, <3>3 DEF Earlier
    <2>3. ASSUME NEW p \in NewPlaces(R, R1)
          PROVE  (Earlier(p, q) => p[3] < q[3]) /\ (p[3] = q[3] => p = q)
      <3>1. /\ p[1] = n /\ p[2] = m + 1 /\ q[1] = n /\ q[2] = m + 1
            /\ p = <<n, m + 1, p[3]>> /\ q = <<n, m + 1, q[3]>>
        BY <1>9
      <3>2. ~(n < n) /\ ~(m + 1 < m + 1) OBVIOUS
      <3> QED BY <3>1, <3>2 DEF Earlier
    <2> QED BY <2>1, <2>2, <2>3
  <1>12. ASSUME NEW j \in 1..Len(cr.messages)
         PROVE  \E q \in NewPlaces(R, R1) : MessageAt(R1, q) = cr.messages[j]
    <2>1. PICK q \in NewPlaces(R, R1) : q = <<n, m + 1, j>> BY <1>10
    <2>2. q[3] = j BY <2>1
    <2> QED BY <1>11, <2>2
  <1>13. Added(R, R1, cr.chain, cr.messages) BY <1>11, <1>12 DEF Added
  <1> QED BY <1>0, <1>a, <1>4, <1>8, <1>13

LEMMA EmptyReportKeeps ==
    ASSUME NEW chains, NEW senders, NEW R \in Seq(Seq(ChainReport(chains, senders)))
    PROVE  /\ Append(R, <<>>) \in Seq(Seq(ChainReport(chains, senders)))
           /\ Kept(R, Append(R, <<>>)) /\ NewPlaces(R, Append(R, <<>>)) = {}
  <1>0. PICK n \in Nat : n = Len(R) OBVIOUS
  <1> DEFINE R1 == Append(R, <<>>)
  <1>1. <<>> \in Seq(ChainReport(chains, senders)) OBVIOUS
  <1>2. /\ R1 \in Seq(Seq(ChainReport(chains, senders))) /\ Len(R1) = n + 1
        /\ R1[n + 1] = <<>> /\ \A r \in 1..n : R1[r] = R[r]
    BY <1>0, <1>1
  <1> HIDE DEF R1
  <1>3. ASSUME NEW p \in Places(R)
        PROVE  p \in Places(R1) /\ R1[p[1]] = R[p[1]]
    <2>1. Parts(chains, senders, R, p) BY PlaceParts
    <2>2. /\ p = <<p[1], p[2], p[3]>> /\ p[1] \in 1..n /\ p[2] \in 1..Len(R[p[1]])
          /\ p[3] \in 1..Len(R[p[1]][p[2]].messages)
      BY <1>0, <2>1 DEF Parts
    <2>3. R1[p[1]] = R[p[1]] /\ p[1] \in DOMAIN R1 BY <1>2, <2>2
    <2>4. R[p[1]] \in Seq(ChainReport(chains, senders)) BY <1>0, <2>2
    <2>5. R[p[1]][p[2]] \in ChainReport(chains, senders) /\ p[2] \in DOMAIN R1[p[1]]
      BY <2>2, <2>3, <2>4
    <2>6. R[p[1]][p[2]].messages \in Seq(Message(senders)) BY <2>5 DEF ChainReport
    <2>7. p[3] \in DOMAIN R1[p[1]][p[2]].messages BY <2>2, <2>3, <2>6
    <2> QED BY <2>2, <2>3, <2>5, <2>7, PlaceIntro
  <1>4. Kept(R, R1) BY <1>3 DEF Kept, MessageAt, ChainAt
  <1>5. ASSUME NEW q \in Places(R1) PROVE q \in Places(R)
    <2>1. Parts(chains, senders, R1, q) BY <1>2, PlaceParts
    <2>2. /\ q = <<q[1], q[2], q[3]>> /\ q[1] \in 1..(n + 1) /\ q[2] \in 1..Len(R1[q[1]])
          /\ q[3] \in 1..Len(R1[q[1]][q[2]].messages)
      BY <1>2, <2>1 DEF Parts
    <2>3. q[1] # n + 1
      <3>1. Len(<<>>) = 0 /\ 1..0 = {} OBVIOUS
      <3> QED BY <1>2, <2>2, <3>1
    <2>4. q[1] \in 1..n BY <2>2, <2>3
    <2>5. R1[q[1]] = R[q[1]] /\ q[1] \in DOMAIN R BY <1>0, <1>2, <2>4
    <2>6. R[q[1]] \in Seq(ChainReport(chains, senders)) BY <1>0, <2>4
    <2>7. R[q[1]][q[2]] \in ChainReport(chains, senders) /\ q[2] \in DOMAIN R[q[1]]
      BY <2>2, <2>5, <2>6
    <2>8. R[q[1]][q[2]].messages \in Seq(Message(senders)) BY <2>7 DEF ChainReport
    <2>9. q[3] \in DOMAIN R[q[1]][q[2]].messages BY <2>2, <2>5, <2>8
    <2> QED BY <2>2, <2>5, <2>7, <2>9, PlaceIntro
  <1> QED BY <1>2, <1>4, <1>5 DEF NewPlaces, R1

IsStart(chains, senders, R, R1, n) ==
    /\ R1 \in Seq(Seq(ChainReport(chains, senders))) /\ Len(R1) = n
    /\ \A r \in 1..n : R1[r] = R[r]
    /\ Kept(R1, R) /\ (n = Len(R) => R1 = R)

LEMMA PrefixKeeps ==
    ASSUME NEW chains, NEW senders, NEW R \in Seq(Seq(ChainReport(chains, senders))),
           NEW n \in Nat, n <= Len(R), NEW R1, R1 = SubSeq(R, 1, n)
    PROVE  IsStart(chains, senders, R, R1, n)
  <1>1. /\ R1 \in Seq(Seq(ChainReport(chains, senders))) /\ Len(R1) = n
        /\ \A r \in 1..n : R1[r] = R[r]
    OBVIOUS
  <1>2. n = Len(R) => R1 = R OBVIOUS
  <1>3. ASSUME NEW p \in Places(R1)
        PROVE  p \in Places(R) /\ R1[p[1]] = R[p[1]]
    <2>1. Parts(chains, senders, R1, p) BY <1>1, PlaceParts
    <2>2. /\ p = <<p[1], p[2], p[3]>> /\ p[1] \in 1..n /\ p[2] \in 1..Len(R1[p[1]])
          /\ p[3] \in 1..Len(R1[p[1]][p[2]].messages)
      BY <1>1, <2>1 DEF Parts
    <2>3. R1[p[1]] = R[p[1]] /\ p[1] \in DOMAIN R BY <1>1, <2>2
    <2>4. R1[p[1]] \in Seq(ChainReport(chains, senders)) BY <1>1, <2>2
    <2>5. R1[p[1]][p[2]] \in ChainReport(chains, senders) /\ p[2] \in DOMAIN R[p[1]]
      BY <2>2, <2>3, <2>4
    <2>6. R1[p[1]][p[2]].messages \in Seq(Message(senders)) BY <2>5 DEF ChainReport
    <2>7. p[3] \in DOMAIN R[p[1]][p[2]].messages BY <2>2, <2>3, <2>6
    <2> QED BY <2>2, <2>3, <2>5, <2>7, PlaceIntro
  <1>4. Kept(R1, R) BY <1>3 DEF Kept, MessageAt, ChainAt
  <1> QED BY <1>1, <1>2, <1>4 DEF IsStart

-----------------------------------------------------------------------------
(* The invariant of the builder that needs nothing of its inputs but their *)
(* types: the budgets, and that every message placed comes from a complete *)
(* commit report of those offered and passed its checks.                   *)

BuilderType(chains, senders, b) ==
    /\ b = [expected |-> b.expected, reports |-> b.reports, used |-> b.used]
    /\ b.reports \in Seq(Seq(ChainReport(chains, senders))) /\ Len(b.reports) \in Nat \ {0}
    /\ b.used \in Seq(Nat) /\ Len(b.used) = Len(b.reports)

WithinBudget(settings, report, used) ==
    /\ used = Gas(report) /\ used <= settings.maxGas
    /\ settings.maxSingleChainReports # 0 => Len(report) <= settings.maxSingleChainReports
    /\ \A i \in 1..Len(report) : Len(report[i].messages) # 0
Budgets(settings, b) ==
    /\ \A r \in 1..Len(b.reports) : WithinBudget(settings, b.reports[r], b.used[r])
    /\ ~settings.multipleReportsEnabled => Len(b.reports) = 1

FromReport(R, p, c, i) ==
    /\ i \in 1..Len(c.messages) /\ Passable(c, i) /\ c.complete
    /\ ChainAt(R, p) = c.chain /\ MessageAt(R, p) = c.messages[i]
Sourced(O, R) == \A p \in Places(R) : \E c \in O : \E i \in 1..Len(c.messages) : FromReport(R, p, c, i)

Basic(chains, senders, settings, nonces, O, b) ==
    /\ BuilderType(chains, senders, b) /\ Budgets(settings, b)
    /\ Sourced(O, b.reports) /\ WellNonced(b.expected, nonces)

LEMMA GasAppend ==
    ASSUME NEW chains, NEW senders, NEW report \in Seq(ChainReport(chains, senders)),
           NEW cr \in ChainReport(chains, senders)
    PROVE  Gas(Append(report, cr)) = Gas(report) + cost(cr.messages)
  <1>1. PICK n \in Nat : n = Len(report) OBVIOUS
  <1>2. PICK longer : longer = Append(report, cr) OBVIOUS
  <1>3. Len(longer) = n + 1 /\ longer[n + 1] = cr /\ \A i \in 1..n : longer[i] = report[i]
    BY <1>1, <1>2
  <1> DEFINE s == [i \in 1..(n + 1) |-> cost(longer[i].messages)]
             t == [i \in 1..n |-> cost(report[i].messages)]
  <1>4. Len(s) = n + 1 /\ Len(t) = n /\ s[n + 1] = cost(cr.messages) BY <1>3
  <1>5. \A i \in 1..n : t[i] = s[i] BY <1>3
  <1>6. Gas(longer) = Sum(s) /\ Gas(report) = Sum(t) BY <1>1, <1>3 DEF Gas
  <1> HIDE DEF s, t
  <1>7. Sum(s) = Sum(t) + s[n + 1] BY <1>4, <1>5, SumAppend
  <1> QED BY <1>2, <1>4, <1>6, <1>7

LEMMA GasEmpty == Gas(<<>>) = 0
  <1> DEFINE s == [i \in 1..Len(<<>>) |-> cost(<<>>[i].messages)]
  <1>1. Len(s) = 0 OBVIOUS
  <1> HIDE DEF s
  <1>2. Sum(s) = 0 BY <1>1, SumEmpty
  <1> QED BY <1>2 DEF Gas, s

LEMMA KeptSourced ==
    ASSUME NEW O, NEW R, NEW R1, Sourced(O, R), Kept(R, R1), NewPlaces(R, R1) = {}
    PROVE  Sourced(O, R1)
  <1> SUFFICES ASSUME NEW p \in Places(R1)
               PROVE  \E c \in O : \E i \in 1..Len(c.messages) : FromReport(R1, p, c, i)
    BY DEF Sourced
  <1>1. p \in Places(R) BY DEF NewPlaces
  <1>2. MessageAt(R1, p) = MessageAt(R, p) /\ ChainAt(R1, p) = ChainAt(R, p)
    BY <1>1 DEF Kept
  <1>3. PICK c \in O : \E i \in 1..Len(c.messages) : FromReport(R, p, c, i)
    BY <1>1 DEF Sourced
  <1>4. PICK i \in 1..Len(c.messages) : FromReport(R, p, c, i) BY <1>3
  <1> QED BY <1>2, <1>4 DEF FromReport

LEMMA KeptBack ==
    ASSUME NEW O, NEW R, NEW R1, Sourced(O, R1), Kept(R, R1)
    PROVE  Sourced(O, R)
  <1> SUFFICES ASSUME NEW p \in Places(R)
               PROVE  \E c \in O : \E i \in 1..Len(c.messages) : FromReport(R, p, c, i)
    BY DEF Sourced
  <1>1. /\ p \in Places(R1) /\ MessageAt(R1, p) = MessageAt(R, p)
        /\ ChainAt(R1, p) = ChainAt(R, p)
    BY DEF Kept
  <1>2. PICK c \in O : \E i \in 1..Len(c.messages) : FromReport(R1, p, c, i)
    BY <1>1 DEF Sourced
  <1>3. PICK i \in 1..Len(c.messages) : FromReport(R1, p, c, i) BY <1>2
  <1> QED BY <1>1, <1>3 DEF FromReport

IsFresh(chains, senders, settings, nonces, O, b, b1) ==
    /\ Basic(chains, senders, settings, nonces, O, b1)
    /\ Kept(b.reports, b1.reports) /\ NewPlaces(b.reports, b1.reports) = {}
    /\ b1.expected = b.expected /\ Len(b1.reports) = Len(b.reports) + 1
    /\ b1.reports[Len(b1.reports)] = <<>> /\ b1.used[Len(b1.used)] = 0

LEMMA NewReport ==
    ASSUME NEW chains, NEW senders, NEW settings \in BuilderSetting, NEW nonces, NEW O,
           NEW b, Basic(chains, senders, settings, nonces, O, b),
           settings.multipleReportsEnabled, NEW b1, b1 = createNewExecReport(b)
    PROVE  IsFresh(chains, senders, settings, nonces, O, b, b1)
  <1>1. /\ BuilderType(chains, senders, b) /\ Budgets(settings, b) /\ Sourced(O, b.reports)
        /\ WellNonced(b.expected, nonces)
    BY DEF Basic
  <1>2. PICK n \in Nat \ {0} : n = Len(b.reports) BY <1>1 DEF BuilderType
  <1>3. /\ b1.expected = b.expected /\ b1.reports = Append(b.reports, <<>>)
        /\ b1.used = Append(b.used, 0)
        /\ b1 = [expected |-> b1.expected, reports |-> b1.reports, used |-> b1.used]
    BY <1>1 DEF createNewExecReport, BuilderType
  <1>4. /\ b1.reports \in Seq(Seq(ChainReport(chains, senders))) /\ Len(b1.reports) = n + 1
        /\ b1.reports[n + 1] = <<>> /\ \A r \in 1..n : b1.reports[r] = b.reports[r]
        /\ Kept(b.reports, b1.reports) /\ NewPlaces(b.reports, b1.reports) = {}
    <2>1. b.reports \in Seq(Seq(ChainReport(chains, senders))) BY <1>1 DEF BuilderType
    <2>2. /\ Append(b.reports, <<>>) \in Seq(Seq(ChainReport(chains, senders)))
          /\ Kept(b.reports, Append(b.reports, <<>>))
          /\ NewPlaces(b.reports, Append(b.reports, <<>>)) = {}
      BY <2>1, EmptyReportKeeps
    <2> QED BY <1>2, <1>3, <2>1, <2>2
  <1>5. /\ b1.used \in Seq(Nat) /\ Len(b1.used) = n + 1 /\ b1.used[n + 1] = 0
        /\ \A r \in 1..n : b1.used[r] = b.used[r]
    BY <1>1, <1>2, <1>3 DEF BuilderType
  <1>6. BuilderType(chains, senders, b1) BY <1>3, <1>4, <1>5 DEF BuilderType
  <1>7. WithinBudget(settings, <<>>, 0)
    BY GasEmpty DEF WithinBudget, BuilderSetting
  <1>8. ASSUME NEW r \in 1..(n + 1) PROVE WithinBudget(settings, b1.reports[r], b1.used[r])
    <2>1. CASE r = n + 1 BY <1>4, <1>5, <1>7, <2>1
    <2>2. CASE r \in 1..n
      <3>1. WithinBudget(settings, b.reports[r], b.used[r]) BY <1>1, <1>2, <2>2 DEF Budgets
      <3> QED BY <1>4, <1>5, <2>2, <3>1
    <2> QED BY <2>1, <2>2
  <1>9. Budgets(settings, b1) BY <1>4, <1>8 DEF Budgets
  <1>10. Sourced(O, b1.reports) BY <1>1, <1>4, KeptSourced
  <1> QED BY <1>1, <1>2, <1>3, <1>4, <1>5, <1>6, <1>9, <1>10 DEF Basic, IsFresh

\* c is the commit report c0 with more of its messages marked executed.
Marks(c0, c) ==
    /\ c.chain = c0.chain /\ c.messages = c0.messages /\ c.complete = c0.complete
    /\ c0.executed \subseteq c.executed

ReportAdded(chains, senders, settings, nonces, O, b, b1, c, S) ==
    /\ Basic(chains, senders, settings, nonces, O, b1)
    /\ Kept(b.reports, b1.reports)
    /\ Added(b.reports, b1.reports, c.chain, selectMessages(c, S))
    /\ b1.expected = b.expected /\ Len(b1.reports) = Len(b.reports)

LEMMA ChainReportAdded ==
    ASSUME NEW chains, NEW senders, NEW settings \in BuilderSetting, NEW nonces, NEW O,
           NEW b, Basic(chains, senders, settings, nonces, O, b),
           NEW c \in CommitData(chains, senders), c.complete, NEW c0 \in O, Marks(c0, c),
           NEW S \in SUBSET (1..Len(c.messages)), S # {}, \A i \in S : Passable(c, i),
           fits(settings, b.used[Len(b.used)], c, S), ~shouldCreateNewExecReport(settings, b),
           NEW b1, b1 = appendChainReport(b, c, S)
    PROVE  ReportAdded(chains, senders, settings, nonces, O, b, b1, c, S)
  <1>1. /\ BuilderType(chains, senders, b) /\ Budgets(settings, b) /\ Sourced(O, b.reports)
        /\ WellNonced(b.expected, nonces)
    BY DEF Basic
  <1>2. PICK n \in Nat \ {0} : n = Len(b.reports) BY <1>1 DEF BuilderType
  <1> DEFINE msgs == selectMessages(c, S)
             cr == [chain |-> c.chain, messages |-> msgs]
  <1>3. /\ IsFiniteSet(S) /\ Cardinality(S) \in Nat
        /\ msgs \in Seq(Message(senders)) /\ Len(msgs) = Cardinality(S)
        /\ \A j \in 1..Cardinality(S) : Ascending(S)[j] \in S /\ msgs[j] = c.messages[Ascending(S)[j]]
    BY SelectedMessages
  <1>4. cost(msgs) \in Nat /\ cost(msgs) <= settings.maxGas - b.used[Len(b.used)]
    BY <1>3, CostType DEF fits, verifyReport
  <1>5. cr \in ChainReport(chains, senders) /\ cr.messages = msgs /\ cr.chain = c.chain
    BY <1>3 DEF ChainReport, CommitData
  <1>6. /\ b1.expected = b.expected /\ b1.reports = AppendLast(b.reports, cr)
        /\ b1.used = [b.used EXCEPT ![n] = @ + cost(msgs)]
        /\ b1 = [expected |-> b1.expected, reports |-> b1.reports, used |-> b1.used]
    BY <1>1, <1>2 DEF appendChainReport, BuilderType, AppendLast
  <1> HIDE DEF cr, msgs
  <1>7. /\ b1.reports \in Seq(Seq(ChainReport(chains, senders)))
        /\ Len(b1.reports) = n
        /\ b1.reports[n] = Append(b.reports[n], cr)
        /\ \A r \in 1..n : r # n => b1.reports[r] = b.reports[r]
        /\ Kept(b.reports, b1.reports)
        /\ Added(b.reports, b1.reports, c.chain, msgs)
    <2>1. b.reports \in Seq(Seq(ChainReport(chains, senders))) /\ Len(b.reports) # 0
      BY <1>1 DEF BuilderType
    <2> DEFINE R == b.reports
    <2>2. /\ AppendLast(R, cr) \in Seq(Seq(ChainReport(chains, senders)))
          /\ Len(AppendLast(R, cr)) = Len(R)
          /\ AppendLast(R, cr)[Len(R)] = Append(R[Len(R)], cr)
          /\ \A r \in 1..Len(R) : r # Len(R) => AppendLast(R, cr)[r] = R[r]
          /\ Kept(R, AppendLast(R, cr))
          /\ Added(R, AppendLast(R, cr), cr.chain, cr.messages)
      BY <1>5, <2>1, AppendKeeps
    <2> QED BY <1>2, <1>5, <1>6, <2>2
  <1>8. /\ b.used \in Seq(Nat) /\ Len(b.used) = n /\ b.used[n] \in Nat
    BY <1>1, <1>2 DEF BuilderType
  <1>9. /\ b1.used \in Seq(Nat) /\ Len(b1.used) = n /\ b1.used[n] = b.used[n] + cost(msgs)
        /\ \A r \in 1..n : r # n => b1.used[r] = b.used[r]
    BY <1>4, <1>6, <1>8
  <1>10. BuilderType(chains, senders, b1) BY <1>6, <1>7, <1>9 DEF BuilderType
  <1>11. WithinBudget(settings, b1.reports[n], b1.used[n])
    <2>1. PICK report \in Seq(ChainReport(chains, senders)) : report = b.reports[n]
      BY <1>1, <1>2 DEF BuilderType
    <2>2. WithinBudget(settings, report, b.used[n]) BY <1>1, <1>2, <2>1 DEF Budgets
    <2>3. PICK m \in Nat : m = Len(report) OBVIOUS
    <2>4. /\ Len(Append(report, cr)) = m + 1 /\ Append(report, cr)[m + 1] = cr
          /\ \A i \in 1..m : Append(report, cr)[i] = report[i]
      BY <2>3
    <2>5. Gas(Append(report, cr)) = Gas(report) + cost(msgs) BY <1>5, GasAppend
    <2>6. settings.maxGas \in Nat /\ settings.maxSingleChainReports \in Nat
      BY DEF BuilderSetting
    <2>7. b1.used[n] = Gas(Append(report, cr)) /\ b1.used[n] <= settings.maxGas
      BY <1>4, <1>8, <1>9, <2>2, <2>5, <2>6 DEF WithinBudget
    <2>8. settings.maxSingleChainReports # 0 => m + 1 <= settings.maxSingleChainReports
      BY <1>2, <2>1, <2>3, <2>6 DEF shouldCreateNewExecReport
    <2>9. Len(msgs) # 0 BY <1>3, FS_EmptySet
    <2>10. \A i \in 1..(m + 1) : i \in 1..m \/ i = m + 1 OBVIOUS
    <2>11. \A i \in 1..(m + 1) : Len(Append(report, cr)[i].messages) # 0
      BY <1>5, <2>2, <2>3, <2>4, <2>9, <2>10 DEF WithinBudget
    <2> QED BY <1>7, <2>1, <2>4, <2>7, <2>8, <2>11 DEF WithinBudget
  <1>12. Budgets(settings, b1)
    <2>1. \A r \in 1..n : r # n => WithinBudget(settings, b1.reports[r], b1.used[r])
      BY <1>1, <1>2, <1>7, <1>9 DEF Budgets
    <2>2. ~settings.multipleReportsEnabled => n = 1 BY <1>1, <1>2 DEF Budgets
    <2> QED BY <1>7, <1>11, <2>1, <2>2 DEF Budgets
  <1>13. Sourced(O, b1.reports)
    <2> SUFFICES ASSUME NEW p \in Places(b1.reports)
                 PROVE  \E d \in O : \E i \in 1..Len(d.messages) : FromReport(b1.reports, p, d, i)
      BY DEF Sourced
    <2>1. CASE p \in Places(b.reports)
      <3>1. /\ MessageAt(b1.reports, p) = MessageAt(b.reports, p)
            /\ ChainAt(b1.reports, p) = ChainAt(b.reports, p)
        BY <1>7, <2>1 DEF Kept
      <3>2. PICK d \in O : \E i \in 1..Len(d.messages) : FromReport(b.reports, p, d, i)
        BY <1>1, <2>1 DEF Sourced
      <3>3. PICK i \in 1..Len(d.messages) : FromReport(b.reports, p, d, i) BY <3>2
      <3>4. FromReport(b1.reports, p, d, i) BY <3>1, <3>3 DEF FromReport
      <3> QED BY <3>4
    <2>2. CASE p \in NewPlaces(b.reports, b1.reports)
      <3>1. /\ ChainAt(b1.reports, p) = c.chain /\ p[3] \in 1..Len(msgs)
            /\ MessageAt(b1.reports, p) = msgs[p[3]]
        BY <1>7, <2>2 DEF Added
      <3>2. PICK i \in S : msgs[p[3]] = c.messages[i] BY <1>3, <3>1
      <3>3. i \in 1..Len(c0.messages) /\ Passable(c0, i) /\ c0.complete
        BY DEF Marks, Passable
      <3>4. FromReport(b1.reports, p, c0, i)
        BY <3>1, <3>2, <3>3 DEF FromReport, Marks
      <3> QED BY <3>3, <3>4
    <2> QED BY <2>1, <2>2 DEF NewPlaces
  <1>14. Basic(chains, senders, settings, nonces, O, b1)
    BY <1>1, <1>6, <1>10, <1>12, <1>13 DEF Basic
  <1> QED BY <1>2, <1>6, <1>7, <1>14 DEF msgs, ReportAdded

-----------------------------------------------------------------------------
(* One pass of Add over the commit report c0.                              *)

PassState(chains, senders, settings, nonces, O, c0, s) ==
    /\ s = [b |-> s.b, c |-> s.c, done |-> s.done] /\ s.done \in BOOLEAN
    /\ Basic(chains, senders, settings, nonces, O, s.b)
    /\ s.c \in CommitData(chains, senders) /\ Marks(c0, s.c)

\* The builder b0 that the pass goes on with: the nonces are checked and the
\* reports are the same but for empty ones at the end.
PassBase(chains, senders, settings, nonces, O, s, x, b0) ==
    /\ Basic(chains, senders, settings, nonces, O, b0) /\ b0.expected = x.expected
    /\ Kept(s.b.reports, b0.reports) /\ NewPlaces(s.b.reports, b0.reports) = {}
    /\ Len(s.b.reports) <= Len(b0.reports)

PassStops(settings, s, s1, x, b0) ==
    /\ s1 = [b |-> b0, c |-> s.c, done |-> TRUE]
    /\ \/ x.ready = {} \/ ~s.c.complete
       \/ ~settings.multipleReportsEnabled /\ shouldCreateNewExecReport(settings, s.b)
       \/ Len(b0.reports) > settings.maxReportCount
       \/ /\ buildSingleChainReport(settings, b0.used[Len(b0.used)], s.c, x.ready) = {}
          /\ \/ ~settings.multipleReportsEnabled \/ Len(b0.reports) >= settings.maxReportCount
             \/ buildSingleChainReport(settings, 0, s.c, x.ready) = {}
PassAdds(settings, s, s1, x, b0) ==
    \E S : /\ S = buildSingleChainReport(settings, b0.used[Len(b0.used)], s.c, x.ready)
           /\ S # {} /\ s.c.complete /\ ~shouldCreateNewExecReport(settings, b0)
           /\ s1 = [b |-> appendChainReport(b0, s.c, S), c |-> markNewMessagesExecuted(s.c, S),
                    done |-> ~settings.multipleReportsEnabled]

LEMMA EmptyReportHasRoom ==
    ASSUME NEW settings \in BuilderSetting, NEW b, b.reports[Len(b.reports)] = <<>>
    PROVE  ~shouldCreateNewExecReport(settings, b)
  <1>1. settings.maxSingleChainReports \in Nat BY DEF BuilderSetting
  <1>2. Len(b.reports[Len(b.reports)]) = 0 OBVIOUS
  <1> QED BY <1>1, <1>2 DEF shouldCreateNewExecReport

LEMMA TryBuildReport ==
    ASSUME NEW chains, NEW senders, NEW settings \in BuilderSetting, NEW nonces, NEW O,
           NEW s, NEW x, NEW b, PassBase(chains, senders, settings, nonces, O, s, x, b),
           ~shouldCreateNewExecReport(settings, b),
           NEW s1, s1 = tryBuildReport(settings, b, s.c, x.ready)
    PROVE  \E b0 : /\ PassBase(chains, senders, settings, nonces, O, s, x, b0)
                   /\ PassStops(settings, s, s1, x, b0) \/ PassAdds(settings, s, s1, x, b0)
  <1> DEFINE build(bb) == buildSingleChainReport(settings, bb.used[Len(bb.used)], s.c, x.ready)
             added(bb) == [b |-> appendChainReport(bb, s.c, build(bb)),
                           c |-> markNewMessagesExecuted(s.c, build(bb)),
                           done |-> ~settings.multipleReportsEnabled]
             nothing == [b |-> b, c |-> s.c, done |-> TRUE]
             fresh == createNewExecReport(b)
             cannot == \/ ~settings.multipleReportsEnabled
                       \/ Len(b.reports) >= settings.maxReportCount
                       \/ build(fresh) = {}
  <1>1. s1 = IF ~s.c.complete THEN nothing
             ELSE IF build(b) # {} THEN added(b)
             ELSE IF cannot THEN nothing ELSE added(fresh)
    BY DEF tryBuildReport
  <1>2. settings.multipleReportsEnabled =>
           /\ Basic(chains, senders, settings, nonces, O, fresh)
           /\ Kept(b.reports, fresh.reports) /\ NewPlaces(b.reports, fresh.reports) = {}
           /\ fresh.expected = b.expected /\ Len(fresh.reports) = Len(b.reports) + 1
           /\ fresh.reports[Len(fresh.reports)] = <<>> /\ fresh.used[Len(fresh.used)] = 0
    <2>1. settings.multipleReportsEnabled =>
             IsFresh(chains, senders, settings, nonces, O, b, fresh)
      BY NewReport DEF PassBase
    <2> HIDE DEF fresh
    <2> QED BY <2>1 DEF IsFresh
  <1>3. settings.multipleReportsEnabled =>
           build(fresh) = buildSingleChainReport(settings, 0, s.c, x.ready)
    BY <1>2
  <1>4. settings.multipleReportsEnabled => PassBase(chains, senders, settings, nonces, O, s, x, fresh)
    <2> SUFFICES ASSUME settings.multipleReportsEnabled
                 PROVE  PassBase(chains, senders, settings, nonces, O, s, x, fresh)
      OBVIOUS
    <2> HIDE DEF fresh
    <2>1. Kept(s.b.reports, b.reports) /\ NewPlaces(s.b.reports, b.reports) = {}
          /\ Len(s.b.reports) <= Len(b.reports) /\ b.expected = x.expected
      BY DEF PassBase
    <2>2. Kept(s.b.reports, fresh.reports) BY <1>2, <2>1 DEF Kept
    <2>3. NewPlaces(s.b.reports, fresh.reports) = {} BY <1>2, <2>1 DEF NewPlaces
    <2>4. Len(s.b.reports) <= Len(fresh.reports)
      <3>1. Len(b.reports) \in Nat
        BY DEF PassBase, Basic, BuilderType
      <3>2. Len(s.b.reports) <= Len(b.reports) /\ Len(fresh.reports) = Len(b.reports) + 1
        BY <1>2, <2>1
      <3> QED BY <3>1, <3>2
    <2> QED BY <1>2, <2>1, <2>2, <2>3, <2>4 DEF PassBase
  <1>5. settings.multipleReportsEnabled => ~shouldCreateNewExecReport(settings, fresh)
    <2> HIDE DEF fresh
    <2> QED BY <1>2, EmptyReportHasRoom
  <1> HIDE DEF fresh
  <1>6. CASE s.c.complete /\ build(b) # {}
    <2>1. s1 = added(b) BY <1>1, <1>6
    <2>2. PassAdds(settings, s, s1, x, b) BY <1>6, <2>1 DEF PassAdds
    <2> QED BY <2>2
  <1>7. CASE ~s.c.complete \/ (build(b) = {} /\ cannot)
    <2>1. s1 = nothing BY <1>1, <1>7
    <2>2. PassStops(settings, s, s1, x, b) BY <1>3, <1>7, <2>1 DEF PassStops
    <2> QED BY <2>2
  <1>8. CASE s.c.complete /\ build(b) = {} /\ ~cannot
    <2>1. s1 = added(fresh) /\ settings.multipleReportsEnabled /\ build(fresh) # {}
      BY <1>1, <1>8
    <2>2. PassAdds(settings, s, s1, x, fresh) BY <1>5, <1>8, <2>1 DEF PassAdds
    <2> QED BY <1>4, <2>1, <2>2
  <1> QED BY <1>6, <1>7, <1>8

LEMMA AddPass ==
    ASSUME NEW chains, NEW senders, NEW settings \in BuilderSetting,
           NEW nonces, nonces \in [DOMAIN nonces -> Nat], NEW O, NEW c0, NEW s,
           PassState(chains, senders, settings, nonces, O, c0, s),
           NEW x, x = extractReadyMessages(s.b.expected, nonces, s.c),
           NEW s1, s1 = addPass(settings, nonces, s)
    PROVE  \E b0 : /\ PassBase(chains, senders, settings, nonces, O, s, x, b0)
                   /\ PassStops(settings, s, s1, x, b0) \/ PassAdds(settings, s, s1, x, b0)
  <1> DEFINE checked == [s.b EXCEPT !.expected = x.expected]
             more == createNewExecReport(checked)
             full == shouldCreateNewExecReport(settings, checked)
             b == IF full THEN more ELSE checked
  <1>1. /\ s = [b |-> s.b, c |-> s.c, done |-> s.done]
        /\ Basic(chains, senders, settings, nonces, O, s.b)
        /\ s.c \in CommitData(chains, senders)
    BY DEF PassState
  <1>2. s1 = IF x.ready = {} \/ (full /\ ~settings.multipleReportsEnabled)
             THEN [b |-> checked, c |-> s.c, done |-> TRUE]
             ELSE IF Len(b.reports) > settings.maxReportCount
             THEN [b |-> b, c |-> s.c, done |-> TRUE]
             ELSE tryBuildReport(settings, b, s.c, x.ready)
    BY DEF addPass
  <1>4. /\ checked.expected = x.expected /\ checked.reports = s.b.reports
        /\ checked.used = s.b.used
        /\ checked = [expected |-> x.expected, reports |-> s.b.reports, used |-> s.b.used]
    BY <1>1 DEF Basic, BuilderType
  <1>5. WellNonced(x.expected, nonces)
    <2>1. WellNonced(s.b.expected, nonces) BY <1>1 DEF Basic
    <2>2. Extracted(s.b.expected, nonces, s.c, x.ready, x.expected, Len(s.c.messages))
      BY <1>1, <2>1, ReadyMessages
    <2> QED BY <2>2 DEF Extracted, ExtractedBasic
  <1> HIDE DEF checked
  <1>6. Basic(chains, senders, settings, nonces, O, checked)
    <2>1. BuilderType(chains, senders, checked) BY <1>1, <1>4 DEF Basic, BuilderType
    <2>2. Budgets(settings, checked) BY <1>1, <1>4 DEF Basic, Budgets
    <2> QED BY <1>1, <1>4, <1>5, <2>1, <2>2 DEF Basic
  <1>7. PassBase(chains, senders, settings, nonces, O, s, x, checked)
    <2>1. Len(s.b.reports) \in Nat BY <1>1 DEF Basic, BuilderType
    <2> QED BY <1>4, <1>6, <2>1 DEF PassBase, Kept, NewPlaces
  <1>8. full <=> shouldCreateNewExecReport(settings, s.b)
    BY <1>4 DEF shouldCreateNewExecReport
  <1>9. settings.multipleReportsEnabled =>
           /\ PassBase(chains, senders, settings, nonces, O, s, x, more)
           /\ ~shouldCreateNewExecReport(settings, more)
    <2> SUFFICES ASSUME settings.multipleReportsEnabled
                 PROVE  /\ PassBase(chains, senders, settings, nonces, O, s, x, more)
                        /\ ~shouldCreateNewExecReport(settings, more)
      OBVIOUS
    <2>0. more = createNewExecReport(checked) OBVIOUS
    <2> HIDE DEF more
    <2>1. /\ Basic(chains, senders, settings, nonces, O, more)
          /\ Kept(checked.reports, more.reports) /\ NewPlaces(checked.reports, more.reports) = {}
          /\ more.expected = checked.expected /\ Len(more.reports) = Len(checked.reports) + 1
          /\ more.reports[Len(more.reports)] = <<>>
      <3>1. IsFresh(chains, senders, settings, nonces, O, checked, more) BY <1>6, <2>0, NewReport
      <3> QED BY <3>1 DEF IsFresh
    <2>2. ~shouldCreateNewExecReport(settings, more) BY <2>1, EmptyReportHasRoom
    <2>3. Len(checked.reports) \in Nat BY <1>6 DEF Basic, BuilderType
    <2>4. Len(checked.reports) <= Len(more.reports) BY <2>1, <2>3
    <2> QED BY <1>4, <2>1, <2>2, <2>4 DEF PassBase
  <1> HIDE DEF more
  <1>10. CASE x.ready = {} \/ (full /\ ~settings.multipleReportsEnabled)
    <2>1. s1 = [b |-> checked, c |-> s.c, done |-> TRUE] BY <1>2, <1>10
    <2>2. PassStops(settings, s, s1, x, checked) BY <1>8, <1>10, <2>1 DEF PassStops
    <2> QED BY <1>7, <2>2
  <1>11. CASE ~(x.ready = {} \/ (full /\ ~settings.multipleReportsEnabled))
    <2>1. PassBase(chains, senders, settings, nonces, O, s, x, b) /\ ~shouldCreateNewExecReport(settings, b)
      BY <1>7, <1>9, <1>11
    <2> HIDE DEF b, full
    <2>2. CASE Len(b.reports) > settings.maxReportCount
      <3>1. s1 = [b |-> b, c |-> s.c, done |-> TRUE] BY <1>2, <1>11, <2>2
      <3>2. PassStops(settings, s, s1, x, b) BY <2>2, <3>1 DEF PassStops
      <3> QED BY <2>1, <3>2
    <2>3. CASE ~(Len(b.reports) > settings.maxReportCount)
      <3>1. s1 = tryBuildReport(settings, b, s.c, x.ready) BY <1>2, <1>11, <2>3
      <3> QED BY <2>1, <3>1, TryBuildReport
    <2> QED BY <2>2, <2>3
  <1> QED BY <1>10, <1>11

\* What goes into a report, of what is ready.
Chosen(settings, used, c, ready, S) ==
    /\ Taken(settings, used, c, ready, S, Len(c.messages))
    /\ ready \in SUBSET (1..Len(c.messages)) /\ S \in SUBSET (1..Len(c.messages))
    /\ S # {} => fits(settings, used, c, S)
    /\ \A i \in S : i \in ready /\ Passable(c, i)

LEMMA ChosenMessages ==
    ASSUME NEW chains, NEW senders, NEW settings \in BuilderSetting,
           NEW nonces, nonces \in [DOMAIN nonces -> Nat],
           NEW c \in CommitData(chains, senders), NEW e0, WellNonced(e0, nonces),
           NEW x, x = extractReadyMessages(e0, nonces, c), NEW used, NEW S,
           S = buildSingleChainReport(settings, used, c, x.ready)
    PROVE  Chosen(settings, used, c, x.ready, S)
  <1>1. Extracted(e0, nonces, c, x.ready, x.expected, Len(c.messages)) BY ReadyMessages
  <1>2. x.ready \in SUBSET (1..Len(c.messages)) /\ \A i \in x.ready : Passable(c, i)
    BY <1>1 DEF Extracted, ExtractedBasic
  <1>3. Taken(settings, used, c, x.ready, S, Len(c.messages))
    BY <1>2, SingleChainReport
  <1> QED BY <1>2, <1>3 DEF Taken, Chosen

LEMMA MarkedMore ==
    ASSUME NEW chains, NEW senders, NEW c \in CommitData(chains, senders),
           NEW S \in SUBSET (1..Len(c.messages)), NEW c1, c1 = markNewMessagesExecuted(c, S)
    PROVE  /\ c1 \in CommitData(chains, senders) /\ Marks(c, c1)
           /\ c1.executed = c.executed \cup {c.messages[i].seqNum : i \in S}
  <1>1. /\ c1.chain = c.chain /\ c1.messages = c.messages /\ c1.complete = c.complete
        /\ c1.executed = c.executed \cup {c.messages[i].seqNum : i \in S}
        /\ c1 = [chain |-> c1.chain, messages |-> c1.messages, executed |-> c1.executed,
                 complete |-> c1.complete]
    BY DEF markNewMessagesExecuted, CommitData
  <1>2. c.messages \in Seq(Message(senders)) BY DEF CommitData
  <1>3. \A i \in S : c.messages[i] \in Message(senders) BY <1>2
  <1>4. c1.executed \in SUBSET Nat
    <2>1. c.executed \in SUBSET Nat BY DEF CommitData
    <2>2. \A i \in S : c.messages[i].seqNum \in Nat BY <1>3 DEF Message
    <2> QED BY <1>1, <2>1, <2>2
  <1>5. c1 \in CommitData(chains, senders) BY <1>1, <1>4 DEF CommitData
  <1> QED BY <1>1, <1>5 DEF Marks

LEMMA PassKeeps ==
    ASSUME NEW chains, NEW senders, NEW settings \in BuilderSetting,
           NEW nonces, nonces \in [DOMAIN nonces -> Nat], NEW O, NEW c0 \in O, NEW s,
           PassState(chains, senders, settings, nonces, O, c0, s),
           NEW s1, s1 = addPass(settings, nonces, s)
    PROVE  PassState(chains, senders, settings, nonces, O, c0, s1)
  <1>1. PICK x : x = extractReadyMessages(s.b.expected, nonces, s.c) OBVIOUS
  <1>2. PICK b0 : /\ PassBase(chains, senders, settings, nonces, O, s, x, b0)
                  /\ PassStops(settings, s, s1, x, b0) \/ PassAdds(settings, s, s1, x, b0)
    BY <1>1, AddPass
  <1>3. Basic(chains, senders, settings, nonces, O, b0) BY <1>2 DEF PassBase
  <1>4. CASE PassStops(settings, s, s1, x, b0)
    <2>1. s1 = [b |-> b0, c |-> s.c, done |-> TRUE] BY <1>4 DEF PassStops
    <2>2. s1.b = b0 /\ s1.c = s.c /\ s1.done = TRUE BY <2>1
    <2> QED BY <1>3, <2>1, <2>2 DEF PassState
  <1>5. CASE PassAdds(settings, s, s1, x, b0)
    <2>1. PICK S :
             /\ S = buildSingleChainReport(settings, b0.used[Len(b0.used)], s.c, x.ready)
             /\ S # {} /\ s.c.complete /\ ~shouldCreateNewExecReport(settings, b0)
             /\ s1 = [b |-> appendChainReport(b0, s.c, S), c |-> markNewMessagesExecuted(s.c, S),
                      done |-> ~settings.multipleReportsEnabled]
      BY <1>5 DEF PassAdds
    <2>2. s.c \in CommitData(chains, senders) /\ Marks(c0, s.c)
          /\ WellNonced(s.b.expected, nonces)
      BY DEF PassState, Basic
    <2>3. /\ S \in SUBSET (1..Len(s.c.messages))
          /\ fits(settings, b0.used[Len(b0.used)], s.c, S)
          /\ \A i \in S : Passable(s.c, i)
      <3>1. Chosen(settings, b0.used[Len(b0.used)], s.c, x.ready, S)
        BY <1>1, <2>1, <2>2, ChosenMessages
      <3> QED BY <2>1, <3>1 DEF Chosen
    <2>4. /\ s1.b = appendChainReport(b0, s.c, S) /\ s1.c = markNewMessagesExecuted(s.c, S)
          /\ s1.done = ~settings.multipleReportsEnabled
          /\ s1 = [b |-> s1.b, c |-> s1.c, done |-> s1.done]
      BY <2>1
    <2>5. Basic(chains, senders, settings, nonces, O, s1.b)
      <3>1. ReportAdded(chains, senders, settings, nonces, O, b0, s1.b, s.c, S)
        BY <1>3, <2>1, <2>2, <2>3, <2>4, ChainReportAdded
      <3> QED BY <3>1 DEF ReportAdded
    <2>6. s1.c \in CommitData(chains, senders) /\ Marks(s.c, s1.c)
      BY <2>2, <2>3, <2>4, MarkedMore
    <2>7. Marks(c0, s1.c) BY <2>2, <2>6 DEF Marks
    <2>8. settings.multipleReportsEnabled \in BOOLEAN BY DEF BuilderSetting
    <2> QED BY <2>4, <2>5, <2>6, <2>7, <2>8 DEF PassState
  <1> QED BY <1>2, <1>4, <1>5

-----------------------------------------------------------------------------
(* The passes of Add, and Add over a list of commit reports.               *)

IsPasses(settings, nonces, b, c, g, n) ==
    g = [i \in 0..n |-> IF i = 0 THEN [b |-> b, c |-> c, done |-> FALSE]
                        ELSE IF g[i - 1].done THEN g[i - 1]
                        ELSE addPass(settings, nonces, g[i - 1])]

LEMMA PassesExist ==
    ASSUME NEW settings, NEW nonces, NEW b, NEW c, NEW n \in Nat
    PROVE  \E g : IsPasses(settings, nonces, b, c, g, n)
  <1> DEFINE T == {k \in 0..n : \E g : IsPasses(settings, nonces, b, c, g, k)}
  <1>1. 0 \in T
    <2>1. IsPasses(settings, nonces, b, c, [i \in 0..0 |-> [b |-> b, c |-> c, done |-> FALSE]], 0)
      BY DEF IsPasses
    <2> QED BY <2>1
  <1>2. ASSUME NEW k \in 1..n, k - 1 \in T PROVE k \in T
    <2>1. PICK g : IsPasses(settings, nonces, b, c, g, k - 1) BY <1>2
    <2> DEFINE step(f, i) == IF i = 0 THEN [b |-> b, c |-> c, done |-> FALSE]
                             ELSE IF f[i - 1].done THEN f[i - 1]
                             ELSE addPass(settings, nonces, f[i - 1])
               h == [i \in 0..k |-> IF i = k THEN step(g, k) ELSE g[i]]
    <2>2. IsPasses(settings, nonces, b, c, h, k)
      <3>1. g = [i \in 0..(k - 1) |-> step(g, i)] BY <2>1 DEF IsPasses
      <3>2. /\ h = [i \in 0..k |-> h[i]] /\ \A i \in 0..(k - 1) : h[i] = g[i]
            /\ h[k] = step(g, k)
        OBVIOUS
      <3>3. \A i \in 0..k : i = 0 \/ i - 1 \in 0..(k - 1) OBVIOUS
      <3>4. \A i \in 0..k : step(h, i) = step(g, i) BY <3>2, <3>3
      <3> HIDE DEF h, step
      <3>5. \A i \in 0..k : h[i] = step(h, i)
        <4>1. \A i \in 0..(k - 1) : g[i] = step(g, i) BY <3>1
        <4>2. \A i \in 0..k : i = k \/ i \in 0..(k - 1) OBVIOUS
        <4> QED BY <3>2, <3>4, <4>1, <4>2
      <3>6. h = [i \in 0..k |-> step(h, i)] BY <3>2, <3>5
      <3> QED BY <3>6 DEF IsPasses, step
    <2> QED BY <2>2
  <1> HIDE DEF T
  <1>3. 0..n \subseteq T BY <1>1, <1>2, UpToN
  <1> QED BY <1>3 DEF T

LEMMA PassesAre ==
    ASSUME NEW settings, NEW nonces, NEW b, NEW c, Len(c.messages) \in Nat
    PROVE  \E g : /\ IsPasses(settings, nonces, b, c, g, Len(c.messages) + 1)
                  /\ addPasses(settings, nonces, b, c) = g[Len(c.messages) + 1]
  <1>1. Len(c.messages) + 1 \in Nat OBVIOUS
  <1>2. \E g : IsPasses(settings, nonces, b, c, g, Len(c.messages) + 1) BY <1>1, PassesExist
  <1> QED BY <1>2 DEF addPasses, IsPasses

LEMMA PassesStep ==
    ASSUME NEW settings, NEW nonces, NEW b, NEW c, NEW n \in Nat, NEW g,
           IsPasses(settings, nonces, b, c, g, n)
    PROVE  /\ g[0] = [b |-> b, c |-> c, done |-> FALSE]
           /\ \A i \in 1..n : g[i] = IF g[i - 1].done THEN g[i - 1]
                                      ELSE addPass(settings, nonces, g[i - 1])
  <1>1. 0 \in 0..n /\ \A i \in 1..n : i \in 0..n /\ i # 0 OBVIOUS
  <1> QED BY <1>1 DEF IsPasses

LEMMA PassesKeep ==
    ASSUME NEW chains, NEW senders, NEW settings \in BuilderSetting,
           NEW nonces, nonces \in [DOMAIN nonces -> Nat], NEW O, NEW c \in O,
           c \in CommitData(chains, senders), NEW b,
           Basic(chains, senders, settings, nonces, O, b), NEW n \in Nat, NEW g,
           IsPasses(settings, nonces, b, c, g, n)
    PROVE  \A i \in 0..n : PassState(chains, senders, settings, nonces, O, c, g[i])
  <1>0. /\ g[0] = [b |-> b, c |-> c, done |-> FALSE]
        /\ \A i \in 1..n : g[i] = IF g[i - 1].done THEN g[i - 1]
                                   ELSE addPass(settings, nonces, g[i - 1])
    BY PassesStep
  <1> DEFINE T == {i \in 0..n : PassState(chains, senders, settings, nonces, O, c, g[i])}
  <1>1. 0 \in T
    <2>1. g[0] = [b |-> b, c |-> c, done |-> FALSE] BY <1>0
    <2>2. g[0].b = b /\ g[0].c = c /\ g[0].done = FALSE BY <2>1
    <2>3. Marks(c, c) BY DEF Marks
    <2>4. PassState(chains, senders, settings, nonces, O, c, g[0])
      BY <2>1, <2>2, <2>3 DEF PassState
    <2> QED BY <2>4
  <1>2. ASSUME NEW i \in 1..n, i - 1 \in T PROVE i \in T
    <2>2. PassState(chains, senders, settings, nonces, O, c, g[i - 1]) BY <1>2
    <2> HIDE DEF T
    <2>1. g[i] = IF g[i - 1].done THEN g[i - 1] ELSE addPass(settings, nonces, g[i - 1])
      BY <1>0
    <2>3. PassState(chains, senders, settings, nonces, O, c, g[i])
      BY <2>1, <2>2, PassKeeps
    <2> QED BY <2>3 DEF T
  <1> HIDE DEF T
  <1>3. 0..n \subseteq T BY <1>1, <1>2, UpToN
  <1> QED BY <1>3 DEF T

LEMMA NewBuilderBasic ==
    ASSUME NEW chains, NEW senders, NEW settings \in BuilderSetting, NEW nonces
    PROVE  /\ Basic(chains, senders, settings, nonces, {}, NewBuilder)
           /\ Places(NewBuilder.reports) = {}
  <1> DEFINE R == <<<<>>>>
  <1>1. NewBuilder.expected = <<>> /\ NewBuilder.reports = R /\ NewBuilder.used = <<0>>
    BY DEF NewBuilder
  <1>2. <<>> \in Seq(ChainReport(chains, senders)) OBVIOUS
  <1>3. R \in Seq(Seq(ChainReport(chains, senders))) /\ Len(R) = 1 /\ R[1] = <<>>
    BY <1>2
  <1>4. <<0>> \in Seq(Nat) /\ Len(<<0>>) = 1 /\ <<0>>[1] = 0 OBVIOUS
  <1>5. BuilderType(chains, senders, NewBuilder)
    BY <1>1, <1>3, <1>4 DEF BuilderType, NewBuilder
  <1>6. WithinBudget(settings, <<>>, 0) BY GasEmpty DEF WithinBudget, BuilderSetting
  <1>7. \A r \in 1..1 : r = 1 OBVIOUS
  <1>8. Budgets(settings, NewBuilder) BY <1>1, <1>3, <1>4, <1>6, <1>7 DEF Budgets
  <1>9. Places(R) = {}
    <2> HIDE DEF R
    <2> SUFFICES ASSUME NEW p \in Places(R) PROVE FALSE OBVIOUS
    <2>1. Parts(chains, senders, R, p) BY <1>3, PlaceParts
    <2>2. p[1] \in 1..1 /\ p[2] \in 1..Len(R[p[1]]) BY <1>3, <2>1 DEF Parts
    <2>3. R[p[1]] = <<>> BY <1>3, <1>7, <2>2
    <2>4. Len(<<>>) = 0 /\ 1..0 = {} OBVIOUS
    <2> QED BY <2>2, <2>3, <2>4
  <1>10. WellNonced(<<>>, nonces)
    <2>1. DOMAIN <<>> = {} OBVIOUS
    <2>2. <<>> \in [DOMAIN <<>> -> Nat] OBVIOUS
    <2> QED BY <2>1, <2>2 DEF WellNonced
  <1>11. Sourced({}, NewBuilder.reports) BY <1>1, <1>9 DEF Sourced
  <1> QED BY <1>1, <1>5, <1>8, <1>9, <1>10, <1>11 DEF Basic

LEMMA BasicMore ==
    ASSUME NEW chains, NEW senders, NEW settings, NEW nonces, NEW O, NEW O1, O \subseteq O1,
           NEW b, Basic(chains, senders, settings, nonces, O, b)
    PROVE  Basic(chains, senders, settings, nonces, O1, b)
  <1>1. Sourced(O1, b.reports) BY DEF Basic, Sourced
  <1> QED BY <1>1 DEF Basic

LEMMA OfferKeeps ==
    ASSUME NEW chains, NEW senders, NEW settings \in BuilderSetting,
           NEW nonces, nonces \in [DOMAIN nonces -> Nat], NEW O, NEW c \in O,
           c \in CommitData(chains, senders), NEW b,
           Basic(chains, senders, settings, nonces, O, b)
    PROVE  Basic(chains, senders, settings, nonces, O, offerReport(settings, nonces, b, c))
  <1>1. PICK n \in Nat : n = Len(c.messages)
    <2>1. c.messages \in Seq(Message(senders)) BY DEF CommitData
    <2> QED BY <2>1
  <1>2. PICK g : /\ IsPasses(settings, nonces, b, c, g, n + 1)
                 /\ addPasses(settings, nonces, b, c) = g[n + 1]
    BY <1>1, PassesAre
  <1>3. n + 1 \in Nat /\ n + 1 \in 0..(n + 1) BY <1>1
  <1>4. PassState(chains, senders, settings, nonces, O, c, g[n + 1])
    <2>1. \A i \in 0..(n + 1) : PassState(chains, senders, settings, nonces, O, c, g[i])
      BY <1>2, <1>3, PassesKeep
    <2> QED BY <1>3, <2>1
  <1>5. Basic(chains, senders, settings, nonces, O, addPasses(settings, nonces, b, c).b)
    BY <1>2, <1>4 DEF PassState
  <1> QED BY <1>5 DEF offerReport, Add

\* What Build returns are the first reports of the builder.
LEMMA Built ==
    ASSUME NEW chains, NEW senders, NEW settings \in BuilderSetting, NEW b,
           BuilderType(chains, senders, b), Budgets(settings, b)
    PROVE  /\ Build(settings, b) \in Seq(Seq(ChainReport(chains, senders)))
           /\ Len(Build(settings, b)) \in 1..Len(b.reports)
           /\ Len(Build(settings, b)) <=
                 IF settings.multipleReportsEnabled THEN settings.maxReportCount ELSE 1
           /\ \A r \in 1..Len(Build(settings, b)) : Build(settings, b)[r] = b.reports[r]
           /\ Kept(Build(settings, b), b.reports)
           /\ ~settings.multipleReportsEnabled \/ Len(b.reports) <= settings.maxReportCount
                 => Build(settings, b) = b.reports
  <1>1. PICK n \in Nat \ {0} : n = Len(b.reports) BY DEF BuilderType
  <1>2. settings.maxReportCount \in Nat \ {0} BY DEF BuilderSetting
  <1>3. PICK m : m = IF ~settings.multipleReportsEnabled THEN 1
                     ELSE IF n < settings.maxReportCount THEN n
                     ELSE settings.maxReportCount
    OBVIOUS
  <1>4. /\ m \in Nat /\ m \in 1..n /\ m <= n
        /\ m <= IF settings.multipleReportsEnabled THEN settings.maxReportCount ELSE 1
    BY <1>1, <1>2, <1>3
  <1>5. ~settings.multipleReportsEnabled \/ n <= settings.maxReportCount => m = n
    BY <1>1, <1>2, <1>3 DEF Budgets
  <1>6. PICK R1 : R1 = SubSeq(b.reports, 1, m) OBVIOUS
  <1>7. Build(settings, b) = R1 BY <1>1, <1>3, <1>6 DEF Build
  <1>8. /\ R1 \in Seq(Seq(ChainReport(chains, senders))) /\ Len(R1) = m
        /\ \A r \in 1..m : R1[r] = b.reports[r]
        /\ Kept(R1, b.reports) /\ (m = Len(b.reports) => R1 = b.reports)
    <2>1. b.reports \in Seq(Seq(ChainReport(chains, senders))) BY DEF BuilderType
    <2>2. IsStart(chains, senders, b.reports, R1, m) BY <1>1, <1>4, <1>6, <2>1, PrefixKeeps
    <2> QED BY <2>2 DEF IsStart
  <1> QED BY <1>1, <1>4, <1>5, <1>7, <1>8

IsSelection(settings, nonces, commitReports, g, n) ==
    g = [i \in 0..n |-> IF i = 0 THEN NewBuilder
                        ELSE offerReport(settings, nonces, g[i - 1], commitReports[i])]

LEMMA SelectionExists ==
    ASSUME NEW settings, NEW nonces, NEW commitReports, NEW n \in Nat
    PROVE  \E g : IsSelection(settings, nonces, commitReports, g, n)
  <1> DEFINE T == {k \in 0..n : \E g : IsSelection(settings, nonces, commitReports, g, k)}
  <1>1. 0 \in T
    <2>1. IsSelection(settings, nonces, commitReports, [i \in 0..0 |-> NewBuilder], 0)
      BY DEF IsSelection
    <2> QED BY <2>1
  <1>2. ASSUME NEW k \in 1..n, k - 1 \in T PROVE k \in T
    <2>1. PICK g : IsSelection(settings, nonces, commitReports, g, k - 1) BY <1>2
    <2> DEFINE step(f, i) == IF i = 0 THEN NewBuilder
                             ELSE offerReport(settings, nonces, f[i - 1], commitReports[i])
               h == [i \in 0..k |-> IF i = k THEN step(g, k) ELSE g[i]]
    <2>2. IsSelection(settings, nonces, commitReports, h, k)
      <3>1. g = [i \in 0..(k - 1) |-> step(g, i)] BY <2>1 DEF IsSelection
      <3>2. /\ h = [i \in 0..k |-> h[i]] /\ \A i \in 0..(k - 1) : h[i] = g[i]
            /\ h[k] = step(g, k)
        OBVIOUS
      <3>3. \A i \in 0..k : i = 0 \/ i - 1 \in 0..(k - 1) OBVIOUS
      <3>4. \A i \in 0..k : step(h, i) = step(g, i) BY <3>2, <3>3
      <3> HIDE DEF h, step
      <3>5. \A i \in 0..k : h[i] = step(h, i)
        <4>1. \A i \in 0..(k - 1) : g[i] = step(g, i) BY <3>1
        <4>2. \A i \in 0..k : i = k \/ i \in 0..(k - 1) OBVIOUS
        <4> QED BY <3>2, <3>4, <4>1, <4>2
      <3>6. h = [i \in 0..k |-> step(h, i)] BY <3>2, <3>5
      <3> QED BY <3>6 DEF IsSelection, step
    <2> QED BY <2>2
  <1> HIDE DEF T
  <1>3. 0..n \subseteq T BY <1>1, <1>2, UpToN
  <1> QED BY <1>3 DEF T

LEMMA SelectionIs ==
    ASSUME NEW settings, NEW nonces, NEW commitReports, Len(commitReports) \in Nat
    PROVE  \E g : /\ IsSelection(settings, nonces, commitReports, g, Len(commitReports))
                  /\ selectReports(settings, nonces, commitReports) =
                        Build(settings, g[Len(commitReports)])
  <1>1. \E g : IsSelection(settings, nonces, commitReports, g, Len(commitReports))
    BY SelectionExists
  <1> QED BY <1>1 DEF selectReports, IsSelection

Offered(commitReports) == {commitReports[i] : i \in 1..Len(commitReports)}

\* Every message that selectReports puts into a report comes, with its chain,
\* from a complete commit report that it was given, and passed the checks there.
LEMMA SelectedReports ==
    ASSUME NEW chains, NEW senders, NEW settings \in BuilderSetting,
           NEW nonces, nonces \in [DOMAIN nonces -> Nat],
           NEW commitReports \in Seq(CommitData(chains, senders))
    PROVE  /\ selectReports(settings, nonces, commitReports)
                 \in Seq(Seq(ChainReport(chains, senders)))
           /\ Sourced(Offered(commitReports), selectReports(settings, nonces, commitReports))
  <1>1. PICK n \in Nat : n = Len(commitReports) OBVIOUS
  <1>2. PICK g : /\ IsSelection(settings, nonces, commitReports, g, n)
                 /\ selectReports(settings, nonces, commitReports) = Build(settings, g[n])
    BY <1>1, SelectionIs
  <1>3. g[0] = NewBuilder
    <2>1. 0 \in 0..n OBVIOUS
    <2> QED BY <1>2, <2>1 DEF IsSelection
  <1>4. \A i \in 1..n : g[i] = offerReport(settings, nonces, g[i - 1], commitReports[i])
    <2>1. \A i \in 1..n : i \in 0..n /\ i # 0 OBVIOUS
    <2> QED BY <1>2, <2>1 DEF IsSelection
  <1> DEFINE O == Offered(commitReports)
             T == {i \in 0..n : Basic(chains, senders, settings, nonces, O, g[i])}
  <1>5. 0 \in T
    <2>1. Basic(chains, senders, settings, nonces, {}, NewBuilder) BY NewBuilderBasic
    <2>2. {} \subseteq O OBVIOUS
    <2>3. Basic(chains, senders, settings, nonces, O, NewBuilder) BY <2>1, <2>2, BasicMore
    <2> QED BY <1>3, <2>3
  <1>6. ASSUME NEW i \in 1..n, i - 1 \in T PROVE i \in T
    <2>1. Basic(chains, senders, settings, nonces, O, g[i - 1]) BY <1>6
    <2>2. commitReports[i] \in O /\ commitReports[i] \in CommitData(chains, senders)
      BY <1>1 DEF Offered
    <2>3. g[i] = offerReport(settings, nonces, g[i - 1], commitReports[i]) BY <1>4
    <2> HIDE DEF O, T
    <2>4. Basic(chains, senders, settings, nonces, O, g[i]) BY <2>1, <2>2, <2>3, OfferKeeps
    <2> QED BY <2>4 DEF T
  <1> HIDE DEF T
  <1>7. 0..n \subseteq T BY <1>5, <1>6, UpToN
  <1>8. Basic(chains, senders, settings, nonces, O, g[n]) BY <1>7 DEF T
  <1> HIDE DEF O
  <1>9. PICK b : b = g[n] OBVIOUS
  <1>10. BuilderType(chains, senders, b) /\ Budgets(settings, b) /\ Sourced(O, b.reports)
    BY <1>8, <1>9 DEF Basic
  <1>11. /\ Build(settings, b) \in Seq(Seq(ChainReport(chains, senders)))
         /\ Kept(Build(settings, b), b.reports)
    BY <1>10, Built
  <1>12. Sourced(O, Build(settings, b)) BY <1>10, <1>11, KeptBack
  <1> QED BY <1>2, <1>9, <1>11, <1>12 DEF O

-----------------------------------------------------------------------------
(* What one pass does, in terms of the messages S that it places.          *)

IndexAt(S, q) == Ascending(S)[q[3]]
Indexed(c, S, R, R1) ==
    /\ \A q \in NewPlaces(R, R1) :
          /\ IndexAt(S, q) \in S
          /\ ChainAt(R1, q) = c.chain /\ MessageAt(R1, q) = c.messages[IndexAt(S, q)]
          /\ \A p \in Places(R) : ~Earlier(q, p)
          /\ \A p \in NewPlaces(R, R1) : /\ Earlier(p, q) => IndexAt(S, p) < IndexAt(S, q)
                                         /\ IndexAt(S, p) = IndexAt(S, q) => p = q
    /\ \A i \in S : \E q \in NewPlaces(R, R1) : MessageAt(R1, q) = c.messages[i]

LEMMA IndexedPlaces ==
    ASSUME NEW chains, NEW senders, NEW c \in CommitData(chains, senders),
           NEW S \in SUBSET (1..Len(c.messages)), NEW R, NEW R1,
           Added(R, R1, c.chain, selectMessages(c, S))
    PROVE  Indexed(c, S, R, R1)
  <1>1. PICK n \in Nat : n = Cardinality(S) BY SelectedMessages
  <1>2. PICK msgs : msgs = selectMessages(c, S) OBVIOUS
  <1>3. /\ Len(msgs) = n
        /\ \A j \in 1..n : Ascending(S)[j] \in S /\ msgs[j] = c.messages[Ascending(S)[j]]
        /\ \A i, j \in 1..n : i < j => Ascending(S)[i] < Ascending(S)[j]
        /\ \A i \in S : \E j \in 1..n : msgs[j] = c.messages[i]
    BY <1>1, <1>2, SelectedMessages
  <1>4. \A i, j \in 1..n : Ascending(S)[i] = Ascending(S)[j] => i = j
    <2> SUFFICES ASSUME NEW i \in 1..n, NEW j \in 1..n, Ascending(S)[i] = Ascending(S)[j],
                        i # j
                 PROVE  FALSE
      OBVIOUS
    <2>1. i < j \/ j < i OBVIOUS
    <2>2. Ascending(S)[i] \in Nat
      <3>1. S \subseteq Nat OBVIOUS
      <3> QED BY <1>3, <3>1
    <2>3. ~(Ascending(S)[i] < Ascending(S)[i]) BY <2>2
    <2> QED BY <1>3, <2>1, <2>3
  <1>5. ASSUME NEW q \in NewPlaces(R, R1)
        PROVE  /\ q[3] \in 1..n /\ ChainAt(R1, q) = c.chain /\ MessageAt(R1, q) = msgs[q[3]]
               /\ \A p \in Places(R) : ~Earlier(q, p)
               /\ \A p \in NewPlaces(R, R1) : /\ Earlier(p, q) => p[3] < q[3]
                                              /\ p[3] = q[3] => p = q
    BY <1>2, <1>3 DEF Added
  <1>6. ASSUME NEW q \in NewPlaces(R, R1)
        PROVE  /\ IndexAt(S, q) \in S /\ MessageAt(R1, q) = c.messages[IndexAt(S, q)]
    BY <1>3, <1>5 DEF IndexAt
  <1>7. ASSUME NEW p \in NewPlaces(R, R1), NEW q \in NewPlaces(R, R1)
        PROVE  /\ Earlier(p, q) => IndexAt(S, p) < IndexAt(S, q)
               /\ IndexAt(S, p) = IndexAt(S, q) => p = q
    <2>1. p[3] \in 1..n /\ q[3] \in 1..n BY <1>5
    <2>2. (Earlier(p, q) => p[3] < q[3]) /\ (p[3] = q[3] => p = q) BY <1>5
    <2> QED BY <1>3, <1>4, <2>1, <2>2 DEF IndexAt
  <1>8. \A i \in S : \E q \in NewPlaces(R, R1) : MessageAt(R1, q) = c.messages[i]
    <2>1. \A j \in 1..n : \E q \in NewPlaces(R, R1) : MessageAt(R1, q) = msgs[j]
      BY <1>2, <1>3 DEF Added
    <2> QED BY <1>3, <2>1
  <1> QED BY <1>5, <1>6, <1>7, <1>8 DEF Indexed

LEMMA EmptySequence ==
    ASSUME NEW X, NEW s \in Seq(X), Len(s) = 0
    PROVE  s = <<>>
  OBVIOUS

\* With one report, nothing is placed only if it is empty.
LEMMA NothingPlaced ==
    ASSUME NEW chains, NEW senders, NEW settings \in BuilderSetting, NEW nonces, NEW O, NEW b,
           Basic(chains, senders, settings, nonces, O, b), ~settings.multipleReportsEnabled,
           Places(b.reports) = {}
    PROVE  b.reports[Len(b.reports)] = <<>> /\ b.used[Len(b.used)] = 0
  <1>1. /\ b.reports \in Seq(Seq(ChainReport(chains, senders))) /\ Len(b.reports) = 1
        /\ Len(b.used) = 1
        /\ \A r \in 1..1 : WithinBudget(settings, b.reports[r], b.used[r])
    BY DEF Basic, BuilderType, Budgets
  <1>2. 1 \in 1..1 OBVIOUS
  <1>3. WithinBudget(settings, b.reports[1], b.used[1]) BY <1>1, <1>2
  <1>4. PICK report \in Seq(ChainReport(chains, senders)) : report = b.reports[1]
    BY <1>1
  <1>5. PICK m \in Nat : m = Len(report) OBVIOUS
  <1>6. m = 0
    <2> SUFFICES ASSUME m # 0 PROVE FALSE OBVIOUS
    <2>1. 1 \in 1..m /\ 1 \in DOMAIN report BY <1>5
    <2>2. Len(report[1].messages) # 0 BY <1>3, <1>4, <1>5, <2>1 DEF WithinBudget
    <2>3. report[1] \in ChainReport(chains, senders) BY <2>1
    <2>4. report[1].messages \in Seq(Message(senders)) BY <2>3 DEF ChainReport
    <2>5. 1 \in DOMAIN report[1].messages BY <2>2, <2>4
    <2>6. 1 \in DOMAIN b.reports BY <1>1
    <2>7. PICK p : p = <<1, 1, 1>> OBVIOUS
    <2>8. p[1] = 1 /\ p[2] = 1 /\ p[3] = 1 BY <2>7
    <2>9. p = <<p[1], p[2], p[3]>> BY <2>7, <2>8
    <2>10. p \in Places(b.reports) BY <1>4, <2>1, <2>5, <2>6, <2>8, <2>9, PlaceIntro
    <2> QED BY <2>10
  <1>7. report = <<>> BY <1>5, <1>6, EmptySequence
  <1>8. b.used[1] = 0 BY <1>3, <1>4, <1>7, GasEmpty DEF WithinBudget
  <1> QED BY <1>1, <1>4, <1>7, <1>8

\* Why a pass may place nothing.
Stuck(settings, s, s1, x) ==
    \/ \A i \in x.ready : s.c.complete => ~fits(settings, 0, s.c, {i})
    \/ settings.multipleReportsEnabled /\ Len(s1.b.reports) >= settings.maxReportCount
    \/ ~settings.multipleReportsEnabled /\ Places(s.b.reports) # {}

PassEffect(settings, s, s1, x, S) ==
    /\ S \subseteq x.ready /\ S \in SUBSET (1..Len(s.c.messages))
    /\ \A i \in S : Passable(s.c, i)
    /\ Indexed(s.c, S, s.b.reports, s1.b.reports)
    /\ Kept(s.b.reports, s1.b.reports) /\ Len(s.b.reports) <= Len(s1.b.reports)
    /\ s1.b.expected = x.expected
    /\ s1.c.executed = s.c.executed \cup {s.c.messages[i].seqNum : i \in S}
    /\ S # {} => s1.done = ~settings.multipleReportsEnabled
    /\ S = {} => s1.done = TRUE /\ Stuck(settings, s, s1, x)

LEMMA StoppedEffect ==
    ASSUME NEW chains, NEW senders, NEW settings \in BuilderSetting,
           NEW nonces, nonces \in [DOMAIN nonces -> Nat], NEW O, NEW c0, NEW s,
           PassState(chains, senders, settings, nonces, O, c0, s),
           NEW x, x = extractReadyMessages(s.b.expected, nonces, s.c), NEW s1, NEW b0,
           PassBase(chains, senders, settings, nonces, O, s, x, b0),
           PassStops(settings, s, s1, x, b0)
    PROVE  PassEffect(settings, s, s1, x, {})
  <1>1. s1 = [b |-> b0, c |-> s.c, done |-> TRUE] BY DEF PassStops
  <1>2. s1.b = b0 /\ s1.c = s.c /\ s1.done = TRUE BY <1>1
  <1>3. /\ Basic(chains, senders, settings, nonces, O, b0) /\ b0.expected = x.expected
        /\ Kept(s.b.reports, b0.reports) /\ NewPlaces(s.b.reports, b0.reports) = {}
        /\ Len(s.b.reports) <= Len(b0.reports)
    BY DEF PassBase
  <1>4. /\ Basic(chains, senders, settings, nonces, O, s.b)
        /\ s.c \in CommitData(chains, senders) /\ WellNonced(s.b.expected, nonces)
    BY DEF PassState, Basic
  <1>5. Indexed(s.c, {}, s.b.reports, s1.b.reports) BY <1>2, <1>3 DEF Indexed
  <1>6. settings.maxReportCount \in Nat \ {0} /\ settings.maxSingleChainReports \in Nat
    BY DEF BuilderSetting
  <1>7. Places(b0.reports) = Places(s.b.reports)
    BY <1>3 DEF NewPlaces, Kept
  <1>8. ASSUME NEW used, buildSingleChainReport(settings, used, s.c, x.ready) = {}
        PROVE  \A i \in x.ready : ~fits(settings, used, s.c, {i})
    <2>1. PICK S : S = buildSingleChainReport(settings, used, s.c, x.ready) OBVIOUS
    <2>2. Chosen(settings, used, s.c, x.ready, S) BY <1>4, <2>1, ChosenMessages
    <2>3. Len(s.c.messages) \in Nat
      <3>1. s.c.messages \in Seq(Message(senders)) BY <1>4 DEF CommitData
      <3> QED BY <3>1
    <2>4. /\ x.ready \in SUBSET (1..Len(s.c.messages))
          /\ \A i \in x.ready : i <= Len(s.c.messages) => ~fits(settings, used, s.c, {i})
      BY <1>8, <2>1, <2>2 DEF Chosen, Taken
    <2>5. \A i \in x.ready : i <= Len(s.c.messages) BY <2>3, <2>4
    <2> QED BY <2>4, <2>5
  <1>9. Stuck(settings, s, s1, x)
    <2>1. CASE x.ready = {} \/ ~s.c.complete BY <2>1 DEF Stuck
    <2>2. CASE ~settings.multipleReportsEnabled /\ shouldCreateNewExecReport(settings, s.b)
      <3>1. b0 = b0 /\ Places(s.b.reports) # {}
        <4> SUFFICES ASSUME Places(s.b.reports) = {} PROVE FALSE OBVIOUS
        <4>1. s.b.reports[Len(s.b.reports)] = <<>> BY <1>4, <2>2, NothingPlaced
        <4>2. ~shouldCreateNewExecReport(settings, s.b) BY <4>1, EmptyReportHasRoom
        <4> QED BY <2>2, <4>2
      <3> QED BY <2>2, <3>1 DEF Stuck
    <2>3. CASE Len(b0.reports) > settings.maxReportCount
      <3>1. Len(b0.reports) \in Nat /\ (~settings.multipleReportsEnabled => Len(b0.reports) = 1)
        BY <1>3 DEF Basic, BuilderType, Budgets
      <3>2. Len(b0.reports) >= settings.maxReportCount /\ Len(b0.reports) # 1
        <4>1. PICK k \in Nat : k = Len(b0.reports) BY <3>1
        <4>2. PICK max \in Nat \ {0} : max = settings.maxReportCount BY <1>6
        <4>3. k > max BY <2>3, <4>1, <4>2
        <4>4. k >= max /\ k # 1 BY <4>3
        <4> QED BY <4>1, <4>2, <4>4
      <3>3. settings.multipleReportsEnabled BY <3>1, <3>2
      <3> QED BY <1>2, <3>2, <3>3 DEF Stuck
    <2>4. CASE /\ buildSingleChainReport(settings, b0.used[Len(b0.used)], s.c, x.ready) = {}
               /\ ~settings.multipleReportsEnabled
      <3>1. CASE Places(s.b.reports) # {} BY <2>4, <3>1 DEF Stuck
      <3>2. CASE Places(s.b.reports) = {}
        <4>1. b0.used[Len(b0.used)] = 0 BY <1>3, <1>7, <2>4, <3>2, NothingPlaced
        <4> QED BY <1>8, <2>4, <4>1 DEF Stuck
      <3> QED BY <3>1, <3>2
    <2>5. CASE settings.multipleReportsEnabled /\ Len(b0.reports) >= settings.maxReportCount
      BY <1>2, <2>5 DEF Stuck
    <2>6. CASE buildSingleChainReport(settings, 0, s.c, x.ready) = {}
      BY <1>8, <2>6 DEF Stuck
    <2> QED BY <2>1, <2>2, <2>3, <2>4, <2>5, <2>6 DEF PassStops
  <1> QED BY <1>2, <1>3, <1>5, <1>9 DEF PassEffect

LEMMA AddedEffect ==
    ASSUME NEW chains, NEW senders, NEW settings \in BuilderSetting,
           NEW nonces, nonces \in [DOMAIN nonces -> Nat], NEW O, NEW c0 \in O, NEW s,
           PassState(chains, senders, settings, nonces, O, c0, s),
           NEW x, x = extractReadyMessages(s.b.expected, nonces, s.c), NEW s1, NEW b0,
           PassBase(chains, senders, settings, nonces, O, s, x, b0),
           PassAdds(settings, s, s1, x, b0)
    PROVE  \E S : S # {} /\ PassEffect(settings, s, s1, x, S)
  <1>1. PICK S :
           /\ S = buildSingleChainReport(settings, b0.used[Len(b0.used)], s.c, x.ready)
           /\ S # {} /\ s.c.complete /\ ~shouldCreateNewExecReport(settings, b0)
           /\ s1 = [b |-> appendChainReport(b0, s.c, S), c |-> markNewMessagesExecuted(s.c, S),
                    done |-> ~settings.multipleReportsEnabled]
    BY DEF PassAdds
  <1>2. /\ s1.b = appendChainReport(b0, s.c, S) /\ s1.c = markNewMessagesExecuted(s.c, S)
        /\ s1.done = ~settings.multipleReportsEnabled
    BY <1>1
  <1>3. /\ Basic(chains, senders, settings, nonces, O, b0) /\ b0.expected = x.expected
        /\ Kept(s.b.reports, b0.reports) /\ NewPlaces(s.b.reports, b0.reports) = {}
        /\ Len(s.b.reports) <= Len(b0.reports)
    BY DEF PassBase
  <1>4. /\ s.c \in CommitData(chains, senders) /\ WellNonced(s.b.expected, nonces)
        /\ Marks(c0, s.c)
    BY DEF PassState, Basic
  <1>5. /\ S \in SUBSET (1..Len(s.c.messages)) /\ S \subseteq x.ready
        /\ fits(settings, b0.used[Len(b0.used)], s.c, S)
        /\ \A i \in S : Passable(s.c, i)
    <2>1. Chosen(settings, b0.used[Len(b0.used)], s.c, x.ready, S)
      BY <1>1, <1>4, ChosenMessages
    <2> QED BY <1>1, <2>1 DEF Chosen
  <1>6. PICK b1 : b1 = appendChainReport(b0, s.c, S) OBVIOUS
  <1>7. ReportAdded(chains, senders, settings, nonces, O, b0, b1, s.c, S)
    BY <1>1, <1>3, <1>4, <1>5, <1>6, ChainReportAdded
  <1>8. /\ Kept(b0.reports, b1.reports)
        /\ Added(b0.reports, b1.reports, s.c.chain, selectMessages(s.c, S))
        /\ b1.expected = b0.expected /\ Len(b1.reports) = Len(b0.reports)
    BY <1>7 DEF ReportAdded
  <1>9. Indexed(s.c, S, b0.reports, b1.reports) BY <1>4, <1>5, <1>8, IndexedPlaces
  <1>10. Places(b0.reports) = Places(s.b.reports) BY <1>3 DEF NewPlaces, Kept
  <1>11. Indexed(s.c, S, s.b.reports, b1.reports)
    <2>1. NewPlaces(b0.reports, b1.reports) = NewPlaces(s.b.reports, b1.reports)
      BY <1>10 DEF NewPlaces
    <2> QED BY <1>9, <1>10, <2>1 DEF Indexed
  <1>12. Kept(s.b.reports, b1.reports) BY <1>3, <1>8 DEF Kept
  <1>13. s1.c.executed = s.c.executed \cup {s.c.messages[i].seqNum : i \in S}
    BY <1>2, <1>4, <1>5, MarkedMore
  <1>14. PassEffect(settings, s, s1, x, S)
    BY <1>1, <1>2, <1>3, <1>5, <1>6, <1>8, <1>11, <1>12, <1>13 DEF PassEffect
  <1> QED BY <1>1, <1>14

LEMMA AddPassEffect ==
    ASSUME NEW chains, NEW senders, NEW settings \in BuilderSetting,
           NEW nonces, nonces \in [DOMAIN nonces -> Nat], NEW O, NEW c0 \in O, NEW s,
           PassState(chains, senders, settings, nonces, O, c0, s),
           NEW x, x = extractReadyMessages(s.b.expected, nonces, s.c),
           NEW s1, s1 = addPass(settings, nonces, s)
    PROVE  \E S : PassEffect(settings, s, s1, x, S)
  <1>1. PICK b0 : /\ PassBase(chains, senders, settings, nonces, O, s, x, b0)
                  /\ PassStops(settings, s, s1, x, b0) \/ PassAdds(settings, s, s1, x, b0)
    BY AddPass
  <1>2. CASE PassStops(settings, s, s1, x, b0)
    <2>1. PassEffect(settings, s, s1, x, {}) BY <1>1, <1>2, StoppedEffect
    <2> QED BY <2>1
  <1>3. CASE PassAdds(settings, s, s1, x, b0)
    <2>1. \E S : S # {} /\ PassEffect(settings, s, s1, x, S) BY <1>1, <1>3, AddedEffect
    <2> QED BY <2>1
  <1> QED BY <1>1, <1>2, <1>3

-----------------------------------------------------------------------------
(* The invariant of the builder over well-formed commit reports: besides   *)
(* the above, every message is placed once, ordered messages are placed    *)
(* with growing nonces, and what could be executed is placed.              *)

SeqOf(c, i) == c.messages[i].seqNum
SeqAt(R, p) == MessageAt(R, p).seqNum
NonceAt(R, p) == MessageAt(R, p).nonce

InOrder(nonces, R, e, p) ==
    /\ KeyAt(R, p) \in DOMAIN e /\ NonceAt(R, p) < e[KeyAt(R, p)]
    /\ KeyAt(R, p) \in DOMAIN nonces /\ nonces[KeyAt(R, p)] < NonceAt(R, p)
OrderedPlaces(nonces, R, e) ==
    \A p \in Places(R) : NonceAt(R, p) # 0 =>
        /\ InOrder(nonces, R, e, p)
        /\ \A q \in Places(R) : NonceAt(R, q) # 0 /\ KeyAt(R, q) = KeyAt(R, p) /\ Earlier(q, p)
                                => NonceAt(R, q) < NonceAt(R, p)

Distinct(R) ==
    \A p, q \in Places(R) : ChainAt(R, p) = ChainAt(R, q) /\ SeqAt(R, p) = SeqAt(R, q) => p = q

\* A sender has an expected nonce only if its next message was offered.
Entered(O, nonces, e) ==
    \A k \in DOMAIN e : \E c \in O : \E i \in 1..Len(c.messages) :
        KeyOf(c, i) = k /\ First(nonces, c, i)

\* The new places of a pass, seen from the commit report.
LEMMA NewPlaceIs ==
    ASSUME NEW c, NEW S, NEW R, NEW R1, Indexed(c, S, R, R1), NEW q \in NewPlaces(R, R1)
    PROVE  /\ IndexAt(S, q) \in S /\ ChainAt(R1, q) = c.chain
           /\ SeqAt(R1, q) = SeqOf(c, IndexAt(S, q))
           /\ NonceAt(R1, q) = NonceOf(c, IndexAt(S, q))
           /\ KeyAt(R1, q) = KeyOf(c, IndexAt(S, q))
  <1>1. /\ IndexAt(S, q) \in S /\ ChainAt(R1, q) = c.chain
        /\ MessageAt(R1, q) = c.messages[IndexAt(S, q)]
    BY DEF Indexed
  <1> QED BY <1>1 DEF SeqAt, SeqOf, NonceAt, NonceOf, KeyAt, KeyOf, SenderKey

LEMMA OldPlaceIs ==
    ASSUME NEW R, NEW R1, Kept(R, R1), NEW p \in Places(R)
    PROVE  /\ p \in Places(R1) /\ ChainAt(R1, p) = ChainAt(R, p) /\ SeqAt(R1, p) = SeqAt(R, p)
           /\ NonceAt(R1, p) = NonceAt(R, p) /\ KeyAt(R1, p) = KeyAt(R, p)
           /\ MessageAt(R1, p) = MessageAt(R, p)
  <1>1. /\ p \in Places(R1) /\ ChainAt(R1, p) = ChainAt(R, p)
        /\ MessageAt(R1, p) = MessageAt(R, p)
    BY DEF Kept
  <1> QED BY <1>1 DEF SeqAt, NonceAt, KeyAt

LEMMA NonceAtType ==
    ASSUME NEW chains, NEW senders, NEW R \in Seq(Seq(ChainReport(chains, senders))),
           NEW p \in Places(R)
    PROVE  NonceAt(R, p) \in Nat /\ SeqAt(R, p) \in Nat
  <1>1. Parts(chains, senders, R, p) BY PlaceParts
  <1>2. MessageAt(R, p) \in Message(senders) BY <1>1 DEF Parts
  <1> QED BY <1>2 DEF Message, NonceAt, SeqAt

LEMMA OrderedStep ==
    ASSUME NEW chains, NEW senders, NEW nonces, nonces \in [DOMAIN nonces -> Nat],
           NEW c, NEW S, NEW R \in Seq(Seq(ChainReport(chains, senders))),
           NEW R1, Kept(R, R1), Indexed(c, S, R, R1),
           NEW e0, WellNonced(e0, nonces), NEW e, NEW ready, S \subseteq ready,
           \A i \in S : NonceOf(c, i) \in Nat, NEW n,
           ExtractedBasic(e0, nonces, c, ready, e, n), ExtractedOrder(e0, nonces, c, ready, e),
           OrderedPlaces(nonces, R, e0)
    PROVE  OrderedPlaces(nonces, R1, e)
  <1>1. \A k \in DOMAIN e0 : k \in DOMAIN e /\ e0[k] <= e[k] /\ e0[k] \in Nat /\ e[k] \in Nat
    BY DEF ExtractedBasic, WellNonced
  <1>2. \A p \in Places(R1) : p \in Places(R) \/ p \in NewPlaces(R, R1) BY DEF NewPlaces
  <1>3. ASSUME NEW p \in Places(R), NonceAt(R1, p) # 0
        PROVE  /\ InOrder(nonces, R1, e, p) /\ KeyAt(R1, p) \in DOMAIN e0
               /\ NonceAt(R1, p) < e0[KeyAt(R1, p)] /\ NonceAt(R1, p) \in Nat
    <2>1. /\ NonceAt(R1, p) = NonceAt(R, p) /\ KeyAt(R1, p) = KeyAt(R, p) BY OldPlaceIs
    <2>2. NonceAt(R, p) \in Nat BY NonceAtType
    <2>3. InOrder(nonces, R, e0, p) BY <1>3, <2>1 DEF OrderedPlaces
    <2>4. PICK k : k = KeyAt(R, p) OBVIOUS
    <2>5. PICK v \in Nat : v = NonceAt(R, p) BY <2>2
    <2>6. k \in DOMAIN e0 /\ v < e0[k] /\ k \in DOMAIN nonces /\ nonces[k] < v
      BY <2>3, <2>4, <2>5 DEF InOrder
    <2>7. k \in DOMAIN e /\ v < e[k] BY <1>1, <2>6
    <2> QED BY <2>1, <2>4, <2>5, <2>6, <2>7 DEF InOrder
  <1>4. ASSUME NEW q \in NewPlaces(R, R1), NonceAt(R1, q) # 0
        PROVE  /\ InOrder(nonces, R1, e, q)
               /\ KeyAt(R1, q) \in DOMAIN e0 => e0[KeyAt(R1, q)] <= NonceAt(R1, q)
               /\ NonceAt(R1, q) \in Nat
    <2>1. /\ IndexAt(S, q) \in S /\ NonceAt(R1, q) = NonceOf(c, IndexAt(S, q))
          /\ KeyAt(R1, q) = KeyOf(c, IndexAt(S, q))
      BY NewPlaceIs
    <2>2. InRange(e0, nonces, c, e, IndexAt(S, q)) BY <1>4, <2>1 DEF ExtractedOrder
    <2> QED BY <2>1, <2>2 DEF InRange, InOrder
  <1>5. ASSUME NEW p \in Places(R1), NonceAt(R1, p) # 0, NEW q \in Places(R1),
               NonceAt(R1, q) # 0, KeyAt(R1, q) = KeyAt(R1, p), Earlier(q, p)
        PROVE  NonceAt(R1, q) < NonceAt(R1, p)
    <2>1. CASE p \in Places(R) /\ q \in Places(R)
      <3>1. /\ NonceAt(R1, p) = NonceAt(R, p) /\ KeyAt(R1, p) = KeyAt(R, p) BY <2>1, OldPlaceIs
      <3>2. /\ NonceAt(R1, q) = NonceAt(R, q) /\ KeyAt(R1, q) = KeyAt(R, q) BY <2>1, OldPlaceIs
      <3>3. NonceAt(R, q) < NonceAt(R, p) BY <1>5, <2>1, <3>1, <3>2 DEF OrderedPlaces
      <3> QED BY <3>1, <3>2, <3>3
    <2>2. CASE p \in NewPlaces(R, R1) /\ q \in Places(R)
      <3>1. PICK k : k = KeyAt(R1, p) OBVIOUS
      <3>2. k \in DOMAIN e0 /\ NonceAt(R1, q) < e0[k] /\ NonceAt(R1, q) \in Nat
        BY <1>3, <1>5, <2>2, <3>1
      <3>3. e0[k] <= NonceAt(R1, p) /\ NonceAt(R1, p) \in Nat
        BY <1>4, <1>5, <2>2, <3>1, <3>2
      <3>4. e0[k] \in Nat BY <1>1, <3>2
      <3> QED BY <3>2, <3>3, <3>4
    <2>3. CASE p \in NewPlaces(R, R1) /\ q \in NewPlaces(R, R1)
      <3>1. /\ IndexAt(S, q) \in S /\ NonceAt(R1, q) = NonceOf(c, IndexAt(S, q))
            /\ KeyAt(R1, q) = KeyOf(c, IndexAt(S, q))
        BY <2>3, NewPlaceIs
      <3>2. /\ IndexAt(S, p) \in S /\ NonceAt(R1, p) = NonceOf(c, IndexAt(S, p))
            /\ KeyAt(R1, p) = KeyOf(c, IndexAt(S, p))
        BY <2>3, NewPlaceIs
      <3>3. IndexAt(S, q) < IndexAt(S, p) BY <1>5, <2>3 DEF Indexed
      <3>4. PICK i \in ready : i = IndexAt(S, p) BY <3>2
      <3>5. PICK j \in ready : j = IndexAt(S, q) BY <3>1
      <3>6. /\ NonceOf(c, i) # 0 /\ NonceOf(c, j) # 0 /\ j < i /\ KeyOf(c, j) = KeyOf(c, i)
        BY <1>5, <3>1, <3>2, <3>3, <3>4, <3>5
      <3>7. NonceOf(c, j) < NonceOf(c, i) BY <3>6 DEF ExtractedOrder
      <3> QED BY <3>1, <3>2, <3>4, <3>5, <3>7
    <2>4. CASE p \in Places(R) /\ q \in NewPlaces(R, R1)
      BY <1>5, <2>4 DEF Indexed
    <2> QED BY <1>2, <2>1, <2>2, <2>3, <2>4
  <1>6. \A p \in Places(R1) : NonceAt(R1, p) # 0 => InOrder(nonces, R1, e, p)
    BY <1>2, <1>3, <1>4
  <1> QED BY <1>5, <1>6 DEF OrderedPlaces

\* Of the commit report c0: what was placed is marked, and what was marked by
\* the passes is placed.
PlacedIn(R, c, i) ==
    \E p \in Places(R) : ChainAt(R, p) = c.chain /\ MessageAt(R, p) = c.messages[i]
Marked(R, c0, c) ==
    \A p \in Places(R) : \A i \in 1..Len(c0.messages) :
        ChainAt(R, p) = c0.chain /\ SeqAt(R, p) = SeqOf(c0, i) => SeqOf(c0, i) \in c.executed
MarkedOnly(R, c0, c) ==
    \A i \in 1..Len(c0.messages) : SeqOf(c0, i) \in c.executed =>
        SeqOf(c0, i) \in c0.executed \/ PlacedIn(R, c0, i)

UniqueSeqs(c) ==
    \A i, j \in 1..Len(c.messages) : SeqOf(c, i) = SeqOf(c, j) => i = j

LEMMA DistinctStep ==
    ASSUME NEW c0, UniqueSeqs(c0), NEW c, Marks(c0, c), NEW S \in SUBSET (1..Len(c.messages)),
           \A i \in S : Passable(c, i), NEW R, NEW R1, Kept(R, R1), Indexed(c, S, R, R1),
           Distinct(R), Marked(R, c0, c)
    PROVE  Distinct(R1)
  <1>1. \A p \in Places(R1) : p \in Places(R) \/ p \in NewPlaces(R, R1) BY DEF NewPlaces
  <1>2. /\ c.chain = c0.chain /\ \A i \in S : /\ i \in 1..Len(c0.messages)
                                               /\ SeqOf(c, i) = SeqOf(c0, i)
                                               /\ SeqOf(c, i) \notin c.executed
    BY DEF Marks, SeqOf, Passable
  <1>3. ASSUME NEW p \in Places(R), NEW q \in NewPlaces(R, R1),
               ChainAt(R1, p) = ChainAt(R1, q), SeqAt(R1, p) = SeqAt(R1, q)
        PROVE  FALSE
    <2>1. ChainAt(R1, p) = ChainAt(R, p) /\ SeqAt(R1, p) = SeqAt(R, p) BY OldPlaceIs
    <2>2. /\ IndexAt(S, q) \in S /\ ChainAt(R1, q) = c.chain
          /\ SeqAt(R1, q) = SeqOf(c, IndexAt(S, q))
      BY NewPlaceIs
    <2>3. PICK i \in S : i = IndexAt(S, q) BY <2>2
    <2>4. i \in 1..Len(c0.messages) /\ ChainAt(R, p) = c0.chain /\ SeqAt(R, p) = SeqOf(c0, i)
      BY <1>2, <1>3, <2>1, <2>2, <2>3
    <2>5. SeqOf(c0, i) \in c.executed BY <2>4 DEF Marked
    <2> QED BY <1>2, <2>5
  <1>4. ASSUME NEW p \in NewPlaces(R, R1), NEW q \in NewPlaces(R, R1),
               SeqAt(R1, p) = SeqAt(R1, q)
        PROVE  p = q
    <2>1. IndexAt(S, q) \in S /\ SeqAt(R1, q) = SeqOf(c, IndexAt(S, q)) BY NewPlaceIs
    <2>2. IndexAt(S, p) \in S /\ SeqAt(R1, p) = SeqOf(c, IndexAt(S, p)) BY NewPlaceIs
    <2>3. IndexAt(S, p) = IndexAt(S, q) BY <1>2, <1>4, <2>1, <2>2 DEF UniqueSeqs
    <2> QED BY <2>3 DEF Indexed
  <1>5. ASSUME NEW p \in Places(R), NEW q \in Places(R),
               ChainAt(R1, p) = ChainAt(R1, q), SeqAt(R1, p) = SeqAt(R1, q)
        PROVE  p = q
    <2>1. ChainAt(R1, p) = ChainAt(R, p) /\ SeqAt(R1, p) = SeqAt(R, p) BY OldPlaceIs
    <2>2. ChainAt(R1, q) = ChainAt(R, q) /\ SeqAt(R1, q) = SeqAt(R, q) BY OldPlaceIs
    <2> QED BY <1>5, <2>1, <2>2 DEF Distinct
  <1> QED BY <1>1, <1>3, <1>4, <1>5 DEF Distinct

LEMMA MarkedStep ==
    ASSUME NEW c0, UniqueSeqs(c0), NEW c, Marks(c0, c), NEW S \in SUBSET (1..Len(c.messages)),
           NEW c1, c1.executed = c.executed \cup {c.messages[i].seqNum : i \in S},
           NEW R, NEW R1, Kept(R, R1), Indexed(c, S, R, R1),
           Marked(R, c0, c), MarkedOnly(R, c0, c)
    PROVE  Marked(R1, c0, c1) /\ MarkedOnly(R1, c0, c1)
  <1>1. \A p \in Places(R1) : p \in Places(R) \/ p \in NewPlaces(R, R1) BY DEF NewPlaces
  <1>2. c1.executed = c.executed \cup {SeqOf(c, i) : i \in S} BY DEF SeqOf
  <1>3. /\ c.chain = c0.chain /\ c.messages = c0.messages
        /\ \A i \in S : /\ i \in 1..Len(c0.messages) /\ SeqOf(c, i) = SeqOf(c0, i)
    BY DEF Marks, SeqOf
  <1>4. ASSUME NEW p \in Places(R1), NEW i \in 1..Len(c0.messages), ChainAt(R1, p) = c0.chain,
               SeqAt(R1, p) = SeqOf(c0, i)
        PROVE  SeqOf(c0, i) \in c1.executed
    <2>1. CASE p \in Places(R)
      <3>1. ChainAt(R1, p) = ChainAt(R, p) /\ SeqAt(R1, p) = SeqAt(R, p) BY <2>1, OldPlaceIs
      <3> QED BY <1>2, <1>4, <2>1, <3>1 DEF Marked
    <2>2. CASE p \in NewPlaces(R, R1)
      <3>1. IndexAt(S, p) \in S /\ SeqAt(R1, p) = SeqOf(c, IndexAt(S, p)) BY <2>2, NewPlaceIs
      <3> QED BY <1>2, <1>4, <3>1
    <2> QED BY <1>1, <2>1, <2>2
  <1>5. ASSUME NEW i \in 1..Len(c0.messages), SeqOf(c0, i) \in c1.executed,
               SeqOf(c0, i) \notin c0.executed
        PROVE  PlacedIn(R1, c0, i)
    <2>1. CASE SeqOf(c0, i) \in c.executed
      <3>1. PlacedIn(R, c0, i) BY <1>5, <2>1 DEF MarkedOnly
      <3>2. PICK p \in Places(R) : ChainAt(R, p) = c0.chain /\ MessageAt(R, p) = c0.messages[i]
        BY <3>1 DEF PlacedIn
      <3>3. /\ p \in Places(R1) /\ ChainAt(R1, p) = ChainAt(R, p)
            /\ MessageAt(R1, p) = MessageAt(R, p)
        BY OldPlaceIs
      <3> QED BY <3>2, <3>3 DEF PlacedIn
    <2>2. CASE SeqOf(c0, i) \in {SeqOf(c, j) : j \in S}
      <3>1. PICK j \in S : SeqOf(c0, i) = SeqOf(c, j) BY <2>2
      <3>2. i = j BY <1>3, <3>1 DEF UniqueSeqs
      <3>3. PICK q \in NewPlaces(R, R1) : MessageAt(R1, q) = c.messages[j] BY DEF Indexed
      <3>4. ChainAt(R1, q) = c.chain BY DEF Indexed
      <3>5. q \in Places(R1) BY DEF NewPlaces
      <3> QED BY <1>3, <3>2, <3>3, <3>4, <3>5 DEF PlacedIn
    <2> QED BY <1>2, <1>5, <2>1, <2>2
  <1> QED BY <1>4, <1>5 DEF Marked, MarkedOnly

\* What could be executed if it were alone in a report.
ExecutableIn(settings, nonces, c, i) ==
    /\ c.complete /\ Passable(c, i) /\ c.messages[i].cost <= settings.maxGas
    /\ NonceOf(c, i) = 0 \/ First(nonces, c, i)
HasOrdered(c) == \E i \in 1..Len(c.messages) : NonceOf(c, i) # 0

\* Add is through with c: it has placed what could be executed, or a limit or
\* the rejection of ordered messages kept it from it.
ThroughWith(settings, nonces, R, c) ==
    \/ settings.multipleReportsEnabled /\ (Len(R) >= settings.maxReportCount \/ HasOrdered(c))
    \/ ~settings.multipleReportsEnabled /\ Places(R) # {}
    \/ \A i \in 1..Len(c.messages) : ExecutableIn(settings, nonces, c, i) => PlacedIn(R, c, i)

\* c0 has messages and nonces of its own.
Separate(O, c0) ==
    \A c \in O : \A i \in 1..Len(c.messages) : \A j \in 1..Len(c0.messages) :
        /\ ~(c.chain = c0.chain /\ SeqOf(c, i) = SeqOf(c0, j))
        /\ ~(KeyOf(c, i) = KeyOf(c0, j) /\ NonceOf(c, i) = NonceOf(c0, j) /\ NonceOf(c0, j) # 0)

LEMMA EnteredStep ==
    ASSUME NEW nonces, NEW c0, NEW c, Marks(c0, c), NEW O, c0 \in O,
           NEW e0, NEW e, NEW ready, NEW n, ready \in SUBSET (1..Len(c.messages)),
           ExtractedFirst(e0, nonces, c, ready, e, n), Entered(O, nonces, e0)
    PROVE  Entered(O, nonces, e)
  <1> SUFFICES ASSUME NEW k \in DOMAIN e
               PROVE  \E d \in O : \E i \in 1..Len(d.messages) :
                          KeyOf(d, i) = k /\ First(nonces, d, i)
    BY DEF Entered
  <1>1. CASE k \in DOMAIN e0 BY <1>1 DEF Entered
  <1>2. CASE k \notin DOMAIN e0
    <2>1. PICK i \in ready : KeyOf(c, i) = k /\ First(nonces, c, i)
      BY <1>2 DEF ExtractedFirst
    <2>2. /\ i \in 1..Len(c0.messages) /\ KeyOf(c0, i) = KeyOf(c, i)
          /\ NonceOf(c0, i) = NonceOf(c, i)
      BY DEF Marks, KeyOf, NonceOf, SenderKey
    <2>3. First(nonces, c0, i) BY <2>1, <2>2 DEF First
    <2> QED BY <2>1, <2>2, <2>3
  <1> QED BY <1>1, <1>2

\* The nonce that comes next is ready unless it is marked.
LEMMA NextIsReady ==
    ASSUME NEW nonces, NEW c0, NEW c, Marks(c0, c), NEW Old, Separate(Old, c0),
           NEW e0, Entered(Old, nonces, e0), NEW e, NEW ready,
           ExtractedFirst(e0, nonces, c, ready, e, Len(c.messages)),
           NEW i \in 1..Len(c.messages), Passable(c, i), First(nonces, c0, i)
    PROVE  i \in ready
  <1>1. /\ i \in 1..Len(c0.messages) /\ KeyOf(c0, i) = KeyOf(c, i)
        /\ NonceOf(c0, i) = NonceOf(c, i)
    BY DEF Marks, KeyOf, NonceOf, SenderKey
  <1>2. First(nonces, c, i) BY <1>1 DEF First
  <1>3. KeyOf(c, i) \notin DOMAIN e0
    <2> SUFFICES ASSUME KeyOf(c, i) \in DOMAIN e0 PROVE FALSE OBVIOUS
    <2>1. PICK d \in Old : \E j \in 1..Len(d.messages) :
                               KeyOf(d, j) = KeyOf(c, i) /\ First(nonces, d, j)
      BY DEF Entered
    <2>2. PICK j \in 1..Len(d.messages) : KeyOf(d, j) = KeyOf(c, i) /\ First(nonces, d, j)
      BY <2>1
    <2>3. NonceOf(d, j) = NonceOf(c0, i) /\ NonceOf(c0, i) # 0
      BY <1>1, <2>2 DEF First
    <2> QED BY <1>1, <2>2, <2>3 DEF Separate
  <1> QED BY <1>2, <1>3 DEF ExtractedFirst

LEMMA StuckMeansThrough ==
    ASSUME NEW chains, NEW senders, NEW settings \in BuilderSetting, NEW nonces,
           NEW c0 \in CommitData(chains, senders), NEW Old, Separate(Old, c0), NEW s, NEW s1,
           NEW x, s.c \in CommitData(chains, senders), Marks(c0, s.c),
           NEW e0, ~settings.multipleReportsEnabled => Entered(Old, nonces, e0),
           ExtractedFirst(e0, nonces, s.c, x.ready, x.expected, Len(s.c.messages)),
           ExtractedBasic(e0, nonces, s.c, x.ready, x.expected, Len(s.c.messages)),
           Kept(s.b.reports, s1.b.reports),
           MarkedOnly(s.b.reports, c0, s.c), Stuck(settings, s, s1, x)
    PROVE  ThroughWith(settings, nonces, s1.b.reports, c0)
  <1>1. CASE settings.multipleReportsEnabled /\ Len(s1.b.reports) >= settings.maxReportCount
    BY <1>1 DEF ThroughWith
  <1>2. CASE ~settings.multipleReportsEnabled /\ Places(s.b.reports) # {}
    BY <1>2 DEF ThroughWith, Kept
  <1>3. CASE settings.multipleReportsEnabled /\ HasOrdered(c0) BY <1>3 DEF ThroughWith
  <1>4. CASE /\ \A i \in x.ready : s.c.complete => ~fits(settings, 0, s.c, {i})
             /\ settings.multipleReportsEnabled => ~HasOrdered(c0)
    <2>1. ASSUME NEW i \in 1..Len(c0.messages), ExecutableIn(settings, nonces, c0, i)
          PROVE  PlacedIn(s1.b.reports, c0, i)
      <3>1. /\ i \in 1..Len(s.c.messages) /\ NonceOf(s.c, i) = NonceOf(c0, i)
            /\ s.c.messages[i] = c0.messages[i] /\ s.c.complete
        BY <2>1 DEF Marks, NonceOf, ExecutableIn
      <3>2. /\ c0.messages[i].cost <= settings.maxGas /\ Passable(c0, i)
            /\ NonceOf(c0, i) = 0 \/ First(nonces, c0, i)
        BY <2>1 DEF ExecutableIn
      <3>3. s.c.messages[i].cost <= settings.maxGas - 0
        <4>1. settings.maxGas \in Nat BY DEF BuilderSetting
        <4>2. settings.maxGas - 0 = settings.maxGas BY <4>1
        <4> QED BY <3>1, <3>2, <4>2
      <3>4. fits(settings, 0, s.c, {i}) BY <3>1, <3>3, OneFits
      <3>5. i \notin x.ready BY <1>4, <3>1, <3>4
      <3>6. ~Passable(s.c, i)
        <4> SUFFICES ASSUME Passable(s.c, i) PROVE FALSE OBVIOUS
        <4>1. CASE NonceOf(c0, i) = 0 BY <3>1, <3>5, <4>1 DEF ExtractedBasic
        <4>2. CASE NonceOf(c0, i) # 0
          <5>1. ~settings.multipleReportsEnabled BY <1>4, <4>2 DEF HasOrdered
          <5>2. First(nonces, c0, i) BY <3>2, <4>2
          <5>3. i \in x.ready BY <3>1, <5>1, <5>2, NextIsReady
          <5> QED BY <3>5, <5>3
        <4> QED BY <4>1, <4>2
      <3>7. SeqOf(c0, i) \in s.c.executed /\ SeqOf(c0, i) \notin c0.executed
        BY <3>1, <3>2, <3>6 DEF Passable, SeqOf
      <3>8. PlacedIn(s.b.reports, c0, i) BY <3>7 DEF MarkedOnly
      <3>9. PICK p \in Places(s.b.reports) :
               /\ ChainAt(s.b.reports, p) = c0.chain
               /\ MessageAt(s.b.reports, p) = c0.messages[i]
        BY <3>8 DEF PlacedIn
      <3> QED BY <3>9 DEF PlacedIn, Kept
    <2> QED BY <2>1 DEF ThroughWith
  <1> QED BY <1>1, <1>2, <1>3, <1>4 DEF Stuck

LEMMA StaysThrough ==
    ASSUME NEW settings \in BuilderSetting, NEW nonces, NEW c, NEW R, NEW R1, Kept(R, R1),
           Len(R) \in Nat, Len(R1) \in Nat, Len(R) <= Len(R1),
           ThroughWith(settings, nonces, R, c)
    PROVE  ThroughWith(settings, nonces, R1, c)
  <1>1. CASE settings.multipleReportsEnabled /\ Len(R) >= settings.maxReportCount
    <2>1. settings.maxReportCount \in Nat BY DEF BuilderSetting
    <2>2. Len(R1) >= settings.maxReportCount BY <1>1, <2>1
    <2> QED BY <1>1, <2>2 DEF ThroughWith
  <1>2. CASE settings.multipleReportsEnabled /\ HasOrdered(c) BY <1>2 DEF ThroughWith
  <1>3. CASE ~settings.multipleReportsEnabled /\ Places(R) # {}
    BY <1>3 DEF ThroughWith, Kept
  <1>4. CASE \A i \in 1..Len(c.messages) :
                ExecutableIn(settings, nonces, c, i) => PlacedIn(R, c, i)
    <2>1. \A i \in 1..Len(c.messages) : PlacedIn(R, c, i) => PlacedIn(R1, c, i)
      BY DEF PlacedIn, Kept
    <2> QED BY <1>4, <2>1 DEF ThroughWith
  <1> QED BY <1>1, <1>2, <1>3, <1>4 DEF ThroughWith

\* How many messages of c0 are marked: at least one more after each pass that
\* does not end the loop.
MarkedOf(c0, c) == {j \in 1..Len(c0.messages) : SeqOf(c0, j) \in c.executed}

LEMMA PassCounts ==
    ASSUME NEW c0, Len(c0.messages) \in Nat, NEW c, Marks(c0, c),
           NEW S \in SUBSET (1..Len(c.messages)), S # {}, \A i \in S : Passable(c, i),
           NEW c1, c1.executed = c.executed \cup {c.messages[i].seqNum : i \in S},
           NEW k \in Nat, Cardinality(MarkedOf(c0, c)) >= k
    PROVE  Cardinality(MarkedOf(c0, c1)) >= k + 1
  <1>1. PICK i \in S : TRUE OBVIOUS
  <1>2. i \in 1..Len(c0.messages) /\ SeqOf(c0, i) \notin c.executed /\ SeqOf(c0, i) \in c1.executed
    BY DEF Marks, SeqOf, Passable
  <1> DEFINE A == MarkedOf(c0, c)
             B == MarkedOf(c0, c1)
  <1>3. A \subseteq B /\ i \notin A /\ i \in B BY <1>2 DEF MarkedOf
  <1>4. IsFiniteSet(A) /\ IsFiniteSet(B)
    <2>1. IsFiniteSet(1..Len(c0.messages)) BY FS_Interval
    <2>2. A \subseteq 1..Len(c0.messages) /\ B \subseteq 1..Len(c0.messages) BY DEF MarkedOf
    <2> QED BY <2>1, <2>2, FS_Subset
  <1> HIDE DEF A, B
  <1>5. Cardinality(A) \in Nat /\ Cardinality(B) \in Nat BY <1>4, FS_CardinalityType
  <1>6. IsFiniteSet(A \cup {i}) /\ Cardinality(A \cup {i}) = Cardinality(A) + 1
    BY <1>3, <1>4, FS_AddElement
  <1>7. A \cup {i} \subseteq B BY <1>3
  <1>8. Cardinality(A \cup {i}) <= Cardinality(B) BY <1>4, <1>7, FS_Subset
  <1>9. Cardinality(A) >= k BY DEF A
  <1> QED BY <1>5, <1>6, <1>8, <1>9 DEF B

StrongPass(chains, senders, settings, nonces, Old, c0, b, s) ==
    /\ PassState(chains, senders, settings, nonces, Old \cup {c0}, c0, s)
    /\ OrderedPlaces(nonces, s.b.reports, s.b.expected)
    /\ Entered(Old \cup {c0}, nonces, s.b.expected)
    /\ ~settings.multipleReportsEnabled /\ ~s.done => Entered(Old, nonces, s.b.expected)
    /\ Distinct(s.b.reports)
    /\ Marked(s.b.reports, c0, s.c) /\ MarkedOnly(s.b.reports, c0, s.c)
    /\ Kept(b.reports, s.b.reports) /\ Len(b.reports) <= Len(s.b.reports)
    /\ s.done => ThroughWith(settings, nonces, s.b.reports, c0)

LEMMA StrongPassStep ==
    ASSUME NEW chains, NEW senders, NEW settings \in BuilderSetting,
           NEW nonces, nonces \in [DOMAIN nonces -> Nat],
           NEW c0 \in CommitData(chains, senders), UniqueSeqs(c0), UniqueNonces(c0),
           NEW Old, Separate(Old, c0), NEW b, Len(b.reports) \in Nat, NEW s,
           StrongPass(chains, senders, settings, nonces, Old, c0, b, s), ~s.done,
           NEW s1, s1 = addPass(settings, nonces, s)
    PROVE  /\ StrongPass(chains, senders, settings, nonces, Old, c0, b, s1)
           /\ \A k \in Nat : Cardinality(MarkedOf(c0, s.c)) >= k =>
                 s1.done \/ Cardinality(MarkedOf(c0, s1.c)) >= k + 1
  <1> DEFINE O == Old \cup {c0}
  <1>1. /\ PassState(chains, senders, settings, nonces, O, c0, s)
        /\ OrderedPlaces(nonces, s.b.reports, s.b.expected) /\ Entered(O, nonces, s.b.expected)
        /\ ~settings.multipleReportsEnabled => Entered(Old, nonces, s.b.expected)
        /\ Distinct(s.b.reports)
        /\ Marked(s.b.reports, c0, s.c) /\ MarkedOnly(s.b.reports, c0, s.c)
        /\ Kept(b.reports, s.b.reports) /\ Len(b.reports) <= Len(s.b.reports)
    BY DEF StrongPass
  <1>2. c0 \in O OBVIOUS
  <1> HIDE DEF O
  <1>3. /\ s.c \in CommitData(chains, senders) /\ Marks(c0, s.c)
        /\ WellNonced(s.b.expected, nonces)
        /\ s.b.reports \in Seq(Seq(ChainReport(chains, senders))) /\ Len(s.b.reports) \in Nat
    BY <1>1 DEF PassState, Basic, BuilderType
  <1>4. PICK x : x = extractReadyMessages(s.b.expected, nonces, s.c) OBVIOUS
  <1>5. Extracted(s.b.expected, nonces, s.c, x.ready, x.expected, Len(s.c.messages))
    BY <1>3, <1>4, ReadyMessages
  <1>6. UniqueNonces(s.c)
    BY <1>3 DEF Marks, UniqueNonces, KeyOf, NonceOf, SenderKey
  <1>7. /\ ExtractedBasic(s.b.expected, nonces, s.c, x.ready, x.expected, Len(s.c.messages))
        /\ ExtractedOrder(s.b.expected, nonces, s.c, x.ready, x.expected)
        /\ ExtractedFirst(s.b.expected, nonces, s.c, x.ready, x.expected, Len(s.c.messages))
    BY <1>5, <1>6 DEF Extracted
  <1>8. x.ready \in SUBSET (1..Len(s.c.messages)) BY <1>7 DEF ExtractedBasic
  <1>9. PICK S : PassEffect(settings, s, s1, x, S) BY <1>1, <1>2, <1>4, AddPassEffect
  <1>10. /\ S \subseteq x.ready /\ S \in SUBSET (1..Len(s.c.messages))
         /\ \A i \in S : Passable(s.c, i)
         /\ Indexed(s.c, S, s.b.reports, s1.b.reports)
         /\ Kept(s.b.reports, s1.b.reports) /\ Len(s.b.reports) <= Len(s1.b.reports)
         /\ s1.b.expected = x.expected
         /\ s1.c.executed = s.c.executed \cup {s.c.messages[i].seqNum : i \in S}
         /\ S # {} => s1.done = ~settings.multipleReportsEnabled
         /\ S = {} => s1.done = TRUE /\ Stuck(settings, s, s1, x)
    BY <1>9 DEF PassEffect
  <1>11. PassState(chains, senders, settings, nonces, O, c0, s1) BY <1>1, <1>2, PassKeeps
  <1>12. OrderedPlaces(nonces, s1.b.reports, s1.b.expected)
    <2>1. \A i \in S : NonceOf(s.c, i) \in Nat
      <3>1. s.c.messages \in Seq(Message(senders)) BY <1>3 DEF CommitData
      <3>2. \A i \in S : s.c.messages[i] \in Message(senders) BY <1>10, <3>1
      <3> QED BY <3>2 DEF Message, NonceOf
    <2>2. OrderedPlaces(nonces, s1.b.reports, x.expected)
      BY <1>1, <1>3, <1>7, <1>10, <2>1, OrderedStep
    <2> QED BY <1>10, <2>2
  <1>13. Entered(O, nonces, s1.b.expected)
    <2>1. Entered(O, nonces, x.expected) BY <1>1, <1>2, <1>3, <1>7, <1>8, EnteredStep
    <2> QED BY <1>10, <2>1
  <1>14. Distinct(s1.b.reports) BY <1>1, <1>3, <1>10, DistinctStep
  <1>15. Marked(s1.b.reports, c0, s1.c) /\ MarkedOnly(s1.b.reports, c0, s1.c)
    <2>1. PICK R, R1, c, c1 : R = s.b.reports /\ R1 = s1.b.reports /\ c = s.c /\ c1 = s1.c
      OBVIOUS
    <2>2. /\ Marks(c0, c) /\ S \in SUBSET (1..Len(c.messages))
          /\ c1.executed = c.executed \cup {c.messages[i].seqNum : i \in S}
          /\ Kept(R, R1) /\ Indexed(c, S, R, R1) /\ Marked(R, c0, c) /\ MarkedOnly(R, c0, c)
      BY <1>1, <1>3, <1>10, <2>1
    <2>3. Marked(R1, c0, c1) /\ MarkedOnly(R1, c0, c1) BY <2>2, MarkedStep
    <2> QED BY <2>1, <2>3
  <1>16. Kept(b.reports, s1.b.reports) /\ Len(b.reports) <= Len(s1.b.reports)
    <2>1. Len(s1.b.reports) \in Nat BY <1>11 DEF PassState, Basic, BuilderType
    <2>2. Len(b.reports) <= Len(s1.b.reports) BY <1>1, <1>3, <1>10, <2>1
    <2>3. Kept(b.reports, s1.b.reports) BY <1>1, <1>10 DEF Kept
    <2> QED BY <2>2, <2>3
  <1>17. s1.done => ThroughWith(settings, nonces, s1.b.reports, c0)
    <2>1. CASE S = {}
      <3>1. Stuck(settings, s, s1, x) BY <1>10, <2>1
      <3> QED BY <1>1, <1>3, <1>7, <1>10, <3>1, StuckMeansThrough
    <2>2. CASE S # {}
      <3>1. Places(s1.b.reports) # {} BY <1>10, <2>2 DEF Indexed, NewPlaces
      <3> QED BY <1>10, <2>2, <3>1 DEF ThroughWith
    <2> QED BY <2>1, <2>2
  <1>18. settings.multipleReportsEnabled \/ s1.done
    BY <1>10
  <1>19. ASSUME NEW k \in Nat, Cardinality(MarkedOf(c0, s.c)) >= k
         PROVE  s1.done \/ Cardinality(MarkedOf(c0, s1.c)) >= k + 1
    <2>1. CASE S = {} BY <1>10, <2>1
    <2>2. CASE S # {}
      <3>1. Len(c0.messages) \in Nat
        <4>1. c0.messages \in Seq(Message(senders)) BY DEF CommitData
        <4> QED BY <4>1
      <3> QED BY <1>3, <1>10, <1>19, <2>2, <3>1, PassCounts
    <2> QED BY <2>1, <2>2
  <1>20. StrongPass(chains, senders, settings, nonces, Old, c0, b, s1)
    BY <1>11, <1>12, <1>13, <1>14, <1>15, <1>16, <1>17, <1>18 DEF StrongPass, O
  <1> QED BY <1>19, <1>20

BuilderInv(chains, senders, settings, nonces, O, b) ==
    /\ Basic(chains, senders, settings, nonces, O, b)
    /\ OrderedPlaces(nonces, b.reports, b.expected) /\ Entered(O, nonces, b.expected)
    /\ Distinct(b.reports)
    /\ \A c \in O : ThroughWith(settings, nonces, b.reports, c)

LEMMA StrongPassStart ==
    ASSUME NEW chains, NEW senders, NEW settings \in BuilderSetting, NEW nonces,
           NEW c0 \in CommitData(chains, senders), NEW Old, Separate(Old, c0), NEW b,
           BuilderInv(chains, senders, settings, nonces, Old, b), NEW s,
           s = [b |-> b, c |-> c0, done |-> FALSE]
    PROVE  StrongPass(chains, senders, settings, nonces, Old, c0, b, s)
  <1>1. s.b = b /\ s.c = c0 /\ s.done = FALSE OBVIOUS
  <1>2. /\ Basic(chains, senders, settings, nonces, Old, b)
        /\ OrderedPlaces(nonces, b.reports, b.expected) /\ Entered(Old, nonces, b.expected)
        /\ Distinct(b.reports)
    BY DEF BuilderInv
  <1>3. Basic(chains, senders, settings, nonces, Old \cup {c0}, b)
    <2>1. Old \subseteq Old \cup {c0} OBVIOUS
    <2> QED BY <1>2, <2>1, BasicMore
  <1>4. PassState(chains, senders, settings, nonces, Old \cup {c0}, c0, s)
    BY <1>1, <1>3 DEF PassState, Marks
  <1>5. Entered(Old \cup {c0}, nonces, b.expected) BY <1>2 DEF Entered
  <1>6. Marked(b.reports, c0, c0)
    <2> SUFFICES ASSUME NEW p \in Places(b.reports), NEW i \in 1..Len(c0.messages),
                        ChainAt(b.reports, p) = c0.chain, SeqAt(b.reports, p) = SeqOf(c0, i)
                 PROVE  FALSE
      BY DEF Marked
    <2>1. PICK d \in Old : \E j \in 1..Len(d.messages) : FromReport(b.reports, p, d, j)
      BY <1>2 DEF Basic, Sourced
    <2>2. PICK j \in 1..Len(d.messages) : FromReport(b.reports, p, d, j) BY <2>1
    <2>3. d.chain = c0.chain /\ SeqOf(d, j) = SeqOf(c0, i)
      BY <2>2 DEF FromReport, SeqAt, SeqOf
    <2> QED BY <2>3 DEF Separate
  <1>7. MarkedOnly(b.reports, c0, c0) BY DEF MarkedOnly
  <1>8. Kept(b.reports, b.reports) /\ Len(b.reports) <= Len(b.reports)
    <2>1. Len(b.reports) \in Nat BY <1>2 DEF Basic, BuilderType
    <2> QED BY <2>1 DEF Kept
  <1> QED BY <1>1, <1>2, <1>4, <1>5, <1>6, <1>7, <1>8 DEF StrongPass

LEMMA IntervalCount ==
    ASSUME NEW m \in Nat
    PROVE  IsFiniteSet(1..m) /\ Cardinality(1..m) = m
  <1>1. 1 \in Int /\ m \in Int OBVIOUS
  <1>2. IsFiniteSet(1..m) /\ Cardinality(1..m) = IF 1 > m THEN 0 ELSE m - 1 + 1
    BY ONLY <1>1, FS_Interval
  <1> QED BY <1>2

LEMMA StrongPasses ==
    ASSUME NEW chains, NEW senders, NEW settings \in BuilderSetting,
           NEW nonces, nonces \in [DOMAIN nonces -> Nat],
           NEW c0 \in CommitData(chains, senders), UniqueSeqs(c0), UniqueNonces(c0),
           NEW Old, Separate(Old, c0), NEW b,
           BuilderInv(chains, senders, settings, nonces, Old, b), NEW g,
           IsPasses(settings, nonces, b, c0, g, Len(c0.messages) + 1)
    PROVE  /\ StrongPass(chains, senders, settings, nonces, Old, c0, b, g[Len(c0.messages) + 1])
           /\ g[Len(c0.messages) + 1].done
  <1>1. PICK m \in Nat : m = Len(c0.messages)
    <2>1. c0.messages \in Seq(Message(senders)) BY DEF CommitData
    <2> QED BY <2>1
  <1>2. PICK n \in Nat : n = m + 1 BY <1>1
  <1>3. /\ g[0] = [b |-> b, c |-> c0, done |-> FALSE]
        /\ \A i \in 1..n : g[i] = IF g[i - 1].done THEN g[i - 1]
                                   ELSE addPass(settings, nonces, g[i - 1])
    <2>1. IsPasses(settings, nonces, b, c0, g, n) BY <1>1, <1>2
    <2> QED BY <2>1, PassesStep
  <1>4. Len(b.reports) \in Nat BY DEF BuilderInv, Basic, BuilderType
  <1> DEFINE good(i) == /\ StrongPass(chains, senders, settings, nonces, Old, c0, b, g[i])
                        /\ g[i].done \/ Cardinality(MarkedOf(c0, g[i].c)) >= i
             T == {i \in 0..n : good(i)}
  <1>5. IsFiniteSet(1..m) /\ Cardinality(1..m) = m
    BY IntervalCount
  <1>6. \A c : /\ Cardinality(MarkedOf(c0, c)) \in Nat /\ Cardinality(MarkedOf(c0, c)) <= m
    <2> TAKE c
    <2>1. MarkedOf(c0, c) \subseteq 1..m BY <1>1 DEF MarkedOf
    <2>2. IsFiniteSet(MarkedOf(c0, c)) /\ Cardinality(MarkedOf(c0, c)) <= Cardinality(1..m)
      BY <1>5, <2>1, FS_Subset
    <2> QED BY <1>5, <2>2, FS_CardinalityType
  <1>7. 0 \in T
    <2>1. StrongPass(chains, senders, settings, nonces, Old, c0, b, g[0])
      BY <1>3, StrongPassStart
    <2>2. Cardinality(MarkedOf(c0, g[0].c)) >= 0 BY <1>6
    <2> QED BY <2>1, <2>2
  <1>8. ASSUME NEW i \in 1..n, i - 1 \in T PROVE i \in T
    <2>1. good(i - 1) BY <1>8
    <2> HIDE DEF T
    <2>2. g[i] = IF g[i - 1].done THEN g[i - 1] ELSE addPass(settings, nonces, g[i - 1])
      BY <1>3
    <2>3. CASE g[i - 1].done BY <2>1, <2>2, <2>3 DEF T
    <2>4. CASE ~g[i - 1].done
      <3>1. PICK s : s = g[i - 1] OBVIOUS
      <3>2. PICK s1 : s1 = addPass(settings, nonces, s) OBVIOUS
      <3>3. StrongPass(chains, senders, settings, nonces, Old, c0, b, s) /\ ~s.done
        BY <2>1, <2>4, <3>1
      <3>4. /\ StrongPass(chains, senders, settings, nonces, Old, c0, b, s1)
            /\ \A k \in Nat : Cardinality(MarkedOf(c0, s.c)) >= k =>
                 s1.done \/ Cardinality(MarkedOf(c0, s1.c)) >= k + 1
        BY <1>4, <3>2, <3>3, StrongPassStep
      <3>5. i - 1 \in Nat /\ (i - 1) + 1 = i OBVIOUS
      <3>6. s1.done \/ Cardinality(MarkedOf(c0, s1.c)) >= i
        BY <2>1, <3>1, <3>3, <3>4, <3>5
      <3>7. g[i] = s1 BY <2>2, <2>4, <3>1, <3>2
      <3>8. good(i) BY <3>4, <3>6, <3>7
      <3>9. i \in 0..n OBVIOUS
      <3> QED BY <3>8, <3>9 DEF T
    <2> QED BY <2>3, <2>4
  <1> HIDE DEF T
  <1>9. 0..n \subseteq T BY <1>7, <1>8, UpToN
  <1>10. good(n) BY <1>9 DEF T
  <1>11. g[n].done
    <2> SUFFICES ASSUME ~g[n].done PROVE FALSE OBVIOUS
    <2>1. Cardinality(MarkedOf(c0, g[n].c)) >= m + 1 BY <1>2, <1>10
    <2> QED BY <1>6, <2>1
  <1> QED BY <1>1, <1>2, <1>10, <1>11

\* Offering one more commit report keeps the invariant.
LEMMA OfferPreserves ==
    ASSUME NEW chains, NEW senders, NEW settings \in BuilderSetting,
           NEW nonces, nonces \in [DOMAIN nonces -> Nat],
           NEW c0 \in CommitData(chains, senders), UniqueSeqs(c0), UniqueNonces(c0),
           NEW Old, Separate(Old, c0), NEW b,
           BuilderInv(chains, senders, settings, nonces, Old, b)
    PROVE  BuilderInv(chains, senders, settings, nonces, Old \cup {c0},
                      offerReport(settings, nonces, b, c0))
  <1> DEFINE O == Old \cup {c0}
  <1>1. /\ Basic(chains, senders, settings, nonces, Old, b)
        /\ OrderedPlaces(nonces, b.reports, b.expected) /\ Entered(Old, nonces, b.expected)
        /\ Distinct(b.reports)
        /\ \A c \in Old : ThroughWith(settings, nonces, b.reports, c)
    BY DEF BuilderInv
  <1>2. ASSUME ThroughWith(settings, nonces, b.reports, c0)
        PROVE  BuilderInv(chains, senders, settings, nonces, O, b)
    <2>1. Old \subseteq O OBVIOUS
    <2>2. Basic(chains, senders, settings, nonces, O, b) BY <1>1, <2>1, BasicMore
    <2>3. Entered(O, nonces, b.expected) BY <1>1 DEF Entered
    <2> QED BY <1>1, <1>2, <2>2, <2>3 DEF BuilderInv
  <1>3. c0.messages \in Seq(Message(senders)) BY DEF CommitData
  <1>4. \A i \in 1..Len(c0.messages) : NonceOf(c0, i) \in Nat
    <2>1. \A i \in 1..Len(c0.messages) : c0.messages[i] \in Message(senders) BY <1>3
    <2> QED BY <2>1 DEF Message, NonceOf
  <1>5. CASE c0.messages = <<>>
    <2>1. Len(c0.messages) = 0 /\ 1..0 = {} BY <1>5
    <2>2. ThroughWith(settings, nonces, b.reports, c0) BY <2>1 DEF ThroughWith
    <2>3. offerReport(settings, nonces, b, c0) = b BY <1>5 DEF offerReport
    <2> QED BY <1>2, <2>2, <2>3
  <1>6. CASE settings.multipleReportsEnabled /\ HasOrdered(c0)
    <2>1. ThroughWith(settings, nonces, b.reports, c0) BY <1>6 DEF ThroughWith
    <2>2. \E i \in DOMAIN c0.messages : c0.messages[i].nonce > 0
      <3>1. PICK i \in 1..Len(c0.messages) : NonceOf(c0, i) # 0 BY <1>6 DEF HasOrdered
      <3>2. NonceOf(c0, i) > 0 BY <1>4, <3>1
      <3>3. i \in DOMAIN c0.messages BY <1>3
      <3> QED BY <3>2, <3>3 DEF NonceOf
    <2>3. offerReport(settings, nonces, b, c0) = b BY <1>6, <2>2 DEF offerReport, Add
    <2> QED BY <1>2, <2>1, <2>3
  <1>7. CASE c0.messages # <<>> /\ ~(settings.multipleReportsEnabled /\ HasOrdered(c0))
    <2>1. ~(settings.multipleReportsEnabled /\ \E i \in DOMAIN c0.messages : c0.messages[i].nonce > 0)
      <3> SUFFICES ASSUME NEW i \in DOMAIN c0.messages, c0.messages[i].nonce > 0
                   PROVE  HasOrdered(c0)
        BY <1>7
      <3>1. i \in 1..Len(c0.messages) BY <1>3
      <3>2. NonceOf(c0, i) # 0 BY <1>4, <3>1 DEF NonceOf
      <3> QED BY <3>1, <3>2 DEF HasOrdered
    <2>2. offerReport(settings, nonces, b, c0) = addPasses(settings, nonces, b, c0).b
      BY <1>7, <2>1 DEF offerReport, Add
    <2>3. Len(c0.messages) \in Nat BY <1>3
    <2>4. PICK g : /\ IsPasses(settings, nonces, b, c0, g, Len(c0.messages) + 1)
                   /\ addPasses(settings, nonces, b, c0) = g[Len(c0.messages) + 1]
      BY <2>3, PassesAre
    <2>5. PICK s : s = g[Len(c0.messages) + 1] OBVIOUS
    <2>6. StrongPass(chains, senders, settings, nonces, Old, c0, b, s) /\ s.done
      BY <2>4, <2>5, StrongPasses
    <2>7. /\ Basic(chains, senders, settings, nonces, O, s.b)
          /\ OrderedPlaces(nonces, s.b.reports, s.b.expected) /\ Entered(O, nonces, s.b.expected)
          /\ Distinct(s.b.reports)
          /\ Kept(b.reports, s.b.reports) /\ Len(b.reports) <= Len(s.b.reports)
          /\ ThroughWith(settings, nonces, s.b.reports, c0)
      BY <2>6 DEF StrongPass, PassState
    <2>8. Len(b.reports) \in Nat /\ Len(s.b.reports) \in Nat
      BY <1>1, <2>7 DEF Basic, BuilderType
    <2>9. ASSUME NEW c \in O PROVE ThroughWith(settings, nonces, s.b.reports, c)
      <3>1. CASE c \in Old
        <4>1. ThroughWith(settings, nonces, b.reports, c) BY <1>1, <3>1
        <4> QED BY <2>7, <2>8, <4>1, StaysThrough
      <3>2. CASE c = c0 BY <2>7, <3>2
      <3> QED BY <3>1, <3>2
    <2>10. BuilderInv(chains, senders, settings, nonces, O, s.b) BY <2>7, <2>9 DEF BuilderInv
    <2> QED BY <2>2, <2>4, <2>5, <2>10
  <1> QED BY <1>5, <1>6, <1>7

LEMMA NewBuilderInv ==
    ASSUME NEW chains, NEW senders, NEW settings \in BuilderSetting, NEW nonces
    PROVE  BuilderInv(chains, senders, settings, nonces, {}, NewBuilder)
  <1>1. /\ Basic(chains, senders, settings, nonces, {}, NewBuilder)
        /\ Places(NewBuilder.reports) = {}
    BY NewBuilderBasic
  <1>2. NewBuilder.expected = <<>> /\ DOMAIN <<>> = {} BY DEF NewBuilder
  <1>3. Entered({}, nonces, NewBuilder.expected) BY <1>2 DEF Entered
  <1> QED BY <1>1, <1>3 DEF BuilderInv, OrderedPlaces, Distinct
==============================================================================
