------------------------ MODULE ExecuteBuilderProofs ------------------------
(***************************************************************************)
(* The report builder's properties for every list of commit reports, every *)
(* setting and every agreed nonces: the invariant of ExecuteReportProofs   *)
(* holds of the builder and of the commit reports offered so far, because  *)
(* each of them is separate from those before it.                          *)
(***************************************************************************)
EXTENDS ExecuteReportBuilder, ExecuteReportProofs

\* The input is split into what was offered and what is left.
Input == offered \o todo

Inv ==
    /\ settings \in BuilderSetting /\ nonces \in [DOMAIN nonces -> Nat]
    /\ offered \in Seq(CommitData(Chains, Senders)) /\ todo \in Seq(CommitData(Chains, Senders))
    /\ WellFormed(Input)
    /\ BuilderInv(Chains, Senders, settings, nonces, Offered(offered), builder)

LEMMA HeadOfInput ==
    ASSUME NEW X, NEW s \in Seq(X), NEW t \in Seq(X), t # <<>>
    PROVE  /\ Head(t) \in X /\ Tail(t) \in Seq(X) /\ Append(s, Head(t)) \in Seq(X)
           /\ Append(s, Head(t)) \o Tail(t) = s \o t
           /\ Len(s) + 1 \in DOMAIN (s \o t) /\ (s \o t)[Len(s) + 1] = Head(t)
           /\ \A i \in 1..Len(s) : i \in DOMAIN (s \o t) /\ (s \o t)[i] = s[i]
           /\ \A i \in 1..Len(s) : i # Len(s) + 1
  <1>1. Head(t) \in X /\ Tail(t) \in Seq(X) /\ Append(s, Head(t)) \in Seq(X) OBVIOUS
  <1>2. Append(s, Head(t)) \o Tail(t) = s \o t OBVIOUS
  <1>3. /\ Len(s) + 1 \in DOMAIN (s \o t) /\ (s \o t)[Len(s) + 1] = Head(t)
        /\ \A i \in 1..Len(s) : i \in DOMAIN (s \o t) /\ (s \o t)[i] = s[i]
        /\ \A i \in 1..Len(s) : i # Len(s) + 1
    OBVIOUS
  <1> QED BY <1>1, <1>2, <1>3

LEMMA OfferedMore ==
    ASSUME NEW X, NEW s \in Seq(X), NEW c \in X
    PROVE  Offered(Append(s, c)) = Offered(s) \cup {c}
  <1>1. PICK n \in Nat : n = Len(s) OBVIOUS
  <1>2. /\ Len(Append(s, c)) = n + 1 /\ Append(s, c)[n + 1] = c
        /\ \A i \in 1..n : Append(s, c)[i] = s[i]
    BY <1>1
  <1>3. 1..(n + 1) = (1..n) \cup {n + 1} OBVIOUS
  <1> QED BY <1>1, <1>2, <1>3 DEF Offered

\* The commit report that comes next is separate from those before it.
LEMMA NextIsSeparate ==
    ASSUME Inv, todo # <<>>
    PROVE  /\ UniqueSeqs(Head(todo)) /\ UniqueNonces(Head(todo))
           /\ Separate(Offered(offered), Head(todo))
  <1>1. PICK m : m = Len(offered) + 1 OBVIOUS
  <1>2. PICK c0 : c0 = Head(todo) OBVIOUS
  <1>3. /\ m \in DOMAIN Input /\ Input[m] = c0
        /\ \A i \in 1..Len(offered) : i \in DOMAIN Input /\ Input[i] = offered[i]
        /\ \A i \in 1..Len(offered) : i # m
    BY <1>1, <1>2, HeadOfInput DEF Inv, Input
  <1>4. \A n \in DOMAIN Input : Input[n].messages \in Seq(Message(Senders))
    <2>1. Input \in Seq(CommitData(Chains, Senders)) BY DEF Inv, WellFormed
    <2>2. \A n \in DOMAIN Input : Input[n] \in CommitData(Chains, Senders) BY <2>1
    <2> QED BY <2>2 DEF CommitData
  <1>5. \A n \in DOMAIN Input : DOMAIN Input[n].messages = 1..Len(Input[n].messages) BY <1>4
  <1>6. ASSUME NEW n \in DOMAIN Input, NEW i \in 1..Len(Input[n].messages),
               NEW j \in 1..Len(c0.messages),
               \/ SameMessage(Input[n], i, c0, j) \/ SameNonce(Input[n], i, c0, j)
        PROVE  n = m /\ i = j
    <2>1. i \in DOMAIN Input[n].messages /\ j \in DOMAIN Input[m].messages BY <1>3, <1>5
    <2> QED BY <1>3, <1>6, <2>1 DEF Inv, WellFormed
  <1>7. UniqueSeqs(c0)
    <2> SUFFICES ASSUME NEW i \in 1..Len(c0.messages), NEW j \in 1..Len(c0.messages),
                        SeqOf(c0, i) = SeqOf(c0, j)
                 PROVE  i = j
      BY DEF UniqueSeqs
    <2>1. SameMessage(Input[m], i, c0, j) BY <1>3 DEF SameMessage, SeqOf
    <2> QED BY <1>3, <1>6, <2>1
  <1>8. UniqueNonces(c0)
    <2> SUFFICES ASSUME NEW i \in 1..Len(c0.messages), NEW j \in 1..Len(c0.messages),
                        KeyOf(c0, i) = KeyOf(c0, j), NonceOf(c0, i) = NonceOf(c0, j),
                        NonceOf(c0, i) # 0
                 PROVE  i = j
      BY DEF UniqueNonces
    <2>1. SameNonce(Input[m], i, c0, j) BY <1>3 DEF SameNonce, KeyOf, NonceOf, SenderKey
    <2> QED BY <1>3, <1>6, <2>1
  <1>9. Separate(Offered(offered), c0)
    <2> SUFFICES ASSUME NEW c \in Offered(offered), NEW i \in 1..Len(c.messages),
                        NEW j \in 1..Len(c0.messages),
                        \/ c.chain = c0.chain /\ SeqOf(c, i) = SeqOf(c0, j)
                        \/ /\ KeyOf(c, i) = KeyOf(c0, j) /\ NonceOf(c, i) = NonceOf(c0, j)
                           /\ NonceOf(c0, j) # 0
                 PROVE  FALSE
      BY DEF Separate
    <2>1. PICK n \in 1..Len(offered) : c = offered[n] BY DEF Offered
    <2>2. n \in DOMAIN Input /\ Input[n] = c /\ n # m BY <1>3, <2>1
    <2>3. SameMessage(Input[n], i, c0, j) \/ SameNonce(Input[n], i, c0, j)
      BY <2>2 DEF SameMessage, SameNonce, SeqOf, KeyOf, NonceOf, SenderKey
    <2> QED BY <1>6, <2>2, <2>3
  <1> QED BY <1>2, <1>7, <1>8, <1>9

\* The invariant holds in every state of the builder's run.
THEOREM BuilderInvariant == Spec => []Inv
  <1>1. Init => Inv
    <2> SUFFICES ASSUME Init PROVE Inv OBVIOUS
    <2>1. /\ settings \in BuilderSetting /\ nonces \in [DOMAIN nonces -> Nat]
          /\ WellFormed(todo)
      BY BuilderAssumption DEF Init
    <2>2. todo \in Seq(CommitData(Chains, Senders)) BY <2>1 DEF WellFormed
    <2>3. offered = <<>> /\ offered \in Seq(CommitData(Chains, Senders)) /\ Input = todo
      BY <2>2 DEF Init, Input
    <2>4. Offered(offered) = {} BY <2>3 DEF Offered
    <2>5. BuilderInv(Chains, Senders, settings, nonces, {}, builder)
      <3>1. builder = NewBuilder BY DEF Init
      <3> QED BY <2>1, <3>1, NewBuilderInv
    <2> QED BY <2>1, <2>2, <2>3, <2>4, <2>5 DEF Inv
  <1>2. Inv /\ [Next]_vars => Inv'
    <2> SUFFICES ASSUME Inv, [Next]_vars PROVE Inv' OBVIOUS
    <2>1. CASE OfferCommitReport
      <3>1. PICK c0 : c0 = Head(todo) OBVIOUS
      <3>2. /\ todo # <<>> /\ builder' = offerReport(settings, nonces, builder, c0)
            /\ offered' = Append(offered, c0) /\ todo' = Tail(todo)
            /\ settings' = settings /\ nonces' = nonces
        BY <2>1, <3>1 DEF OfferCommitReport
      <3>3. /\ c0 \in CommitData(Chains, Senders)
            /\ offered' \in Seq(CommitData(Chains, Senders))
            /\ todo' \in Seq(CommitData(Chains, Senders)) /\ Input' = Input
        BY <3>1, <3>2, HeadOfInput DEF Inv, Input
      <3>4. UniqueSeqs(c0) /\ UniqueNonces(c0) /\ Separate(Offered(offered), c0)
        BY <3>1, <3>2, NextIsSeparate
      <3>5. Offered(offered') = Offered(offered) \cup {c0} BY <3>2, <3>3, OfferedMore DEF Inv
      <3>6. BuilderInv(Chains, Senders, settings, nonces, Offered(offered), builder)
            /\ settings \in BuilderSetting /\ nonces \in [DOMAIN nonces -> Nat]
        BY DEF Inv
      <3>7. BuilderInv(Chains, Senders, settings, nonces, Offered(offered) \cup {c0}, builder')
        BY <3>2, <3>3, <3>4, <3>6, OfferPreserves
      <3>8. WellFormed(Input') BY <3>3 DEF Inv
      <3> QED BY <3>2, <3>3, <3>5, <3>6, <3>7, <3>8 DEF Inv
    <2>2. CASE UNCHANGED vars BY <2>2 DEF vars, Inv, Input
    <2> QED BY <2>1, <2>2 DEF Next
  <1> QED BY <1>1, <1>2, PTL DEF Spec

-----------------------------------------------------------------------------
(* What Build returns.                                                     *)

LEMMA ReportsBuilt ==
    ASSUME Inv
    PROVE  /\ settings \in BuilderSetting /\ nonces \in [DOMAIN nonces -> Nat]
           /\ builder.reports \in Seq(Seq(ChainReport(Chains, Senders)))
           /\ Reports \in Seq(Seq(ChainReport(Chains, Senders)))
           /\ Len(Reports) \in 1..Len(builder.reports) /\ Len(builder.reports) \in Nat
           /\ Len(Reports) <= IF settings.multipleReportsEnabled
                              THEN settings.maxReportCount ELSE 1
           /\ \A r \in 1..Len(Reports) : Reports[r] = builder.reports[r]
           /\ Kept(Reports, builder.reports)
           /\ ~settings.multipleReportsEnabled \/ Len(builder.reports) <= settings.maxReportCount
                 => Reports = builder.reports
  <1>1. settings \in BuilderSetting /\ nonces \in [DOMAIN nonces -> Nat]
        /\ BuilderType(Chains, Senders, builder) /\ Budgets(settings, builder)
    BY DEF Inv, BuilderInv, Basic
  <1>2. /\ builder.reports \in Seq(Seq(ChainReport(Chains, Senders)))
        /\ Len(builder.reports) \in Nat
    BY <1>1 DEF BuilderType
  <1> QED BY <1>1, <1>2, Built DEF Reports

\* Every execution report that Build returns is within the gas of a transaction
\* and the limit of its chain reports, and there are not too many of them.
THEOREM ReportsWithinLimits == Spec => []WithinLimits
  <1>1. Inv => WithinLimits
    <2> SUFFICES ASSUME Inv PROVE WithinLimits OBVIOUS
    <2>1. PICK R : R = Reports OBVIOUS
    <2>2. /\ R \in Seq(Seq(ChainReport(Chains, Senders)))
          /\ Len(R) \in 1..Len(builder.reports) /\ Len(builder.reports) \in Nat
          /\ Len(R) <= IF settings.multipleReportsEnabled THEN settings.maxReportCount ELSE 1
          /\ \A r \in 1..Len(R) : R[r] = builder.reports[r]
      BY <2>1, ReportsBuilt
    <2>3. ASSUME NEW r \in DOMAIN R
          PROVE  /\ Gas(R[r]) <= settings.maxGas
                 /\ settings.maxSingleChainReports # 0 =>
                       Len(R[r]) <= settings.maxSingleChainReports
      <3>1. r \in 1..Len(R) /\ r \in 1..Len(builder.reports) BY <2>2
      <3>2. WithinBudget(settings, builder.reports[r], builder.used[r])
        BY <3>1 DEF Inv, BuilderInv, Basic, Budgets
      <3>3. R[r] = builder.reports[r] BY <2>2, <3>1
      <3> QED BY <3>2, <3>3 DEF WithinBudget
    <2> QED BY <2>1, <2>2, <2>3 DEF WithinLimits
  <1> QED BY <1>1, BuilderInvariant, PTL

LEMMA PlacedFrom ==
    ASSUME Inv, NEW p \in Placed
    PROVE  \E n \in 1..Len(offered) : \E i \in 1..Len(offered[n].messages) :
               FromReport(Reports, p, offered[n], i)
  <1>1. Sourced(Offered(offered), builder.reports) BY DEF Inv, BuilderInv, Basic
  <1>2. Kept(Reports, builder.reports) BY ReportsBuilt
  <1>3. Sourced(Offered(offered), Reports) BY <1>1, <1>2, KeptBack
  <1>4. PICK c \in Offered(offered) : \E i \in 1..Len(c.messages) : FromReport(Reports, p, c, i)
    BY <1>3 DEF Sourced, Placed
  <1>5. PICK n \in 1..Len(offered) : c = offered[n] BY DEF Offered
  <1> QED BY <1>4, <1>5

LEMMA InputOffered ==
    ASSUME Inv
    PROVE  /\ DOMAIN offered = 1..Len(offered)
           /\ \A n \in DOMAIN offered : /\ n \in DOMAIN Input /\ Input[n] = offered[n]
                                        /\ offered[n] \in CommitData(Chains, Senders)
                                        /\ DOMAIN offered[n].messages = 1..Len(offered[n].messages)
  <1>1. offered \in Seq(CommitData(Chains, Senders)) /\ todo \in Seq(CommitData(Chains, Senders))
    BY DEF Inv
  <1>2. DOMAIN offered = 1..Len(offered) BY <1>1
  <1>3. \A n \in DOMAIN offered : n \in DOMAIN Input /\ Input[n] = offered[n]
    BY <1>1 DEF Input
  <1>4. \A n \in DOMAIN offered : offered[n] \in CommitData(Chains, Senders) BY <1>1
  <1>5. \A n \in DOMAIN offered : offered[n].messages \in Seq(Message(Senders))
    BY <1>4 DEF CommitData
  <1>6. \A n \in DOMAIN offered : DOMAIN offered[n].messages = 1..Len(offered[n].messages)
    BY <1>5
  <1> QED BY <1>2, <1>3, <1>4, <1>6

\* No message is placed twice, and none that is executed, deleted or waits for
\* its token data, however often Add goes over its commit report.
THEOREM EachMessagePlacedOnce == Spec => []EachMessageOnce
  <1>1. Inv => EachMessageOnce
    <2> SUFFICES ASSUME Inv PROVE EachMessageOnce OBVIOUS
    <2>1. Kept(Reports, builder.reports) BY ReportsBuilt
    <2>2. ASSUME NEW p \in Placed, NEW q \in Placed, ChainAt(Reports, p) = ChainAt(Reports, q),
                 At(p).seqNum = At(q).seqNum
          PROVE  p = q
      <3>1. /\ p \in Places(builder.reports)
            /\ ChainAt(builder.reports, p) = ChainAt(Reports, p)
            /\ SeqAt(builder.reports, p) = At(p).seqNum
        BY <2>1 DEF Placed, Kept, SeqAt, At
      <3>2. /\ q \in Places(builder.reports)
            /\ ChainAt(builder.reports, q) = ChainAt(Reports, q)
            /\ SeqAt(builder.reports, q) = At(q).seqNum
        BY <2>1 DEF Placed, Kept, SeqAt, At
      <3>3. Distinct(builder.reports) BY DEF Inv, BuilderInv
      <3> QED BY <2>2, <3>1, <3>2, <3>3 DEF Distinct
    <2>3. ASSUME NEW p \in Placed PROVE At(p).tokenReady /\ ~At(p).deleted
      <3>1. PICK n \in 1..Len(offered) : \E i \in 1..Len(offered[n].messages) :
                FromReport(Reports, p, offered[n], i)
        BY PlacedFrom
      <3>2. PICK i \in 1..Len(offered[n].messages) : FromReport(Reports, p, offered[n], i)
        BY <3>1
      <3> QED BY <3>2 DEF FromReport, Passable, At
    <2>4. ASSUME NEW n \in DOMAIN offered, NEW p \in Placed,
                 ChainAt(Reports, p) = offered[n].chain,
                 At(p).seqNum \in AgreedExecuted(offered[n])
          PROVE  FALSE
      <3>1. PICK k \in 1..Len(offered) : \E i \in 1..Len(offered[k].messages) :
                FromReport(Reports, p, offered[k], i)
        BY PlacedFrom
      <3>2. PICK i \in 1..Len(offered[k].messages) : FromReport(Reports, p, offered[k], i)
        BY <3>1
      <3>3. PICK j \in DOMAIN offered[n].messages : At(p).seqNum = offered[n].messages[j].seqNum
        BY <2>4 DEF AgreedExecuted
      <3>4. At(p).seqNum \in offered[n].executed BY <2>4 DEF AgreedExecuted
      <3>5. /\ ChainAt(Reports, p) = offered[k].chain /\ At(p) = offered[k].messages[i]
            /\ At(p).seqNum \notin offered[k].executed
        BY <3>2 DEF FromReport, Passable, At
      <3>6. SameMessage(offered[k], i, offered[n], j) BY <2>4, <3>3, <3>5 DEF SameMessage
      <3>7. /\ k \in DOMAIN offered /\ k \in DOMAIN Input /\ n \in DOMAIN Input
            /\ Input[k] = offered[k] /\ Input[n] = offered[n]
            /\ i \in DOMAIN Input[k].messages /\ j \in DOMAIN Input[n].messages
        BY InputOffered
      <3>8. k = n BY <3>6, <3>7 DEF Inv, WellFormed
      <3> QED BY <3>4, <3>5, <3>8
    <2> QED BY <2>2, <2>3, <2>4 DEF EachMessageOnce
  <1> QED BY <1>1, BuilderInvariant, PTL

\* The ordered messages of a sender are placed with growing nonces, beyond the
\* last one executed.
THEOREM PlacedNoncesGrow == Spec => []NoncesGrow
  <1>1. Inv => NoncesGrow
    <2> SUFFICES ASSUME Inv PROVE NoncesGrow OBVIOUS
    <2>1. Kept(Reports, builder.reports) BY ReportsBuilt
    <2>2. OrderedPlaces(nonces, builder.reports, builder.expected) BY DEF Inv, BuilderInv
    <2>3. ASSUME NEW p \in Placed
          PROVE  /\ p \in Places(builder.reports) /\ NonceAt(builder.reports, p) = At(p).nonce
                 /\ KeyAt(builder.reports, p) = KeyAt(Reports, p)
      <3>1. p \in Places(Reports) BY DEF Placed
      <3>2. /\ p \in Places(builder.reports) /\ NonceAt(builder.reports, p) = NonceAt(Reports, p)
            /\ KeyAt(builder.reports, p) = KeyAt(Reports, p)
        BY <2>1, <3>1, OldPlaceIs
      <3> QED BY <3>2 DEF NonceAt, At
    <2>4. ASSUME NEW p \in Placed, At(p).nonce # 0
          PROVE  /\ KeyAt(Reports, p) \in DOMAIN nonces
                 /\ At(p).nonce > nonces[KeyAt(Reports, p)]
      <3>1. InOrder(nonces, builder.reports, builder.expected, p) BY <2>2, <2>3, <2>4 DEF OrderedPlaces
      <3>2. KeyAt(Reports, p) \in DOMAIN nonces /\ nonces[KeyAt(Reports, p)] < At(p).nonce
        BY <2>3, <3>1 DEF InOrder
      <3> QED BY <3>2
    <2>5. ASSUME NEW p \in Placed, At(p).nonce # 0, NEW q \in Placed, At(q).nonce # 0,
                 KeyAt(Reports, q) = KeyAt(Reports, p), Earlier(q, p)
          PROVE  At(q).nonce < At(p).nonce
      BY <2>2, <2>3, <2>5 DEF OrderedPlaces
    <2> QED BY <2>4, <2>5 DEF NoncesGrow
  <1> QED BY <1>1, BuilderInvariant, PTL

LEMMA ExecutableIs ==
    ASSUME NEW c, NEW i, Executable(c, c.messages[i])
    PROVE  ExecutableIn(settings, nonces, c, i)
  BY DEF Executable, ExecutableIn, Passable, NonceOf, First, KeyOf

\* A builder without multiple reports that places nothing was offered nothing
\* that could be executed.
THEOREM SomethingIsSelected == Spec => []SomethingSelected
  <1>1. Inv => SomethingSelected
    <2> SUFFICES ASSUME Inv, Placed = {}, ~settings.multipleReportsEnabled,
                        NEW n \in DOMAIN offered, NEW i \in DOMAIN offered[n].messages,
                        Executable(offered[n], offered[n].messages[i])
                 PROVE  FALSE
      BY DEF SomethingSelected
    <2>1. Places(builder.reports) = {} BY ReportsBuilt DEF Placed
    <2>2. offered[n] \in Offered(offered) /\ i \in 1..Len(offered[n].messages)
      BY InputOffered DEF Offered
    <2>3. ThroughWith(settings, nonces, builder.reports, offered[n])
      BY <2>2 DEF Inv, BuilderInv
    <2>4. ExecutableIn(settings, nonces, offered[n], i) BY ExecutableIs
    <2>5. PlacedIn(builder.reports, offered[n], i) BY <2>1, <2>2, <2>3, <2>4 DEF ThroughWith
    <2> QED BY <2>1, <2>5 DEF PlacedIn
  <1> QED BY <1>1, BuilderInvariant, PTL

\* With multiple reports, below their limit, every executable message of a
\* commit report without ordered messages is placed.
THEOREM EverythingIsSelected == Spec => []EverythingSelected
  <1>1. Inv => EverythingSelected
    <2> SUFFICES ASSUME Inv, settings.multipleReportsEnabled,
                        Len(builder.reports) < settings.maxReportCount,
                        NEW n \in DOMAIN offered, NEW i \in DOMAIN offered[n].messages,
                        ~\E j \in DOMAIN offered[n].messages : offered[n].messages[j].nonce > 0,
                        Executable(offered[n], offered[n].messages[i])
                 PROVE  \E p \in Placed : /\ ChainAt(Reports, p) = offered[n].chain
                                          /\ At(p) = offered[n].messages[i]
      BY DEF EverythingSelected
    <2>1. settings.maxReportCount \in Nat /\ Len(builder.reports) \in Nat
      BY ReportsBuilt DEF BuilderSetting
    <2>2. Reports = builder.reports
      <3>1. Len(builder.reports) <= settings.maxReportCount BY <2>1
      <3> QED BY <3>1, ReportsBuilt
    <2>3. offered[n] \in Offered(offered) /\ i \in 1..Len(offered[n].messages)
      BY InputOffered DEF Offered
    <2>4. ThroughWith(settings, nonces, builder.reports, offered[n])
      BY <2>3 DEF Inv, BuilderInv
    <2>5. ExecutableIn(settings, nonces, offered[n], i) BY ExecutableIs
    <2>6. ~HasOrdered(offered[n])
      <3> SUFFICES ASSUME NEW j \in 1..Len(offered[n].messages), NonceOf(offered[n], j) # 0
                   PROVE  FALSE
        BY DEF HasOrdered
      <3>1. j \in DOMAIN offered[n].messages BY InputOffered
      <3>2. offered[n].messages \in Seq(Message(Senders)) BY InputOffered DEF CommitData
      <3>3. offered[n].messages[j] \in Message(Senders) BY <3>1, <3>2
      <3>4. NonceOf(offered[n], j) \in Nat BY <3>3 DEF Message, NonceOf
      <3>5. offered[n].messages[j].nonce > 0 BY <3>4 DEF NonceOf
      <3> QED BY <3>1, <3>5
    <2>7. ~(Len(builder.reports) >= settings.maxReportCount) BY <2>1
    <2>8. PlacedIn(builder.reports, offered[n], i)
      BY <2>3, <2>4, <2>5, <2>6, <2>7 DEF ThroughWith
    <2> QED BY <2>2, <2>8 DEF PlacedIn, Placed, At
  <1> QED BY <1>1, BuilderInvariant, PTL
==============================================================================
