------------------------ MODULE CommitMerkleRootProofs ------------------------
(***************************************************************************)
(* CommitMerkleRoot for every number of sources, oracles and messages and  *)
(* every configuration: type correctness, soundness of attested reports,   *)
(* tiling of the committed intervals, the end of the wait, and the         *)
(* refinement of CommitLane, all from one inductive invariant.             *)
(***************************************************************************)
EXTENDS CommitMerkleRoot, OracleConsensusProofs

-----------------------------------------------------------------------------
(* The inductive invariant.                                                *)

\* Honest caches lag behind the chains and never run ahead of them.
CachesBehind ==
    \A o \in Honest :
        /\ \A c \in DOMAIN offRampNextSeqNums[o] : offRampNextSeqNums[o][c] <= next[c]
        /\ \A c \in DOMAIN onRampLatestSeqNums[o] : onRampLatestSeqNums[o][c] <= sent[c]

\* Nothing is committed that was not sent.
NextBehindSent == \A c \in Sources : next[c] <= sent[c] + 1

\* Selected ranges start no later than the OffRamp expects and are short.
RangesSound ==
    \A c \in DOMAIN outcome.ranges :
        LET range == outcome.ranges[c]
        IN  /\ range.start <= range.end /\ range.start <= next[c]
            /\ range.end - range.start < MaxMerkleTreeSize
            /\ c \in DOMAIN outcome.offNext /\ range.start = outcome.offNext[c]

\* While the plugin waits it waits for some root, and every root it waits for
\* starts at the number the OffRamp expected when the root was selected.
RootsSelected ==
    /\ \A r \in outcome.roots : /\ r.chain \in DOMAIN outcome.offNext
                                /\ r.start = outcome.offNext[r.chain]
    /\ nextState(outcome) = "waitingForReportTransmission" => outcome.roots # {}

IInv ==
    /\ TypeOK
    /\ CachesBehind
    /\ NextBehindSent
    /\ RangesSound
    /\ RootsSelected
    /\ AttestedReportsSound
    /\ CommittedIntervalsTile

-----------------------------------------------------------------------------
(* What a round can agree on.                                              *)

\* The cardinality facts about the fault model that the lemmas below need.
LEMMA FaultModel ==
    /\ \A Q \in Quorums : Q \subseteq Oracles /\ IsFiniteSet(Q)
    /\ \A k \in Chains : /\ FChain[k] \in Nat /\ TwoFPlus1(FChain[k]) \in Nat
                         /\ TwoFPlus1(FChain[k]) > FChain[k]
                         /\ Readers[k] \subseteq Oracles
                         /\ IsFiniteSet(Readers[k] \cap Byzantine)
                         /\ Cardinality(Readers[k] \cap Byzantine) <= FChain[k]
<1>1. \A Q \in Quorums : Q \subseteq Oracles /\ IsFiniteSet(Q)
    BY CommitAssumption, FS_Subset DEF Quorums
<1>2. \A k \in Chains : /\ FChain[k] \in Nat /\ TwoFPlus1(FChain[k]) \in Nat
                       /\ TwoFPlus1(FChain[k]) > FChain[k]
    BY CommitAssumption DEF TwoFPlus1
<1>3. \A k \in Chains : Readers[k] \subseteq Oracles
    BY CommitAssumption
<1>4. \A k \in Chains : IsFiniteSet(Readers[k] \cap Byzantine)
    BY <1>3, CommitAssumption, FS_Subset
<1> QED
    BY <1>1, <1>2, <1>3, <1>4, CommitAssumption

\* The observations of a chain come from readers of it, an honest oracle's
\* from its own view.
LEMMA ObservedValues ==
    ASSUME NEW Q, NEW mine, NEW theirs, NEW readers, NEW c
    PROVE  LET obs == Observed(Contributions(Q, mine, theirs), readers, c)
           IN  /\ DOMAIN obs \subseteq Q \cap readers
               /\ obs = [o \in DOMAIN obs |-> obs[o]]
               /\ \A o \in DOMAIN obs \cap Honest : c \in DOMAIN mine[o] /\ obs[o] = mine[o][c]
               /\ \A o \in DOMAIN obs \ Honest : c \in DOMAIN theirs[o] /\ obs[o] = theirs[o][c]
BY DEF Observed, Contributions

\* An ordered consensus over lagging honest caches lags behind the chain too.
LEMMA OrderedConsensusBehind ==
    ASSUME NEW Q \in Quorums, NEW mine, NEW theirs, NEW k \in Chains, NEW c,
           NEW low \in 0..1, NEW chainValue \in Nat,
           \A o \in Honest : c \in DOMAIN mine[o] =>
                mine[o][c] \in low..(MaxSeqNum + 1) /\ mine[o][c] <= chainValue,
           \A o \in Q \cap Byzantine : c \in DOMAIN theirs[o] =>
                theirs[o][c] \in low..(MaxSeqNum + 1),
           Cardinality(DOMAIN Observed(Contributions(Q, mine, theirs), Readers[k], c))
                >= TwoFPlus1(FChain[k])
    PROVE  LET v == SortedAt(Observed(Contributions(Q, mine, theirs), Readers[k], c), FChain[k])
           IN  v \in low..(MaxSeqNum + 1) /\ v <= chainValue
<1> DEFINE obs == Observed(Contributions(Q, mine, theirs), Readers[k], c)
           D == DOMAIN obs
           B == Readers[k] \cap Byzantine
           v == SortedAt(obs, FChain[k])
<1>1. /\ D \subseteq Q \cap Readers[k]
      /\ obs = [o \in D |-> obs[o]]
      /\ \A o \in D \cap Honest : c \in DOMAIN mine[o] /\ obs[o] = mine[o][c]
      /\ \A o \in D \ Honest : c \in DOMAIN theirs[o] /\ obs[o] = theirs[o][c]
    BY ObservedValues
<1>2. IsFiniteSet(D)
    BY <1>1, FaultModel, FS_Subset
<1>3. \A o \in D : IF o \in Honest THEN o \notin B ELSE o \in Q \cap Byzantine /\ o \in B
    BY <1>1, FaultModel DEF Honest
<1>4. \A o \in D : obs[o] \in low..(MaxSeqNum + 1)
    BY <1>1, <1>3
<1>5. \A o \in D : o \notin B => obs[o] <= chainValue
    BY <1>1, <1>3
<1>6. MaxSeqNum + 1 \in Nat /\ low..(MaxSeqNum + 1) \subseteq 0..(MaxSeqNum + 1)
    BY CommitAssumption
<1>7. obs \in [D -> 0..(MaxSeqNum + 1)]
    BY <1>1, <1>4, <1>6
<1>8. FChain[k] \in Nat /\ IsFiniteSet(B) /\ Cardinality(B) <= FChain[k]
    BY FaultModel
<1>9. Cardinality(D) >= TwoFPlus1(FChain[k])
    OBVIOUS
<1> HIDE DEF obs, D, B
<1>10. /\ \E o \in D : o \notin B /\ v <= obs[o]
       /\ \E o \in D : o \notin B /\ obs[o] <= v
       /\ v \in 0..(MaxSeqNum + 1)
    BY <1>2, <1>6, <1>7, <1>8, <1>9, SortedAtBetweenHonest
<1>11. v \in low..(MaxSeqNum + 1) /\ v <= chainValue
    <2> HIDE DEF v
    <2> QED
        BY <1>4, <1>5, <1>10, CommitAssumption
<1> QED
    BY <1>11 DEF obs

\* getOffRampNextSequenceNumbersConsensus agrees on numbers the OffRamp has
\* already reached.
LEMMA AgreedOffRampNextBehind ==
    ASSUME TypeOK, CachesBehind, NEW Q \in Quorums, NEW offNext \in AgreedOffRampNext(Q)
    PROVE  /\ offNext \in SeqNumMaps
           /\ DOMAIN offNext \subseteq Sources
           /\ \A c \in DOMAIN offNext : offNext[c] \in SeqNums /\ offNext[c] <= next[c]
<1>1. PICK byz \in [Q \cap Byzantine -> SeqNumMaps] :
         offNext = OffRampNextConsensus(Contributions(Q, offRampNextSeqNums, byz))
    BY DEF AgreedOffRampNext
<1> DEFINE obs(c) == Observed(Contributions(Q, offRampNextSeqNums, byz), Readers[Dest], c)
           enough == {c \in Sources : Cardinality(DOMAIN obs(c)) >= TwoFPlus1(FChain[Dest])}
<1>2. offNext = [c \in enough |-> SortedAt(obs(c), FChain[Dest])]
    BY <1>1 DEF OffRampNextConsensus
<1>3. ASSUME NEW c \in enough
      PROVE  SortedAt(obs(c), FChain[Dest]) \in SeqNums /\ SortedAt(obs(c), FChain[Dest]) <= next[c]
    <2>1. \A o \in Honest : c \in DOMAIN offRampNextSeqNums[o] =>
             /\ offRampNextSeqNums[o][c] \in 1..(MaxSeqNum + 1)
             /\ offRampNextSeqNums[o][c] <= next[c]
        BY DEF TypeOK, CachesBehind, SeqNumMaps, PartialFunctions, SeqNums
    <2>2. \A o \in Q \cap Byzantine : c \in DOMAIN byz[o] => byz[o][c] \in 1..(MaxSeqNum + 1)
        BY DEF SeqNumMaps, PartialFunctions, SeqNums
    <2>3. next[c] \in Nat /\ Dest \in Chains /\ 1 \in 0..1
        BY DEF TypeOK, SeqNums, Chains
    <2>4. Cardinality(DOMAIN obs(c)) >= TwoFPlus1(FChain[Dest])
        OBVIOUS
    <2> QED
        BY <2>1, <2>2, <2>3, <2>4, OrderedConsensusBehind DEF SeqNums
<1> HIDE DEF obs
<1>4. offNext \in [enough -> SeqNums] /\ enough \subseteq Sources
    BY <1>2, <1>3
<1> QED
    BY <1>2, <1>3, <1>4 DEF SeqNumMaps, PartialFunctions

\* The ordered consensus on the latest OnRamp numbers only covers messages
\* that were sent.
LEMMA AgreedOnRampMaxBehind ==
    ASSUME TypeOK, CachesBehind, NEW Q \in Quorums, NEW fChains,
           NEW onMax \in AgreedOnRampMax(Q, fChains)
    PROVE  /\ DOMAIN onMax \subseteq Sources
           /\ \A c \in DOMAIN onMax : onMax[c] \in 0..MaxSeqNum /\ onMax[c] <= sent[c]
<1> DEFINE maxes == PartialFunctions(Sources, 0..(MaxSeqNum + 1))
<1>1. PICK byz \in [Q \cap Byzantine -> maxes] :
         onMax = OnRampMaxConsensus(Contributions(Q, onRampLatestSeqNums, byz), fChains)
    BY DEF AgreedOnRampMax
<1> DEFINE obs(c) == Observed(Contributions(Q, onRampLatestSeqNums, byz), Readers[c], c)
           enough == {c \in Sources \cap fChains : HasOrderedConsensus(obs(c), FChain[c])}
<1>2. onMax = [c \in enough |-> SortedAt(obs(c), FChain[c])]
    BY <1>1 DEF OnRampMaxConsensus
<1>3. ASSUME NEW c \in enough
      PROVE  SortedAt(obs(c), FChain[c]) \in 0..MaxSeqNum /\ SortedAt(obs(c), FChain[c]) <= sent[c]
    <2>1. \A o \in Honest : c \in DOMAIN onRampLatestSeqNums[o] =>
             /\ onRampLatestSeqNums[o][c] \in 0..(MaxSeqNum + 1)
             /\ onRampLatestSeqNums[o][c] <= sent[c]
        <3>1. ASSUME NEW o \in Honest, c \in DOMAIN onRampLatestSeqNums[o]
              PROVE  onRampLatestSeqNums[o][c] \in 0..MaxSeqNum
            <4>1. onRampLatestSeqNums[o] \in PartialFunctions(Sources, 0..MaxSeqNum)
                BY DEF TypeOK
            <4> QED
                BY <3>1, <4>1 DEF PartialFunctions
        <3>2. \A o \in Honest : \A d \in DOMAIN onRampLatestSeqNums[o] :
                 onRampLatestSeqNums[o][d] <= sent[d]
            BY DEF CachesBehind
        <3>3. 0..MaxSeqNum \subseteq 0..(MaxSeqNum + 1)
            BY CommitAssumption
        <3> QED
            BY <3>1, <3>2, <3>3
    <2>2. \A o \in Q \cap Byzantine : c \in DOMAIN byz[o] => byz[o][c] \in 0..(MaxSeqNum + 1)
        BY DEF PartialFunctions
    <2>3. sent[c] \in 0..MaxSeqNum /\ sent[c] \in Nat /\ c \in Chains /\ 0 \in 0..1
        BY CommitAssumption DEF TypeOK, Chains
    <2>4. Cardinality(DOMAIN obs(c)) >= TwoFPlus1(FChain[c])
        BY DEF HasOrderedConsensus
    <2>5. SortedAt(obs(c), FChain[c]) \in 0..(MaxSeqNum + 1) /\ SortedAt(obs(c), FChain[c]) <= sent[c]
        BY <2>1, <2>2, <2>3, <2>4, OrderedConsensusBehind
    <2> QED
        BY <2>3, <2>5, CommitAssumption
<1> HIDE DEF obs
<1> QED
    BY <1>2, <1>3

\* An agreed merkle root was computed by an honest oracle from the selected
\* range of its chain, all of whose messages exist.
LEMMA AgreedRootsComputed ==
    ASSUME TypeOK, NEW Q \in Quorums, NEW fChains, NEW roots \in AgreedRoots(Q, fChains),
           NEW r \in roots
    PROVE  /\ r.chain \in DOMAIN outcome.ranges /\ r.chain \in Sources
           /\ r = [chain |-> r.chain, start |-> outcome.ranges[r.chain].start,
                   end |-> outcome.ranges[r.chain].end, root |-> "computed"]
           /\ r.end <= sent[r.chain]
<1>1. PICK failed \in [MayFail -> SUBSET DOMAIN outcome.ranges], byz \in [Q \cap Byzantine -> ByzantineRoots] :
         roots = MerkleRootConsensus(Contributions(Q, HonestRoots(failed), byz), fChains)
    BY DEF AgreedRoots
<1> DEFINE obs(c) == Observed(Contributions(Q, HonestRoots(failed), byz), Readers[c], c)
<1>2. PICK c \in Sources \cap fChains :
         /\ HasConsensus(obs(c), TwoFPlus1(FChain[c]))
         /\ r = ConsensusItem(obs(c), TwoFPlus1(FChain[c]))
    BY <1>1 DEF MerkleRootConsensus
<1> DEFINE B == Readers[c] \cap Byzantine
           D == DOMAIN obs(c)
<1>3. /\ D \subseteq Q \cap Readers[c]
      /\ \A o \in D \cap Honest : /\ c \in DOMAIN HonestRoots(failed)[o]
                                 /\ obs(c)[o] = HonestRoots(failed)[o][c]
    BY ObservedValues
<1>4. IsFiniteSet(D)
    BY <1>3, FaultModel, FS_Subset
<1>5. /\ FChain[c] \in Nat /\ TwoFPlus1(FChain[c]) \in Nat /\ TwoFPlus1(FChain[c]) > FChain[c]
      /\ IsFiniteSet(B) /\ Cardinality(B) <= FChain[c] /\ Readers[c] \subseteq Oracles
    BY FaultModel DEF Chains
<1> HIDE DEF B, obs
<1>6. PICK o \in D : o \notin B /\ obs(c)[o] = r
    BY <1>2, <1>4, <1>5, AgreedItemIsHonest
<1>7. o \in Honest
    BY <1>3, <1>5, <1>6 DEF B, Honest
<1>8. c \in DOMAIN HonestRoots(failed)[o] /\ r = HonestRoots(failed)[o][c]
    BY <1>3, <1>6, <1>7
<1>9. /\ c \in DOMAIN outcome.ranges /\ outcome.ranges[c].end <= sent[c]
      /\ r = [chain |-> c, start |-> outcome.ranges[c].start,
              end |-> outcome.ranges[c].end, root |-> "computed"]
    BY <1>7, <1>8 DEF HonestRoots
<1> QED
    BY <1>9

-----------------------------------------------------------------------------
(* The invariant holds initially and is preserved by every action.         *)

LEMMA SeqNumsAreNaturals ==
    /\ SeqNums \subseteq Nat /\ 0..MaxSeqNum \subseteq Nat
    /\ \A r \in Roots : r.chain \in Sources /\ r.start \in Nat /\ r.end \in Nat
BY CommitAssumption DEF SeqNums, Roots

LEMMA PartialFunctionValue ==
    ASSUME NEW S, NEW T, NEW f \in PartialFunctions(S, T), NEW x \in DOMAIN f
    PROVE  x \in S /\ f[x] \in T
BY DEF PartialFunctions

LEMMA EmptyOutcome ==
    \A t \in OutcomeTypes : /\ OutcomeOf(t) \in Outcomes
                            /\ OutcomeOf(t).type = t
                            /\ DOMAIN OutcomeOf(t).ranges = {}
                            /\ OutcomeOf(t).roots = {}
<1>1. NoSeqNums \in PartialFunctions(Sources, Ranges) /\ NoSeqNums \in SeqNumMaps
    <2>1. NoSeqNums \in [{} -> Ranges] /\ NoSeqNums \in [{} -> SeqNums] /\ {} \in SUBSET Sources
        BY DEF NoSeqNums
    <2> QED
        BY <2>1 DEF PartialFunctions, SeqNumMaps
<1>2. DOMAIN NoSeqNums = {}
    BY DEF NoSeqNums
<1> QED
    BY <1>1, <1>2 DEF OutcomeOf, Outcomes

LEMMA InitIInv == Init => IInv
<1> SUFFICES ASSUME Init PROVE IInv
    OBVIOUS
<1> USE CommitAssumption
<1>1. outcome \in Outcomes /\ DOMAIN outcome.ranges = {} /\ outcome.roots = {} /\ outcome.type = "None"
    BY EmptyOutcome DEF Init, OutcomeTypes
<1>2. NoSeqNums \in SeqNumMaps /\ NoSeqNums \in PartialFunctions(Sources, 0..MaxSeqNum)
    <2>1. /\ NoSeqNums \in [{} -> SeqNums] /\ NoSeqNums \in [{} -> 0..MaxSeqNum]
          /\ {} \in SUBSET Sources
        BY DEF NoSeqNums
    <2> QED
        BY <2>1 DEF PartialFunctions, SeqNumMaps
<1>3. TypeOK
    <2>1. 0 \in 0..MaxSeqNum /\ 1 \in SeqNums
        BY DEF SeqNums
    <2> QED
        BY <1>1, <1>2, <2>1 DEF Init, TypeOK
<1>4. CachesBehind
    BY DEF Init, CachesBehind, NoSeqNums
<1>5. NextBehindSent
    BY DEF Init, NextBehindSent
<1>6. RangesSound /\ RootsSelected
    BY <1>1 DEF RangesSound, RootsSelected, nextState
<1>7. AttestedReportsSound
    BY DEF Init, AttestedReportsSound
<1>8. CommittedIntervalsTile
    BY DEF Init, CommittedIntervalsTile
<1> QED
    BY <1>3, <1>4, <1>5, <1>6, <1>7, <1>8 DEF IInv

\* Attested reports stay sound while the chains only grow.
LEMMA SoundReportsStaySound ==
    ASSUME IInv, sent' \in [Sources -> 0..MaxSeqNum], next' \in [Sources -> SeqNums],
           \A c \in Sources : sent[c] <= sent'[c] /\ next[c] <= next'[c],
           attested' = attested
    PROVE  AttestedReportsSound'
<1>1. ASSUME NEW report \in attested, NEW r \in report
      PROVE  SoundRoot(r)'
    <2>1. r \in Roots
        BY DEF IInv, TypeOK
    <2>2. SoundRoot(r)
        BY DEF IInv, AttestedReportsSound
    <2>3. /\ r.chain \in Sources /\ r.start \in Nat /\ r.end \in Nat
          /\ sent[r.chain] \in Nat /\ next[r.chain] \in Nat
          /\ sent'[r.chain] \in Nat /\ next'[r.chain] \in Nat
        BY <2>1, SeqNumsAreNaturals DEF IInv, TypeOK
    <2> QED
        BY <2>2, <2>3 DEF SoundRoot
<1> QED
    BY <1>1 DEF IInv, AttestedReportsSound

LEMMA CCIPSendIInv ==
    ASSUME IInv, NEW c \in Sources, CCIPSend(c)
    PROVE  IInv'
<1> USE CommitAssumption
<1>1. /\ sent' = [sent EXCEPT ![c] = @ + 1] /\ sent[c] < MaxSeqNum
      /\ sent \in [Sources -> 0..MaxSeqNum] /\ next \in [Sources -> SeqNums]
      /\ UNCHANGED <<next, commits, cursed, enabled, offRampNextSeqNums, onRampLatestSeqNums,
                      outcome, attested, offered, accepted, submitted, landing, stable>>
    BY DEF IInv, TypeOK, CCIPSend, cacheVars, reportVars
<1>2. sent' \in [Sources -> 0..MaxSeqNum] /\ \A d \in Sources : sent[d] <= sent'[d] /\ next[d] <= next'[d]
    BY <1>1 DEF SeqNums
<1>3. TypeOK'
    BY <1>1, <1>2 DEF IInv, TypeOK
<1>4. CachesBehind'
    <2> SUFFICES ASSUME NEW o \in Honest, NEW d \in DOMAIN onRampLatestSeqNums[o]
                 PROVE  onRampLatestSeqNums[o][d] <= sent'[d]
        BY <1>1 DEF IInv, CachesBehind
    <2>1. onRampLatestSeqNums[o] \in PartialFunctions(Sources, 0..MaxSeqNum)
        BY DEF IInv, TypeOK
    <2>2. d \in Sources /\ onRampLatestSeqNums[o][d] \in 0..MaxSeqNum
        BY <2>1, PartialFunctionValue
    <2>3. onRampLatestSeqNums[o][d] <= sent[d]
        BY DEF IInv, CachesBehind
    <2> QED
        BY <1>1, <1>2, <2>2, <2>3
<1>5. NextBehindSent'
    BY <1>1, <1>2 DEF IInv, NextBehindSent, SeqNums
<1>6. RangesSound' /\ RootsSelected'
    BY <1>1 DEF IInv, RangesSound, RootsSelected, nextState
<1>7. AttestedReportsSound'
    BY <1>1, <1>2, SoundReportsStaySound
<1>8. CommittedIntervalsTile'
    <2> SUFFICES ASSUME NEW d \in Sources, NEW r \in commits, r.chain = d
                 PROVE  r.end <= sent'[d]
        BY <1>1 DEF IInv, CommittedIntervalsTile
    <2>1. r.end \in Nat /\ r.end <= sent[d]
        BY DEF IInv, TypeOK, CommittedIntervalsTile, Roots, SeqNums
    <2> QED
        BY <1>1, <1>2, <2>1
<1> QED
    BY <1>3, <1>4, <1>5, <1>6, <1>7, <1>8 DEF IInv

\* Curses, lane switches and the settling of the network only change what
\* may happen next.
LEMMA EnvironmentIInv ==
    ASSUME IInv, (\E c \in Sources : Curse(c) \/ SwitchLane(c)) \/ Stabilize
    PROVE  IInv'
<1>1. /\ UNCHANGED <<sent, next, commits, offRampNextSeqNums, onRampLatestSeqNums,
                      outcome, attested, offered, submitted, landing>>
      /\ cursed' \subseteq Sources /\ enabled' \subseteq Sources /\ stable' \in BOOLEAN
      /\ accepted' \subseteq accepted
    <2>1. ASSUME NEW c \in Sources, Curse(c) PROVE <1>1!:
        BY <2>1 DEF Curse, IInv, TypeOK, cacheVars, reportVars
    <2>2. ASSUME NEW c \in Sources, SwitchLane(c) PROVE <1>1!:
        BY <2>2 DEF SwitchLane, IInv, TypeOK, cacheVars, reportVars
    <2>3. CASE Stabilize
        BY <2>3 DEF Stabilize, IInv, TypeOK, chainVars, cacheVars, reportVars
    <2> QED
        BY <2>1, <2>2, <2>3
<1> QED
    BY <1>1 DEF IInv, TypeOK, CachesBehind, NextBehindSent, RangesSound, RootsSelected,
        nextState, AttestedReportsSound, SoundRoot, CommittedIntervalsTile

LEMMA SyncIInv ==
    ASSUME IInv, NEW o \in Honest, SyncOffRampNextSeqNums(o) \/ SyncOnRampLatestSeqNums(o)
    PROVE  IInv'
<1>1. /\ UNCHANGED <<sent, next, commits, cursed, enabled, outcome,
                      attested, offered, accepted, submitted, landing, stable>>
      /\ offRampNextSeqNums \in [Honest -> SeqNumMaps]
      /\ onRampLatestSeqNums \in [Honest -> PartialFunctions(Sources, 0..MaxSeqNum)]
    BY DEF SyncOffRampNextSeqNums, SyncOnRampLatestSeqNums, chainVars, reportVars, IInv, TypeOK
<1>2. CASE SyncOffRampNextSeqNums(o)
    <2>1. PICK read : /\ offRampNextSeqNums' = [offRampNextSeqNums EXCEPT ![o] = read]
                      /\ onRampLatestSeqNums' = onRampLatestSeqNums
                      /\ read \in SeqNumMaps
                      /\ \A c \in DOMAIN read : read[c] <= next[c]
        <3>1. ObservableOnDest(o) \in SUBSET Sources
            BY DEF ObservableOnDest, IInv, TypeOK
        <3>2. NoSeqNums \in [{} -> SeqNums] /\ {} \in SUBSET Sources /\ DOMAIN NoSeqNums = {}
            BY DEF NoSeqNums
        <3> QED
            BY <1>2, <3>1, <3>2 DEF SyncOffRampNextSeqNums, SeqNumMaps, PartialFunctions
    <2>2. offRampNextSeqNums' \in [Honest -> SeqNumMaps]
        BY <1>1, <2>1
    <2>3. CachesBehind'
        BY <1>1, <2>1 DEF IInv, CachesBehind
    <2> QED
        BY <1>1, <2>1, <2>2, <2>3 DEF IInv, TypeOK, NextBehindSent, RangesSound, RootsSelected,
            nextState, AttestedReportsSound, SoundRoot, CommittedIntervalsTile
<1>3. CASE SyncOnRampLatestSeqNums(o)
    <2>1. PICK read : /\ onRampLatestSeqNums' = [onRampLatestSeqNums EXCEPT ![o] = read]
                      /\ offRampNextSeqNums' = offRampNextSeqNums
                      /\ read \in PartialFunctions(Sources, 0..MaxSeqNum)
                      /\ \A c \in DOMAIN read : read[c] <= sent[c]
        <3>1. PICK failed : \E read \in [ObservableOnRamps(o) \ failed -> 0..MaxSeqNum] :
                /\ onRampLatestSeqNums' = [onRampLatestSeqNums EXCEPT ![o] = read]
                /\ offRampNextSeqNums' = offRampNextSeqNums
                /\ \A c \in DOMAIN read : read[c] <= sent[c]
            BY <1>3 DEF SyncOnRampLatestSeqNums
        <3>2. ObservableOnRamps(o) \ failed \in SUBSET Sources
            BY DEF ObservableOnRamps, IInv, TypeOK
        <3> QED
            BY <3>1, <3>2 DEF PartialFunctions
    <2>2. onRampLatestSeqNums' \in [Honest -> PartialFunctions(Sources, 0..MaxSeqNum)]
        BY <1>1, <2>1
    <2>3. CachesBehind'
        BY <1>1, <2>1 DEF IInv, CachesBehind
    <2> QED
        BY <1>1, <2>1, <2>2, <2>3 DEF IInv, TypeOK, NextBehindSent, RangesSound, RootsSelected,
            nextState, AttestedReportsSound, SoundRoot, CommittedIntervalsTile
<1> QED
    BY <1>2, <1>3

\* A round only changes the outcome, and the attested reports when it builds
\* some: the rest of the invariant follows from what it makes of these two.
LEMMA RoundFrame ==
    ASSUME IInv, UNCHANGED <<chainVars, cacheVars, accepted, submitted, landing, stable>>,
           outcome' \in Outcomes, RangesSound', RootsSelected',
           attested \subseteq attested', attested' \subseteq SUBSET Roots, AttestedReportsSound',
           offered' \subseteq attested'
    PROVE  IInv'
BY DEF IInv, TypeOK, chainVars, cacheVars, CachesBehind, NextBehindSent, CommittedIntervalsTile

\* The outcome without a consensus, and every other empty one.
LEMMA EmptyOutcomeSound ==
    ASSUME NEW t \in OutcomeTypes \ {"ReportGenerated", "ReportInFlight"}, outcome' = OutcomeOf(t)
    PROVE  outcome' \in Outcomes /\ RangesSound' /\ RootsSelected'
<1>1. /\ outcome' \in Outcomes /\ outcome'.type = t
      /\ DOMAIN outcome'.ranges = {} /\ outcome'.roots = {}
    BY EmptyOutcome
<1> QED
    BY <1>1 DEF RangesSound, RootsSelected, nextState

LEMMA LimitBounds ==
    ASSUME NEW a \in Nat, NEW b \in Nat, a <= b
    PROVE  /\ Limit(a, b) \in a..b
           /\ Limit(a, b) - a < MaxMerkleTreeSize
BY CommitAssumption DEF Limit

LEMMA SelectRangesIInv ==
    ASSUME IInv, SelectRanges
    PROVE  IInv'
<1>1. PICK Q \in Quorums : \E fChains :
         \/ outcome' = OutcomeOf("None")
         \/ \E onMax \in AgreedOnRampMax(Q, fChains), offNext \in AgreedOffRampNext(Q) :
                outcome' = reportRangesOutcome(onMax, offNext)
    BY DEF SelectRanges
<1>2. outcome' \in Outcomes /\ RangesSound' /\ RootsSelected'
    <2>1. CASE outcome' = OutcomeOf("None")
        BY <2>1, EmptyOutcomeSound DEF OutcomeTypes
    <2>2. ASSUME NEW fChains, NEW onMax \in AgreedOnRampMax(Q, fChains), NEW offNext \in AgreedOffRampNext(Q),
                 outcome' = reportRangesOutcome(onMax, offNext)
          PROVE  <1>2!:
        <3> DEFINE new == {c \in DOMAIN offNext \cap DOMAIN onMax : offNext[c] <= onMax[c]}
                   ranges == [c \in new |-> [start |-> offNext[c], end |-> Limit(offNext[c], onMax[c])]]
        <3>1. CASE new = {}
            <4>1. outcome' = OutcomeOf("ReportEmpty")
                BY <2>2, <3>1 DEF reportRangesOutcome
            <4> QED
                BY <4>1, EmptyOutcomeSound DEF OutcomeTypes
        <3>2. CASE new # {}
            <4>1. outcome' = [type |-> "ReportIntervalsSelected", ranges |-> ranges, roots |-> {},
                              offNext |-> offNext, attempts |-> 0]
                BY <2>2, <3>2 DEF reportRangesOutcome, OutcomeOf
            <4>2. /\ offNext \in SeqNumMaps /\ DOMAIN offNext \subseteq Sources
                  /\ \A c \in DOMAIN offNext : offNext[c] \in SeqNums /\ offNext[c] <= next[c]
                BY AgreedOffRampNextBehind DEF IInv
            <4>3. \A c \in DOMAIN onMax : onMax[c] \in 0..MaxSeqNum
                BY AgreedOnRampMaxBehind DEF IInv
            <4>4. ASSUME NEW c \in new
                  PROVE  /\ ranges[c] \in Ranges /\ c \in DOMAIN offNext
                         /\ ranges[c].start = offNext[c] /\ ranges[c].start <= ranges[c].end
                         /\ ranges[c].start <= next[c]
                         /\ ranges[c].end - ranges[c].start < MaxMerkleTreeSize
                <5> DEFINE end == Limit(offNext[c], onMax[c])
                <5>1. offNext[c] \in SeqNums /\ onMax[c] \in 0..MaxSeqNum /\ offNext[c] <= onMax[c]
                    BY <4>2, <4>3
                <5>2. offNext[c] \in Nat /\ onMax[c] \in Nat
                    BY <5>1, SeqNumsAreNaturals
                <5>3. end \in offNext[c]..onMax[c] /\ end - offNext[c] < MaxMerkleTreeSize
                    BY <5>1, <5>2, LimitBounds
                <5>4. end \in SeqNums /\ offNext[c] <= end
                    BY <5>1, <5>3, CommitAssumption DEF SeqNums
                <5>5. ranges[c] = [start |-> offNext[c], end |-> end]
                    OBVIOUS
                <5> HIDE DEF end, ranges
                <5> QED
                    BY <4>2, <5>1, <5>3, <5>4, <5>5 DEF Ranges
            <4>5. ranges \in [new -> Ranges] /\ new \in SUBSET Sources
                BY <4>2, <4>4
            <4> HIDE DEF ranges, new
            <4>6. outcome' \in Outcomes
                BY <4>1, <4>2, <4>5 DEF Outcomes, OutcomeTypes, PartialFunctions
            <4>7. RangesSound'
                <5>1. next' = next
                    BY DEF SelectRanges, chainVars
                <5> QED
                    BY <4>1, <4>4, <4>5, <5>1 DEF RangesSound
            <4>8. RootsSelected'
                BY <4>1 DEF RootsSelected, nextState
            <4> QED
                BY <4>6, <4>7, <4>8
        <3> QED
            BY <3>1, <3>2
    <2> QED
        BY <1>1, <2>1, <2>2
<1>3. UNCHANGED <<chainVars, cacheVars, attested, offered, accepted, submitted, landing, stable>>
    BY DEF SelectRanges, reportVars
<1>4. AttestedReportsSound'
    BY <1>3 DEF IInv, AttestedReportsSound, SoundRoot, chainVars
<1> QED
    BY <1>2, <1>3, <1>4, RoundFrame DEF IInv, TypeOK

\* The reports built from agreed roots are sound, and together they carry
\* nothing but those roots.
LEMMA BuildReportIInv ==
    ASSUME IInv, BuildReport
    PROVE  IInv'
<1>1. /\ UNCHANGED <<chainVars, cacheVars, accepted, submitted, landing, stable>>
      /\ attested' = IF outcome'.type = "ReportGenerated"
                     THEN attested \cup Reports(outcome'.roots) ELSE attested
      /\ offered' \subseteq attested'
    BY DEF BuildReport, IInv, TypeOK
<1>2. sent' = sent /\ next' = next
    BY <1>1 DEF chainVars
<1>3. PICK Q \in Quorums : \E fChains :
         \/ outcome' = OutcomeOf("None")
         \/ \E roots \in AgreedRoots(Q, fChains) : outcome' = buildMerkleRootsOutcome(roots, outcome)
    BY DEF BuildReport
<1>4. CASE outcome' = OutcomeOf("None")
    <2>1. outcome' \in Outcomes /\ RangesSound' /\ RootsSelected' /\ outcome'.type = "None"
        BY <1>4, EmptyOutcomeSound, EmptyOutcome DEF OutcomeTypes
    <2>2. attested' = attested
        BY <1>1, <2>1
    <2>3. AttestedReportsSound'
        BY <1>2, <2>2 DEF IInv, AttestedReportsSound, SoundRoot
    <2> QED
        BY <1>1, <2>1, <2>2, <2>3, RoundFrame DEF IInv, TypeOK
<1>5. ASSUME NEW fChains, NEW roots \in AgreedRoots(Q, fChains),
             outcome' = buildMerkleRootsOutcome(roots, outcome)
      PROVE  IInv'
    <2>1. ASSUME NEW r \in roots
          PROVE  /\ r \in Roots /\ SoundRoot(r)
                 /\ r.chain \in DOMAIN outcome.offNext /\ r.start = outcome.offNext[r.chain]
        <3>1. /\ r.chain \in DOMAIN outcome.ranges /\ r.chain \in Sources
              /\ r = [chain |-> r.chain, start |-> outcome.ranges[r.chain].start,
                      end |-> outcome.ranges[r.chain].end, root |-> "computed"]
              /\ r.end <= sent[r.chain]
            BY AgreedRootsComputed DEF IInv
        <3>2. outcome.ranges \in PartialFunctions(Sources, Ranges)
            BY DEF IInv, TypeOK, Outcomes
        <3>3. outcome.ranges[r.chain] \in Ranges
            BY <3>1, <3>2, PartialFunctionValue
        <3>4. r \in Roots
            BY <3>1, <3>3 DEF Ranges, Roots
        <3>5. /\ r.start <= r.end /\ r.start <= next[r.chain]
              /\ r.end - r.start < MaxMerkleTreeSize
              /\ r.chain \in DOMAIN outcome.offNext /\ r.start = outcome.offNext[r.chain]
            BY <3>1 DEF IInv, RangesSound
        <3> QED
            BY <3>1, <3>4, <3>5 DEF SoundRoot
    <2>2. \A q, r \in roots : q.chain = r.chain => q = r
        <3> SUFFICES ASSUME NEW q \in roots, NEW r \in roots, q.chain = r.chain PROVE q = r
            OBVIOUS
        <3>1. q = [chain |-> q.chain, start |-> outcome.ranges[q.chain].start,
                   end |-> outcome.ranges[q.chain].end, root |-> "computed"]
            BY AgreedRootsComputed DEF IInv
        <3>2. r = [chain |-> r.chain, start |-> outcome.ranges[r.chain].start,
                   end |-> outcome.ranges[r.chain].end, root |-> "computed"]
            BY AgreedRootsComputed DEF IInv
        <3> QED
            BY <3>1, <3>2
    <2>3. outcome' = [type |-> IF roots = {} THEN "ReportEmpty" ELSE "ReportGenerated",
                      ranges |-> NoSeqNums, roots |-> roots, offNext |-> outcome.offNext, attempts |-> 0]
        BY <1>5 DEF buildMerkleRootsOutcome, OutcomeOf
    <2>4. outcome' \in Outcomes
        <3>1. NoSeqNums \in PartialFunctions(Sources, Ranges)
            BY EmptyOutcome DEF OutcomeTypes, OutcomeOf, Outcomes
        <3>2. outcome.offNext \in SeqNumMaps /\ roots \in SUBSET Roots
            BY <2>1 DEF IInv, TypeOK, Outcomes
        <3> QED
            BY <2>3, <3>1, <3>2 DEF Outcomes, OutcomeTypes
    <2>5. RangesSound'
        BY <2>3 DEF RangesSound, NoSeqNums
    <2>6. RootsSelected'
        BY <2>1, <2>3 DEF RootsSelected, nextState
    <2>7. \A report \in Reports(roots) : report \subseteq roots
        BY DEF Reports
    <2>8. attested \subseteq attested' /\ attested' \subseteq attested \cup Reports(roots)
        BY <1>1, <2>3
    <2>9. attested' \subseteq SUBSET Roots
        BY <2>1, <2>7, <2>8 DEF IInv, TypeOK
    <2>10. AttestedReportsSound'
        <3> SUFFICES ASSUME NEW report \in attested'
                     PROVE  /\ \A r \in report : SoundRoot(r)'
                            /\ \A q, r \in report : q.chain = r.chain => q = r
            BY DEF AttestedReportsSound
        <3>1. CASE report \in attested
            BY <1>2, <3>1 DEF IInv, AttestedReportsSound, SoundRoot
        <3>2. CASE report \in Reports(roots)
            BY <1>2, <2>1, <2>2, <2>7, <3>2 DEF SoundRoot
        <3> QED
            BY <2>8, <3>1, <3>2
    <2> QED
        BY <1>1, <2>4, <2>5, <2>6, <2>8, <2>9, <2>10, RoundFrame
<1> QED
    BY <1>3, <1>4, <1>5

LEMMA CheckTransmissionIInv ==
    ASSUME IInv, CheckTransmission
    PROVE  IInv'
<1>1. UNCHANGED <<chainVars, cacheVars, attested, offered, accepted, submitted, landing, stable>>
    BY DEF CheckTransmission, reportVars
<1>2. PICK Q \in Quorums :
         \/ outcome' = OutcomeOf("None")
         \/ \E offNext \in AgreedOffRampNext(Q) : outcome' = checkForReportTransmission(outcome, offNext)
    BY DEF CheckTransmission
<1>3. \/ \E t \in {"None", "ReportTransmitted", "ReportTransmissionFailed"} : outcome' = OutcomeOf(t)
      \/ outcome' = [outcome EXCEPT !.type = "ReportInFlight", !.ranges = NoSeqNums, !.attempts = @ + 1]
    BY <1>2 DEF checkForReportTransmission
<1>4. outcome' \in Outcomes /\ RangesSound' /\ RootsSelected'
    <2>1. ASSUME NEW t \in {"None", "ReportTransmitted", "ReportTransmissionFailed"},
                 outcome' = OutcomeOf(t)
          PROVE  <1>4!:
        BY <2>1, EmptyOutcomeSound DEF OutcomeTypes
    <2>2. CASE outcome' = [outcome EXCEPT !.type = "ReportInFlight", !.ranges = NoSeqNums, !.attempts = @ + 1]
        <3>1. NoSeqNums \in PartialFunctions(Sources, Ranges) /\ DOMAIN NoSeqNums = {}
            BY EmptyOutcome DEF OutcomeTypes, OutcomeOf, Outcomes
        <3>2. outcome \in Outcomes
            BY DEF IInv, TypeOK
        <3>3. /\ outcome' \in Outcomes /\ outcome'.ranges = NoSeqNums
              /\ outcome'.roots = outcome.roots /\ outcome'.offNext = outcome.offNext
            <4>1. outcome' = [type |-> "ReportInFlight", ranges |-> NoSeqNums, roots |-> outcome.roots,
                              offNext |-> outcome.offNext, attempts |-> outcome.attempts + 1]
                BY <2>2, <3>2 DEF Outcomes
            <4>2. outcome.roots \in SUBSET Roots /\ outcome.offNext \in SeqNumMaps
                BY <3>2 DEF Outcomes
            <4>3. outcome.attempts + 1 \in Nat
                BY <3>2 DEF Outcomes
            <4> QED
                BY <3>1, <4>1, <4>2, <4>3 DEF Outcomes, OutcomeTypes
        <3>4. RangesSound'
            BY <3>1, <3>3 DEF RangesSound
        <3>5. RootsSelected'
            BY <3>3 DEF RootsSelected, IInv, CheckTransmission
        <3> QED
            BY <3>3, <3>4, <3>5
    <2> QED
        BY <1>3, <2>1, <2>2
<1>5. AttestedReportsSound'
    BY <1>1 DEF IInv, AttestedReportsSound, SoundRoot, chainVars
<1> QED
    BY <1>1, <1>4, <1>5, RoundFrame DEF IInv, TypeOK

\* Accepting and transmitting a report moves it, as does its transaction when
\* it reverts: no chain changes.
LEMMA TransmissionIInv ==
    ASSUME IInv, NEW report \in attested,
           \/ ShouldAcceptAttestedReport(report)
           \/ ShouldTransmitAcceptedReport(report)
           \/ ByzantineTransmit(report)
           \/ Revert(report)
    PROVE  IInv'
<1>1. /\ UNCHANGED <<sent, next, commits, cursed, enabled, offRampNextSeqNums, onRampLatestSeqNums,
                      outcome, attested, stable>>
      /\ offered' \subseteq attested /\ accepted' \subseteq attested
      /\ landing' \subseteq submitted' /\ submitted' \subseteq attested
    <2> USE DEF IInv, TypeOK, chainVars, cacheVars
    <2>1. CASE ShouldAcceptAttestedReport(report)
        BY <2>1 DEF ShouldAcceptAttestedReport
    <2>2. CASE ShouldTransmitAcceptedReport(report)
        BY <2>2 DEF ShouldTransmitAcceptedReport, Sent
    <2>3. CASE ByzantineTransmit(report)
        BY <2>3 DEF ByzantineTransmit
    <2>4. CASE Revert(report)
        BY <2>4 DEF Revert
    <2> QED
        BY <2>1, <2>2, <2>3, <2>4
<1> QED
    BY <1>1 DEF IInv, TypeOK, CachesBehind, NextBehindSent, RangesSound, RootsSelected,
        nextState, AttestedReportsSound, SoundRoot, CommittedIntervalsTile

\* What a commit does to one lane: at most one root of the report is for it,
\* and that root starts where the lane ends.
LEMMA CommitOneLane ==
    ASSUME IInv, NEW report, Commit(report), NEW c \in Sources
    PROVE  /\ report \subseteq Roots
           /\ \A q, r \in report : q.chain = r.chain => q = r
           /\ (\A r \in report : r.chain # c) => next'[c] = next[c]
           /\ \A r \in report : r.chain = c =>
                 /\ next'[c] = r.end + 1 /\ r.start = next[c]
                 /\ r.root = "computed" /\ r.start <= r.end /\ r.end <= sent[c]
                 /\ r.end - r.start < MaxMerkleTreeSize
<1>1. report \in attested
    BY DEF Commit, IInv, TypeOK
<1>2. /\ report \subseteq Roots
      /\ \A r \in report : SoundRoot(r)
      /\ \A q, r \in report : q.chain = r.chain => q = r
    BY <1>1 DEF IInv, TypeOK, AttestedReportsSound
<1>3. next'[c] = IF \E r \in report : r.chain = c
                 THEN (CHOOSE r \in report : r.chain = c).end + 1 ELSE next[c]
    BY DEF Commit
<1>4. ASSUME NEW r \in report, r.chain = c
      PROVE  (CHOOSE q \in report : q.chain = c) = r
    BY <1>2, <1>4
<1>5. \A r \in report : r.start = next[r.chain]
    BY DEF Commit, CanCommit
<1> QED
    BY <1>2, <1>3, <1>4, <1>5 DEF SoundRoot

LEMMA CommitIInv ==
    ASSUME IInv, NEW report, Commit(report)
    PROVE  IInv'
<1>1. /\ UNCHANGED <<sent, cursed, enabled, offRampNextSeqNums, onRampLatestSeqNums,
                      outcome, attested, offered, accepted, submitted, stable>>
      /\ commits' = commits \cup report /\ landing' \subseteq landing
    BY DEF Commit, cacheVars
<1>2. \A c \in Sources : /\ sent[c] \in 0..MaxSeqNum /\ sent[c] \in Nat
                         /\ next[c] \in SeqNums /\ next[c] \in Nat
    BY SeqNumsAreNaturals DEF IInv, TypeOK
<1>3. ASSUME NEW c \in Sources
      PROVE  next'[c] \in SeqNums /\ next[c] <= next'[c] /\ next'[c] <= sent[c] + 1
    <2>1. CASE \E r \in report : r.chain = c
        <3>1. PICK r \in report : r.chain = c
            BY <2>1
        <3>2. /\ next'[c] = r.end + 1 /\ r.start = next[c] /\ r.start <= r.end /\ r.end <= sent[c]
              /\ r \in Roots
            BY <3>1, CommitOneLane
        <3>3. r.end \in Nat
            BY <3>2, SeqNumsAreNaturals
        <3> QED
            BY <1>2, <3>2, <3>3, CommitAssumption DEF SeqNums
    <2>2. CASE \A r \in report : r.chain # c
        <3>1. next'[c] = next[c] /\ next[c] <= sent[c] + 1
            BY <2>2, CommitOneLane DEF IInv, NextBehindSent
        <3> QED
            BY <1>2, <3>1
    <2> QED
        BY <2>1, <2>2
<1>4. next' \in [Sources -> SeqNums]
    <2>1. next' = [c \in Sources |-> next'[c]]
        BY DEF Commit
    <2> QED
        BY <1>3, <2>1
<1>5. report \subseteq Roots
    <2>1. report \in attested
        BY DEF Commit, IInv, TypeOK
    <2> QED
        BY <2>1 DEF IInv, TypeOK
<1>6. TypeOK'
    BY <1>1, <1>4, <1>5 DEF IInv, TypeOK
<1>7. CachesBehind'
    <2> SUFFICES ASSUME NEW o \in Honest, NEW c \in DOMAIN offRampNextSeqNums[o]
                 PROVE  offRampNextSeqNums[o][c] <= next'[c]
        BY <1>1 DEF IInv, CachesBehind
    <2>1. offRampNextSeqNums[o] \in PartialFunctions(Sources, SeqNums)
        BY DEF IInv, TypeOK, SeqNumMaps
    <2>2. c \in Sources /\ offRampNextSeqNums[o][c] \in SeqNums
        BY <2>1, PartialFunctionValue
    <2>3. offRampNextSeqNums[o][c] \in Nat /\ next[c] \in Nat /\ next'[c] \in Nat
        BY <1>2, <1>3, <2>2, SeqNumsAreNaturals
    <2>4. offRampNextSeqNums[o][c] <= next[c] /\ next[c] <= next'[c]
        BY <1>3, <2>2 DEF IInv, CachesBehind
    <2> QED
        BY <2>3, <2>4
<1>8. NextBehindSent'
    BY <1>1, <1>3 DEF NextBehindSent
<1>9. RangesSound'
    <2> SUFFICES ASSUME NEW c \in DOMAIN outcome.ranges PROVE outcome.ranges[c].start <= next'[c]
        BY <1>1 DEF IInv, RangesSound
    <2>1. outcome.ranges \in PartialFunctions(Sources, Ranges)
        BY DEF IInv, TypeOK, Outcomes
    <2>2. c \in Sources /\ outcome.ranges[c] \in Ranges
        BY <2>1, PartialFunctionValue
    <2>3. outcome.ranges[c].start \in SeqNums
        BY <2>2 DEF Ranges
    <2>4. outcome.ranges[c].start \in Nat /\ next[c] \in Nat /\ next'[c] \in Nat
        BY <1>2, <1>3, <2>2, <2>3, SeqNumsAreNaturals
    <2>5. outcome.ranges[c].start <= next[c] /\ next[c] <= next'[c]
        BY <1>3, <2>2 DEF IInv, RangesSound
    <2> QED
        BY <2>4, <2>5
<1>10. RootsSelected'
    BY <1>1 DEF IInv, RootsSelected, nextState
<1>11. AttestedReportsSound'
    BY <1>1, <1>2, <1>3, <1>4, SoundReportsStaySound DEF IInv, TypeOK
<1>12. CommittedIntervalsTile'
    <2> SUFFICES ASSUME NEW c \in Sources
                 PROVE  LET lane == {r \in commits' : r.chain = c}
                        IN  /\ \A r \in lane : /\ r.root = "computed" /\ r.start <= r.end
                                               /\ r.end < next'[c] /\ r.end <= sent'[c]
                            /\ \A n \in 1..(next'[c] - 1) : \E r \in lane : n \in r.start..r.end
                            /\ \A q, r \in lane : q # r => q.end < r.start \/ r.end < q.start
        BY DEF CommittedIntervalsTile
    <2> DEFINE lane == {r \in commits : r.chain = c}
    <2>1. /\ \A r \in lane : /\ r.root = "computed" /\ r.start <= r.end
                             /\ r.end < next[c] /\ r.end <= sent[c]
          /\ \A n \in 1..(next[c] - 1) : \E r \in lane : n \in r.start..r.end
          /\ \A q, r \in lane : q # r => q.end < r.start \/ r.end < q.start
        BY DEF IInv, CommittedIntervalsTile
    <2>2. CASE \A r \in report : r.chain # c
        <3>1. next'[c] = next[c]
            BY <2>2, CommitOneLane
        <3>2. {r \in commits' : r.chain = c} = lane
            BY <1>1, <2>2
        <3> QED
            BY <1>1, <2>1, <3>1, <3>2
    <2>3. CASE \E r \in report : r.chain = c
        <3>1. PICK new \in report : new.chain = c
            BY <2>3
        <3>2. /\ next'[c] = new.end + 1 /\ new.start = next[c] /\ new.root = "computed"
              /\ new.start <= new.end /\ new.end <= sent[c]
            BY <3>1, CommitOneLane
        <3>3. {r \in commits' : r.chain = c} = lane \cup {new}
            <4>1. \A q, r \in report : q.chain = r.chain => q = r
                BY CommitOneLane
            <4> QED
                BY <1>1, <3>1, <4>1
        <3>4. \A r \in lane \cup {new} : r.start \in Nat /\ r.end \in Nat
            BY <1>5, SeqNumsAreNaturals DEF IInv, TypeOK
        <3>5. \A r \in lane \cup {new} : /\ r.root = "computed" /\ r.start <= r.end
                                         /\ r.end < next'[c] /\ r.end <= sent'[c]
            BY <1>1, <1>2, <2>1, <3>2, <3>4
        <3>6. \A n \in 1..(next'[c] - 1) : \E r \in lane \cup {new} : n \in r.start..r.end
            <4> SUFFICES ASSUME NEW n \in 1..(next'[c] - 1)
                         PROVE  \E r \in lane \cup {new} : n \in r.start..r.end
                OBVIOUS
            <4>1. CASE n < next[c]
                <5>1. n \in 1..(next[c] - 1)
                    BY <1>2, <4>1
                <5> QED
                    BY <2>1, <5>1
            <4>2. CASE ~(n < next[c])
                <5>1. n \in new.start..new.end
                    BY <1>2, <3>2, <3>4, <4>2
                <5> QED
                    BY <5>1
            <4> QED
                BY <4>1, <4>2
        <3>7. \A q, r \in lane \cup {new} : q # r => q.end < r.start \/ r.end < q.start
            BY <2>1, <3>2, <3>4
        <3> HIDE DEF lane
        <3> QED
            BY <3>3, <3>5, <3>6, <3>7
    <2> QED
        BY <2>2, <2>3
<1> QED
    BY <1>6, <1>7, <1>8, <1>9, <1>10, <1>11, <1>12 DEF IInv

LEMMA StutterIInv == IInv /\ UNCHANGED vars => IInv'
BY DEF IInv, vars, chainVars, cacheVars, reportVars, TypeOK, CachesBehind, NextBehindSent,
    RangesSound, RootsSelected, nextState, AttestedReportsSound, SoundRoot, CommittedIntervalsTile

LEMMA NextIInv == IInv /\ [Next]_vars => IInv'
<1> SUFFICES ASSUME IInv, [Next]_vars PROVE IInv'
    OBVIOUS
<1>1. ASSUME NEW c \in Sources, CCIPSend(c) PROVE IInv'
    BY <1>1, CCIPSendIInv
<1>2. ASSUME NEW c \in Sources, Curse(c) \/ SwitchLane(c) PROVE IInv'
    BY <1>2, EnvironmentIInv
<1>3. CASE Stabilize
    BY <1>3, EnvironmentIInv
<1>4. ASSUME NEW o \in Honest, SyncOffRampNextSeqNums(o) \/ SyncOnRampLatestSeqNums(o) PROVE IInv'
    BY <1>4, SyncIInv
<1>5. CASE Round
    BY <1>5, SelectRangesIInv, BuildReportIInv, CheckTransmissionIInv DEF Round
<1>6. ASSUME NEW report \in attested,
             \/ ShouldAcceptAttestedReport(report)
             \/ ShouldTransmitAcceptedReport(report)
             \/ ByzantineTransmit(report)
             \/ Revert(report)
      PROVE  IInv'
    BY <1>6, TransmissionIInv
<1>7. ASSUME NEW report \in attested, Commit(report) PROVE IInv'
    BY <1>7, CommitIInv
<1>8. CASE UNCHANGED vars
    BY <1>8, StutterIInv
<1> QED
    BY <1>1, <1>2, <1>3, <1>4, <1>5, <1>6, <1>7, <1>8 DEF Next

-----------------------------------------------------------------------------
(* The theorems.                                                           *)

\* The inductive invariant holds in every reachable state.
THEOREM InductiveInvariant == Spec => []IInv
<1> QED
    BY InitIInv, NextIInv, PTL DEF Spec

\* Every variable keeps its type, whatever the oracles observe.
THEOREM TypeCorrect == Spec => []TypeOK
<1>1. IInv => TypeOK
    BY DEF IInv
<1> QED
    BY <1>1, InductiveInvariant, PTL

\* Every attested report carries only sound roots, at most one per source, for
\* any number of oracles of which at most F, and at most FChain[k] of the
\* readers of chain k, are Byzantine (reportRangesOutcome and
\* buildMerkleRootsOutcome on the observations of asyncObserver).
THEOREM ReportsSound == Spec => []AttestedReportsSound
<1>1. IInv => AttestedReportsSound
    BY DEF IInv
<1> QED
    BY <1>1, InductiveInvariant, PTL

\* The committed intervals of every lane tile 1..next-1, however many reports
\* overlap in flight and however often they are transmitted (commit.rs).
THEOREM IntervalsTile == Spec => []CommittedIntervalsTile
<1>1. IInv => CommittedIntervalsTile
    BY DEF IInv
<1> QED
    BY <1>1, InductiveInvariant, PTL

\* Only rounds set the outcome, and only the check for transmission sets
\* ReportTransmitted.
LEMMA TransmittedStep ==
    ASSUME IInv, [Next]_vars, outcome'.type = "ReportTransmitted", outcome'.type # outcome.type
    PROVE  /\ next' = next
           /\ nextState(outcome) = "waitingForReportTransmission"
           /\ \E Q \in Quorums : \E offNext \in AgreedOffRampNext(Q) :
                 outcome' = checkForReportTransmission(outcome, offNext)
<1>1. outcome' # outcome
    OBVIOUS
<1>2. Round
    BY <1>1 DEF Next, vars, CCIPSend, Curse, SwitchLane, Stabilize, SyncOffRampNextSeqNums,
        SyncOnRampLatestSeqNums, ShouldAcceptAttestedReport, ShouldTransmitAcceptedReport,
        Sent, ByzantineTransmit, Commit, Revert
<1>3. OutcomeOf("None").type = "None" /\ OutcomeOf("ReportEmpty").type = "ReportEmpty"
    BY DEF OutcomeOf
<1>4. ~SelectRanges
    <2>1. \A onMax, offNext : reportRangesOutcome(onMax, offNext).type \in {"ReportEmpty", "ReportIntervalsSelected"}
        BY DEF reportRangesOutcome, OutcomeOf
    <2> QED
        BY <1>3, <2>1 DEF SelectRanges
<1>5. ~BuildReport
    <2>1. \A roots : buildMerkleRootsOutcome(roots, outcome).type \in {"ReportEmpty", "ReportGenerated"}
        BY DEF buildMerkleRootsOutcome, OutcomeOf
    <2> QED
        BY <1>3, <2>1 DEF BuildReport
<1> QED
    BY <1>2, <1>3, <1>4, <1>5 DEF Round, CheckTransmission, chainVars

\* The wait for a transmission is only ended by progress of the OffRamp that
\* really happened: checkForReportTransmission cannot be misled by stale
\* caches or Byzantine oracles.
THEOREM WaitEnds == Spec => WaitEndsOnProgress
<1> DEFINE Progress == outcome'.type = "ReportTransmitted" /\ outcome'.type # outcome.type
                        => IF MultipleReportsEnabled
                           THEN \A r \in outcome.roots : r.start < next[r.chain]
                           ELSE \E c \in DOMAIN outcome.offNext : outcome.offNext[c] < next[c]
<1>1. IInv /\ [Next]_vars => [Progress]_vars
    <2> SUFFICES ASSUME IInv, [Next]_vars,
                        outcome'.type = "ReportTransmitted", outcome'.type # outcome.type
                 PROVE  IF MultipleReportsEnabled
                        THEN \A r \in outcome.roots : r.start < next[r.chain]
                        ELSE \E c \in DOMAIN outcome.offNext : outcome.offNext[c] < next[c]
        OBVIOUS
    <2>0. PICK Q \in Quorums : \E offNext \in AgreedOffRampNext(Q) :
             outcome' = checkForReportTransmission(outcome, offNext)
        BY TransmittedStep
    <2>1. PICK offNext \in AgreedOffRampNext(Q) :
             outcome' = checkForReportTransmission(outcome, offNext)
        BY <2>0
    <2> DEFINE updated == {c \in DOMAIN outcome.offNext \cap DOMAIN offNext :
                               outcome.offNext[c] < offNext[c]}
               pending == {r.chain : r \in outcome.roots} \ updated
    <2>2. (~MultipleReportsEnabled /\ updated # {}) \/ pending = {}
        BY <2>1 DEF checkForReportTransmission, OutcomeOf, IInv, TypeOK, Outcomes
    <2>3. ASSUME NEW c \in updated PROVE outcome.offNext[c] < next[c]
        <3>1. offNext[c] \in SeqNums /\ offNext[c] <= next[c] /\ c \in Sources
            BY AgreedOffRampNextBehind DEF IInv
        <3>2. outcome.offNext \in PartialFunctions(Sources, SeqNums)
            BY DEF IInv, TypeOK, Outcomes, SeqNumMaps
        <3>3. outcome.offNext[c] \in SeqNums
            BY <3>2, PartialFunctionValue
        <3>4. outcome.offNext[c] \in Nat /\ offNext[c] \in Nat /\ next[c] \in Nat
            BY <3>1, <3>3, SeqNumsAreNaturals DEF IInv, TypeOK
        <3> QED
            BY <3>1, <3>4
    <2>4. CASE MultipleReportsEnabled
        <3>1. \A r \in outcome.roots : r.chain \in updated
            BY <2>2, <2>4
        <3> QED
            BY <2>3, <2>4, <3>1 DEF IInv, RootsSelected
    <2>5. CASE ~MultipleReportsEnabled
        <3>1. outcome.roots # {}
            BY TransmittedStep DEF IInv, RootsSelected
        <3>2. updated # {}
            BY <2>2, <3>1
        <3> QED
            BY <2>3, <2>5, <3>2
    <2> QED
        BY <2>4, <2>5
<1> QED
    BY <1>1, InductiveInvariant, PTL DEF Spec, WaitEndsOnProgress

\* A committed report is one atomic advance of the lanes it has roots for.
LEMMA CommitAdvances ==
    ASSUME IInv, NEW report, Commit(report)
    PROVE  Lane!LaneNext
<1> DEFINE lanes == {r.chain : r \in report}
           root(c) == CHOOSE r \in report : r.chain = c
           heads == [c \in lanes |-> root(c).end]
<1>1. report \in attested
    BY DEF Commit, IInv, TypeOK
<1>2. report \subseteq Roots /\ \A q, r \in report : q.chain = r.chain => q = r
    BY <1>1 DEF IInv, TypeOK, AttestedReportsSound
<1>3. lanes \in SUBSET Sources
    BY <1>2, SeqNumsAreNaturals
<1>4. ASSUME NEW c \in lanes
      PROVE  /\ root(c) \in report /\ root(c).chain = c
             /\ heads[c] = root(c).end /\ heads[c] \in Nat /\ 1 <= heads[c]
             /\ next'[c] = heads[c] + 1 /\ root(c).start = next[c] /\ root(c).root = "computed"
             /\ next[c] <= heads[c] /\ heads[c] <= sent[c] /\ heads[c] - next[c] < MaxMerkleTreeSize
    <2>1. root(c) \in report /\ root(c).chain = c
        OBVIOUS
    <2>2. heads[c] = root(c).end
        OBVIOUS
    <2> HIDE DEF root, heads
    <2>3. /\ next'[c] = root(c).end + 1 /\ root(c).start = next[c] /\ root(c).root = "computed"
          /\ root(c).start <= root(c).end /\ root(c).end <= sent[c]
          /\ root(c).end - root(c).start < MaxMerkleTreeSize
        BY <1>3, <2>1, CommitOneLane
    <2>4. root(c).end \in SeqNums
        BY <1>2, <2>1 DEF Roots
    <2>5. root(c).end \in Nat /\ 1 <= root(c).end
        BY <2>4, CommitAssumption DEF SeqNums
    <2> QED
        BY <2>1, <2>2, <2>3, <2>5
<1>5. heads \in [lanes -> UNION {1..sent[c] : c \in Sources}]
    <2>1. ASSUME NEW c \in lanes PROVE heads[c] \in UNION {1..sent[d] : d \in Sources}
        <3>1. c \in Sources /\ sent[c] \in Nat
            BY <1>3, SeqNumsAreNaturals DEF IInv, TypeOK
        <3> HIDE DEF heads, lanes
        <3>2. heads[c] \in 1..sent[c]
            BY <1>4, <3>1
        <3> QED
            BY <3>1, <3>2
    <2>2. heads = [c \in lanes |-> heads[c]]
        OBVIOUS
    <2> HIDE DEF heads, lanes
    <2> QED
        BY <2>1, <2>2
<1>6. Lane!Advance(heads)
    <2>1. DOMAIN heads = lanes
        OBVIOUS
    <2>2. \A c \in lanes : /\ next[c] <= heads[c] /\ heads[c] <= sent[c]
                           /\ heads[c] - next[c] < MaxMerkleTreeSize
        BY <1>4
    <2>3. next' = [c \in Sources |-> IF c \in lanes THEN heads[c] + 1 ELSE next[c]]
        <3>1. next' = [c \in Sources |-> next'[c]]
            BY DEF Commit
        <3>2. \A c \in Sources : c \notin lanes => next'[c] = next[c]
            BY CommitOneLane
        <3>3. \A c \in lanes : next'[c] = heads[c] + 1
            BY <1>4
        <3> HIDE DEF lanes, heads
        <3> QED
            BY <3>1, <3>2, <3>3
    <2>4. report = {[chain |-> c, start |-> next[c], end |-> heads[c], root |-> "computed"] : c \in lanes}
        <3>1. ASSUME NEW r \in report
              PROVE  r = [chain |-> r.chain, start |-> next[r.chain], end |-> heads[r.chain],
                          root |-> "computed"]
            <4>1. r.chain \in lanes
                OBVIOUS
            <4>2. root(r.chain) = r
                BY <1>2, <1>4, <4>1
            <4>3. r.start = next[r.chain] /\ r.root = "computed" /\ r.end = heads[r.chain]
                <5> HIDE DEF root, heads
                <5> QED
                    BY <1>4, <4>1, <4>2
            <4>4. r = [chain |-> r.chain, start |-> r.start, end |-> r.end, root |-> r.root]
                BY <1>2 DEF Roots
            <4> HIDE DEF heads
            <4> QED
                BY <4>3, <4>4
        <3>2. \A c \in lanes : \E r \in report : r.chain = c
            OBVIOUS
        <3> HIDE DEF heads
        <3> QED
            BY <3>1, <3>2
    <2>5. commits' = commits \cup report /\ sent' = sent
        BY DEF Commit
    <2> HIDE DEF heads, lanes
    <2> QED
        BY <2>1, <2>2, <2>3, <2>4, <2>5 DEF Lane!Advance
<1> HIDE DEF heads, lanes
<1> QED
    BY <1>3, <1>5, <1>6 DEF Lane!LaneNext

\* The plugin, its transmission protocol and the OffRamp together implement
\* the append-only log of CommitLane.
THEOREM Refinement == Spec => ImplementsCommitLane
<1>1. Init => Lane!LaneInit
    BY DEF Init, Lane!LaneInit
<1>2. IInv /\ [Next]_vars => [Lane!LaneNext]_(Lane!laneVars)
    <2> SUFFICES ASSUME IInv, [Next]_vars PROVE [Lane!LaneNext]_(Lane!laneVars)
        OBVIOUS
    <2> USE DEF Lane!laneVars
    <2>1. ASSUME NEW c \in Sources, CCIPSend(c) PROVE Lane!LaneNext
        BY <2>1 DEF CCIPSend, Lane!LaneNext, Lane!Send
    <2>2. ASSUME NEW report, Commit(report) PROVE Lane!LaneNext
        BY <2>2, CommitAdvances
    <2>3. ASSUME NEW c \in Sources, Curse(c) \/ SwitchLane(c) PROVE UNCHANGED Lane!laneVars
        BY <2>3 DEF Curse, SwitchLane
    <2>4. CASE Stabilize
        BY <2>4 DEF Stabilize, chainVars
    <2>5. ASSUME NEW o \in Honest, SyncOffRampNextSeqNums(o) \/ SyncOnRampLatestSeqNums(o)
          PROVE  UNCHANGED Lane!laneVars
        BY <2>5 DEF SyncOffRampNextSeqNums, SyncOnRampLatestSeqNums, chainVars
    <2>6. CASE Round
        BY <2>6 DEF Round, SelectRanges, BuildReport, CheckTransmission, chainVars
    <2>7. ASSUME NEW report \in attested,
                 \/ ShouldAcceptAttestedReport(report)
                 \/ ShouldTransmitAcceptedReport(report)
                 \/ ByzantineTransmit(report)
                 \/ Revert(report)
          PROVE  UNCHANGED Lane!laneVars
        BY <2>7 DEF ShouldAcceptAttestedReport, ShouldTransmitAcceptedReport, ByzantineTransmit,
            Revert, chainVars
    <2>8. CASE UNCHANGED vars
        BY <2>8 DEF vars, chainVars
    <2> QED
        BY <2>1, <2>2, <2>3, <2>4, <2>5, <2>6, <2>7, <2>8 DEF Next
<1> QED
    BY <1>1, <1>2, InductiveInvariant, PTL DEF Spec, ImplementsCommitLane, Lane!LaneSpec
=============================================================================
