------------------------- MODULE CommitPricesProofs -------------------------
(***************************************************************************)
(* CommitPrices for every number of keys, oracles, prices and rounds: type *)
(* correctness, the range of reported prices, the order in which the       *)
(* FeeQuoter is updated, and that nothing is agreed while prices are in    *)
(* flight, from one inductive invariant.                                   *)
(***************************************************************************)
EXTENDS CommitPrices, OracleConsensusProofs

\* What an honest oracle has cached from the feed, the feed has shown.
CachesQuoted ==
    /\ \A k \in Keys : market[k] \in quoted[k]
    /\ \A o \in Honest : \A k \in DOMAIN feedCache[o] : feedCache[o][k] \in quoted[k]

\* No stored price and no report that landed is from a later round than the
\* OffRamp has recorded.
StoredBehindLatest ==
    /\ \A k \in Keys : stored[k].seqNr <= latestPriceSeqNr
    /\ \A r \in landed : r.seqNr <= latestPriceSeqNr

PInv ==
    /\ TypeOK
    /\ CachesQuoted
    /\ StoredBehindLatest
    /\ ReportedPricesQuoted

-----------------------------------------------------------------------------
(* What a round can agree on.                                              *)

\* Partial functions, by their domain and their values.
LEMMA PartialFunctionType ==
    ASSUME NEW S, NEW T
    PROVE  /\ \A f \in PartialFunctions(S, T) : DOMAIN f \subseteq S /\ f \in [DOMAIN f -> T]
           /\ \A D \in SUBSET S : \A f \in [D -> T] : f \in PartialFunctions(S, T)
BY DEF PartialFunctions

LEMMA NoPricesType == NoPrices \in PriceMaps /\ DOMAIN NoPrices = {}
<1>1. NoPrices \in [{} -> Prices] /\ DOMAIN NoPrices = {}
    BY DEF NoPrices
<1> QED
    BY <1>1, PartialFunctionType DEF PriceMaps

\* The cardinality facts about the fault model.
LEMMA FaultModel ==
    /\ \A Q \in Quorums : Q \subseteq Oracles /\ IsFiniteSet(Q)
    /\ \A c \in Chains : /\ FChain[c] \in Nat
                         /\ IsFiniteSet(Readers[c] \cap Byzantine)
                         /\ Cardinality(Readers[c] \cap Byzantine) <= FChain[c]
<1>1. \A Q \in Quorums : Q \subseteq Oracles /\ IsFiniteSet(Q)
    BY PricesAssumption, FS_Subset DEF Quorums
<1>2. \A c \in Chains : IsFiniteSet(Readers[c] \cap Byzantine)
    BY PricesAssumption, FS_Subset
<1> QED
    BY <1>1, <1>2, PricesAssumption

\* A price that the observers agree on is one of the prices, lies in the range
\* the feed has shown, and was agreed with no prices in flight: among 2f+1
\* observations one is honest, and honest oracles observe none then.
LEMMA AgreedFeed ==
    ASSUME TypeOK, CachesQuoted,
           NEW Q \in Quorums, NEW fChains, NEW feeds \in AgreedFeeds(Q, fChains),
           NEW k \in DOMAIN feeds
    PROVE  /\ k \in Keys /\ feeds[k] \in Prices
           /\ \E low, high \in quoted[k] : low <= feeds[k] /\ feeds[k] <= high
           /\ ~(main.inflight > 0)
<1> DEFINE mine == HonestPrices(feedCache)
<1>1. PICK byz \in [Q \cap Byzantine -> PriceMaps] :
          feeds = FeedConsensus(Contributions(Q, mine, byz), fChains)
    BY DEF AgreedFeeds
<1> DEFINE view == Contributions(Q, mine, byz)
           c == FeedChain[k]
           obs == Observed(view, Readers[c], k)
           D == DOMAIN obs
<1>2. /\ k \in Keys
      /\ Cardinality(D) >= TwoFPlus1(FChain[c])
      /\ feeds[k] = Median(obs)
    BY <1>1 DEF FeedConsensus
<1>3. c \in Chains
    BY <1>2, PricesAssumption
<1>4. mine \in [Honest -> PriceMaps]
    BY NoPricesType DEF HonestPrices, TypeOK
<1>5. /\ D \subseteq Q \cap Readers[c]
      /\ obs = [o \in D |-> obs[o]]
      /\ \A o \in D \cap Honest : k \in DOMAIN mine[o] /\ obs[o] = mine[o][k]
      /\ \A o \in D \ Honest : k \in DOMAIN byz[o] /\ obs[o] = byz[o][k]
    <2> HIDE DEF mine
    <2> QED
        BY DEF Observed, Contributions
<1>6. IsFiniteSet(D)
    <2> HIDE DEF obs
    <2> QED
        BY <1>5, FaultModel, FS_Subset
<1>7. \A o \in D : obs[o] \in Prices
    <2> SUFFICES ASSUME NEW o \in D PROVE obs[o] \in Prices
        OBVIOUS
    <2> HIDE DEF obs, mine
    <2>1. CASE o \in Honest
        <3>1. mine[o] \in PriceMaps /\ k \in DOMAIN mine[o] /\ obs[o] = mine[o][k]
            BY <1>4, <1>5, <2>1
        <3> QED
            BY <3>1, PartialFunctionType DEF PriceMaps
    <2>2. CASE o \notin Honest
        <3>1. o \in Q \cap Byzantine
            BY <1>5, <2>2, FaultModel DEF Honest
        <3>2. byz[o] \in PriceMaps /\ k \in DOMAIN byz[o] /\ obs[o] = byz[o][k]
            BY <1>5, <2>2, <3>1
        <3> QED
            BY <3>2, PartialFunctionType DEF PriceMaps
    <2> QED
        BY <2>1, <2>2
<1>8. obs \in [D -> 0..MaxPrice]
    <2> HIDE DEF obs
    <2> QED
        BY <1>5, <1>7, PricesAssumption DEF Prices
<1> DEFINE B == Readers[c] \cap Byzantine
<1>9. /\ \E o \in D : o \notin B /\ Median(obs) <= obs[o]
      /\ \E o \in D : o \notin B /\ obs[o] <= Median(obs)
      /\ Median(obs) \in {obs[o] : o \in D}
    <2>1. FChain[c] \in Nat /\ IsFiniteSet(B) /\ Cardinality(B) <= FChain[c] /\ MaxPrice \in Nat
        BY <1>3, FaultModel, PricesAssumption
    <2> HIDE DEF obs, B, D, c
    <2> QED
        BY <1>2, <1>6, <1>8, <2>1, MedianBetweenHonest
<1>10. \A o \in D : o \notin B => o \in Honest
    <2> HIDE DEF obs
    <2> QED
        BY <1>5, FaultModel DEF Honest
<1>11. ~(main.inflight > 0)
    <2> SUFFICES ASSUME main.inflight > 0 PROVE FALSE
        OBVIOUS
    <2>1. \A o \in Honest : DOMAIN mine[o] = {}
        BY NoPricesType DEF HonestPrices
    <2>2. PICK o \in D : o \notin B
        BY <1>9
    <2>3. o \in Honest /\ k \in DOMAIN mine[o]
        <3> HIDE DEF obs, mine
        <3> QED
            BY <1>5, <1>10, <2>2
    <2> QED
        BY <2>1, <2>3
<1>12. \A o \in D : o \notin B => obs[o] \in quoted[k]
    <2>1. mine = feedCache
        BY <1>11 DEF HonestPrices
    <2> HIDE DEF obs, mine
    <2>2. \A o \in D : o \notin B => k \in DOMAIN feedCache[o] /\ obs[o] = feedCache[o][k] /\ o \in Honest
        BY <1>5, <1>10, <2>1
    <2> QED
        BY <2>2 DEF CachesQuoted
<1> HIDE DEF obs, D, B, mine
<1> QED
    BY <1>2, <1>7, <1>9, <1>11, <1>12

\* So is every price of a round.
LEMMA AgreedPrice ==
    ASSUME TypeOK, CachesQuoted, NEW Q \in Quorums, NEW prices \in AgreedPrices(Q)
    PROVE  /\ prices \in PriceMaps
           /\ \A k \in DOMAIN prices :
                 /\ \E low, high \in quoted[k] : low <= prices[k] /\ prices[k] <= high
                 /\ ~(main.inflight > 0)
<1>1. CASE prices = NoPrices
    BY <1>1, NoPricesType
<1>2. CASE prices # NoPrices
    <2>1. \E fChains \in AgreedFChains(Q) : \E feeds \in AgreedFeeds(Q, fChains), updates \in AgreedUpdates(Q) :
             \E due : prices = selectTokensForUpdate(feeds, updates, due)
        BY <1>2 DEF AgreedPrices
    <2>0. PICK fChains : \E feeds \in AgreedFeeds(Q, fChains) :
             \E updates, due : prices = selectTokensForUpdate(feeds, updates, due)
        BY <2>1
    <2>2. PICK feeds \in AgreedFeeds(Q, fChains) :
             \E updates, due : prices = selectTokensForUpdate(feeds, updates, due)
        BY <2>0
    <2>3. /\ prices = [k \in DOMAIN prices |-> feeds[k]]
          /\ DOMAIN prices \subseteq DOMAIN feeds
        BY <2>2 DEF selectTokensForUpdate
    <2>4. \A k \in DOMAIN feeds : /\ k \in Keys /\ feeds[k] \in Prices
                                  /\ \E low, high \in quoted[k] : low <= feeds[k] /\ feeds[k] <= high
                                  /\ ~(main.inflight > 0)
        BY AgreedFeed
    <2>5. prices \in [DOMAIN prices -> Prices] /\ DOMAIN prices \in SUBSET Keys
        BY <2>3, <2>4
    <2>6. prices \in PriceMaps
        BY <2>5, PartialFunctionType DEF PriceMaps
    <2>7. \A k \in DOMAIN prices : k \in DOMAIN feeds /\ prices[k] = feeds[k]
        BY <2>3
    <2> QED
        BY <2>4, <2>6, <2>7
<1> QED
    BY <1>1, <1>2

\* The reports of a round carry its prices and its sequence number.
LEMMA ReportsOfRound ==
    ASSUME NEW n \in 1..MaxSeqNr, NEW prices \in PriceMaps,
           NEW reports \in Reports(n, prices), NEW r \in reports
    PROVE  /\ r \in PriceReports
           /\ \A k \in DOMAIN r.prices : k \in DOMAIN prices /\ r.prices[k] = prices[k]
<1>1. PICK keys \in SUBSET DOMAIN prices, roots \in BOOLEAN :
         r = [seqNr |-> n, prices |-> [k \in keys |-> prices[k]], withRoots |-> roots]
    <2>1. CASE MaxPricesPerReport = 0
        BY <2>1 DEF Reports
    <2>2. CASE MaxPricesPerReport # 0
        BY <2>2 DEF Reports
    <2> QED
        BY <2>1, <2>2
<1>2. DOMAIN prices \subseteq Keys /\ prices \in [DOMAIN prices -> Prices]
    BY PartialFunctionType DEF PriceMaps
<1>3. [k \in keys |-> prices[k]] \in [keys -> Prices] /\ keys \in SUBSET Keys
    BY <1>1, <1>2
<1>4. [k \in keys |-> prices[k]] \in PriceMaps
    BY <1>3, PartialFunctionType DEF PriceMaps
<1>5. r \in PriceReports
    BY <1>1, <1>4 DEF PriceReports
<1> QED
    BY <1>1, <1>5

-----------------------------------------------------------------------------
(* Every action preserves the invariant.                                   *)

LEMMA InitPInv == Init => PInv
<1> SUFFICES ASSUME Init PROVE PInv
    OBVIOUS
<1>1. TypeOK
    <2>1. /\ feedCache \in [Honest -> PriceMaps] /\ updateCache \in [Honest -> PriceMaps]
        BY NoPricesType DEF Init
    <2>2. main \in MainOutcome
        BY PricesAssumption DEF Init, MainOutcome, NothingInflight
    <2>3. stored \in [Keys -> [price : Prices \cup {0}, seqNr : 0..MaxSeqNr]]
        BY PricesAssumption DEF Init
    <2>4. /\ seqNr \in 0..MaxSeqNr /\ latestPriceSeqNr \in 0..MaxSeqNr
          /\ priceCheck \in PriceChecks
          /\ market \in [Keys -> MarketPrices] /\ quoted \in [Keys -> SUBSET MarketPrices]
        BY PricesAssumption DEF Init, PriceChecks
    <2> QED
        BY <2>1, <2>2, <2>3, <2>4 DEF Init, TypeOK
<1>2. CachesQuoted
    BY NoPricesType DEF Init, CachesQuoted
<1>3. StoredBehindLatest /\ ReportedPricesQuoted
    BY DEF Init, StoredBehindLatest, ReportedPricesQuoted
<1> QED
    BY <1>1, <1>2, <1>3 DEF PInv

LEMMA MarketMovesPInv ==
    ASSUME PInv, NEW k \in Keys, MarketMoves(k)
    PROVE  PInv'
<1>1. PICK p \in MarketPrices : /\ market' = [market EXCEPT ![k] = p]
                                /\ quoted' = [quoted EXCEPT ![k] = @ \cup {p}]
    BY DEF MarketMoves
<1>2. /\ market' \in [Keys -> MarketPrices] /\ quoted' \in [Keys -> SUBSET MarketPrices]
      /\ \A j \in Keys : quoted[j] \subseteq quoted'[j] /\ market'[j] \in quoted'[j]
    BY <1>1 DEF PInv, TypeOK, CachesQuoted
<1>3. TypeOK'
    BY <1>2 DEF PInv, TypeOK, MarketMoves, cacheVars, roundVars, reportVars, destVars
<1>4. CachesQuoted'
    <2>1. \A o \in Honest : DOMAIN feedCache[o] \subseteq Keys
        BY PartialFunctionType DEF PInv, TypeOK, PriceMaps
    <2> QED
        BY <1>2, <2>1 DEF PInv, CachesQuoted, MarketMoves, cacheVars
<1>5. StoredBehindLatest'
    BY DEF PInv, StoredBehindLatest, MarketMoves, destVars
<1>6. ReportedPricesQuoted'
    <2>1. \A r \in attested : DOMAIN r.prices \subseteq Keys
        BY PartialFunctionType DEF PInv, TypeOK, PriceReports, PriceMaps
    <2> QED
        BY <1>2, <2>1 DEF PInv, ReportedPricesQuoted, MarketMoves, reportVars
<1> QED
    BY <1>3, <1>4, <1>5, <1>6 DEF PInv

LEMMA SyncFeedPInv ==
    ASSUME PInv, NEW o \in Honest, SyncFeed(o)
    PROVE  PInv'
<1>1. PICK read \in PriceMaps :
         /\ \A k \in DOMAIN read : read[k] \in Readings(o, market[k], quoted[k])
         /\ feedCache' = [feedCache EXCEPT ![o] = read]
    <2>1. PICK K \in SUBSET Keys : \E read \in [K -> Prices] :
             /\ \A k \in DOMAIN read : read[k] \in Readings(o, market[k], quoted[k])
             /\ feedCache' = [feedCache EXCEPT ![o] = read]
        BY DEF SyncFeed
    <2> QED
        BY <2>1, PartialFunctionType DEF PriceMaps
<1>2. UNCHANGED <<market, quoted, updateCache, roundVars, reportVars, destVars>>
    BY DEF SyncFeed
<1>3. TypeOK'
    <2>1. feedCache' \in [Honest -> PriceMaps]
        BY <1>1 DEF PInv, TypeOK
    <2> QED
        BY <1>2, <2>1 DEF PInv, TypeOK, roundVars, reportVars, destVars
<1>4. CachesQuoted'
    <2>0. DOMAIN read \subseteq Keys
        BY PartialFunctionType DEF PriceMaps
    <2>1. \A k \in DOMAIN read : read[k] \in quoted[k]
        BY <1>1, <2>0 DEF PInv, CachesQuoted, Readings
    <2>2. feedCache'[o] = read /\ \A p \in Honest \ {o} : feedCache'[p] = feedCache[p]
        BY <1>1 DEF PInv, TypeOK
    <2> QED
        BY <1>1, <1>2, <2>1, <2>2 DEF PInv, CachesQuoted
<1>5. StoredBehindLatest' /\ ReportedPricesQuoted'
    BY <1>2 DEF PInv, StoredBehindLatest, ReportedPricesQuoted, destVars, reportVars
<1> QED
    BY <1>3, <1>4, <1>5 DEF PInv

LEMMA SyncUpdatesPInv ==
    ASSUME PInv, NEW o \in Honest, SyncUpdates(o)
    PROVE  PInv'
<1>1. PICK K \in SUBSET Keys : \E read \in [K -> Prices \cup {0}] :
         updateCache' = [updateCache EXCEPT
                          ![o] = [k \in {j \in DOMAIN read : read[j] # 0} |-> read[k]]]
    BY DEF SyncUpdates
<1>2. UNCHANGED <<market, quoted, feedCache, roundVars, reportVars, destVars>>
    BY DEF SyncUpdates
<1>3. TypeOK'
    <2>0. PICK read \in [K -> Prices \cup {0}] :
             updateCache' = [updateCache EXCEPT
                              ![o] = [k \in {j \in DOMAIN read : read[j] # 0} |-> read[k]]]
        BY <1>1
    <2> DEFINE J == {j \in DOMAIN read : read[j] # 0}
               new == [k \in J |-> read[k]]
    <2>1. new \in [J -> Prices] /\ J \in SUBSET Keys
        OBVIOUS
    <2>2. new \in PriceMaps
        <3> HIDE DEF new, J
        <3> QED
            BY <2>1, PartialFunctionType DEF PriceMaps
    <2>3. updateCache' \in [Honest -> PriceMaps]
        BY <2>0, <2>2 DEF PInv, TypeOK
    <2> QED
        BY <1>2, <2>3 DEF PInv, TypeOK, roundVars, reportVars, destVars
<1>4. CachesQuoted' /\ StoredBehindLatest' /\ ReportedPricesQuoted'
    BY <1>2 DEF PInv, CachesQuoted, StoredBehindLatest, ReportedPricesQuoted, destVars, reportVars
<1> QED
    BY <1>3, <1>4 DEF PInv

\* What a round makes of the prices in flight is again a MainOutcome: a
\* remaining check is only spent when there is one.
LEMMA MainOutcomeType ==
    ASSUME TypeOK, NEW seqNrs, NEW fChains
    PROVE  /\ getMainOutcome(seqNrs, fChains).main \in MainOutcome
           /\ getMainOutcome(seqNrs, fChains).check \in PriceChecks
<1>1. NothingInflight \in MainOutcome
    BY PricesAssumption DEF NothingInflight, MainOutcome
<1>2. main.remaining # 0 => [main EXCEPT !.remaining = @ - 1] \in MainOutcome
    BY PricesAssumption DEF TypeOK, MainOutcome
<1> DEFINE waiting == [main EXCEPT !.remaining = @ - 1]
           enough == ~(Dest \notin fChains \/ Cardinality(DOMAIN seqNrs) < FPlus1(FChain[Dest]))
           reached == SortedAt(seqNrs, FChain[Dest]) >= main.inflight
<1>3. getMainOutcome(seqNrs, fChains) =
        IF main.inflight = 0 \/ main.remaining = 0
        THEN [main |-> NothingInflight, check |-> "none"]
        ELSE IF ~enough THEN [main |-> NothingInflight, check |-> "noConsensus"]
        ELSE IF reached THEN [main |-> NothingInflight, check |-> "transmitted"]
        ELSE [main |-> waiting, check |-> "waiting"]
    BY DEF getMainOutcome
<1> HIDE DEF waiting, enough, reached
<1> QED
    BY <1>1, <1>2, <1>3 DEF PriceChecks, waiting

LEMMA RoundPInv ==
    ASSUME PInv, Round
    PROVE  PInv'
<1> DEFINE Effect(result, prices) ==
              /\ priceCheck' = result.check
              /\ feedCache' = invalidateCaches(feedCache, result.check)
              /\ updateCache' = invalidateCaches(updateCache, result.check)
              /\ \/ /\ main' = result.main
                    /\ UNCHANGED <<seqNr, attested>>
                 \/ /\ seqNr < MaxSeqNr
                    /\ seqNr' = seqNr + 1
                    /\ main' = [inflight |-> seqNr', remaining |-> InflightPriceCheckRetries]
                    /\ \E reports \in Reports(seqNr', prices) : attested' = attested \cup reports
<1>1. PICK Q \in Quorums : \E fChains, seqNrs : \E prices \in AgreedPrices(Q) :
          Effect(getMainOutcome(seqNrs, fChains), prices)
    BY DEF Round
<1>2. PICK fChains, seqNrs : \E prices \in AgreedPrices(Q) :
          Effect(getMainOutcome(seqNrs, fChains), prices)
    BY <1>1
<1> DEFINE result == getMainOutcome(seqNrs, fChains)
<1>3. PICK prices \in AgreedPrices(Q) : Effect(result, prices)
    BY <1>2
<1>4. UNCHANGED <<market, quoted, accepted, submitted, destVars>>
    BY DEF Round
<1>5. result.main \in MainOutcome /\ result.check \in PriceChecks
    BY MainOutcomeType DEF PInv
<1> HIDE DEF result
<1>6. /\ prices \in PriceMaps
      /\ \A k \in DOMAIN prices :
            \E low, high \in quoted[k] : low <= prices[k] /\ prices[k] <= high
    BY AgreedPrice DEF PInv
<1>7. /\ attested \subseteq attested'
      /\ \A r \in attested' \ attested :
            /\ r \in PriceReports
            /\ \A k \in DOMAIN r.prices : k \in DOMAIN prices /\ r.prices[k] = prices[k]
    <2>1. CASE UNCHANGED attested
        BY <2>1
    <2>2. CASE /\ seqNr < MaxSeqNr /\ seqNr' = seqNr + 1
               /\ \E reports \in Reports(seqNr', prices) : attested' = attested \cup reports
        <3>1. seqNr' \in 1..MaxSeqNr
            BY <2>2, PricesAssumption DEF PInv, TypeOK
        <3>2. PICK reports \in Reports(seqNr', prices) : attested' = attested \cup reports
            BY <2>2
        <3>3. \A r \in reports :
                 /\ r \in PriceReports
                 /\ \A k \in DOMAIN r.prices : k \in DOMAIN prices /\ r.prices[k] = prices[k]
            BY <1>6, <3>1, ReportsOfRound
        <3> QED
            BY <3>2, <3>3
    <2> QED
        BY <1>3, <2>1, <2>2
<1>8. TypeOK'
    <2>1. feedCache' \in [Honest -> PriceMaps] /\ updateCache' \in [Honest -> PriceMaps]
        BY <1>3, NoPricesType DEF PInv, TypeOK, invalidateCaches
    <2>2. seqNr' \in 0..MaxSeqNr /\ main' \in MainOutcome
        BY <1>3, <1>5, PricesAssumption DEF PInv, TypeOK, MainOutcome
    <2>3. /\ attested' \subseteq PriceReports
          /\ accepted' \subseteq attested' /\ submitted' \subseteq attested'
        BY <1>4, <1>7 DEF PInv, TypeOK
    <2> QED
        BY <1>3, <1>4, <1>5, <2>1, <2>2, <2>3 DEF PInv, TypeOK, destVars
<1>9. CachesQuoted'
    <2>1. \A o \in Honest : feedCache'[o] = feedCache[o] \/ DOMAIN feedCache'[o] = {}
        BY <1>3, NoPricesType DEF invalidateCaches
    <2> QED
        BY <1>4, <2>1 DEF PInv, CachesQuoted
<1>10. StoredBehindLatest'
    BY <1>4 DEF PInv, StoredBehindLatest, destVars
<1>11. ReportedPricesQuoted'
    BY <1>4, <1>6, <1>7 DEF PInv, ReportedPricesQuoted
<1> QED
    BY <1>8, <1>9, <1>10, <1>11 DEF PInv

\* Acceptance and transmission only move reports between sets of attested ones.
LEMMA TransmissionPInv ==
    ASSUME PInv, NEW report \in attested,
           \/ ShouldAcceptAttestedReport(report)
           \/ ShouldTransmitAcceptedReport(report)
           \/ ByzantineTransmit(report)
    PROVE  PInv'
<1>1. /\ UNCHANGED <<market, quoted, cacheVars, roundVars, attested, destVars>>
      /\ accepted' \subseteq attested
      /\ submitted \subseteq submitted' /\ submitted' \subseteq attested
    BY DEF PInv, TypeOK, ShouldAcceptAttestedReport, ShouldTransmitAcceptedReport, ByzantineTransmit
<1>2. TypeOK'
    BY <1>1 DEF PInv, TypeOK, cacheVars, roundVars, destVars
<1>3. CachesQuoted' /\ StoredBehindLatest' /\ ReportedPricesQuoted'
    BY <1>1 DEF PInv, CachesQuoted, StoredBehindLatest, ReportedPricesQuoted, cacheVars, destVars
<1> QED
    BY <1>2, <1>3 DEF PInv

\* update_prices raises the recorded sequence number, or keeps it, and stamps
\* what it stores with it.
LEMMA UpdatePricesPInv ==
    ASSUME PInv, NEW report \in attested, update_prices(report)
    PROVE  PInv' /\ \A k \in Keys : stored[k].seqNr <= stored'[k].seqNr
<1>1. /\ report \in submitted /\ latestPriceSeqNr <= report.seqNr
      /\ latestPriceSeqNr' = report.seqNr
      /\ landed' = landed \cup {report}
      /\ UNCHANGED <<market, quoted, cacheVars, roundVars, reportVars>>
    BY DEF update_prices
<1>2. /\ report.seqNr \in 1..MaxSeqNr
      /\ \A k \in DOMAIN report.prices : k \in Keys /\ report.prices[k] \in Prices
    BY PartialFunctionType DEF PInv, TypeOK, PriceReports, PriceMaps
<1>3. \A k \in Keys : /\ stored[k] \in [price : Prices \cup {0}, seqNr : 0..MaxSeqNr]
                       /\ stored[k].seqNr <= latestPriceSeqNr
    BY DEF PInv, TypeOK, StoredBehindLatest
<1>4. /\ stored' = [k \in Keys |-> stored'[k]]
      /\ \A k \in Keys : \/ stored'[k] = stored[k]
                          \/ /\ k \in DOMAIN report.prices
                             /\ stored'[k] = [price |-> report.prices[k], seqNr |-> report.seqNr]
    BY DEF update_prices
<1>5. \A k \in Keys : /\ stored'[k] \in [price : Prices \cup {0}, seqNr : 0..MaxSeqNr]
                       /\ stored[k].seqNr <= stored'[k].seqNr
                       /\ stored'[k].seqNr <= latestPriceSeqNr'
    <2> SUFFICES ASSUME NEW k \in Keys
                 PROVE  /\ stored'[k] \in [price : Prices \cup {0}, seqNr : 0..MaxSeqNr]
                        /\ stored[k].seqNr <= stored'[k].seqNr
                        /\ stored'[k].seqNr <= latestPriceSeqNr'
        OBVIOUS
    <2>1. latestPriceSeqNr \in Nat /\ report.seqNr \in Nat /\ stored[k].seqNr \in Nat
        BY <1>2, <1>3, PricesAssumption DEF PInv, TypeOK
    <2>2. CASE stored'[k] = stored[k]
        BY <1>1, <1>3, <2>1, <2>2
    <2>3. CASE /\ k \in DOMAIN report.prices
               /\ stored'[k] = [price |-> report.prices[k], seqNr |-> report.seqNr]
        BY <1>1, <1>2, <1>3, <2>1, <2>3, PricesAssumption
    <2> QED
        BY <1>4, <2>2, <2>3
<1>6. TypeOK'
    <2>1. stored' \in [Keys -> [price : Prices \cup {0}, seqNr : 0..MaxSeqNr]]
        BY <1>4, <1>5
    <2>2. latestPriceSeqNr' \in 0..MaxSeqNr
        BY <1>1, <1>2, PricesAssumption
    <2>3. landed' \subseteq submitted'
        BY <1>1 DEF PInv, TypeOK, reportVars
    <2> QED
        BY <1>1, <2>1, <2>2, <2>3 DEF PInv, TypeOK, cacheVars, roundVars, reportVars
<1>7. CachesQuoted' /\ ReportedPricesQuoted'
    BY <1>1 DEF PInv, CachesQuoted, ReportedPricesQuoted, cacheVars, reportVars
<1>8. \A r \in landed' : r.seqNr <= latestPriceSeqNr'
    <2>1. \A r \in landed : r.seqNr \in Nat /\ r.seqNr <= latestPriceSeqNr
        BY DEF PInv, TypeOK, StoredBehindLatest, PriceReports
    <2>2. latestPriceSeqNr \in Nat /\ report.seqNr \in Nat
        BY <1>2, PricesAssumption DEF PInv, TypeOK
    <2> QED
        BY <1>1, <2>1, <2>2
<1> QED
    BY <1>5, <1>6, <1>7, <1>8 DEF PInv, StoredBehindLatest

LEMMA StutterPInv == PInv /\ UNCHANGED vars => PInv'
BY DEF PInv, TypeOK, CachesQuoted, StoredBehindLatest, ReportedPricesQuoted,
       vars, cacheVars, roundVars, reportVars, destVars

LEMMA NextPInv == PInv /\ [Next]_vars => PInv'
<1> SUFFICES ASSUME PInv, [Next]_vars PROVE PInv'
    OBVIOUS
<1>1. ASSUME NEW k \in Keys, MarketMoves(k) PROVE PInv'
    BY <1>1, MarketMovesPInv
<1>2. ASSUME NEW o \in Honest, SyncFeed(o) \/ SyncUpdates(o) PROVE PInv'
    BY <1>2, SyncFeedPInv, SyncUpdatesPInv
<1>3. CASE Round
    BY <1>3, RoundPInv
<1>4. ASSUME NEW report \in attested,
             \/ ShouldAcceptAttestedReport(report)
             \/ ShouldTransmitAcceptedReport(report)
             \/ ByzantineTransmit(report)
      PROVE  PInv'
    BY <1>4, TransmissionPInv
<1>5. ASSUME NEW report \in attested, update_prices(report) PROVE PInv'
    BY <1>5, UpdatePricesPInv
<1>6. CASE UNCHANGED vars
    BY <1>6, StutterPInv
<1> QED
    BY <1>1, <1>2, <1>3, <1>4, <1>5, <1>6 DEF Next

-----------------------------------------------------------------------------
(* The results.                                                            *)

\* The invariant that the results below rest on.
THEOREM PricesInductiveInvariant == Spec => []PInv
<1>1. PInv /\ [Next]_vars => PInv'
    BY NextPInv
<1> QED
    BY <1>1, InitPInv, PTL DEF Spec

\* Type correctness: among others, the remaining checks of MainOutcome never
\* go below zero (an unsigned integer in commit/committypes).
THEOREM PricesTypeCorrect == Spec => []TypeOK
<1>1. PInv => TypeOK
    BY DEF PInv
<1> QED
    BY <1>1, PricesInductiveInvariant, PTL

\* Prices in reports lie within what the feed has shown, for any number of
\* oracles and any f (getConsensusObservation of tokenprice and chainfee).
THEOREM PricesInRange == Spec => []ReportedPricesQuoted
<1>1. PInv => ReportedPricesQuoted
    BY DEF PInv
<1> QED
    BY <1>1, PricesInductiveInvariant, PTL

\* No new prices are agreed while some are in flight (Plugin.Outcome).
THEOREM NothingInflightAgreed == Spec => NothingAgreedWhileInflight
<1>1. PInv /\ [Next]_vars => [attested' # attested => main.inflight = 0]_vars
    <2> SUFFICES ASSUME PInv, Next, attested' # attested PROVE main.inflight = 0
        OBVIOUS
    <2>1. Round
        BY DEF Next, MarketMoves, SyncFeed, SyncUpdates, ShouldAcceptAttestedReport,
               ShouldTransmitAcceptedReport, ByzantineTransmit, update_prices, reportVars
    <2>2. PICK Q \in Quorums : \E prices \in AgreedPrices(Q) : DOMAIN prices # {}
        BY <2>1 DEF Round
    <2>3. ~(main.inflight > 0)
        BY <2>2, AgreedPrice DEF PInv
    <2>4. main.inflight \in Nat
        BY PricesAssumption DEF PInv, TypeOK, MainOutcome
    <2> QED
        BY <2>3, <2>4
<1> QED
    BY <1>1, PricesInductiveInvariant, PTL DEF Spec, NothingAgreedWhileInflight

\* The FeeQuoter never goes back to a price of an earlier round
\* (update_prices in commit.rs).
THEOREM PricesNeverRollBack == Spec => StoredPricesNeverRollBack
<1>1. PInv /\ [Next]_vars => [\A k \in Keys : stored[k].seqNr <= stored'[k].seqNr]_vars
    <2> SUFFICES ASSUME PInv, Next PROVE \A k \in Keys : stored[k].seqNr <= stored'[k].seqNr
        OBVIOUS
    <2>1. ASSUME NEW report \in attested, update_prices(report)
          PROVE  \A k \in Keys : stored[k].seqNr <= stored'[k].seqNr
        BY <2>1, UpdatePricesPInv
    <2>2. CASE stored' = stored
        BY <2>2, PricesAssumption DEF PInv, TypeOK
    <2>3. stored' = stored \/ \E report \in attested : update_prices(report)
        BY DEF Next, MarketMoves, SyncFeed, SyncUpdates, Round, ShouldAcceptAttestedReport,
               ShouldTransmitAcceptedReport, ByzantineTransmit, destVars
    <2> QED
        BY <2>1, <2>2, <2>3
<1> QED
    BY <1>1, PricesInductiveInvariant, PTL DEF Spec, StoredPricesNeverRollBack

\* No honest oracle observes a sequence number above the one the OffRamp has
\* recorded. Fewer than f + 1 observations are below sorted[f], so one of f + 1
\* honest ones is not, and sorted[f] is no more than what was recorded.
LEMMA HonestSeqNrs ==
    ASSUME PInv, NEW Q \in Quorums, NEW seqNrs \in ObservedSeqNrs(Q),
           NEW f \in Nat, Cardinality(DOMAIN seqNrs \cap Honest) >= FPlus1(f)
    PROVE  SortedAt(seqNrs, f) \in Nat /\ SortedAt(seqNrs, f) <= latestPriceSeqNr
<1>1. PICK view \in [Q -> 0..MaxSeqNr] :
         /\ \A o \in Q \cap Honest : view[o] \in SeqNrReadings(o)
         /\ seqNrs = [o \in {p \in Q : view[p] > 0} |-> view[o]]
    BY DEF ObservedSeqNrs
<1> DEFINE D == DOMAIN seqNrs
           v == SortedAt(seqNrs, f)
           H == D \cap Honest
<1>2. D \subseteq Q /\ seqNrs \in [D -> 0..MaxSeqNr] /\ \A o \in D : seqNrs[o] = view[o]
    BY <1>1
<1>3. IsFiniteSet(D) /\ H \subseteq D
    BY <1>2, FaultModel, FS_Subset
<1>4. /\ IsFiniteSet(H) /\ Cardinality(H) <= Cardinality(D)
      /\ Cardinality(H) \in Nat /\ Cardinality(D) \in Nat
    <2> HIDE DEF D, H
    <2> QED
        BY <1>3, FS_Subset, FS_CardinalityType
<1>5. Cardinality(D) > f /\ Cardinality(H) > f
    BY <1>4 DEF FPlus1
<1>6. latestPriceSeqNr \in Nat
    BY PricesAssumption DEF PInv, TypeOK
<1>7. \A o \in Honest : \A n \in SeqNrReadings(o) : n <= latestPriceSeqNr
    BY <1>6 DEF SeqNrReadings, Readings, PInv, StoredBehindLatest
<1>8. v \in {seqNrs[o] : o \in D} /\ IsSortedAt(seqNrs, f, v)
    <2> HIDE DEF D
    <2> QED
        BY <1>2, <1>3, <1>5, PricesAssumption, SortedAtExists
<1>9. v \in Nat
    <2> HIDE DEF v
    <2> QED
        BY <1>2, <1>8
<1>10. PICK o \in H : o \notin Below(seqNrs, v)
    <2>1. IsFiniteSet(Below(seqNrs, v)) /\ Cardinality(Below(seqNrs, v)) <= f
        BY <1>3, <1>8, FS_Subset DEF Below, IsSortedAt
    <2> HIDE DEF H, v, D
    <2> QED
        BY <1>4, <1>5, <2>1, HonestMember
<1>11. v <= seqNrs[o]
    <2>1. o \in D /\ seqNrs[o] \in Nat
        BY <1>2, <1>10
    <2> HIDE DEF v
    <2> QED
        BY <1>9, <1>10, <2>1 DEF Below
<1>12. seqNrs[o] \in SeqNrReadings(o) /\ o \in Honest /\ seqNrs[o] \in Nat
    BY <1>1, <1>2, <1>10
<1>13. seqNrs[o] <= latestPriceSeqNr
    BY <1>7, <1>12
<1> HIDE DEF v
<1> QED
    BY <1>6, <1>9, <1>11, <1>12, <1>13 DEF v

\* Prices count as transmitted only when the OffRamp has recorded their
\* sequence number, provided f + 1 honest oracles of the destination observe,
\* whatever any number of Byzantine ones add and however far the honest ones
\* lag (getMainOutcomeAndCacheInvalidation).
THEOREM HonestDetection == Spec => []DetectedPricesRecorded
<1>1. PInv => DetectedPricesRecorded
    <2> SUFFICES ASSUME PInv, NEW Q \in Quorums, NEW seqNrs \in ObservedSeqNrs(Q),
                        Cardinality(DOMAIN seqNrs \cap Honest) >= FPlus1(FChain[Dest]),
                        getMainOutcome(seqNrs, Chains).check = "transmitted"
                 PROVE  main.inflight <= latestPriceSeqNr
        BY DEF DetectedPricesRecorded
    <2>1. SortedAt(seqNrs, FChain[Dest]) >= main.inflight
        BY DEF getMainOutcome
    <2>2. FChain[Dest] \in Nat
        BY PricesAssumption
    <2>3. /\ SortedAt(seqNrs, FChain[Dest]) \in Nat
          /\ SortedAt(seqNrs, FChain[Dest]) <= latestPriceSeqNr
        BY <2>2, HonestSeqNrs
    <2>4. main.inflight \in Nat /\ latestPriceSeqNr \in Nat
        BY PricesAssumption DEF PInv, TypeOK, MainOutcome
    <2> QED
        BY <2>1, <2>3, <2>4
<1> QED
    BY <1>1, PricesInductiveInvariant, PTL
=============================================================================
