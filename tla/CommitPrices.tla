---------------------------- MODULE CommitPrices ----------------------------
(***************************************************************************)
(* The price side of the commit plugin: the oracles' price caches          *)
(* (commit/tokenprice, commit/chainfee), the rounds that agree on prices   *)
(* and then wait for them on the destination (MainOutcome in               *)
(* commit/plugin.go), the reports that carry them, and update_prices of    *)
(* the OffRamp, which orders reports by their OCR sequence number.         *)
(*                                                                         *)
(* A key is a token or a gas price; both processors observe a price from   *)
(* the key's chain and the last update from the destination, and select    *)
(* keys by the same rule. Prices are numbers of which any two deviate.     *)
(* A round counts towards seqNr when it agrees on prices: the sequence     *)
(* numbers of other rounds are stored nowhere.                             *)
(***************************************************************************)
EXTENDS OracleConsensus

CONSTANTS
    Keys,             \* tokens and gas price chains, in the order of the reports
    FeedChain,        \* key -> the chain its price is read from
    Chains,
    Dest,             \* the destination chain
    Oracles,
    Byzantine,
    Readers,          \* chain -> the oracles configured to read it
    F,
    FChain,
    Flaky,            \* honest oracles whose reads may fail
    Lagging,          \* honest oracles that may read an earlier state
    MaxPrice,         \* the largest price an oracle may report (uint224 on chain)
    MarketPrices,     \* the prices the market takes
    Heartbeat,        \* whether the batch write frequency ever passes
    HeartbeatOnly,    \* keys not updated on deviation (ChainFeeDeviationDisabled)
    MaxSeqNr,         \* rounds that agree on prices (model bound)
    InflightPriceCheckRetries,
    MaxPricesPerReport

Honest == Oracles \ Byzantine

ASSUME PricesAssumption ==
    /\ Keys \subseteq Nat /\ IsFiniteSet(Keys)
    /\ Dest \in Chains /\ FeedChain \in [Keys -> Chains]
    /\ IsFiniteSet(Oracles) /\ Byzantine \subseteq Oracles
    /\ Readers \in [Chains -> SUBSET Oracles]
    /\ F \in Nat /\ Cardinality(Byzantine) <= F
    /\ FChain \in [Chains -> Nat \ {0}]
    /\ \A c \in Chains : Cardinality(Readers[c] \cap Byzantine) <= FChain[c]
    /\ Flaky \subseteq Honest /\ Lagging \subseteq Honest
    /\ MaxPrice \in Nat /\ MarketPrices \subseteq 1..MaxPrice /\ MarketPrices # {}
    /\ Heartbeat \in BOOLEAN /\ HeartbeatOnly \subseteq Keys
    /\ MaxSeqNr \in Nat /\ InflightPriceCheckRetries \in Nat /\ MaxPricesPerReport \in Nat

VARIABLES
    market,           \* key -> its price on the feed
    quoted,           \* key -> every price the feed showed so far
    feedCache,        \* asyncObserver: oracle -> key -> price
    updateCache,      \* asyncObserver: oracle -> key -> price of the last update
    seqNr,            \* OCR sequence number of the latest round with prices
    main,             \* MainOutcome
    priceCheck,       \* what the last round concluded about the prices in flight
    attested,         \* signed reports with prices
    accepted,
    submitted,        \* reports somebody has a transaction out for
    latestPriceSeqNr, \* OffRamp: latest_price_sequence_number
    stored,           \* FeeQuoter: key -> the price and the round it is from
    landed            \* the reports whose prices were applied

cacheVars == <<feedCache, updateCache>>
roundVars == <<seqNr, main, priceCheck>>
reportVars == <<attested, accepted, submitted>>
destVars == <<latestPriceSeqNr, stored, landed>>
vars == <<market, quoted, cacheVars, roundVars, reportVars, destVars>>

-----------------------------------------------------------------------------
PartialFunctions(S, T) == UNION {[D -> T] : D \in SUBSET S}
Prices == 1..MaxPrice
PriceMaps == PartialFunctions(Keys, Prices)
NoPrices == [k \in {} |-> 0]

MainOutcome == [inflight : 0..MaxSeqNr, remaining : 0..InflightPriceCheckRetries]
NothingInflight == [inflight |-> 0, remaining |-> 0]
PriceChecks == {"none", "waiting", "transmitted", "noConsensus"}
PriceReports == [seqNr : 1..MaxSeqNr, prices : PriceMaps, withRoots : BOOLEAN]

TypeOK ==
    /\ market \in [Keys -> MarketPrices]
    /\ quoted \in [Keys -> SUBSET MarketPrices]
    /\ feedCache \in [Honest -> PriceMaps] /\ updateCache \in [Honest -> PriceMaps]
    /\ seqNr \in 0..MaxSeqNr /\ main \in MainOutcome /\ priceCheck \in PriceChecks
    /\ attested \subseteq PriceReports
    /\ accepted \subseteq attested /\ submitted \subseteq attested
    /\ latestPriceSeqNr \in 0..MaxSeqNr
    /\ stored \in [Keys -> [price : Prices \cup {0}, seqNr : 0..MaxSeqNr]]
    /\ landed \subseteq submitted

Init ==
    /\ market \in [Keys -> MarketPrices] /\ quoted = [k \in Keys |-> {market[k]}]
    /\ feedCache = [o \in Honest |-> NoPrices] /\ updateCache = [o \in Honest |-> NoPrices]
    /\ seqNr = 0 /\ main = NothingInflight /\ priceCheck = "none"
    /\ attested = {} /\ accepted = {} /\ submitted = {}
    /\ latestPriceSeqNr = 0 /\ landed = {}
    /\ stored = [k \in Keys |-> [price |-> 0, seqNr |-> 0]]

MarketMoves(k) ==
    /\ \E p \in MarketPrices \ {market[k]} :
          /\ market' = [market EXCEPT ![k] = p]
          /\ quoted' = [quoted EXCEPT ![k] = @ \cup {p}]
    /\ UNCHANGED <<cacheVars, roundVars, reportVars, destVars>>

-----------------------------------------------------------------------------
(* asyncObserver.sync of both processors: the feed and the last updates    *)
(* are read by goroutines of their own and stored one by one.              *)

\* What an oracle may read, given the current value and the earlier ones.
Readings(o, current, earlier) == IF o \in Lagging THEN {current} \cup earlier ELSE {current}

\* Keys whose read failed are left out of the new content.
Failures(o) == SUBSET (IF o \in Flaky THEN Keys ELSE {})

SyncFeed(o) ==
    \E failed \in Failures(o) :
    \E read \in [{k \in Keys \ failed : o \in Readers[FeedChain[k]]} -> Prices] :
        /\ \A k \in DOMAIN read : read[k] \in Readings(o, market[k], quoted[k])
        /\ feedCache' = [feedCache EXCEPT ![o] = read]
        /\ UNCHANGED <<market, quoted, updateCache, roundVars, reportVars, destVars>>

\* So are keys without an update in the FeeQuoter.
SyncUpdates(o) ==
    LET shown(k) == {0} \cup {r.prices[k] : r \in {q \in landed : k \in DOMAIN q.prices}}
    IN  \E failed \in Failures(o) :
        \E read \in [IF o \in Readers[Dest] THEN Keys \ failed ELSE {} -> Prices \cup {0}] :
            /\ \A k \in DOMAIN read : read[k] \in Readings(o, stored[k].price, shown(k))
            /\ updateCache' = [updateCache EXCEPT
                                ![o] = [k \in {j \in DOMAIN read : read[j] # 0} |-> read[k]]]
            /\ UNCHANGED <<market, quoted, feedCache, roundVars, reportVars, destVars>>

-----------------------------------------------------------------------------
(* The observations of a round.                                            *)

Quorums == {Q \in SUBSET Oracles : Cardinality(Q) >= TwoFPlus1(F)}

Contributions(Q, honestView, byzantineView) ==
    [o \in Q |-> IF o \in Honest THEN honestView[o] ELSE byzantineView[o]]

FChainConsensus(votes) ==
    {c \in Chains : Cardinality({o \in DOMAIN votes : c \in votes[o]}) >= TwoFPlus1(F)}

\* The chains whose f the observers Q may agree on, over reads that fail.
AgreedFChains(Q) ==
    {FChainConsensus(Contributions(Q, [o \in Honest |-> IF o \in down THEN {} ELSE Chains], byz)) :
        down \in SUBSET Flaky, byz \in [Q \cap Byzantine -> SUBSET Chains]}

\* Faulty variant: prices are observed also while some are in flight.
HonestPrices_Always(cache) == cache

\* Plugin.Observation: no prices while some are in flight.
HonestPrices(cache) == IF main.inflight > 0 THEN [o \in Honest |-> NoPrices] ELSE cache

\* Plugin.Observation: the price sequence number of the OffRamp while prices
\* are in flight, 0 for an oracle that cannot read it.
SeqNrReadings(o) ==
    IF main.inflight = 0 \/ o \notin Readers[Dest] THEN {0}
    ELSE Readings(o, latestPriceSeqNr, {0} \cup {r.seqNr : r \in landed})
            \cup (IF o \in Flaky THEN {0} ELSE {})

\* The observed sequence numbers that Plugin.Outcome keeps: zeros are dropped,
\* and nothing relates an observer to the destination.
ObservedSeqNrs(Q) ==
    LET views == {view \in [Q -> 0..MaxSeqNr] : \A o \in Q \cap Honest : view[o] \in SeqNrReadings(o)}
    IN  {[o \in {p \in Q : view[p] > 0} |-> view[o]] : view \in views}

\* Faulty variant: f+1 observations of a price are enough.
FeedConsensus_FPlus1(view, fChains) ==
    LET obs(k) == Observed(view, Readers[FeedChain[k]], k)
        enough == {k \in Keys : /\ FeedChain[k] \in fChains
                                /\ Cardinality(DOMAIN obs(k)) >= FPlus1(FChain[FeedChain[k]])}
    IN  [k \in enough |-> Median(obs(k))]

\* GetConsensusMapAggregator with the median.
FeedConsensus(view, fChains) ==
    LET obs(k) == Observed(view, Readers[FeedChain[k]], k)
        enough == {k \in Keys : /\ FeedChain[k] \in fChains
                                /\ Cardinality(DOMAIN obs(k)) >= TwoFPlus1(FChain[FeedChain[k]])}
    IN  [k \in enough |-> Median(obs(k))]

UpdateConsensus(view) ==
    LET obs(k) == Observed(view, Readers[Dest], k)
        enough == {k \in Keys : Cardinality(DOMAIN obs(k)) >= TwoFPlus1(FChain[Dest])}
    IN  [k \in enough |-> Median(obs(k))]

AgreedFeeds(Q, fChains) ==
    {FeedConsensus(Contributions(Q, HonestPrices(feedCache), byz), fChains) :
        byz \in [Q \cap Byzantine -> PriceMaps]}

AgreedUpdates(Q) ==
    {UpdateConsensus(Contributions(Q, HonestPrices(updateCache), byz)) :
        byz \in [Q \cap Byzantine -> PriceMaps]}

-----------------------------------------------------------------------------
(* The outcome of a round.                                                 *)

\* A key is updated when no update of it was agreed, when the write frequency
\* has passed since (due), or when its price deviates from the last update.
selectTokensForUpdate(feeds, updates, due) ==
    LET update == {k \in DOMAIN feeds : \/ k \notin DOMAIN updates
                                        \/ k \in due
                                        \/ k \notin HeartbeatOnly /\ feeds[k] # updates[k]}
    IN  [k \in update |-> feeds[k]]

\* The prices both processors agree on, none without a consensus on f of the
\* destination.
AgreedPrices(Q) ==
    LET due == IF Heartbeat THEN SUBSET Keys ELSE {{}}
    IN  UNION {IF Dest \notin fChains \/ Cardinality(Q) < TwoFPlus1(FChain[Dest])
               THEN {NoPrices}
               ELSE {selectTokensForUpdate(feeds, updates, d) :
                        feeds \in AgreedFeeds(Q, fChains), updates \in AgreedUpdates(Q), d \in due} :
               fChains \in AgreedFChains(Q)}

\* Faulty variants: the retries are not looked at, they start over when they
\* run out, and the highest of the observed sequence numbers decides.
getMainOutcome_NoRetryCheck(seqNrs, fChains) ==
    IF main.inflight = 0
    THEN [main |-> NothingInflight, check |-> "none"]
    ELSE IF Dest \notin fChains \/ Cardinality(DOMAIN seqNrs) < FPlus1(FChain[Dest])
    THEN [main |-> NothingInflight, check |-> "noConsensus"]
    ELSE IF SortedAt(seqNrs, FChain[Dest]) >= main.inflight
    THEN [main |-> NothingInflight, check |-> "transmitted"]
    ELSE [main |-> [main EXCEPT !.remaining = @ - 1], check |-> "waiting"]
getMainOutcome_StartOver(seqNrs, fChains) ==
    IF main.inflight = 0 \/ main.remaining = 0
    THEN [main |-> NothingInflight, check |-> "none"]
    ELSE IF Dest \notin fChains \/ Cardinality(DOMAIN seqNrs) < FPlus1(FChain[Dest])
    THEN [main |-> NothingInflight, check |-> "noConsensus"]
    ELSE IF SortedAt(seqNrs, FChain[Dest]) >= main.inflight
    THEN [main |-> NothingInflight, check |-> "transmitted"]
    ELSE [main |-> [main EXCEPT !.remaining = IF @ = 1 THEN InflightPriceCheckRetries ELSE @ - 1],
          check |-> "waiting"]
getMainOutcome_Highest(seqNrs, fChains) ==
    IF main.inflight = 0 \/ main.remaining = 0
    THEN [main |-> NothingInflight, check |-> "none"]
    ELSE IF Dest \notin fChains \/ Cardinality(DOMAIN seqNrs) < FPlus1(FChain[Dest])
    THEN [main |-> NothingInflight, check |-> "noConsensus"]
    ELSE IF SortedAt(seqNrs, Cardinality(DOMAIN seqNrs) - 1) >= main.inflight
    THEN [main |-> NothingInflight, check |-> "transmitted"]
    ELSE [main |-> [main EXCEPT !.remaining = @ - 1], check |-> "waiting"]

\* getMainOutcomeAndCacheInvalidation
getMainOutcome(seqNrs, fChains) ==
    IF main.inflight = 0 \/ main.remaining = 0
    THEN [main |-> NothingInflight, check |-> "none"]
    ELSE IF Dest \notin fChains \/ Cardinality(DOMAIN seqNrs) < FPlus1(FChain[Dest])
    THEN [main |-> NothingInflight, check |-> "noConsensus"]
    ELSE IF SortedAt(seqNrs, FChain[Dest]) >= main.inflight
    THEN [main |-> NothingInflight, check |-> "transmitted"]
    ELSE [main |-> [main EXCEPT !.remaining = @ - 1], check |-> "waiting"]

\* The reports that carry the prices of a round: one, with the merkle roots
\* if there are any, or consecutive groups of MaxPricesPerReport without.
Reports(n, prices) ==
    LET rank(k) == Cardinality({j \in DOMAIN prices : j < k})
        group(k) == {j \in DOMAIN prices : rank(j) \div MaxPricesPerReport
                                              = rank(k) \div MaxPricesPerReport}
        part(keys, roots) == [seqNr |-> n, prices |-> [k \in keys |-> prices[k]], withRoots |-> roots]
    IN  IF MaxPricesPerReport = 0
        THEN {{part(DOMAIN prices, roots)} : roots \in BOOLEAN}
        ELSE {{part(group(k), FALSE) : k \in DOMAIN prices}}

\* Every oracle empties its caches when it detects its prices; the syncs this
\* triggers refill them one by one.
invalidateCaches(cache, check) ==
    IF check = "transmitted" THEN [o \in Honest |-> NoPrices] ELSE cache

\* Plugin.Outcome: the check on the prices in flight, then the prices agreed
\* in this round.
Round ==
    \E Q \in Quorums :
    \E fChains \in AgreedFChains(Q), seqNrs \in ObservedSeqNrs(Q), prices \in AgreedPrices(Q) :
        LET result == getMainOutcome(seqNrs, fChains)
        IN  /\ priceCheck' = result.check
            /\ feedCache' = invalidateCaches(feedCache, result.check)
            /\ updateCache' = invalidateCaches(updateCache, result.check)
            /\ \/ /\ DOMAIN prices = {}
                  /\ main' = result.main
                  /\ UNCHANGED <<seqNr, attested>>
               \/ /\ DOMAIN prices # {} /\ seqNr < MaxSeqNr
                  /\ seqNr' = seqNr + 1
                  /\ main' = [inflight |-> seqNr', remaining |-> InflightPriceCheckRetries]
                  /\ \E reports \in Reports(seqNr', prices) : attested' = attested \cup reports
            /\ UNCHANGED <<market, quoted, accepted, submitted, destVars>>

-----------------------------------------------------------------------------
(* Acceptance, transmission and the OffRamp.                               *)

\* isStaleReport: prices alone need a newer sequence number; a report with
\* merkle roots is judged by its roots, which this module leaves open.
validateReport(report) == report.withRoots \/ report.seqNr > latestPriceSeqNr

ShouldAcceptAttestedReport(report) ==
    /\ report \in attested \ (accepted \cup submitted) /\ Honest \cap Readers[Dest] # {}
    /\ validateReport(report)
    /\ accepted' = accepted \cup {report}
    /\ UNCHANGED <<market, quoted, cacheVars, roundVars, attested, submitted, destVars>>

ShouldTransmitAcceptedReport(report) ==
    /\ report \in accepted
    /\ validateReport(report)
    /\ submitted' = submitted \cup {report} /\ accepted' = accepted \ {report}
    /\ UNCHANGED <<market, quoted, cacheVars, roundVars, attested, destVars>>

ByzantineTransmit(report) ==
    /\ report \in attested \ submitted /\ Byzantine \cap Readers[Dest] # {}
    /\ submitted' = submitted \cup {report} /\ accepted' = accepted \ {report}
    /\ UNCHANGED <<market, quoted, cacheVars, roundVars, attested, destVars>>

\* Faulty variant: the sequence number is not compared.
update_prices_AnySeqNr(report) ==
    /\ report \in submitted
    /\ latestPriceSeqNr' = report.seqNr
    /\ stored' = [k \in Keys |-> IF k \in DOMAIN report.prices
                                 THEN [price |-> report.prices[k], seqNr |-> report.seqNr]
                                 ELSE stored[k]]
    /\ landed' = landed \cup {report}
    /\ UNCHANGED <<market, quoted, cacheVars, roundVars, reportVars>>

\* commit and commit_price_only: older prices are skipped without an error.
\* A transaction lands at any time, repeatedly or, as when merkle roots that
\* came with the prices are stale and it reverts, never.
update_prices(report) ==
    /\ report \in submitted
    /\ latestPriceSeqNr <= report.seqNr
    /\ latestPriceSeqNr' = report.seqNr
    /\ stored' = [k \in Keys |-> IF k \in DOMAIN report.prices
                                 THEN [price |-> report.prices[k], seqNr |-> report.seqNr]
                                 ELSE stored[k]]
    /\ landed' = landed \cup {report}
    /\ UNCHANGED <<market, quoted, cacheVars, roundVars, reportVars>>

-----------------------------------------------------------------------------
Next ==
    \/ \E k \in Keys : MarketMoves(k)
    \/ \E o \in Honest : SyncFeed(o) \/ SyncUpdates(o)
    \/ Round
    \/ \E report \in attested :
          \/ ShouldAcceptAttestedReport(report)
          \/ ShouldTransmitAcceptedReport(report)
          \/ ByzantineTransmit(report)
          \/ update_prices(report)

Spec == Init /\ [][Next]_vars

\* The OCR rounds keep going; nothing else is assumed.
RoundsSpec == Spec /\ WF_vars(Round)

-----------------------------------------------------------------------------
\* No Byzantine observation moves a reported price out of the range the feed
\* has shown: the median of 2f+1 observations (getConsensusObservation of
\* tokenprice and chainfee) lies between two honest ones, however stale.
ReportedPricesQuoted ==
    \A r \in attested : \A k \in DOMAIN r.prices :
        \E low, high \in quoted[k] : low <= r.prices[k] /\ r.prices[k] <= high

\* While a round's prices are in flight no new prices are agreed, whatever the
\* Byzantine oracles observe: the condition that Plugin.Outcome logs as
\* "something is wrong" (commit/plugin.go).
NothingAgreedWhileInflight == [][attested' # attested => main.inflight = 0]_vars

\* A price in the FeeQuoter is never replaced by one of an earlier round, in
\* whatever order the transactions of several rounds land (update_prices in
\* commit.rs).
StoredPricesNeverRollBack == [][\A k \in Keys : stored[k].seqNr <= stored'[k].seqNr]_vars

\* No round counts prices as transmitted before the OffRamp has recorded their
\* sequence number when f + 1 of the observations are honest, however far these
\* lag and whatever any number of Byzantine oracles add to them: sorted[f] is
\* at most an honest one (getMainOutcomeAndCacheInvalidation in
\* commit/plugin.go, which itself asks for f + 1 observations of anyone).
DetectedPricesRecorded ==
    \A Q \in Quorums : \A seqNrs \in ObservedSeqNrs(Q) :
        /\ Cardinality(DOMAIN seqNrs \cap Honest) >= FPlus1(FChain[Dest])
        /\ getMainOutcome(seqNrs, Chains).check = "transmitted"
        => main.inflight <= latestPriceSeqNr

\* The wait for prices in flight ends, also when none is ever transmitted: it
\* takes nothing but rounds (InflightPriceCheckRetries).
InflightPricesEnd == main.inflight > 0 ~> main.inflight = 0

\* The comment in Plugin.Outcome where the caches are invalidated: "at this
\* moment we know that prices are updated".
DetectedPricesUpdated ==
    [][ main.inflight > 0 /\ priceCheck' = "transmitted" /\ main' = NothingInflight
        => \A r \in attested : r.seqNr = main.inflight => r \in landed ]_vars
=============================================================================
