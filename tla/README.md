# Formal model of the CCIP off-chain plugins

TLA+ specifications of how `chainlink-ccip` carries commitments and prices from
source chains and price feeds to the destination chain and executes the
committed messages there: the oracles' observers and caches, the OCR rounds of
the two plugins, the reports they build and sign, the checks before
transmission, and the OffRamp instructions that apply a report. TLC checks
small instances; TLAPS proves the main safety results for every size.

Contents: 1 inventory, 2 plan, 3 modules and the code, 4 runs, 5 fairness,
6 proofs, 7 what the comments say and the code does not, 8 what is left out.

## 1. Inventory of the system

The repository holds two OCR3 plugins (commit and execute) that run on a DON of
oracles per destination chain, the libraries they share, and the on-chain
programs of two chain families. Only a subset of the oracles (the *role DON*
members configured as readers) reads a given chain. OCR3 gives the plugins a
sequence of rounds: a leader collects at least `2F+1` observations, every oracle
computes the same outcome from them, the outcome is handed to the next round,
and reports derived from it are signed and transmitted by any of the oracles.
Rounds are totally ordered; everything else (reads of chains, transmissions,
landing of transactions) runs beside them.

| Component | State | Operations | Talks to |
|---|---|---|---|
| `internal/plugincommon/consensus` | none | `GetConsensusMap`, `GetOrderedConsensus`, `GetConsensusMapAggregator`, `Median`, thresholds | every `Outcome` |
| `commit/merkleroot` | previous outcome (carried by OCR); per oracle caches of OnRamp and OffRamp sequence numbers | `Observation`, `ValidateObservation`, `Outcome` in three states (select ranges, build report, wait for transmission), `asyncObserver.sync` | chain readers, RMN curses, report builder |
| `commit/tokenprice`, `commit/chainfee` | per oracle caches of feed prices and last FeeQuoter updates | observe, agree on medians, select keys to update, `invalidateCaches` | price feeds, FeeQuoter |
| `commit/plugin.go` | `MainOutcome`: OCR sequence number of prices in flight, remaining checks | `Observation`, `Outcome`, `getMainOutcomeAndCacheInvalidation` | the processors above, OffRamp |
| `commit/report.go`, `commit/internal/builder` | none | `Reports`, `ShouldAcceptAttestedReport`, `ShouldTransmitAcceptedReport` | OffRamp readers, OCR |
| Solana `ccip-offramp` `commit.rs` | per source `min_seq_nr`, commit report accounts, `latest_price_sequence_number` | `commit`, `commit_price_only`, `update_prices`, `close_commit_report_account` | transmitters, FeeQuoter |
| `execute` plugin | previous outcome, `commitReportCache`, `commitRootsCache`, `inflightMessageCache` | rounds GetCommitReports, GetMessages, Filter; reports, accept and transmit checks | OffRamp, source chains |
| `pkg/chainaccessor` | none | `CommitReportsGTETimestamp`, `ExecutedMessages`: queries with a limit, an order and a confidence level | log poller |
| Solana `ccip-offramp` `execute.rs` | execution state of each message of a commit report | `execute`, `manually_execute` | transmitters, anyone, token pools, receivers |
| `execute/report` builder | accumulated gas and size, expected nonces | `Add`, `Build`, message checks | execute `Outcome` |
| `execute/tokendata` | background queue, workers, cache with expiry | `Observe` | attestation services |
| `internal/plugincommon/discovery` | contract addresses per chain | `Observation`, `Outcome` (binds contracts) | home chain, readers |
| `internal/reader/home_chain.go`, `pkg/reader` config poller | polled configuration | polling goroutines, reads | chain accessors |
| codecs, configuration, bindings, deployment, mocks | none relevant | conversion, tooling | |

### What is hard

* *Stale reads.* Observations come from caches that background goroutines fill;
  two caches of one oracle are from different moments, and those of different
  oracles from different moments again.
* *Byzantine observers.* Up to `F` oracles, and up to `f` readers of a chain,
  observe anything that `ValidateObservation` accepts and transmit anything
  that was signed.
* *Reports in flight.* Nothing ends the life of a signed report: it may land
  late, twice, or after the plugin gave up on it and built one that overlaps.
* *Time between check and use.* A lane can be cursed, disabled or advanced by
  another report between selection, acceptance, transmission and landing.
* *Waiting.* Both the root and the price side wait for an effect that may never
  come, count their attempts, and conclude from a lagging view that it came.
* *Partial effects.* One outcome may be split over several reports, and a report
  with several messages may execute some of them.
* *Caches that hide work.* The execute plugin leaves out what it believes to be
  executed or in flight. A belief that is wrong, or that outlives its reason
  after a reorganisation, a lost report or a restart, hides messages.
* *Limits.* Queries, observations and reports are cut off at a limit; whatever
  is behind it must come up later.

### What makes each part correct

* consensus: an agreed value is an honest one, or lies between two honest ones.
* merkle roots: only sound roots are signed; the committed intervals tile each
  lane; the wait ends, and ends well only after real progress; every message
  is committed once the environment behaves.
* prices: reported prices are within what the feed showed; a stored price never
  goes back to an earlier round; nothing new is agreed while prices are in
  flight; the wait ends, and ends well only when the OffRamp recorded the round.
* execute caches: only what is final is cached for good, a snooze is bounded,
  and no pending root falls between the cache and the query.
* execute rounds: what is agreed is so; a message is delivered at most once;
  every committed message is attempted once the environment behaves.
* report builder: reports stay within their limits, take no message twice,
  keep the order of nonces, and miss nothing that fits.
* token data: no queued message is forgotten or locked out, calls and `Close`
  return, and token data arrives after any mixture of failures.

The hazards behind these properties are listed with their lines in
`PROJECT.json`.

## 2. Plan

Done: `OracleConsensus`, `CommitMerkleRoot` with its abstract specification
`CommitLane`, `CommitPrices`, `ExecuteCaches`, `ExecuteReport` and
`ExecuteReportBuilder`, `Execute` with its abstract specification `ExecuteLane`,
`TokenDataBackground`, and the proofs of the safety properties the runs check
(section 6). Left, in this order:

1. `Discovery` and the home chain poller: configuration that changes under the
   plugins, which turns `Readers` and `FChain` into variables.
2. A run of `CommitMerkleRoot` that cuts a range at `MaxMerkleTreeSize` and
   commits its remainder in a later cycle.
3. `Commit`: the composition of `CommitMerkleRoot` and `CommitPrices` over one
   OffRamp, where a report carries both and reverts as a whole.
4. The life cycle of the price processors (`invalidateCaches` after close).

## 3. Modules and how they correspond to the code

`OracleConsensus` (pure). The observations of one key are a function from
oracles to values: the Go slice with its attribution kept, so that honest and
Byzantine contributions can be told apart. `GetValid`, `ConsensusItem`,
`SortedAt` (`slices.Sort(items); items[i]`) and `Median` follow the functions
of the same name.

`CommitMerkleRoot` composes the merkle root processor, the report checks and
the OffRamp.

| Variable | Code |
|---|---|
| `sent` | latest sequence number of each OnRamp (`CCIPSend`) |
| `next`, `commits` | `source_chain.state.min_seq_nr` and the commit report accounts |
| `cursed`, `enabled` | RMN curses, `is_enabled` of a source |
| `offRampNextSeqNums`, `onRampLatestSeqNums` | the fields of `asyncObserver`, per oracle |
| `outcome` | `merkleroot.Outcome` carried from round to round |
| `attested`, `accepted`, `submitted` | the reports signed so far; those an honest oracle accepted and is yet to transmit; those somebody sent a transaction for |
| `offered`, `landing` | of these, the reports OCR has offered since `stable` that are yet to be decided on, and the transactions sent since then that are yet to land (liveness only) |
| `stable` | a ghost: from here on the environment behaves (liveness only) |

| Action | Code |
|---|---|
| `SyncOffRampNextSeqNums`, `SyncOnRampLatestSeqNums` | the two operations of `asyncObserver.sync`; the value stored is that of any earlier state of the chain |
| `SelectRanges`, `BuildReport`, `CheckTransmission` | one OCR round each: `Observation`, `ValidateObservation`, consensus and `Outcome` in the state of the processor |
| `ShouldAcceptAttestedReport`, `ShouldTransmitAcceptedReport` | the functions of the same name with `validateReport`; a report either refuses is dropped for good |
| `ByzantineTransmit` | a transmitter that skips the checks |
| `Commit`, `Revert` | the `commit` instruction, for any submitted report, at any time, repeatedly or never |
| `CCIPSend`, `Curse`, `SwitchLane`, `Stabilize` | the environment |

A round is one step. OCR itself is not modelled: its guarantee, that all
oracles compute the same outcome from the same attributed observations of at
least `2F+1` of them, is what the step expresses (`Quorums`, with every choice
of what the Byzantine members observe). This loses no behaviour, because the
inputs of a round are caches that were filled before it. Roots are observed by
reading messages inside the round; messages are immutable, and a read may fail.
A merkle root is abstracted to "computed from the messages of its range" or
"forged".

`CommitLane` is the abstract specification: per lane an append-only log of
consecutive intervals of sent messages. `CommitMerkleRoot` implements it with
the identity on `sent`, `next` and `commits`.

`CommitPrices` composes the two price processors, `MainOutcome`, the price
reports and `update_prices`. A *key* is a token or the gas price of a chain:
both processors observe a price from the key's chain and the last update from
the destination, agree on medians with `2f+1` observations, and select keys by
the same rule (no update known, write frequency passed, deviation).

| Variable | Code |
|---|---|
| `market`, `quoted` | the feed now, and everything it has shown (ghost) |
| `feedCache`, `updateCache` | `tokenPriceMap` and `tokenUpdates` of the token price observer and their chain fee counterparts |
| `seqNr`, `main`, `priceCheck` | OCR sequence number of the last round with prices, `MainOutcome`, what the last round concluded |
| `attested`, `accepted`, `submitted` | as above |
| `latestPriceSeqNr`, `stored`, `landed` | `latest_price_sequence_number`, the FeeQuoter, the reports applied (ghost) |

`SyncFeed` and `SyncUpdates` are the two operations of `asyncObserver.sync`,
`Round` is `Plugin.Observation` and `Plugin.Outcome` with both processors,
`update_prices` is the instruction's helper, which `commit` and
`commit_price_only` call. Simplifications: any two prices deviate
(`mathslib.Deviates` compares with a configured threshold), the passing of the
write frequency is a free choice (`Heartbeat`), rounds without prices do not
advance `seqNr` (their numbers are stored nowhere), every honest oracle runs
the outcome that invalidates the caches, and a report with merkle roots is not
judged by its roots here (it may always be accepted, and always fail to land).

`ExecuteCaches` is one oracle of the execute plugin with its commit report cache
and root cache, and the observation that fills them. Time is explicit. The
destination chain has blocks with timestamps, finality and reorganisations, and
the log poller delivers commit reports late.

| Variable | Code |
|---|---|
| `now`, `final`, `commitTime`, `executions`, `indexed` | clock, finalised height, `CommitReportAccepted` and `ExecutionStateChanged` events, what the log poller has delivered |
| `latest`, `cached` | `latestFinalizedReportTimestamp` and the entries of `commitReportCache` |
| `executedUntil`, `snoozedUntil` | the expiry of the entries of `executedRoots` and `snoozedRoots` |
| `phase`, `candidates`, `unconfirmed`, `pending` | where `getCommitReportsObservation` is, and its local variables |
| `settledBefore`, `lastExecuted` | ghosts for the properties |

The observation is four actions, `StartObservation` (`RefreshCache`),
`QueryReports`, `ReadUnconfirmed`, `ReadFinalized` (which marks and snoozes
roots), since the chain moves between its reads; `Abandon` and `Restart` may come
between any two. Time does not pass within an observation, which takes seconds
where the caches count minutes.

`ExecuteReport` is the report builder as operators on a builder value, in the
order of the code: `checkMessage`, `buildSingleChainReport`, `tryBuildReport`,
`Add`, `Build`, `selectReports`. Gas and encoded size are one budget, since they
are accumulated and compared in the same way. Whether the messages of a commit
report hash to its root (`roots.go`) is a Boolean of the commit report. The
loops of the code (over the messages of a commit report, of the greedy search, of
`Add`, of `selectReports`) are recursive functions on the number of passes, each
with an operator for one pass (`extractMessage`, `takeMessage`, `addPass`,
`offerReport`), so that they can be reasoned about.
`ExecuteReportBuilder` offers a builder the commit reports of a list one after
the other, under every setting. What it assumes of a list (`WellFormed`) is what
the source guarantees: two messages of a chain have different sequence numbers,
and two ordered ones of a sender different nonces.

`Execute` composes the rounds of the execute plugin, the in-flight caches, the
builder of `ExecuteReport`, the report checks and the OffRamp, for one source.

| Variable | Code |
|---|---|
| `chain` | the destination: committed roots, execution state of each message, nonce of each sender, curse |
| `inflight` | `InflightMessageCache` of each honest oracle |
| `outcome` | `exectypes.Outcome`: `executed` maps the agreed roots to their agreed executed messages; `messages`, `full`, `ready` are the messages agreed on at all, with their data, and with their token data |
| `reports` | each signed report with how far it has come: attested, accepted, submitted, closed |
| `stable` | as in `CommitMerkleRoot` |

| Action | Code |
|---|---|
| `GetCommitReports`, `GetMessages`, `Filter` | one OCR round each: observation, consensus and outcome of that state; `GetCommitReports` after a report marks its messages as in flight, `Filter` builds and signs the reports |
| `ShouldAcceptAttestedReport`, `ShouldTransmitAcceptedReport` | the functions of the same name with `validateReport`, which refuses a report only if all between the first and last message of each chain report is executed |
| `Land`, `ManuallyExecute` | the OffRamp: messages of the report in order, skipping those executed and those whose nonce is not next |
| `ExpireInflight`, `Restart`, `Lose`, `ByzantineTransmit`, `Commit`, `Curse`, `Stabilize` | expiry, faults and the environment |

What an oracle observes is abstracted to what can be agreed: before `stable` an
honest read may be from any earlier moment, so an item that is so may be
observed by any number of the honest readers, one that is not by none, and the
Byzantine ones add to either (`Agreements`). Votes of `GetMessages` are counted
exactly, from the in-flight caches. The outcomes of a round are the sets these
votes allow. Roots reach the votes through the caches of `ExecuteCaches`, whose
properties are what makes "the committed roots that are not fully executed" the
right abstraction of an up-to-date observation. Ordered messages exist for EVM
destinations only; the nonce rule of the OffRamp there is taken from how
`CheckNonces` and `verifyReportNonceContinuity` rely on it, while the states of a
message follow `execute.rs`, where a failed attempt leaves an event and may be
repeated. Commit reports are read by the readers of the destination but agreed
with `f+1` of the *source* chain (`computeCommitObservationsConsensus`, section 7).
`chain.deliveries` is a history of the successful executions, counted apart from
the state of the message, which a second success would not change.

`ExecuteLane` is what executing promises: only messages under a committed root
are attempted, a failed attempt may be repeated, and nothing is attempted after a
success. `Execute` implements it with `available`, `failed` and `deliveries` read
off `chain`. The order of a sender's messages is not part of it: the nonces are
kept by a contract outside this repository, whose rule `Execute` assumes.

`TokenDataBackground` is the background observer of one oracle, with calls of
`Observe` that overlap: `Observe` does not look at its context, so a call that
waits is still there when a later round makes the next one.

| Variable | Code |
|---|---|
| `calls`, `asked` | where each call of `Observe` is (`get`, `containsMsg`, the lock of `enqueue`, the send), and its message |
| `queue`, `ids`, `senders` | `msgQueue.msgs`, `msgQueue.msgIDs`, the goroutines blocked in `newMsgSignalChan <-` in the order they came |
| `workers`, `job` | where each worker is in its loop, and the message it fetches |
| `cached`, `attested`, `closed` | `inMemTokenDataCache`, what the attestation service returns in time, `done` |

| Action | Code |
|---|---|
| `Observe`, `get`, `containsMsg`, `enqueue` | a call, one action per critical section; after `enqueue` it is on the channel |
| `receive`, `dequeue`, `fetch`, `stop` | a worker: the two cases of its `select`, the dequeue, and the observation with its timeout, which drops the message when it fails |
| `Expire`, `Service`, `Close` | the clean-up of the cache, the attestation service, `Close` |

`dequeue` takes the first message: every message is enqueued with `availableAfter`
0, and the clock is assumed to have moved between the enqueue of a message and
the dequeue that its signal leads to (`time.Now().After(availableAt)` is strict).
A cached entry may expire at any time. The queue is the part of the token data
observers with control of its own; `Execute` has their result, token data that
comes late.

Each module carries the faulty variants of its operators (`..._AnySeqNr` and so
on) that show, when put in place, that the properties are not vacuous.

## 4. Runs

`F = 1` and `f = 1` everywhere: four oracles (`o1..o3`, `b`) when one is
Byzantine, three when the fourth is down. This is the smallest DON in which a
quorum can contain a Byzantine oracle and lack an honest one. `SYMMETRY` over
the honest oracles is used in safety runs in which none of them is
distinguished as flaky or lagging, never with liveness.

| Run | Instance | Checks |
|---|---|---|
| `commit_lanes` | two lanes, two messages on one or one on each, one root per report, several reports per outcome | type, soundness, tiling, end of the wait, refinement of `CommitLane`; reports for `[1,1]`, `[1,2]` and `[2,2]` overlap in flight, and those of one outcome land apart |
| `commit_recovery` | one lane, one message, `b` Byzantine, `o3` flaky, curses and switches, then stabilisation | soundness and the end of the wait with failures at any point of the cycle; before stabilisation the wait ends by rounds alone; the message is committed from any state the failures may leave, selected and reported again where its report was refused or lost |
| `prices_byzantine` | one key, two market prices with one below and one above them that only `b` reports, two price rounds | range of prices, in-flight guard, order of updates; detection is true whenever two honest oracles observe, whatever `b` adds |
| `prices_lagging` | two lagging honest oracles and a flaky one, heartbeat, three price rounds; only rounds are fair | the wait ends by rounds alone |
| `prices_split` | two keys, one price per report | violated: see section 7 |
| `execute_caches` | three commit reports, the middle one with a root of two messages, queries that carry two, one fault (reorganisation, failed read or restart) | what the caches may hold and hide, and that neither the limit nor a late log makes the query pass a report by |
| `execute_events` | one root, two attempts per message | violated: see section 7 |
| `execute_builder` | every list of two commit reports, of one source chain or of two, with three messages of all conditions, all settings | limits, no message twice, order of nonces, nothing left out |
| `execute_skipped` | the same with costs that do not fit together | violated: see section 7 |
| `execute_lane` | two messages of one root in one report, one of them ordered, `o4` Byzantine, late token data, failing executions, curses, lost and repeated reports | what is signed was committed; refinement of `ExecuteLane`. For the message without a nonce the state check of `execute.rs` alone prevents a second delivery |
| `execute_live` | two ordered messages of two roots, one message per observation and report, `o4` Byzantine, `o1` restarts and fails to read, then stabilisation | what is agreed is so; no second report without lapsed cache entries; every message is attempted |
| `token_data` | two calls at a time, two workers, two messages | a signal per queued message, no message locked out, calls and `Close` return, attested messages are fetched |

The bounds: `MaxSeqNum` messages per source and `MaxMessages` in all, `MaxSeqNr`
price rounds, small check attempts; `MaxTime`, `MaxFaults` and `MaxAttempts` in
`ExecuteCaches`. Two messages suffice for one range inside another, two adjacent
and two overlapping ones; two or three rounds with prices suffice for one landing
after another in either order; `MaxReportTransmissionCheckAttempts` of 2 gives both
a check that waits and one that gives up. No run cuts a range at
`MaxMerkleTreeSize`: that such a range is sound is part of `ReportsSound`, which
is proved; that its remainder is committed in a later cycle is not checked. In
`token_data` two calls suffice for a message queued twice, and two workers for one
that stops while the other fetches. In `execute_caches` four ticks are enough
for a report to be committed, executed, finalised and to leave the visibility
interval of three; one message has one event there (`MaxAttempts = 1`), the case
of several is the run `execute_events`. Deadlock is not checked in the execute
runs, where time, commits and the builder's input end, nor in `token_data`, where
calls after `Close` wait for ever. Beyond these bounds the safety
properties are proved (section 6).

## 5. Fairness

`FairSpec` of `CommitMerkleRoot` assumes, from the moment `stable` on: rounds keep
happening (OCR's pacemaker), each oracle's ticker keeps syncing both caches, a
report attested from then on is offered to `ShouldAcceptAttestedReport`, an
accepted one to `ShouldTransmitAcceptedReport` (OCR's transmission protocol), and
a transaction sent from then on lands, with or without effect. `stable` also means
that reads succeed and are fresh, honest oracles take part in every round, no lane
is cursed or disabled. Reports are identified by their content, and OCR offers
each attestation once; so `offered` and `landing` keep what fairness may speak of
apart from the rest. Nothing is assumed of what was attested, refused or sent
before `stable`: those reports may be lost (`Stabilize` drops any of the accepted
ones) or land at any later time, and a range that was lost with them is committed
only because it is selected again. Before `stable` the one assumption is that the
rounds that wait for a transmission go on, which `WaitingEnds` is about. Nothing is
assumed of Byzantine oracles, or about when `stable` comes; `stable` itself is not
fair: the liveness property is about behaviours in which it happens. Weak fairness
of a round never selects among Byzantine choices: once the honest caches are fresh,
which the fairness of the syncs ensures on its own, three equal honest
observations fix the outcome of every round whatever the fourth is.

`FairSpec` of `Execute` is the same kind of assumption: once `stable`, rounds keep
happening, in-flight entries expire (go-cache's clock), and every signed report
that is not closed yet is decided on, transmitted and lands. Reports are told apart by the messages
they carry, since only finitely many sets of them exist. `GetMessages` and
`Filter` are the only way out of the states they are enabled in, and
`ExpireInflight` is enabled as long as its entry is there, so their fairness is
stated as the state, or the entry, not lasting. Before `stable` anything may be
lost, and `Restart` and `Lose` are never fair.

`FairSpec` of `TokenDataBackground`: goroutines that can run do; a fetch ends, at
the latest with its timeout; the channel serves its senders in the order they
came (as Go's runtime does); a worker that finds `done` closed at its `select`
time and again takes it some time, since Go chooses among the ready cases at
random (strong fairness of `stop`; with weak fairness TLC finds a worker that
takes signals for ever); and every message is asked for infinitely often as long
as calls can be made (strong fairness of `Observe`: rounds go on and a message
without token data stays pending). The attestation service is not fair:
`EveryMessageFetched` is about messages it returns for good.

`WaitingEnds` (before `stable`) and `InflightPricesEnd` use only weak fairness of
rounds: the code
bounds these waits by a counter in the outcome.

## 6. Proofs

For all constants that satisfy the assumptions of the modules. For the DON these
are (`CommitAssumption`, `PricesAssumption`, `ExecuteAssumption`): finite
sets of oracles, at most `F` Byzantine, at most `FChain[c]` of them among the
readers of chain `c`, `FChain[c] > 0`. These are the fault bounds of
`docs/consensus.md`; nothing is assumed about how many oracles read a chain,
about caches or about delivery, nor about how the bounds of two chains compare.

*Consensus* (`OracleConsensusProofs`). `AgreedItemIsHonest`: a value with more
supporters than there are Byzantine observers has an honest one.
`SortedAtBetweenHonest` and `MedianBetweenHonest`: an element of the sorted
observations with at least `f` others on either side lies between two honest
observations; `sorted[f]` of `2f+1` and the median are such elements. The
argument counts `Below` and `UpTo` rather than sorting, so no induction over
sequences is needed.

*Merkle roots* (`CommitMerkleRootProofs`). Neither soundness of reports nor
tiling is inductive by itself. `IInv` adds: honest caches are never ahead of
the chains (`CachesBehind`); nothing is committed that was not sent
(`NextBehindSent`); a selected range starts no later than the OffRamp expects
and is short (`RangesSound`); the roots waited for start at the numbers recorded
in the outcome (`RootsSelected`). With the consensus theorems, an agreed next
sequence number is at most the OffRamp's, so a report can be stale, never
ahead; the equality check in `commit` then forces the intervals to tile. From
`IInv`: `TypeCorrect`, `ReportsSound`, `IntervalsTile`, the action property
`WaitEnds`, and `Refinement`. The proofs do not use `validateReport`: the checks
before transmission matter for cost and liveness, not for safety.

*Prices* (`CommitPricesProofs`). `PInv` adds to the type invariant and
`ReportedPricesQuoted`: what is cached from the feed was shown by it
(`CachesQuoted`), and nothing stored or landed is from a later round than the
OffRamp recorded (`StoredBehindLatest`). From it: `PricesTypeCorrect`,
`PricesInRange`, `NothingInflightAgreed` (a price needs an honest observation,
and honest oracles make none while prices are in flight),
`PricesNeverRollBack`, and `HonestDetection` (`DetectedPricesRecorded`): no more
than `f` observations are below `sorted[f]`, so of `f+1` honest ones one is not,
and none of them is above what the OffRamp recorded. It bounds no Byzantine
oracles and no lag, but needs `f+1` honest observations where the code asks for
`f+1` of anyone (section 7).

*Execute caches* (`ExecuteCachesProofs`), for any number of reports, any visibility,
lookback and snooze times and any query limit within `CachesAssumption`. `IInv` is
`TypeOK` with three parts: the cache holds final reports only and, together with
the window of the next query, reaches every visible one (`CacheInv`, which needs
that an entry outlasts its report's visibility and that the log poller keeps its
delay); marks are on roots executed with finality and outlast their visibility
(`MarkInv`, since execution follows the commit); a snooze ends within
`rootSnoozeTime` of a moment when all was executed (`SnoozeInv`, which also says
what the observation under way has read, because the chain moves between its
reads). From it `TypeCorrect`,
`CacheIsFinal`, `NoReportIsPassedBy`, `MarksAreFinal`, `MarksOutliveVisibility`,
`SnoozeIsBounded`. `SettledNotOffered` says when an executed root is offered again
(which `execute_events` shows to happen): only if the messages of the candidates
have more events than sequence numbers, since otherwise the query is complete
(`NothingCutOff`). It holds for any number of attempts. The action property
`RefreshMakesProgress` (`RefreshProgresses`) is a consequence of `IInv`: a report
that is neither cached nor fetched is in the window and behind the limit, so as
many as the limit are fetched (`LimitIsReached`, by the oldest report that is left
out), and if the timestamp stays they all lie within the lookback.

*Report builder* (`ExecuteReportProofs`, `ExecuteBuilderProofs`), for every list of
commit reports, all agreed nonces and all settings. The first module is about the
operators of `ExecuteReport`; the second applies them to the steps of
`ExecuteReportBuilder`. None of the properties is inductive, neither over the
commit reports offered nor over the passes of `Add`. `BuilderInv` consists of
`Basic` (types; what a report has `used` is the gas of its chain reports; the
limits; every placed message comes from an offered commit report and passed the
checks), `OrderedPlaces` (the placed nonces of a sender grow and are below the one
expected next), `Entered` (a sender has an expected nonce of its own only if its
next message was offered), `Distinct` (no message twice) and `ThroughWith` (why the
builder need not come back to an offered commit report: everything executable of it
was placed; or, with a single report, something was placed; or, with several,
it has ordered messages or the number of reports is reached). `StrongPass`
says the same between two passes of `Add` over one commit report, together with
what `markNewMessagesExecuted` has marked so far. That `Add` ends within one pass
per message and one more follows from each pass that goes on taking a message
that was not marked. From `BuilderInv`: `ReportsWithinLimits`,
`EachMessagePlacedOnce`, `PlacedNoncesGrow`, `SomethingIsSelected`,
`EverythingIsSelected`. The loops are recursive functions over intervals; an
induction over one is a first-order argument on the set of the numbers for which
the claim holds (`UpToN`, from the least number outside of it, `LeastNatural`).

*Execute rounds* (`ExecuteProofs`). `LaneImplemented`: `Execute` implements
`ExecuteLane`. The invariant, `ChainInv`, relates the history of deliveries to the
states of the messages: one delivery where the state is success, none elsewhere.
`ExecutedKeeps` is the step: a report and a manual execution attempt only what is
in state "none" or "failure". The theorem speaks of the destination: it needs no
agreement and no bound on Byzantine oracles, and so says nothing of what the
rounds put into reports.

`ExecuteTyped` goes through the report builder: by `FilterSelects`, which rests on
`ExecuteReportProofs`, a message of a report was agreed on in full and is under a
root of the outcome. `RoundsInv` adds to the type that the reports of the outcome,
which the next round marks as in flight, hold known messages only. That the rounds
agree only on what is so (`AgreedIsReal`) and that what is signed is committed
(`SignedIsCommitted`) are proved with the hypothesis `FDest <= FSource`, stated in
`RoundsAgreeOnFacts` and `SignedReportsExecutable`: the votes of destination readers
are counted against `f+1` of the source chain, and without it they are false
(section 7).
`ReportedAgainOnlyAfterLapse` (`ReportedAgainAfterLapse`) is an action property.
The votes it speaks of were cast a round before the report is built, so the
invariant `LapseInv` carries them over: while the outcome is in `GetMessages`,
every message agreed on in full is missing from the caches of enough honest
readers. It holds since, in that state, caches only lose entries; marking
happens in `GetCommitReports` only.

*Token data* (`TokenDataProofs`), for any number of calls, workers and messages.
`NoWakeupLost` (`SignalPerMessage`) needs that a call is on the channel once
(`SendersDistinct`), and `IdsAreQueued` (`NoneLockedOut`) is inductive with the type
invariant. The first also says that `dequeue` never finds the queue empty.

Only model-checked: the liveness properties `EveryMessageCommitted`, `WaitingEnds`,
`InflightPricesEnd`, `EveryMessageAttempted`, `ObserveReturns`, `CloseReturns` and
`EveryMessageFetched`, since fairness and ENABLED are outside the prover's reach.
Every invariant, action property and refinement that a passing run checks is also
a theorem, with three reservations: `SettledRootsNotOffered`, which the limit of
`ExecutedMessages` makes false in general, is proved in the form `SettledNotOffered`
gives it; `AgreedIsReal` and `SignedIsCommitted` need `FDest <= FSource`.

## 7. Where the code's comments say more than the code does

Each of the first three is a run that TLC refutes; none of them endangers the
proved properties.

* `prices_split`: "at this moment we know that prices are updated"
  (`commit/plugin.go:498`). With `MaxPricesPerReport` one of several reports is
  enough.
* `execute_events`: "When messages are executed with finality (on destChain),
  they are permanently marked as executed" (`execute/observation.go:182`). The
  query for executions is limited to one event per message, so a message
  attempted twice pushes another one's event out, and the root is offered
  again in every round.
* `execute_skipped`: "we cannot have "skipped" nonces since these messages will be
  skipped onchain" (`execute/report/report.go:376`). `CheckNonces` counts a
  message that the limits then leave out, and the final check looks at one
  chain report only. `execute_live` shows that the messages are attempted later
  all the same.

Without a run of their own, but among the behaviours of the models:

* `commit/merkleroot/outcome.go:175` takes any progress of the OffRamp as the
  transmission of the last report; an older report that lands late counts too.
  `WaitEndsOnProgress` states what the code does guarantee.
* `getMainOutcomeAndCacheInvalidation` is content with `f+1` observations of the
  sequence number (`commit/plugin.go:575-581`), whoever they are from. If a Byzantine
  oracle is among exactly `f+1`, the largest decides and may be its own;
  `DetectedPricesRecorded` says that `f+1` honest ones are enough against any number
  of others. `computeNoncesConsensus` (`execute/plugin_functions.go:855`) is of the
  same form, and `Execute` has its consequences.
* `docs/consensus.md:25-26`: "the role level F which determines the observation
  threshold for each role", a role being the chain an oracle reads.
  `computeCommitObservationsConsensus` counts what readers of the *destination*
  observed against `f+1` of the source chain (`execute/plugin_functions.go:544-548`).
  Where the destination's bound is above the source's, its Byzantine readers reach
  `f+1` votes alone and a root that was never committed can be agreed; the OffRamp
  then refuses the report. The runs have `FSource = FDest`.
* `execute/observation.go:279` says the background observer "caches data and
  returns instantly". `enqueue` sends on a channel without a buffer
  (`observer_background.go:276`), so a call waits while every worker is fetching,
  and for ever after `Close`. `ObserveReturns` states what is guaranteed.
* "If data are already in the queue for processing, it is a nop"
  (`observer_background.go:70`): two overlapping calls can both find a message
  absent and queue it twice. It is then fetched twice, without other harm.
* `reprocessInterval`, "how long to wait before reprocessing a message"
  (`observer_background.go:27`), is never used: a message whose fetch failed is
  dropped until a later call asks for it.
* "If there are no messages, remove the commit report" (`execute/outcome.go:157`):
  the report is appended right after, so it stays in the outcome; `Execute` has it
  there, and the builder finds nothing to do for it.
* After `invalidateCaches` the feed cache may be refilled before the update
  cache, and a price that just landed is reported once more.

## 8. What is not modelled

* Reorganisations outside `ExecuteCaches`: sequence numbers of chains, commits and
  attempts only grow.
* Reads inside `validateReport` are of the current state; the safety proofs do
  not depend on that check. Its config digest check and decoding errors are
  subsumed by an oracle that does not transmit.
* Liveness of a lane with more messages than fit one merkle tree (section 4).
* Liveness of prices: `seqNr` is bounded, so only the end of a wait is stated.
* A global curse in `CommitPrices`: it stops transmission, which the module
  allows at any time.
* The computation of a gas price from its components, fee units and decimals,
  the deviation threshold.
* Changes of configuration (`Readers`, `FChain`, `F`) while the plugin runs.
* `maxMerkleTreeSize` above the 64 messages that the Solana OffRamp accepts per
  root: `commit_recovery` assumes it is not configured so.
* In `Execute`: several source chains, an oracle that can read only some of the
  messages of a root, reports that exceed the observation size in bytes
  (`MaxMsgsPerObs` stands for both limits), the configuration digest.
* In `ExecuteReport`: what is logged or returned as an error and ends the round
  (an encoder or hasher that fails).
* `invalidateCaches` blocking on its channel, and the life cycle of the
  processors (start, close).
* In `TokenDataBackground`: calls for several messages at once (the plugin makes
  none), and the internal error for cached data that is not ready (`set` is only
  called with data that is).
* `commit/plugin_old.go`, the attestation clients, discovery, pollers and
  the other on-chain programs: see the plan and the component list in
  `PROJECT.json`.
