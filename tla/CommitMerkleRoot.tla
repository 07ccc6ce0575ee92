--------------------------- MODULE CommitMerkleRoot ---------------------------
(***************************************************************************)
(* The merkle root side of the commit plugin: the oracles' asynchronous    *)
(* observers, the OCR rounds that drive the processor's state machine      *)
(* (commit/merkleroot), the reports built from its outcomes, the checks an *)
(* oracle makes before it transmits one (commit/report.go), and the commit *)
(* instruction of the OffRamp that a transmitted report runs               *)
(* (chains/solana ... ccip-offramp commit.rs).                             *)
(*                                                                         *)
(* One OCR round is one action: the leader collects the observations of a  *)
(* quorum and every oracle computes the same outcome from them. Honest     *)
(* observations come from caches that were filled earlier, so nothing is   *)
(* lost by taking the round in one step: the chains move between a read    *)
(* and the round that uses it. Byzantine oracles observe anything that     *)
(* ValidateObservation lets through, and transmit without checks.          *)
(*                                                                         *)
(* A merkle root is abstracted to whether it is the root computed over the *)
(* messages of its range ("computed") or something else ("forged").        *)
(***************************************************************************)
EXTENDS OracleConsensus

CONSTANTS
    Sources,            \* source chain selectors; reports are ordered by them
    Dest,               \* the destination chain selector
    Oracles,            \* the role DON
    Byzantine,          \* the oracles that do not follow the protocol
    Readers,            \* chain -> the oracles configured to read it
    F,                  \* the role DON's fault bound
    FChain,             \* chain -> fault bound among its readers
    Flaky,              \* honest oracles whose reads may fail before stable
    Cursable,           \* sources RMN may curse (environment bound)
    Switchable,         \* sources the OffRamp owner may disable (environment bound)
    Settles,            \* whether the network settles at some point
    MaxSeqNum,          \* messages sent per source (model bound)
    MaxMessages,        \* messages sent in all (model bound)
    MaxMerkleTreeSize,  \* offchain config
    MaxInterval,        \* largest interval the OffRamp accepts (64 on Solana)
    MaxReportTransmissionCheckAttempts,
    MaxMerkleRootsPerReport,
    MultipleReportsEnabled

Chains == Sources \cup {Dest}
Honest == Oracles \ Byzantine

\* The fault assumptions of docs/consensus.md, the config validation of
\* pluginconfig/commit.go, and the shape of the parameters.
ASSUME CommitAssumption ==
    /\ Sources \subseteq Nat /\ IsFiniteSet(Sources) /\ Dest \notin Sources
    /\ IsFiniteSet(Oracles) /\ Byzantine \subseteq Oracles
    /\ Readers \in [Chains -> SUBSET Oracles]
    /\ F \in Nat /\ Cardinality(Byzantine) <= F
    /\ FChain \in [Chains -> Nat \ {0}]
    /\ \A k \in Chains : Cardinality(Readers[k] \cap Byzantine) <= FChain[k]
    /\ Flaky \subseteq Honest /\ Cursable \subseteq Sources /\ Switchable \subseteq Sources
    /\ MaxSeqNum \in Nat /\ MaxMessages \in Nat
    /\ MaxMerkleTreeSize \in Nat \ {0} /\ MaxInterval \in Nat \ {0}
    /\ MaxReportTransmissionCheckAttempts \in Nat \ {0}
    /\ MaxMerkleRootsPerReport \in Nat
    /\ MultipleReportsEnabled \in BOOLEAN /\ Settles \in BOOLEAN
    /\ MaxMerkleRootsPerReport # 0 => MultipleReportsEnabled

VARIABLES
    sent,                \* OnRamp: source -> latest message sequence number
    next,                \* OffRamp: source -> min_seq_nr, the next expected
    commits,             \* OffRamp: the committed merkle roots
    cursed,              \* RMN: the cursed sources (all of them: a global curse)
    enabled,             \* OffRamp: the enabled sources
    offRampNextSeqNums,  \* asyncObserver cache: oracle -> source -> next
    onRampLatestSeqNums, \* asyncObserver cache: oracle -> source -> sent
    outcome,             \* the previous merkle root outcome all oracles share
    attested,            \* reports built from outcomes and signed so far
    offered,             \* those OCR offers since stable, yet to be decided on
    accepted,            \* reports accepted and yet to be transmitted
    submitted,           \* reports somebody sent a transaction for so far
    landing,             \* those of a transaction sent since stable, yet to land
    stable               \* from here on reads succeed, are fresh, and every
                         \* honest oracle takes part in every round

chainVars == <<sent, next, commits, cursed, enabled>>
cacheVars == <<offRampNextSeqNums, onRampLatestSeqNums>>
reportVars == <<attested, offered, accepted, submitted, landing>>
vars == <<chainVars, cacheVars, outcome, reportVars, stable>>

-----------------------------------------------------------------------------
SeqNums == 1..(MaxSeqNum + 1)
PartialFunctions(S, T) == UNION {[D -> T] : D \in SUBSET S}
SeqNumMaps == PartialFunctions(Sources, SeqNums)
NoSeqNums == [c \in {} |-> 0]

Ranges == [start : SeqNums, end : SeqNums]
Roots == [chain : Sources, start : SeqNums, end : SeqNums,
          root : {"computed", "forged"}]

OutcomeTypes == {"None", "ReportIntervalsSelected", "ReportGenerated", "ReportEmpty",
                 "ReportInFlight", "ReportTransmitted", "ReportTransmissionFailed"}
Outcomes == [type : OutcomeTypes,
             ranges : PartialFunctions(Sources, Ranges),
             roots : SUBSET Roots,
             offNext : SeqNumMaps,
             attempts : Nat]

\* Outcome{OutcomeType: t}: every other field has its zero value.
OutcomeOf(t) == [type |-> t, ranges |-> NoSeqNums, roots |-> {},
                 offNext |-> NoSeqNums, attempts |-> 0]

nextState(o) ==
    CASE o.type = "ReportIntervalsSelected" -> "buildingReport"
      [] o.type \in {"ReportGenerated", "ReportInFlight"} -> "waitingForReportTransmission"
      [] OTHER -> "selectingRangesForReport"

TypeOK ==
    /\ sent \in [Sources -> 0..MaxSeqNum]
    /\ next \in [Sources -> SeqNums]
    /\ commits \subseteq Roots
    /\ cursed \subseteq Sources /\ enabled \subseteq Sources
    /\ offRampNextSeqNums \in [Honest -> SeqNumMaps]
    /\ onRampLatestSeqNums \in [Honest -> PartialFunctions(Sources, 0..MaxSeqNum)]
    /\ outcome \in Outcomes
    /\ attested \subseteq SUBSET Roots
    /\ offered \subseteq attested /\ accepted \subseteq attested
    /\ landing \subseteq submitted /\ submitted \subseteq attested
    /\ stable \in BOOLEAN

Init ==
    /\ sent = [c \in Sources |-> 0]
    /\ next = [c \in Sources |-> 1]
    /\ commits = {} /\ cursed = {} /\ enabled = Sources
    /\ offRampNextSeqNums = [o \in Honest |-> NoSeqNums]
    /\ onRampLatestSeqNums = [o \in Honest |-> NoSeqNums]
    /\ outcome = OutcomeOf("None")
    /\ attested = {} /\ offered = {} /\ accepted = {} /\ submitted = {} /\ landing = {}
    /\ stable = FALSE

-----------------------------------------------------------------------------
(* The environment: users send messages, RMN curses, the owner of the      *)
(* OffRamp switches lanes, and at some point the network settles.          *)

CCIPSend(c) ==
    /\ sent[c] < MaxSeqNum
    /\ Cardinality({m \in Sources \X (1..MaxSeqNum) : m[2] <= sent[m[1]]}) < MaxMessages
    /\ sent' = [sent EXCEPT ![c] = @ + 1]
    /\ UNCHANGED <<next, commits, cursed, enabled, cacheVars, outcome, reportVars, stable>>

Curse(c) ==
    /\ ~stable /\ c \in Cursable
    /\ cursed' = IF c \in cursed THEN cursed \ {c} ELSE cursed \cup {c}
    /\ UNCHANGED <<sent, next, commits, enabled, cacheVars, outcome, reportVars, stable>>

SwitchLane(c) ==
    /\ ~stable /\ c \in Switchable
    /\ enabled' = IF c \in enabled THEN enabled \ {c} ELSE enabled \cup {c}
    /\ UNCHANGED <<sent, next, commits, cursed, cacheVars, outcome, reportVars, stable>>

\* What was accepted before may be lost by then, what was attested or sent is.
Stabilize ==
    /\ Settles /\ ~stable /\ cursed = {} /\ enabled = Sources
    /\ stable' = TRUE
    /\ accepted' \in SUBSET accepted
    /\ UNCHANGED <<chainVars, cacheVars, outcome, attested, offered, submitted, landing>>

-----------------------------------------------------------------------------
(* asyncObserver.sync: two goroutines, each reading its chain and storing  *)
(* the result under the lock. What is stored is what some earlier state of *)
(* the chain held: the read precedes the store, and RPC nodes lag.         *)

\* The honest oracles whose reads may fail now.
MayFail == IF stable THEN {} ELSE Flaky

\* The observed source chains: on the destination, neither cursed nor disabled.
ObservableOnDest(o) == IF o \in Readers[Dest] THEN enabled \ cursed ELSE {}
ObservableOnRamps(o) == {c \in enabled : o \in Readers[c]}

SyncOffRampNextSeqNums(o) ==
    /\ UNCHANGED <<chainVars, onRampLatestSeqNums, outcome, reportVars, stable>>
    /\ \/ \E read \in [ObservableOnDest(o) -> SeqNums] :
            /\ \A c \in DOMAIN read : read[c] <= next[c] /\ (stable => read[c] = next[c])
            /\ offRampNextSeqNums' = [offRampNextSeqNums EXCEPT ![o] = read]
       \/ /\ o \in MayFail
          /\ offRampNextSeqNums' = [offRampNextSeqNums EXCEPT ![o] = NoSeqNums]

\* A failing source chain is left out, the others are kept.
SyncOnRampLatestSeqNums(o) ==
    /\ UNCHANGED <<chainVars, offRampNextSeqNums, outcome, reportVars, stable>>
    /\ \E failed \in SUBSET (IF o \in MayFail THEN Sources ELSE {}) :
         \E read \in [ObservableOnRamps(o) \ failed -> 0..MaxSeqNum] :
            /\ \A c \in DOMAIN read : read[c] <= sent[c] /\ (stable => read[c] = sent[c])
            /\ onRampLatestSeqNums' = [onRampLatestSeqNums EXCEPT ![o] = read]

-----------------------------------------------------------------------------
(* The observations of a round and the values agreed from them.            *)

Quorums == {Q \in SUBSET Oracles : /\ Cardinality(Q) >= TwoFPlus1(F)
                                   /\ stable => Honest \subseteq Q}

\* What the oracles of Q contribute: the honest ones their own view.
Contributions(Q, honestView, byzantineView) ==
    [o \in Q |-> IF o \in Honest THEN honestView[o] ELSE byzantineView[o]]

\* Consensus on fChain: 2F+1 equal observations. At most F Byzantine votes
\* cannot agree a wrong value, so a vote is only for or against the right one.
FChainConsensus(votes) ==
    {k \in Chains : Cardinality({o \in DOMAIN votes : k \in votes[o]}) >= TwoFPlus1(F)}

\* Faulty variant: the largest observation instead of sorted[f].
OffRampNextConsensus_Largest(view) ==
    LET obs(c) == Observed(view, Readers[Dest], c)
        enough == {c \in Sources : Cardinality(DOMAIN obs(c)) >= TwoFPlus1(FChain[Dest])}
    IN  [c \in enough |-> SortedAt(obs(c), Cardinality(DOMAIN obs(c)) - 1)]

OffRampNextConsensus(view) ==
    LET obs(c) == Observed(view, Readers[Dest], c)
        enough == {c \in Sources : Cardinality(DOMAIN obs(c)) >= TwoFPlus1(FChain[Dest])}
    IN  [c \in enough |-> SortedAt(obs(c), FChain[Dest])]

OnRampMaxConsensus(view, fChains) ==
    LET obs(c) == Observed(view, Readers[c], c)
        enough == {c \in Sources \cap fChains : HasOrderedConsensus(obs(c), FChain[c])}
    IN  [c \in enough |-> SortedAt(obs(c), FChain[c])]

MerkleRootConsensus(view, fChains) ==
    LET obs(c) == Observed(view, Readers[c], c)
        agreed == {c \in Sources \cap fChains : HasConsensus(obs(c), TwoFPlus1(FChain[c]))}
    IN  {ConsensusItem(obs(c), TwoFPlus1(FChain[c])) : c \in agreed}

(* What a round with the observers Q can agree on, over everything the     *)
(* Byzantine oracles among them may observe and every read that may fail.  *)

\* An honest oracle observes all of fChain, or nothing when GetFChain fails.
AgreedFChains(Q) ==
    {FChainConsensus(Contributions(Q, [o \in Honest |-> IF o \in down THEN {} ELSE Chains], byz)) :
        down \in SUBSET MayFail, byz \in [Q \cap Byzantine -> SUBSET Chains]}

AgreedOffRampNext(Q) ==
    {OffRampNextConsensus(Contributions(Q, offRampNextSeqNums, byz)) :
        byz \in [Q \cap Byzantine -> SeqNumMaps]}

AgreedOnRampMax(Q, fChains) ==
    {OnRampMaxConsensus(Contributions(Q, onRampLatestSeqNums, byz), fChains) :
        byz \in [Q \cap Byzantine -> PartialFunctions(Sources, 0..(MaxSeqNum + 1))]}

\* ObserveMerkleRoots: a root for every selected range whose messages the
\* oracle could read completely.
HonestRoots(failed) ==
    [o \in Honest |->
        [c \in {d \in DOMAIN outcome.ranges :
                    /\ o \in Readers[d] /\ outcome.ranges[d].end <= sent[d]
                    /\ o \in MayFail => d \notin failed[o]} |->
            [chain |-> c, start |-> outcome.ranges[c].start,
             end |-> outcome.ranges[c].end, root |-> "computed"]]]

\* What ValidateObservation accepts from a Byzantine oracle.
ByzantineRoots ==
    {view \in PartialFunctions(Sources, Roots) :
        \A c \in DOMAIN view : view[c].chain = c /\ view[c].start <= view[c].end}

AgreedRoots(Q, fChains) ==
    {MerkleRootConsensus(Contributions(Q, HonestRoots(failed), byz), fChains) :
        failed \in [MayFail -> SUBSET DOMAIN outcome.ranges],
        byz \in [Q \cap Byzantine -> ByzantineRoots]}

-----------------------------------------------------------------------------
(* The outcomes (commit/merkleroot/outcome.go).                            *)

\* SeqNumRange.Limit
Limit(start, end) ==
    IF end - start + 1 > MaxMerkleTreeSize THEN start + MaxMerkleTreeSize - 1 ELSE end

\* Faulty variant: ranges for lanes without new messages.
reportRangesOutcome_NoCheck(onMax, offNext) ==
    LET new == DOMAIN offNext \cap DOMAIN onMax
    IN  IF new = {}
        THEN OutcomeOf("ReportEmpty")
        ELSE [OutcomeOf("ReportIntervalsSelected") EXCEPT
                !.ranges = [c \in new |-> [start |-> offNext[c],
                                           end |-> Limit(offNext[c], onMax[c])]],
                !.offNext = offNext]

reportRangesOutcome(onMax, offNext) ==
    LET new == {c \in DOMAIN offNext \cap DOMAIN onMax : offNext[c] <= onMax[c]}
    IN  IF new = {}
        THEN OutcomeOf("ReportEmpty")
        ELSE [OutcomeOf("ReportIntervalsSelected") EXCEPT
                !.ranges = [c \in new |-> [start |-> offNext[c],
                                           end |-> Limit(offNext[c], onMax[c])]],
                !.offNext = offNext]

buildMerkleRootsOutcome(roots, prev) ==
    [OutcomeOf(IF roots = {} THEN "ReportEmpty" ELSE "ReportGenerated") EXCEPT
        !.roots = roots, !.offNext = prev.offNext]

\* Faulty variants: an unchanged number counts as an update, and the count of
\* attempts starts over instead of ending the wait.
checkForReportTransmission_Unchanged(prev, offNext) ==
    LET updated == {c \in DOMAIN prev.offNext \cap DOMAIN offNext :
                        prev.offNext[c] <= offNext[c]}
        pending == {r.chain : r \in prev.roots} \ updated
    IN  IF (~MultipleReportsEnabled /\ updated # {}) \/ pending = {}
        THEN OutcomeOf("ReportTransmitted")
        ELSE [prev EXCEPT !.type = "ReportInFlight", !.ranges = NoSeqNums, !.attempts = @ + 1]
checkForReportTransmission_StartOver(prev, offNext) ==
    LET updated == {c \in DOMAIN prev.offNext \cap DOMAIN offNext :
                        prev.offNext[c] < offNext[c]}
        pending == {r.chain : r \in prev.roots} \ updated
    IN  IF (~MultipleReportsEnabled /\ updated # {}) \/ pending = {}
        THEN OutcomeOf("ReportTransmitted")
        ELSE [prev EXCEPT !.type = "ReportInFlight", !.ranges = NoSeqNums,
                          !.attempts = (@ + 1) % MaxReportTransmissionCheckAttempts]

checkForReportTransmission(prev, offNext) ==
    LET updated == {c \in DOMAIN prev.offNext \cap DOMAIN offNext :
                        prev.offNext[c] < offNext[c]}
        pending == {r.chain : r \in prev.roots} \ updated
    IN  IF (~MultipleReportsEnabled /\ updated # {}) \/ pending = {}
        THEN OutcomeOf("ReportTransmitted")
        ELSE IF prev.attempts + 1 >= MaxReportTransmissionCheckAttempts
        THEN OutcomeOf("ReportTransmissionFailed")
        ELSE [prev EXCEPT !.type = "ReportInFlight", !.ranges = NoSeqNums, !.attempts = @ + 1]

-----------------------------------------------------------------------------
(* The OCR rounds, one action for each state of the processor.             *)

SelectRanges ==
    /\ nextState(outcome) = "selectingRangesForReport"
    /\ UNCHANGED <<chainVars, cacheVars, reportVars, stable>>
    /\ \E Q \in Quorums : \E fChains \in AgreedFChains(Q) :
          \/ /\ Dest \notin fChains
             /\ outcome' = OutcomeOf("None")
          \/ /\ Dest \in fChains
             /\ \E onMax \in AgreedOnRampMax(Q, fChains), offNext \in AgreedOffRampNext(Q) :
                    outcome' = reportRangesOutcome(onMax, offNext)

\* The reports of an outcome: all roots in one, or consecutive groups of
\* MaxMerkleRootsPerReport in the order of the chain selectors.
Reports(roots) ==
    LET rank(r) == Cardinality({q \in roots : q.chain < r.chain})
        group(r) == {q \in roots : rank(q) \div MaxMerkleRootsPerReport
                                      = rank(r) \div MaxMerkleRootsPerReport}
    IN  IF MaxMerkleRootsPerReport = 0 THEN {roots} ELSE {group(r) : r \in roots}

BuildReport ==
    /\ nextState(outcome) = "buildingReport"
    /\ UNCHANGED <<chainVars, cacheVars, accepted, submitted, landing, stable>>
    /\ \E Q \in Quorums : \E fChains \in AgreedFChains(Q) :
          \/ /\ Dest \notin fChains
             /\ outcome' = OutcomeOf("None")
          \/ /\ Dest \in fChains
             /\ \E roots \in AgreedRoots(Q, fChains) :
                    outcome' = buildMerkleRootsOutcome(roots, outcome)
    /\ LET built == IF outcome'.type = "ReportGenerated" THEN Reports(outcome'.roots) ELSE {}
       IN  /\ attested' = attested \cup built
           /\ offered' = IF stable THEN offered \cup built ELSE offered

CheckTransmission ==
    /\ nextState(outcome) = "waitingForReportTransmission"
    /\ UNCHANGED <<chainVars, cacheVars, reportVars, stable>>
    /\ \E Q \in Quorums : \E fChains \in AgreedFChains(Q) :
          \/ /\ Dest \notin fChains
             /\ outcome' = OutcomeOf("None")
          \/ /\ Dest \in fChains
             /\ \E offNext \in AgreedOffRampNext(Q) :
                    outcome' = checkForReportTransmission(outcome, offNext)

-----------------------------------------------------------------------------
(* Attested reports: validation by the oracles that may transmit, and the  *)
(* OffRamp. OCR offers a report once for every attestation of it. What     *)
(* fails validation is dropped for good; what is sent before the network   *)
(* is stable lands at any later time, more than once or never.             *)

validateReport(report) ==
    \A r \in report : /\ r.chain \notin cursed
                      /\ r.chain \in enabled
                      /\ r.start = next[r.chain]

ShouldAcceptAttestedReport(report) ==
    /\ report \in offered \cup (attested \ (accepted \cup submitted))
    /\ Honest \cap Readers[Dest] # {}
    /\ offered' = offered \ {report}
    /\ accepted' = IF validateReport(report) THEN accepted \cup {report} ELSE accepted
    /\ UNCHANGED <<chainVars, cacheVars, outcome, attested, submitted, landing, stable>>

\* The transmitter has sent a transaction for the report.
Sent(report) ==
    /\ submitted' = submitted \cup {report}
    /\ landing' = IF stable THEN landing \cup {report} ELSE landing

ShouldTransmitAcceptedReport(report) ==
    /\ report \in accepted
    /\ accepted' = accepted \ {report}
    /\ IF validateReport(report) THEN Sent(report) ELSE UNCHANGED <<submitted, landing>>
    /\ UNCHANGED <<chainVars, cacheVars, outcome, attested, offered, stable>>

\* A Byzantine transmitter makes no checks.
ByzantineTransmit(report) ==
    /\ report \in attested \ submitted /\ Byzantine \cap Readers[Dest] # {}
    /\ submitted' = submitted \cup {report}
    /\ UNCHANGED <<chainVars, cacheVars, outcome, attested, offered, accepted, landing, stable>>

\* Faulty variant: the interval may start anywhere.
CanCommit_AnyStart(r) ==
    /\ r.chain \notin cursed /\ r.chain \in enabled
    /\ r.start <= r.end /\ r.end - r.start < MaxInterval
    /\ \A q \in commits : q # r

CanCommit(r) ==
    /\ r.chain \notin cursed /\ r.chain \in enabled
    /\ r.start <= r.end /\ r.end - r.start < MaxInterval
    /\ next[r.chain] = r.start
    /\ \A q \in commits : q # r

\* Faulty variant: the next expected number is not advanced.
Commit_NoAdvance(report) ==
    /\ report \in submitted
    /\ \A r \in report : CanCommit(r)
    /\ commits' = commits \cup report /\ landing' = landing \ {report}
    /\ UNCHANGED <<sent, next, cursed, enabled, cacheVars, outcome,
                   attested, offered, accepted, submitted, stable>>

\* The whole report commits or reverts. A report for commit.rs has one root; an
\* OffRamp that takes several applies all of them or none.
Commit(report) ==
    /\ report \in submitted
    /\ \A r \in report : CanCommit(r)
    /\ next' = [c \in Sources |->
                    IF \E r \in report : r.chain = c
                    THEN (CHOOSE r \in report : r.chain = c).end + 1 ELSE next[c]]
    /\ commits' = commits \cup report /\ landing' = landing \ {report}
    /\ UNCHANGED <<sent, cursed, enabled, cacheVars, outcome,
                   attested, offered, accepted, submitted, stable>>

\* A transaction that reverts changes nothing else.
Revert(report) ==
    /\ report \in landing
    /\ \E r \in report : ~CanCommit(r)
    /\ landing' = landing \ {report}
    /\ UNCHANGED <<chainVars, cacheVars, outcome, attested, offered, accepted, submitted, stable>>

-----------------------------------------------------------------------------
Round == SelectRanges \/ BuildReport \/ CheckTransmission

Next ==
    \/ \E c \in Sources : CCIPSend(c) \/ Curse(c) \/ SwitchLane(c)
    \/ Stabilize
    \/ \E o \in Honest : SyncOffRampNextSeqNums(o) \/ SyncOnRampLatestSeqNums(o)
    \/ Round
    \/ \E report \in attested :
          \/ ShouldAcceptAttestedReport(report)
          \/ ShouldTransmitAcceptedReport(report)
          \/ ByzantineTransmit(report)
          \/ Commit(report)
          \/ Revert(report)

Spec == Init /\ [][Next]_vars

\* The OCR rounds keep going, those that wait for a transmission also before the
\* network is stable (what the others do before matters to no property). Once it
\* is, the oracles' tickers keep going, OCR offers what is attested from then on and
\* schedules what is accepted, and a transaction sent from then on lands. Nothing is
\* assumed for what was attested, refused, lost or sent before, nor for anything a
\* Byzantine oracle does.
Fairness ==
    /\ WF_vars(CheckTransmission) /\ WF_vars(stable /\ (SelectRanges \/ BuildReport))
    /\ \A o \in Honest :
          WF_vars(stable /\ (SyncOffRampNextSeqNums(o) \/ SyncOnRampLatestSeqNums(o)))
    /\ WF_vars(stable /\ \E report \in offered : ShouldAcceptAttestedReport(report))
    /\ WF_vars(stable /\ \E report \in accepted : ShouldTransmitAcceptedReport(report))
    /\ WF_vars(stable /\ \E report \in landing : Commit(report) \/ Revert(report))

FairSpec == Spec /\ Fairness

-----------------------------------------------------------------------------
(* Safety.                                                                 *)

\* A root over messages that exist, with the root computed from them, in an
\* interval that starts no later than the OffRamp expects: committing it can
\* neither skip a message nor commit one that was never sent.
SoundRoot(r) ==
    /\ r.root = "computed"
    /\ r.start <= r.end /\ r.end <= sent[r.chain]
    /\ r.start <= next[r.chain]
    /\ r.end - r.start < MaxMerkleTreeSize

\* Whatever up to F Byzantine oracles observe, and however stale the honest
\* caches are when a round uses them (asyncObserver), a report is only built
\* from sound roots, at most one per source (commit/merkleroot/outcome.go,
\* commit/internal/builder/report.go).
AttestedReportsSound ==
    \A report \in attested :
        /\ \A r \in report : SoundRoot(r)
        /\ \A q, r \in report : q.chain = r.chain => q = r

\* The committed intervals of a lane cover 1..next-1, each sequence number
\* exactly once, with the roots of the messages sent: delayed, duplicated and
\* overlapping reports in flight leave neither a gap nor an overlap
\* (commit.rs, isStaleReport in commit/report.go).
CommittedIntervalsTile ==
    \A c \in Sources :
        LET lane == {r \in commits : r.chain = c}
        IN  /\ \A r \in lane : /\ r.root = "computed" /\ r.start <= r.end
                               /\ r.end < next[c] /\ r.end <= sent[c]
            /\ \A n \in 1..(next[c] - 1) : \E r \in lane : n \in r.start..r.end
            /\ \A q, r \in lane : q # r => q.end < r.start \/ r.end < q.start

\* The plugin leaves the waiting state with ReportTransmitted only when the
\* OffRamp moved past the start of every root of the report; in single report
\* mode, of some source listed when the report was selected. No Byzantine
\* oracle and no stale cache can end the wait early (checkForReportTransmission
\* in commit/merkleroot/outcome.go).
WaitEndsOnProgress ==
    [][ outcome'.type = "ReportTransmitted" /\ outcome'.type # outcome.type
        => IF MultipleReportsEnabled
           THEN \A r \in outcome.roots : r.start < next[r.chain]
           ELSE \E c \in DOMAIN outcome.offNext : outcome.offNext[c] < next[c] ]_vars

\* Liveness: once the network is stable every message that was sent is
\* committed, also when every report from before was refused or lost, so that its
\* range has to be selected again, and whatever the Byzantine oracles observe.
EveryMessageCommitted ==
    \A c \in Sources : \A n \in 1..MaxSeqNum :
        (stable /\ sent[c] >= n) ~> (next[c] > n)

\* The wait for a transmission always ends, also when no report is ever
\* transmitted and no oracle ever refreshes its cache: it takes nothing but
\* rounds (MaxReportTransmissionCheckAttempts in checkForReportTransmission).
WaitingEnds ==
    nextState(outcome) = "waitingForReportTransmission"
        ~> nextState(outcome) = "selectingRangesForReport"

-----------------------------------------------------------------------------
(* Refinement.                                                             *)
Lane == INSTANCE CommitLane

\* The rounds, the reports in flight and their transmission implement the
\* append-only log of CommitLane: seen from the chains, all of this is one
\* atomic step that extends lanes by consecutive intervals of sent messages.
ImplementsCommitLane == Lane!LaneSpec
=============================================================================
