------------------------------ MODULE Execute ------------------------------
(***************************************************************************)
(* The execute plugin for one source chain: the OCR rounds of its state    *)
(* machine (execute/plugin.go, observation.go, outcome.go), the agreement  *)
(* on commit reports, messages and nonces (plugin_functions.go), the       *)
(* in-flight message cache, the checks before a report is transmitted, and *)
(* the OffRamp that executes it.                                           *)
(*                                                                         *)
(* As in CommitMerkleRoot one OCR round is one action. Until the network   *)
(* settles, each of an honest oracle's reads of the destination may lag: it *)
(* returns what was so at some earlier moment, or fails. Commitments,      *)
(* attempts and nonces only grow, so a lagging read is a smaller one. A    *)
(* Byzantine oracle observes anything ValidateObservation lets through and *)
(* transmits any signed report without checks.                             *)
(*                                                                         *)
(* Which messages of the agreed commit reports go into a report is the     *)
(* report builder's choice: selectReports of ExecuteReport.                *)
(***************************************************************************)
EXTENDS OracleConsensus, ExecuteReport

CONSTANTS
    Oracles,            \* the role DON
    Byzantine,          \* the oracles that do not follow the protocol
    F,                  \* the role DON's fault bound
    SourceReaders, DestReaders,     \* the oracles that read each chain
    FSource, FDest,     \* the fault bounds among them
    Roots,              \* the merkle roots in the order they are committed:
                        \* a sequence of sets of message sequence numbers
    Sender, Nonce, Cost,            \* of each message; nonce 0: any order
    NeedsTokenData,     \* messages whose attestations may come late
    Fallible,           \* messages whose execution may fail
    Flaky,              \* honest oracles that may restart and fail to read
    Cursable, Settles,  \* whether RMN may curse, the network settles
    MaxMsgsPerObs,      \* lenientMaxMsgsPerObs
    BuilderSettings     \* the report builder's settings, see ExecuteReport

Honest == Oracles \ Byzantine
Messages == UNION {Roots[r] : r \in DOMAIN Roots}
RootOf(m) == CHOOSE r \in DOMAIN Roots : m \in Roots[r]

\* The fault assumptions of docs/consensus.md and the shape of the parameters.
ASSUME ExecuteAssumption ==
    /\ IsFiniteSet(Oracles) /\ Byzantine \subseteq Oracles
    /\ SourceReaders \subseteq Oracles /\ DestReaders \subseteq Oracles
    /\ F \in Nat /\ FSource \in Nat \ {0} /\ FDest \in Nat \ {0}
    /\ Cardinality(Byzantine) <= F
    /\ Cardinality(Byzantine \cap SourceReaders) <= FSource
    /\ Cardinality(Byzantine \cap DestReaders) <= FDest
    /\ Roots \in Seq(SUBSET (Nat \ {0})) /\ IsFiniteSet(Messages)
    /\ \A q, r \in DOMAIN Roots : q # r => Roots[q] \cap Roots[r] = {}
    /\ Nonce \in [Messages -> Nat] /\ Cost \in [Messages -> Nat]
    /\ \A m \in Messages : Nonce[m] > 1 =>
          \E p \in Messages : Sender[p] = Sender[m] /\ Nonce[p] = Nonce[m] - 1
    /\ \A m, p \in Messages : m # p /\ Nonce[m] # 0 /\ Sender[m] = Sender[p] =>
          Nonce[m] # Nonce[p]
    /\ BuilderSettings \in BuilderSetting

VARIABLES
    chain,      \* the destination: committed roots, state of each message, how
                \* often it was executed with success (history), nonce of each
                \* sender, whether the source is cursed
    inflight,   \* InflightMessageCache: honest oracle -> messages
    outcome,    \* the previous outcome all oracles share
    reports,    \* signed report -> "attested", "accepted", "submitted", "closed"
    stable      \* from here on reads succeed and are fresh, nothing is lost,
                \* and every honest oracle takes part in every round

vars == <<chain, inflight, outcome, reports, stable>>

-----------------------------------------------------------------------------
States == {"none", "failure", "success"}
Senders == {Sender[m] : m \in Messages}
Chains == [committed : SUBSET DOMAIN Roots, state : [Messages -> States],
           deliveries : [Messages -> Nat], nonce : [Senders -> Nat], cursed : BOOLEAN]

Attempted == {m \in Messages : chain.state[m] # "none"}
Available == UNION {Roots[r] : r \in chain.committed}

\* A report is a sequence of chain reports, each the sequence of its messages.
Included(report) == UNION {{report[i][j] : j \in DOMAIN report[i]} : i \in DOMAIN report}

\* The outcome: executed maps each agreed root to its messages agreed to be
\* executed; messages are those agreed on, full the ones with their data, and
\* ready those of them whose token data is there.
Initialized == [state |-> "Initialized", executed |-> [r \in {} |-> {}], messages |-> {},
                full |-> {}, ready |-> {}, reports |-> <<>>]

TypeOK ==
    /\ chain \in Chains
    /\ inflight \in [Honest -> SUBSET Messages]
    /\ outcome.state \in {"Initialized", "GetCommitReports", "GetMessages", "Filter"}
    /\ DOMAIN outcome.executed \subseteq DOMAIN Roots
    /\ \A r \in DOMAIN outcome.executed : outcome.executed[r] \subseteq Roots[r]
    /\ outcome.ready \subseteq outcome.full /\ outcome.full \subseteq outcome.messages
    /\ outcome.messages \subseteq Messages
    /\ \A report \in DOMAIN reports :
          /\ Included(report) \subseteq Messages
          /\ reports[report] \in {"attested", "accepted", "submitted", "closed"}
    /\ stable \in BOOLEAN

Init ==
    /\ chain = [committed |-> {}, state |-> [m \in Messages |-> "none"],
                deliveries |-> [m \in Messages |-> 0],
                nonce |-> [s \in Senders |-> 0], cursed |-> FALSE]
    /\ inflight = [o \in Honest |-> {}]
    /\ outcome = Initialized
    /\ reports = [r \in {} |-> "attested"]
    /\ stable = FALSE

-----------------------------------------------------------------------------
(* The environment.                                                        *)

\* The commit plugin's reports land in order (CommitMerkleRoot).
Commit ==
    /\ \E r \in DOMAIN Roots \ chain.committed :
          /\ \A q \in 1..(r - 1) : q \in chain.committed
          /\ chain' = [chain EXCEPT !.committed = @ \cup {r}]
    /\ UNCHANGED <<inflight, outcome, reports, stable>>

Curse ==
    /\ Cursable /\ ~stable
    /\ chain' = [chain EXCEPT !.cursed = ~@]
    /\ UNCHANGED <<inflight, outcome, reports, stable>>

Stabilize ==
    /\ Settles /\ ~stable /\ ~chain.cursed
    /\ stable' = TRUE
    /\ UNCHANGED <<chain, inflight, outcome, reports>>

\* An entry expires; the cache of a restarted oracle is empty.
ExpireInflight(o, m) ==
    /\ m \in inflight[o]
    /\ inflight' = [inflight EXCEPT ![o] = @ \ {m}]
    /\ UNCHANGED <<chain, outcome, reports, stable>>

Restart(o) ==
    /\ ~stable /\ o \in Flaky /\ inflight[o] # {}
    /\ inflight' = [inflight EXCEPT ![o] = {}]
    /\ UNCHANGED <<chain, outcome, reports, stable>>

-----------------------------------------------------------------------------
(* Observations and agreement.                                             *)

MayFail == IF stable THEN {} ELSE Flaky

Quorums == {Q \in SUBSET Oracles : /\ Cardinality(Q) >= TwoFPlus1(F)
                                   /\ stable => Honest \subseteq Q}

\* The observers of a round: a quorum without the honest oracles whose reads
\* fail. getConsensusFChain needs 2F+1 equal votes for the f of a chain; the
\* honest oracles of the quorum vote alike, and if they are fewer the Byzantine
\* ones decide.
Observing(Q, down) ==
    [up |-> (Q \cap Honest) \ down, byz |-> Q \cap Byzantine,
     agreedF |-> IF Cardinality(Q \cap Honest) >= TwoFPlus1(F) THEN {TRUE} ELSE BOOLEAN]
Observers == {Observing(Q, down) : Q \in Quorums, down \in SUBSET MayFail}

\* What can be agreed, item by item, when at least least and at most most
\* honest oracles observe each item, byz Byzantine oracles observe what they
\* like, and threshold observations are needed.
Agreements(least, most, byz, threshold) ==
    LET sure == {x \in DOMAIN least : least[x] >= threshold}
        possible == {x \in DOMAIN most : most[x] + byz >= threshold}
    IN  {sure \cup more : more \in SUBSET (possible \ sure)}

\* Observation, before anything else: the messages of the reports just built
\* are in flight. An oracle outside the quorum may have observed as well.
MarkInflight(participants) ==
    [o \in Honest |->
        IF outcome.state = "Filter" /\ o \in participants
        THEN inflight[o] \cup UNION {Included(outcome.reports[i]) : i \in DOMAIN outcome.reports}
        ELSE inflight[o]]

\* The honest oracles that called Observation when up observed.
Participants(up) ==
    IF outcome.state # "Filter" THEN {up} ELSE {P \in SUBSET Honest : up \subseteq P}

-----------------------------------------------------------------------------
(* GetCommitReports: the pending commit reports.                           *)

\* How many of n honest observers see what is so, and at least how many.
AtMost(n, fact) == IF fact THEN n ELSE 0
AtLeast(n, fact) == IF fact /\ stable THEN n ELSE 0

\* getCommitReportsObservation, with the caches of ExecuteCaches: the committed
\* roots that are not fully executed, with their executed messages; nothing
\* while cursed. computeCommitObservationsConsensus: f + 1 votes for a root,
\* and for each executed message of it.
AgreedCommitReports(n, byz, threshold) ==
    LET committed(r) == r \in chain.committed
        pending(r) == committed(r) /\ ~chain.cursed /\ ~(Roots[r] \subseteq Attempted)
        agreed(S, Now(_), Ever(_)) ==
            Agreements([x \in S |-> AtLeast(n, Now(x))], [x \in S |-> AtMost(n, Ever(x))],
                       byz, threshold)
        executed(m) == m \in Attempted
    IN  {[r \in roots |-> E \cap Roots[r]] : roots \in agreed(DOMAIN Roots, pending, committed),
                                              E \in agreed(Messages, executed, executed)}

\* Faulty variant: f votes are enough.
CommitReportsThreshold_F == FSource
CommitReportsThreshold == FPlus1(FSource)

CommitReportsOutcomes(obs) ==
    {IF DOMAIN executed = {} THEN Initialized
     ELSE [Initialized EXCEPT !.state = "GetCommitReports", !.executed = executed] :
        executed \in AgreedCommitReports(Cardinality(obs.up \cap DestReaders),
                        Cardinality(obs.byz \cap DestReaders), CommitReportsThreshold)}
    \cup IF FALSE \in obs.agreedF THEN {Initialized, outcome} ELSE {}

GetCommitReports ==
    /\ outcome.state \in {"Initialized", "Filter"}
    /\ \E round \in UNION {{<<out, MarkInflight(P)>> : out \in CommitReportsOutcomes(obs),
                                                     P \in Participants(obs.up)} :
                              obs \in Observers} :
          outcome' = round[1] /\ inflight' = round[2]
    /\ UNCHANGED <<chain, reports, stable>>

-----------------------------------------------------------------------------
(* GetMessages: the messages of the agreed commit reports.                 *)

\* getMessagesObservation of oracle o, which goes through the reports in order:
\* a message is observed in full unless it is in flight or executed. The
\* first one above the limit ends the observation; the reports behind it are
\* not observed at all.
Unexecuted == UNION {Roots[r] \ outcome.executed[r] : r \in DOMAIN outcome.executed}

\* Faulty variant: messages in flight are observed in full.
Wanted_InFlight(o) == Unexecuted

Wanted(o) == Unexecuted \ inflight[o]
WithinLimit(o) ==
    {m \in Wanted(o) : Cardinality({p \in Wanted(o) : p < m}) < MaxMsgsPerObs}
ObservedRoots(o) ==
    {r \in DOMAIN outcome.executed :
        ~\E m \in Wanted(o) \ WithinLimit(o) : RootOf(m) < r}

MessagesThreshold == FPlus1(FSource)

\* What f + 1 of the source's readers observe: the roots, the messages seen
\* under them, and the messages with their data.
Listed == UNION {Roots[r] : r \in DOMAIN outcome.executed}
AgreedBySourceReaders(obs, items, Observes(_, _)) ==
    LET up == obs.up \cap SourceReaders
        votes == [x \in items |-> Cardinality({o \in up : Observes(o, x)})]
    IN  Agreements(votes, votes, Cardinality(obs.byz \cap SourceReaders), MessagesThreshold)
AgreedRoots(obs) ==
    AgreedBySourceReaders(obs, DOMAIN outcome.executed, LAMBDA o, r : r \in ObservedRoots(o))
AgreedMessages(obs, among) ==
    AgreedBySourceReaders(obs, among, LAMBDA o, m : RootOf(m) \in ObservedRoots(o))
AgreedFull(obs) ==
    AgreedBySourceReaders(obs, Listed, LAMBDA o, m : m \in WithinLimit(o))

\* The outcome of the round, less the token data that comes late.
MessagesOutcome(roots, executed, messages, full, late) ==
    [Initialized EXCEPT !.state = "GetMessages",
        !.executed = [r \in roots |-> executed \cap Roots[r]],
        !.messages = messages, !.full = full, !.ready = full \ late]
MessagesAgreed(obs) ==
    {MessagesOutcome(roots, executed, messages, full, late) :
        roots \in AgreedRoots(obs) \ {{}}, executed \in AgreedMessages(obs, Listed \ Unexecuted),
        messages \in AgreedMessages(obs, Listed), full \in AgreedFull(obs),
        late \in SUBSET (IF stable THEN {} ELSE NeedsTokenData)}

\* computeMessageObservationsConsensus and getMessagesOutcome: f + 1 votes for
\* a report, for each executed message of it, for each message without its
\* data and for each with it; a message agreed on in both forms is taken in
\* full. If a message is agreed on and its hash is not, which is up to the
\* Byzantine oracles when their votes are needed, the outcome is empty.
MessagesOutcomes(obs) ==
    MessagesAgreed(obs) \cup
        IF Cardinality(AgreedMessages(obs, Listed)) > 1 \/ FALSE \in obs.agreedF
           \/ {} \in AgreedRoots(obs)
        THEN {Initialized} ELSE {}

\* Faulty variant: a message agreed on with its data need not be agreed on
\* without it.
GetMessages_FullOnly ==
    /\ outcome.state = "GetCommitReports"
    /\ \/ /\ \E obs \in Observers : FALSE \in obs.agreedF
          /\ UNCHANGED outcome
       \/ outcome' \in UNION {MessagesOutcomes(obs) : obs \in Observers}
    /\ UNCHANGED <<chain, inflight, reports, stable>>

GetMessages ==
    /\ outcome.state = "GetCommitReports"
    /\ \/ /\ \E obs \in Observers : FALSE \in obs.agreedF
          /\ UNCHANGED outcome
       \/ /\ outcome' \in UNION {MessagesOutcomes(obs) : obs \in Observers}
          /\ outcome'.full \subseteq outcome'.messages
    /\ UNCHANGED <<chain, inflight, reports, stable>>

-----------------------------------------------------------------------------
(* Filter: the nonces of the senders and the reports.                      *)

\* Faulty variant: the largest observation instead of sorted[f].
NoncesAgreed_Largest(n, low, high, b) ==
    {v \in 0..(Cardinality(Messages) + 1) : n + b > FDest /\ (v > high => b > 0)}

\* computeNoncesConsensus: more than f observations, and then sorted[f]. The
\* values it may be when n honest oracles read from low to high and b others
\* observe anything: at most f observations are below, more than f up to it
\* (IsSortedAt), with as few below and as many up to it as the reads allow.
NoncesAgreed(n, low, high, b) ==
    {v \in 0..(Cardinality(Messages) + 1) :
        /\ (IF v > high THEN n ELSE 0) <= FDest
        /\ (IF v < low THEN 0 ELSE n) + b > FDest}

\* getFilterObservation: the nonces of the senders of the full messages.
AgreedNonces(obs) ==
    LET nonces(s) == NoncesAgreed(Cardinality(obs.up \cap DestReaders),
                                  IF stable THEN chain.nonce[s] ELSE 0, chain.nonce[s],
                                  Cardinality(obs.byz \cap DestReaders))
        agreed == {s \in {Sender[m] : m \in outcome.full} : nonces(s) # {}}
    IN  {[k \in {"source"} \X agreed |-> choice[k[2]]] :
            choice \in {c \in [agreed -> UNION {nonces(s) : s \in agreed}] :
                           \A s \in agreed : c[s] \in nonces(s)}}

\* The commit reports as the builder takes them, oldest first.
CommitReport(r) ==
    LET msgs == Ascending(Roots[r] \cap outcome.messages)
    IN  [chain |-> "source", executed |-> outcome.executed[r],
         complete |-> Roots[r] \subseteq outcome.messages,
         messages |-> [i \in DOMAIN msgs |->
            [seqNum |-> msgs[i], sender |-> Sender[msgs[i]], nonce |-> Nonce[msgs[i]],
             cost |-> Cost[msgs[i]], deleted |-> msgs[i] \notin outcome.full,
             tokenReady |-> msgs[i] \in outcome.ready]]]
CommitReports ==
    LET roots == Ascending(DOMAIN outcome.executed)
    IN  [i \in DOMAIN roots |-> CommitReport(roots[i])]

\* getFilterOutcome: an outcome without chain reports is empty.
FilterOutcome(nonces) ==
    LET selected == selectReports(BuilderSettings, nonces, CommitReports)
        numbers == [i \in DOMAIN selected |-> [j \in DOMAIN selected[i] |->
                      [k \in DOMAIN selected[i][j].messages |->
                          selected[i][j].messages[k].seqNum]]]
    IN  IF selected[1] = <<>> THEN Initialized
        ELSE [Initialized EXCEPT !.state = "Filter", !.reports = numbers]

\* Reports: every execution report of the outcome is signed.
Filter ==
    /\ outcome.state = "GetMessages"
    /\ \/ /\ \E obs \in Observers : FALSE \in obs.agreedF
          /\ UNCHANGED outcome
       \/ \E nonces \in UNION {AgreedNonces(obs) : obs \in Observers} :
             outcome' = FilterOutcome(nonces)
    /\ reports' = IF outcome'.state # "Filter" THEN reports
                  ELSE LET new == {outcome'.reports[i] : i \in DOMAIN outcome'.reports}
                       IN  [r \in DOMAIN reports \cup new |->
                               IF r \in DOMAIN reports /\ (r \in new => reports[r] # "closed")
                               THEN reports[r] ELSE "attested"]
    /\ UNCHANGED <<chain, inflight, stable>>

-----------------------------------------------------------------------------
(* Signed reports: the decisions of the honest oracles that read the       *)
(* destination, taken once for each, and the transaction. A closed report  *)
(* was refused, lost, or has landed.                                       *)

\* checkAlreadyExecuted: all between the first and the last message of every
\* chain report was executed. A lagging read may miss it.
AlreadyExecuted(report) ==
    \A i \in DOMAIN report : \A m \in Messages :
        (\E j, k \in DOMAIN report[i] : report[i][j] <= m /\ m <= report[i][k])
            => m \in Attempted
validateReport(report) == {~AlreadyExecuted(report)} \cup (IF stable THEN {} ELSE {TRUE})

Decided(report, status) ==
    /\ reports' = [reports EXCEPT ![report] = status]
    /\ UNCHANGED <<chain, inflight, outcome, stable>>

ShouldAcceptAttestedReport(report) ==
    /\ reports[report] = "attested" /\ Honest \cap DestReaders # {}
    /\ \E valid \in validateReport(report) :
          Decided(report, IF valid /\ ~chain.cursed THEN "accepted" ELSE "closed")

\* The curse is not looked at again.
ShouldTransmitAcceptedReport(report) ==
    /\ reports[report] = "accepted"
    /\ \E valid \in validateReport(report) :
          Decided(report, IF valid THEN "submitted" ELSE "closed")

\* An honest oracle fails before it has transmitted, or the transaction is lost.
Lose(report) ==
    /\ ~stable /\ reports[report] # "closed"
    /\ Decided(report, "closed")

ByzantineTransmit(report) ==
    /\ reports[report] # "submitted" /\ Byzantine \cap DestReaders # {}
    /\ Decided(report, "submitted")

(* The OffRamp: the messages of a report in order. One that was attempted  *)
(* is skipped, and so is an ordered one whose nonce is not its sender's    *)
(* next; an attempt counts the nonce, and may fail.                        *)

Precedes(report, p, m) ==
    \E i, k \in DOMAIN report : \E j \in DOMAIN report[i], l \in DOMAIN report[k] :
        /\ report[i][j] = p /\ report[k][l] = m
        /\ i < k \/ (i = k /\ j < l)
SameSender(m, p) == Sender[m] = Sender[p] /\ Nonce[m] # 0 /\ Nonce[p] # 0

\* done: the messages of the sender of m attempted before it in the report.
IsNext(m, done) ==
    Nonce[m] = 0 \/ Nonce[m] = chain.nonce[Sender[m]] + Cardinality(done) + 1

\* Faulty variant: the state of a message is not looked at.
IsAttempt_Repeats(report, attempted) ==
    \A m \in Included(report) :
        m \in attempted <=>
            IsNext(m, {p \in attempted \ {m} : SameSender(m, p) /\ Precedes(report, p, m)})

\* The messages the OffRamp attempts: those in state "none" that are next.
IsAttempt(report, attempted) ==
    \A m \in Included(report) :
        m \in attempted <=>
            /\ chain.state[m] = "none"
            /\ IsNext(m, {p \in attempted \ {m} : SameSender(m, p) /\ Precedes(report, p, m)})

\* failed of the attempts fail. A failed message of an earlier report is
\* attempted again by a program that keeps no trace of the failure.
Executed(attempted, failed, retried) ==
    chain' = [chain EXCEPT
        !.state = [m \in Messages |-> IF m \in failed THEN "failure"
                                      ELSE IF m \in attempted \cup retried THEN "success"
                                      ELSE @[m]],
        !.deliveries = [m \in Messages |->
            @[m] + IF m \in (attempted \ failed) \cup retried THEN 1 ELSE 0],
        !.nonce = [s \in Senders |-> @[s] + Cardinality({m \in attempted : Sender[m] = s
                                                                          /\ Nonce[m] # 0})]]

Land(report) ==
    /\ reports[report] = "submitted"
    /\ \/ /\ ~chain.cursed /\ Included(report) \subseteq Available
          /\ \E attempted \in SUBSET Included(report) :
                /\ IsAttempt(report, attempted)
                /\ \E failed \in SUBSET (attempted \cap Fallible),
                      retried \in SUBSET {m \in Included(report) : chain.state[m] = "failure"} :
                         Executed(attempted, failed, retried)
       \/ /\ chain.cursed \/ ~(Included(report) \subseteq Available)
          /\ UNCHANGED chain
    /\ reports' = [reports EXCEPT ![report] = "closed"]
    /\ UNCHANGED <<inflight, outcome, stable>>

\* Anyone may execute a message after a while.
ManuallyExecute(m) ==
    /\ ~chain.cursed /\ m \in Available
    /\ \/ /\ chain.state[m] = "none" /\ IsNext(m, {})
          /\ Executed({m}, {}, {})
       \/ /\ chain.state[m] = "failure"
          /\ Executed({}, {}, {m})
    /\ UNCHANGED <<inflight, outcome, reports, stable>>

-----------------------------------------------------------------------------
Round == GetCommitReports \/ GetMessages \/ Filter

Next ==
    \/ Commit \/ Curse \/ Stabilize \/ Round
    \/ \E o \in Honest : Restart(o) \/ \E m \in Messages : ExpireInflight(o, m)
    \/ \E report \in DOMAIN reports :
          \/ ShouldAcceptAttestedReport(report) \/ ShouldTransmitAcceptedReport(report)
          \/ Lose(report) \/ ByzantineTransmit(report) \/ Land(report)
    \/ \E m \in Messages : ManuallyExecute(m)

Spec == Init /\ [][Next]_vars

\* What the scheduling guarantees once the network has settled: OCR goes on
\* with rounds, an accepted report is transmitted and lands, and the cache's
\* entries expire. GetMessages and Filter are each enabled in one state that
\* nothing else leaves, and ExpireInflight as long as the entry is there: weak
\* fairness of them is that the state, or the entry, does not last.
Fairness ==
    /\ WF_vars(stable /\ GetCommitReports)
    /\ \A s \in {"GetCommitReports", "GetMessages"} : []<>(stable => outcome.state # s)
    /\ \A o \in Honest, m \in Messages : []<>(stable => m \notin inflight[o])
    /\ \A S \in SUBSET Messages \ {{}} :
          WF_vars(stable /\ \E report \in DOMAIN reports :
                     /\ Included(report) = S
                     /\ \/ ShouldAcceptAttestedReport(report)
                        \/ ShouldTransmitAcceptedReport(report) \/ Land(report))

FairSpec == Spec /\ Fairness

-----------------------------------------------------------------------------
\* The rounds agree on nothing that is not so, whatever f Byzantine readers
\* observe and however the honest ones lag: an agreed root was committed, and
\* a message agreed to be executed was attempted.
AgreedIsReal ==
    /\ DOMAIN outcome.executed \subseteq chain.committed
    /\ \A r \in DOMAIN outcome.executed : outcome.executed[r] \subseteq Attempted

\* What the DON signs the destination can execute: a signed report holds only
\* messages under a committed root, after agreement on commit reports and on
\* messages in different rounds and the choices of the report builder.
SignedIsCommitted ==
    \A report \in DOMAIN reports : Included(report) \subseteq Available

\* "used to prevent duplicate reports from being sent for the same message"
\* (inflight_message_cache.go:12): the Byzantine oracles alone never bring a
\* message into a second report; enough honest oracles must have lost it from
\* their caches to make up f + 1 votes.
ReportedAgainAfterLapse ==
    [][outcome.state = "GetMessages" /\ outcome'.state = "Filter" =>
          \A i \in DOMAIN outcome'.reports : \A m \in Included(outcome'.reports[i]) :
              (\E report \in DOMAIN reports : m \in Included(report)) =>
                  Cardinality({o \in Honest \cap SourceReaders : m \notin inflight[o]})
                      >= FPlus1(FSource) - Cardinality(Byzantine \cap SourceReaders)]_vars

\* Whatever is signed, by whomever it is sent, and however often, late or mixed
\* with manual executions it lands, the destination executes the lane as
\* ExecuteLane says: only messages under a committed root, each with success at
\* most once (the state of a message in execute.rs).
Lane == INSTANCE ExecuteLane WITH
            available <- Available,
            failed <- {m \in Messages : chain.state[m] = "failure"},
            deliveries <- chain.deliveries
ImplementsLane == Lane!LaneSpec

\* Once the network has settled every committed message is attempted: a report
\* that never landed, a skipped nonce, a lapsed or a full cache delay it but
\* do not hide it.
EveryMessageAttempted ==
    \A m \in Messages : stable /\ m \in Available ~> chain.state[m] # "none"
=============================================================================
