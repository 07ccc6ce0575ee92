---------------------------- MODULE ExecuteReport ----------------------------
(***************************************************************************)
(* The execute report builder (execute/report): which messages of a list   *)
(* of commit reports go into which execution report. Pure operators; a     *)
(* builder is a value that Add returns with one more commit report tried.  *)
(*                                                                         *)
(*  - A commit report is a record: its source chain, the messages of its   *)
(*    range in order, the sequence numbers known to be executed, and       *)
(*    whether its messages hash to its merkle root (complete).             *)
(*  - A message has its sequence number, sender, nonce (0: out of order    *)
(*    execution allowed), cost, whether it was pseudo-deleted, and whether *)
(*    its token data is ready.                                             *)
(*  - The gas and the encoded size of a report are budgets that are spent  *)
(*    and checked in the same way; cost and maxGas stand for either.       *)
(*  - An execution report is a sequence of single chain reports.           *)
(*  - The settings are a record: maxGas, maxMessages and                   *)
(*    maxSingleChainReports (0: no limit), maxReportCount,                 *)
(*    multipleReportsEnabled.                                              *)
(***************************************************************************)
EXTENDS Integers, FiniteSets, Sequences

Message(senders) ==
    [seqNum : Nat, sender : senders, nonce : Nat, cost : Nat,
     deleted : BOOLEAN, tokenReady : BOOLEAN]
CommitData(chains, senders) ==
    [chain : chains, messages : Seq(Message(senders)), executed : SUBSET Nat,
     complete : BOOLEAN]
ChainReport(chains, senders) ==
    [chain : chains, messages : Seq(Message(senders))]
BuilderSetting ==
    [maxGas : Nat, maxMessages : Nat, maxSingleChainReports : Nat,
     maxReportCount : Nat \ {0}, multipleReportsEnabled : BOOLEAN]

\* A finite set of numbers as a sequence, the smallest first, and the sum of a
\* sequence of numbers.
Ascending(S) ==
    [i \in 1..Cardinality(S) |->
        CHOOSE x \in S : Cardinality({y \in S : y < x}) = i - 1]
Sum(s) ==
    LET upTo[i \in 0..Len(s)] == IF i = 0 THEN 0 ELSE upTo[i - 1] + s[i]
    IN  upTo[Len(s)]

-----------------------------------------------------------------------------
(* The checks of a message, in the order of newBuilderInternal.            *)

\* expected: (chain, sender) -> the nonce that CheckNonces expects next.
SenderKey(c, msg) == <<c.chain, msg.sender>>
ExpectedNonce(expected, nonces, k) ==
    IF k \in DOMAIN expected THEN expected[k] ELSE nonces[k] + 1

\* Faulty variant: a nonce below the expected one passes.
CheckNonces_UpTo(expected, nonces, c, msg) ==
    \/ msg.nonce = 0
    \/ /\ SenderKey(c, msg) \in DOMAIN nonces
       /\ msg.nonce <= ExpectedNonce(expected, nonces, SenderKey(c, msg))

CheckNonces(expected, nonces, c, msg) ==
    \/ msg.nonce = 0
    \/ /\ SenderKey(c, msg) \in DOMAIN nonces
       /\ msg.nonce = ExpectedNonce(expected, nonces, SenderKey(c, msg))

checkMessage(expected, nonces, c, msg) ==
    /\ ~msg.deleted
    /\ msg.seqNum \notin c.executed
    /\ msg.tokenReady
    /\ CheckNonces(expected, nonces, c, msg)

\* A message that passes moves the expected nonce of its sender on, whether or
\* not it ends up in a report.
extractMessage(nonces, c, acc, i) ==
    LET msg == c.messages[i]
        k == SenderKey(c, msg)
    IN  IF ~checkMessage(acc.expected, nonces, c, msg) THEN acc
        ELSE [ready |-> acc.ready \cup {i},
              expected |-> IF msg.nonce = 0 THEN acc.expected
                           ELSE [x \in DOMAIN acc.expected \cup {k} |->
                                   IF x = k THEN msg.nonce + 1 ELSE acc.expected[x]]]
extractReadyMessages(expected, nonces, c) ==
    LET upTo[i \in 0..Len(c.messages)] ==
            IF i = 0 THEN [ready |-> {}, expected |-> expected]
            ELSE extractMessage(nonces, c, upTo[i - 1], i)
    IN  upTo[Len(c.messages)]

-----------------------------------------------------------------------------
(* One single chain report.                                                *)

selectMessages(c, S) ==
    [i \in 1..Cardinality(S) |-> c.messages[Ascending(S)[i]]]

cost(msgs) == Sum([i \in 1..Len(msgs) |-> msgs[i].cost])

\* No sender's nonce is skipped between two of its messages in the report.
verifyReportNonceContinuity(msgs) ==
    \A i, j \in DOMAIN msgs :
        /\ i < j /\ msgs[i].nonce # 0 /\ msgs[j].nonce # 0
        /\ msgs[i].sender = msgs[j].sender
        /\ \A k \in (i + 1)..(j - 1) :
               msgs[k].nonce = 0 \/ msgs[k].sender # msgs[i].sender
        => msgs[j].nonce = msgs[i].nonce + 1

\* Faulty variant: the gas of the chain reports already there is forgotten.
verifyReport_Fresh(settings, used, msgs) ==
    verifyReportNonceContinuity(msgs) /\ cost(msgs) <= settings.maxGas

verifyReport(settings, used, msgs) ==
    verifyReportNonceContinuity(msgs) /\ cost(msgs) <= settings.maxGas - used

fits(settings, used, c, S) == verifyReport(settings, used, selectMessages(c, S))
atLimit(settings, S) ==
    settings.maxMessages > 0 /\ Cardinality(S) >= settings.maxMessages

\* Faulty variant: the search ends at the first message that does not fit.
buildSingleChainReport_Stops(settings, used, c, ready) ==
    CHOOSE S \in SUBSET ready :
        /\ fits(settings, used, c, S)
        /\ \A i \in ready : (\E j \in S : i < j) => i \in S
        /\ \/ atLimit(settings, S) \/ S = ready
           \/ \E i \in ready \ S : /\ \A j \in ready \ S : i <= j
                                  /\ ~fits(settings, used, c, S \cup {i})

\* All that is ready if there is no limit on their number and they fit, or
\* else as many as fit, one after the other, the next if one does not fit.
takeMessage(settings, used, c, ready, S, i) ==
    IF i \in ready /\ ~atLimit(settings, S) /\ fits(settings, used, c, S \cup {i})
    THEN S \cup {i} ELSE S
takeOneByOne(settings, used, c, ready) ==
    LET upTo[i \in 0..Len(c.messages)] ==
            IF i = 0 THEN {} ELSE takeMessage(settings, used, c, ready, upTo[i - 1], i)
    IN  upTo[Len(c.messages)]
buildSingleChainReport(settings, used, c, ready) ==
    IF settings.maxMessages = 0 /\ fits(settings, used, c, ready) THEN ready
    ELSE takeOneByOne(settings, used, c, ready)

-----------------------------------------------------------------------------
(* The builder: the nonces expected, the execution reports so far and what *)
(* each of them has used of its budget.                                    *)

NewBuilder == [expected |-> <<>>, reports |-> <<<<>>>>, used |-> <<0>>]

createNewExecReport(b) ==
    [b EXCEPT !.reports = Append(@, <<>>), !.used = Append(@, 0)]

shouldCreateNewExecReport(settings, b) ==
    /\ settings.maxSingleChainReports # 0
    /\ Len(b.reports[Len(b.reports)]) >= settings.maxSingleChainReports

appendChainReport(b, c, S) ==
    LET n == Len(b.reports)
        msgs == selectMessages(c, S)
    IN  [b EXCEPT !.reports[n] = Append(@, [chain |-> c.chain, messages |-> msgs]),
                  !.used[n] = @ + cost(msgs)]

\* Faulty variant: the messages of a new chain report are not marked.
markNewMessagesExecuted_No(c, S) == c

markNewMessagesExecuted(c, S) ==
    [c EXCEPT !.executed = @ \cup {c.messages[i].seqNum : i \in S}]

\* Faulty variant: no new execution report when nothing fits the current one.
tryBuildReport_NoFresh(settings, b, c, ready) ==
    LET S == IF c.complete THEN buildSingleChainReport(settings, b.used[Len(b.used)], c, ready)
             ELSE {}
    IN  IF S = {} THEN [b |-> b, c |-> c, done |-> TRUE]
        ELSE [b |-> appendChainReport(b, c, S), c |-> markNewMessagesExecuted(c, S),
              done |-> ~settings.multipleReportsEnabled]

\* tryBuildReport and handleEmptyReport; "done" ends the loop of Add.
tryBuildReport(settings, b, c, ready) ==
    LET build(bb) == buildSingleChainReport(settings, bb.used[Len(bb.used)], c, ready)
        added(bb) == [b |-> appendChainReport(bb, c, build(bb)),
                      c |-> markNewMessagesExecuted(c, build(bb)),
                      done |-> ~settings.multipleReportsEnabled]
        nothing == [b |-> b, c |-> c, done |-> TRUE]
        fresh == createNewExecReport(b)
    IN  IF ~c.complete THEN nothing
        ELSE IF build(b) # {} THEN added(b)
        ELSE IF ~settings.multipleReportsEnabled
                \/ Len(b.reports) >= settings.maxReportCount
                \/ build(fresh) = {} THEN nothing
        ELSE added(fresh)

\* One pass of the loop of Add.
addPass(settings, nonces, s) ==
    LET extracted == extractReadyMessages(s.b.expected, nonces, s.c)
        checked == [s.b EXCEPT !.expected = extracted.expected]
        full == shouldCreateNewExecReport(settings, checked)
        b == IF full THEN createNewExecReport(checked) ELSE checked
    IN  IF extracted.ready = {} \/ (full /\ ~settings.multipleReportsEnabled)
        THEN [b |-> checked, c |-> s.c, done |-> TRUE]
        ELSE IF Len(b.reports) > settings.maxReportCount
        THEN [b |-> b, c |-> s.c, done |-> TRUE]
        ELSE tryBuildReport(settings, b, s.c, extracted.ready)

\* validateNoncesForMultipleReports rejects the commit report as a whole. Each
\* pass that goes on takes at least one message, so the passes are bounded.
addPasses(settings, nonces, b, c) ==
    LET after[i \in 0..(Len(c.messages) + 1)] ==
            IF i = 0 THEN [b |-> b, c |-> c, done |-> FALSE]
            ELSE IF after[i - 1].done THEN after[i - 1]
            ELSE addPass(settings, nonces, after[i - 1])
    IN  after[Len(c.messages) + 1]
Add(settings, nonces, b, c) ==
    IF settings.multipleReportsEnabled /\ \E i \in DOMAIN c.messages : c.messages[i].nonce > 0
    THEN b ELSE addPasses(settings, nonces, b, c).b

Build(settings, b) ==
    SubSeq(b.reports, 1,
           IF ~settings.multipleReportsEnabled THEN 1
           ELSE IF Len(b.reports) < settings.maxReportCount THEN Len(b.reports)
           ELSE settings.maxReportCount)

\* A commit report whose messages were not agreed on is not offered to Add.
offerReport(settings, nonces, b, c) ==
    IF c.messages = <<>> THEN b ELSE Add(settings, nonces, b, c)
selectReports(settings, nonces, commitReports) ==
    LET after[i \in 0..Len(commitReports)] ==
            IF i = 0 THEN NewBuilder
            ELSE offerReport(settings, nonces, after[i - 1], commitReports[i])
    IN  Build(settings, after[Len(commitReports)])

-----------------------------------------------------------------------------
(* What an execution report uses, and what is where in a list of them.     *)

Gas(report) == Sum([i \in 1..Len(report) |-> cost(report[i].messages)])

Places(reports) ==
    UNION {UNION {{<<r, i, j>> : j \in DOMAIN reports[r][i].messages} :
              i \in DOMAIN reports[r]} : r \in DOMAIN reports}
MessageAt(reports, p) == reports[p[1]][p[2]].messages[p[3]]
ChainAt(reports, p) == reports[p[1]][p[2]].chain
KeyAt(reports, p) == <<ChainAt(reports, p), MessageAt(reports, p).sender>>
Earlier(p, q) ==
    \/ p[1] < q[1]
    \/ p[1] = q[1] /\ p[2] < q[2]
    \/ p[1] = q[1] /\ p[2] = q[2] /\ p[3] < q[3]
==============================================================================
