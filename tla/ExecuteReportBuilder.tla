------------------------ MODULE ExecuteReportBuilder ------------------------
(***************************************************************************)
(* The run of the report builder in the Filter state (getFilterOutcome):   *)
(* the agreed commit reports are offered to Add one after the other        *)
(* (selectReports), with the agreed nonces of the senders. The inputs are  *)
(* chosen initially from the given sets; after each Add the properties     *)
(* look at what Build would return.                                        *)
(***************************************************************************)
EXTENDS ExecuteReport

CONSTANTS
    Chains, Senders,
    Inputs,     \* sequences of commit reports, oldest first
    Nonces,     \* agreed nonces: functions from some (chain, sender) to Nat
    Settings    \* the builder's settings

\* The commit reports of a source have different ranges of sequence numbers,
\* and the source gives each ordered message of a sender a nonce of its own.
SameMessage(c, i, d, j) == c.chain = d.chain /\ c.messages[i].seqNum = d.messages[j].seqNum
SameNonce(c, i, d, j) ==
    /\ c.chain = d.chain /\ c.messages[i].sender = d.messages[j].sender
    /\ c.messages[i].nonce = d.messages[j].nonce /\ c.messages[i].nonce # 0
WellFormed(input) ==
    /\ input \in Seq(CommitData(Chains, Senders))
    /\ \A n, k \in DOMAIN input :
          \A i \in DOMAIN input[n].messages, j \in DOMAIN input[k].messages :
              SameMessage(input[n], i, input[k], j) \/ SameNonce(input[n], i, input[k], j)
                  => n = k /\ i = j
ASSUME BuilderAssumption ==
    /\ \A input \in Inputs : WellFormed(input)
    /\ \A n \in Nonces : n \in [DOMAIN n -> Nat]
    /\ Settings \subseteq BuilderSetting

VARIABLES settings, nonces, offered, todo, builder
vars == <<settings, nonces, offered, todo, builder>>

Init ==
    /\ settings \in Settings /\ nonces \in Nonces
    /\ offered = <<>> /\ todo \in Inputs
    /\ builder = NewBuilder

\* One pass of the loop of selectReports.
OfferCommitReport ==
    /\ todo # <<>>
    /\ builder' = offerReport(settings, nonces, builder, Head(todo))
    /\ offered' = Append(offered, Head(todo)) /\ todo' = Tail(todo)
    /\ UNCHANGED <<settings, nonces>>

Next == OfferCommitReport
Spec == Init /\ [][Next]_vars

-----------------------------------------------------------------------------
Reports == Build(settings, builder)
Placed == Places(Reports)
At(p) == MessageAt(Reports, p)

\* A message that the destination would execute if it were alone in a report.
Executable(c, msg) ==
    /\ c.complete /\ ~msg.deleted /\ msg.tokenReady /\ msg.seqNum \notin c.executed
    /\ msg.cost <= settings.maxGas
    /\ \/ msg.nonce = 0
       \/ SenderKey(c, msg) \in DOMAIN nonces /\ msg.nonce = nonces[SenderKey(c, msg)] + 1
AgreedExecuted(c) == {c.messages[i].seqNum : i \in DOMAIN c.messages} \cap c.executed

\* What Build returns fits the destination's transaction: the gas of all chain
\* reports of an execution report together, their number, and the number of
\* reports stay within the settings, although every chain report is verified
\* on its own and the loop of Add goes on in new reports.
WithinLimits ==
    /\ Len(Reports) <= IF settings.multipleReportsEnabled THEN settings.maxReportCount ELSE 1
    /\ \A r \in DOMAIN Reports :
          /\ Gas(Reports[r]) <= settings.maxGas
          /\ settings.maxSingleChainReports # 0 =>
                 Len(Reports[r]) <= settings.maxSingleChainReports

\* No message is in two reports or twice in one, although Add goes over a
\* commit report again after each report it builds from it, and none that the
\* oracles agree was executed, or whose token data is missing, is in any.
EachMessageOnce ==
    /\ \A p, q \in Placed : ChainAt(Reports, p) = ChainAt(Reports, q)
                            /\ At(p).seqNum = At(q).seqNum => p = q
    /\ \A p \in Placed : At(p).tokenReady /\ ~At(p).deleted
    /\ \A n \in DOMAIN offered : \A p \in Placed :
           ChainAt(Reports, p) = offered[n].chain => At(p).seqNum \notin AgreedExecuted(offered[n])

\* The destination goes through a report in order: a sender's ordered messages
\* appear with growing nonces, all beyond the last one executed, also across
\* the chain reports of an execution report.
NoncesGrow ==
    \A p \in Placed : At(p).nonce # 0 =>
        /\ KeyAt(Reports, p) \in DOMAIN nonces /\ At(p).nonce > nonces[KeyAt(Reports, p)]
        /\ \A q \in Placed :
               At(q).nonce # 0 /\ KeyAt(Reports, q) = KeyAt(Reports, p) /\ Earlier(q, p)
                   => At(q).nonce < At(p).nonce

\* The builder does not come back empty-handed while a message it was offered
\* could be executed on its own: skipping what does not fit never starves
\* everything behind it.
SomethingSelected ==
    Placed = {} /\ ~settings.multipleReportsEnabled =>
        \A n \in DOMAIN offered : \A i \in DOMAIN offered[n].messages :
            ~Executable(offered[n], offered[n].messages[i])

\* With multiple reports every executable message is in some report, unless the
\* number of reports has reached its limit or its commit report was rejected
\* for an ordered message.
EverythingSelected ==
    settings.multipleReportsEnabled /\ Len(builder.reports) < settings.maxReportCount =>
        \A n \in DOMAIN offered : \A i \in DOMAIN offered[n].messages :
            \/ \E j \in DOMAIN offered[n].messages : offered[n].messages[j].nonce > 0
            \/ ~Executable(offered[n], offered[n].messages[i])
            \/ \E p \in Placed : /\ ChainAt(Reports, p) = offered[n].chain
                                 /\ At(p) = offered[n].messages[i]

\* "we cannot have "skipped" nonces since these messages will be skipped
\* onchain" (execute/report/report.go:376): the message before each ordered
\* message of a report was executed, or is in the report before it.
NoSkippedNonces ==
    \A p \in Placed : At(p).nonce # 0 =>
        \/ At(p).nonce = nonces[KeyAt(Reports, p)] + 1
        \/ \E q \in Placed : /\ KeyAt(Reports, q) = KeyAt(Reports, p) /\ Earlier(q, p)
                             /\ At(q).nonce + 1 = At(p).nonce
==============================================================================
