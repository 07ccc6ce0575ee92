---------------------------- MODULE ExecuteProofs ----------------------------
(***************************************************************************)
(* Execute for every number of oracles, roots and messages: the            *)
(* destination executes only what is committed and each message with       *)
(* success at most once, whatever reports are signed and transmitted, and  *)
(* a message is reported again only after enough of the in-flight caches   *)
(* have lost it. Where the destination's fault bound is not above the      *)
(* source's the rounds agree on nothing that is not so, and what is signed *)
(* is committed.                                                           *)
(***************************************************************************)
EXTENDS Execute, ExecuteReportProofs

-----------------------------------------------------------------------------
(* The inductive invariant.                                                *)

\* The state of a message tells whether it was delivered, and it was delivered
\* no more than once.
DeliveredOnce ==
    \A m \in Messages : chain.deliveries[m] = IF chain.state[m] = "success" THEN 1 ELSE 0

ChainInv == chain \in Chains /\ DeliveredOnce

-----------------------------------------------------------------------------
(* The OffRamp.                                                            *)

LEMMA MessagesOfRoots ==
    ASSUME chain \in Chains
    PROVE  Available \subseteq Messages
  BY DEF Chains, Available, Messages

\* What an execution of a report does to the lane: nothing that was delivered
\* is delivered again, as every message attempted had state "none" or
\* "failure" before.
LEMMA ExecutedKeeps ==
    ASSUME ChainInv, NEW attempted \in SUBSET Messages, NEW failed \in SUBSET attempted,
           NEW retried \in SUBSET {m \in Messages : chain.state[m] = "failure"},
           \A m \in attempted : chain.state[m] = "none",
           Executed(attempted, failed, retried)
    PROVE  /\ ChainInv'
           /\ chain'.committed = chain.committed
           /\ \A m \in Messages : chain'.state[m] =
                 IF m \in failed THEN "failure"
                 ELSE IF m \in attempted \cup retried THEN "success" ELSE chain.state[m]
           /\ chain'.deliveries = [m \in Messages |-> chain.deliveries[m]
                 + IF m \in (attempted \ failed) \cup retried THEN 1 ELSE 0]
  <1> DEFINE count(s) == Cardinality({m \in attempted : Sender[m] = s /\ Nonce[m] # 0})
             state == [m \in Messages |-> IF m \in failed THEN "failure"
                          ELSE IF m \in attempted \cup retried THEN "success"
                          ELSE chain.state[m]]
             deliveries == [m \in Messages |-> chain.deliveries[m]
                               + IF m \in (attempted \ failed) \cup retried THEN 1 ELSE 0]
             nonce == [s \in Senders |-> chain.nonce[s] + count(s)]
  <1>1. chain' = [chain EXCEPT !.state = state, !.deliveries = deliveries, !.nonce = nonce]
    BY DEF Executed, ChainInv, Chains
  <1>2. chain \in Chains BY DEF ChainInv
  <1>3. \A s \in Senders : count(s) \in Nat
    <2> SUFFICES ASSUME NEW s \in Senders PROVE count(s) \in Nat OBVIOUS
    <2>1. IsFiniteSet({m \in attempted : Sender[m] = s /\ Nonce[m] # 0})
      BY ExecuteAssumption, FS_Subset
    <2> QED BY <2>1, FS_CardinalityType
  <1> HIDE DEF count
  <1>4. /\ state \in [Messages -> States] /\ deliveries \in [Messages -> Nat]
        /\ nonce \in [Senders -> Nat]
    <2>1. state \in [Messages -> States] BY <1>2 DEF Chains, States
    <2>2. deliveries \in [Messages -> Nat] BY <1>2 DEF Chains
    <2>3. nonce \in [Senders -> Nat] BY <1>2, <1>3 DEF Chains
    <2> QED BY <2>1, <2>2, <2>3
  <1> HIDE DEF state, deliveries, nonce
  <1>5. /\ chain'.committed = chain.committed /\ chain'.cursed = chain.cursed
        /\ chain'.state = state /\ chain'.deliveries = deliveries /\ chain'.nonce = nonce
        /\ chain' = [committed |-> chain'.committed, state |-> chain'.state,
                     deliveries |-> chain'.deliveries,
                     nonce |-> chain'.nonce, cursed |-> chain'.cursed]
    BY <1>1, <1>2 DEF Chains
  <1>6. chain' \in Chains BY <1>2, <1>4, <1>5 DEF Chains
  <1>7. DeliveredOnce'
    <2> SUFFICES ASSUME NEW m \in Messages
                 PROVE  deliveries[m] = IF state[m] = "success" THEN 1 ELSE 0
      BY <1>5 DEF DeliveredOnce
    <2>1. /\ chain.deliveries[m] = IF chain.state[m] = "success" THEN 1 ELSE 0
          /\ m \in attempted => chain.state[m] = "none"
          /\ m \in retried => chain.state[m] = "failure"
          /\ m \in failed => m \in attempted
      BY DEF ChainInv, DeliveredOnce
    <2>2. /\ state[m] = IF m \in failed THEN "failure"
                        ELSE IF m \in attempted \cup retried THEN "success" ELSE chain.state[m]
          /\ deliveries[m] = chain.deliveries[m]
                             + IF m \in (attempted \ failed) \cup retried THEN 1 ELSE 0
      BY DEF state, deliveries
    <2> QED BY <2>1, <2>2
  <1> QED BY <1>5, <1>6, <1>7 DEF ChainInv, state, deliveries

-----------------------------------------------------------------------------
(* The refinement.                                                         *)

LaneFailed == {m \in Messages : chain.state[m] = "failure"}

LEMMA LaneAttempt ==
    ASSUME ChainInv, NEW attempted \in SUBSET Available, NEW failed \in SUBSET attempted,
           NEW retried \in SUBSET {m \in Available : chain.state[m] = "failure"},
           \A m \in attempted : chain.state[m] = "none",
           Executed(attempted, failed, retried)
    PROVE  ChainInv' /\ Lane!LaneNext
  <1> DEFINE batch == attempted \cup retried
             good == (attempted \ failed) \cup retried
  <1>1. Available \subseteq Messages BY MessagesOfRoots DEF ChainInv
  <1>2. /\ ChainInv' /\ chain'.committed = chain.committed
        /\ \A m \in Messages : chain'.state[m] =
              IF m \in failed THEN "failure"
              ELSE IF m \in attempted \cup retried THEN "success" ELSE chain.state[m]
        /\ chain'.deliveries = [m \in Messages |-> chain.deliveries[m]
                                    + IF m \in good THEN 1 ELSE 0]
    BY <1>1, ExecutedKeeps
  <1>3. Available' = Available BY <1>2 DEF Available
  <1>4. batch \subseteq Available /\ good \subseteq batch OBVIOUS
  <1>5. \A m \in batch : chain.deliveries[m] = 0
    BY <1>1 DEF ChainInv, DeliveredOnce
  <1>6. LaneFailed' = (LaneFailed \cup batch) \ good
    BY <1>1, <1>2 DEF LaneFailed
  <1>7. Lane!Attempt(batch, good)
    BY <1>2, <1>3, <1>4, <1>5, <1>6 DEF Lane!Attempt, LaneFailed
  <1> HIDE DEF batch, good
  <1> QED BY <1>2, <1>4, <1>7 DEF Lane!LaneNext

LEMMA LaneStep ==
    ASSUME ChainInv, [Next]_vars
    PROVE  ChainInv' /\ [Lane!LaneNext]_(Lane!laneVars)
  <1>0. Available \subseteq Messages BY MessagesOfRoots DEF ChainInv
  <1>1. ASSUME UNCHANGED chain PROVE ChainInv' /\ UNCHANGED Lane!laneVars
    BY <1>1 DEF ChainInv, DeliveredOnce, Lane!laneVars, Available
  <1>2. ASSUME Commit PROVE ChainInv' /\ Lane!LaneNext
    <2>1. PICK r \in DOMAIN Roots : chain' = [chain EXCEPT !.committed = @ \cup {r}]
      BY <1>2 DEF Commit
    <2>2. chain \in Chains BY DEF ChainInv
    <2>3. /\ chain'.committed = chain.committed \cup {r} /\ chain'.state = chain.state
          /\ chain'.deliveries = chain.deliveries /\ chain' \in Chains
      BY <2>1, <2>2 DEF Chains
    <2>4. Available' = Available \cup (Roots[r] \ Available)
      BY <2>3 DEF Available
    <2>5. Roots[r] \ Available \in SUBSET (Messages \ Available) BY DEF Messages
    <2>6. Lane!Publish(Roots[r] \ Available) BY <2>3, <2>4 DEF Lane!Publish
    <2> QED BY <2>3, <2>5, <2>6 DEF ChainInv, DeliveredOnce, Lane!LaneNext
  <1>3. ASSUME Curse PROVE ChainInv' /\ UNCHANGED Lane!laneVars
    <2>1. chain' = [chain EXCEPT !.cursed = ~@] BY <1>3 DEF Curse
    <2>2. chain \in Chains BY DEF ChainInv
    <2>3. /\ chain'.committed = chain.committed /\ chain'.state = chain.state
          /\ chain'.deliveries = chain.deliveries /\ chain' \in Chains
      BY <2>1, <2>2 DEF Chains
    <2> QED BY <2>3 DEF ChainInv, DeliveredOnce, Lane!laneVars, Available
  <1>4. ASSUME NEW report \in DOMAIN reports, Land(report), ~UNCHANGED chain
        PROVE  ChainInv' /\ Lane!LaneNext
    <2>1. Included(report) \subseteq Available BY <1>4 DEF Land
    <2>2. PICK attempted \in SUBSET Included(report) :
             /\ IsAttempt(report, attempted)
             /\ \E failed \in SUBSET (attempted \cap Fallible) :
                \E retried \in SUBSET {m \in Included(report) : chain.state[m] = "failure"} :
                   Executed(attempted, failed, retried)
      BY <1>4 DEF Land
    <2>3. PICK failed \in SUBSET (attempted \cap Fallible) :
             \E retried \in SUBSET {m \in Included(report) : chain.state[m] = "failure"} :
                 Executed(attempted, failed, retried)
      BY <2>2
    <2>4. PICK retried \in SUBSET {m \in Included(report) : chain.state[m] = "failure"} :
             Executed(attempted, failed, retried)
      BY <2>3
    <2>5. \A m \in attempted : chain.state[m] = "none" BY <2>2 DEF IsAttempt
    <2>6. attempted \in SUBSET Available /\ attempted \in SUBSET Messages
          /\ failed \in SUBSET attempted
          /\ retried \in SUBSET {m \in Available : chain.state[m] = "failure"}
      BY <2>1, <1>0
    <2> QED BY <2>4, <2>5, <2>6, LaneAttempt
  <1>5. ASSUME NEW m \in Messages, ManuallyExecute(m) PROVE ChainInv' /\ Lane!LaneNext
    <2>1. m \in Available BY <1>5 DEF ManuallyExecute
    <2>3. CASE chain.state[m] = "none" /\ Executed({m}, {}, {})
      <3>1. /\ {m} \in SUBSET Available /\ {} \in SUBSET {m}
            /\ {} \in SUBSET {q \in Available : chain.state[q] = "failure"}
            /\ \A q \in {m} : chain.state[q] = "none"
        BY <2>1, <2>3
      <3> QED BY <2>3, <3>1, LaneAttempt
    <2>4. CASE chain.state[m] = "failure" /\ Executed({}, {}, {m})
      <3>1. /\ {} \in SUBSET Available /\ {} \in SUBSET {}
            /\ {m} \in SUBSET {q \in Available : chain.state[q] = "failure"}
            /\ \A q \in {} : chain.state[q] = "none"
        BY <2>1, <2>4
      <3> QED BY <2>4, <3>1, LaneAttempt
    <2> QED BY <1>5, <2>3, <2>4 DEF ManuallyExecute
  <1>6. ASSUME \/ Stabilize \/ Round
               \/ \E o \in Honest : Restart(o) \/ \E m \in Messages : ExpireInflight(o, m)
               \/ \E report \in DOMAIN reports :
                     \/ ShouldAcceptAttestedReport(report) \/ ShouldTransmitAcceptedReport(report)
                     \/ Lose(report) \/ ByzantineTransmit(report)
               \/ UNCHANGED vars
        PROVE  UNCHANGED chain
    <2>1. Stabilize => UNCHANGED chain BY DEF Stabilize
    <2>2. GetCommitReports => UNCHANGED chain BY DEF GetCommitReports
    <2>3. GetMessages => UNCHANGED chain BY DEF GetMessages
    <2>4. Filter => UNCHANGED chain BY DEF Filter
    <2>5. ASSUME NEW o \in Honest, NEW m \in Messages, Restart(o) \/ ExpireInflight(o, m)
          PROVE  UNCHANGED chain
      BY <2>5 DEF Restart, ExpireInflight
    <2>6. ASSUME NEW o \in Honest, Restart(o) PROVE UNCHANGED chain
      BY <2>6 DEF Restart
    <2>7. ASSUME NEW report \in DOMAIN reports,
                 \/ ShouldAcceptAttestedReport(report) \/ ShouldTransmitAcceptedReport(report)
                 \/ Lose(report) \/ ByzantineTransmit(report)
          PROVE  UNCHANGED chain
      BY <2>7 DEF ShouldAcceptAttestedReport, ShouldTransmitAcceptedReport, Lose,
                  ByzantineTransmit, Decided
    <2>8. UNCHANGED vars => UNCHANGED chain BY DEF vars
    <2> QED BY <1>6, <2>1, <2>2, <2>3, <2>4, <2>5, <2>6, <2>7, <2>8 DEF Round
  <1> QED BY <1>1, <1>2, <1>3, <1>4, <1>5, <1>6 DEF Next

LEMMA ChainInit == Init => ChainInv /\ Lane!LaneInit
  <1> SUFFICES ASSUME Init PROVE ChainInv /\ Lane!LaneInit OBVIOUS
  <1>1. /\ chain.committed = {} /\ chain.state = [m \in Messages |-> "none"]
        /\ chain.deliveries = [m \in Messages |-> 0] /\ chain \in Chains
    BY DEF Init, Chains, States
  <1> QED BY <1>1 DEF ChainInv, DeliveredOnce, Lane!LaneInit, Available

\* Execute implements ExecuteLane: whatever the oracles agree on, sign and
\* transmit, however late and often, the destination attempts only messages
\* under a committed root and delivers none of them twice. It rests on the
\* state of a message that execute.rs checks before each attempt, and on no
\* bound on the Byzantine oracles.
THEOREM LaneImplemented == Spec => ImplementsLane
  <1>1. Init => ChainInv /\ Lane!LaneInit BY ChainInit
  <1>2. ChainInv /\ [Next]_vars => ChainInv' /\ [Lane!LaneNext]_(Lane!laneVars)
    BY LaneStep
  <1> QED BY <1>1, <1>2, PTL DEF Spec, ImplementsLane, Lane!LaneSpec

-----------------------------------------------------------------------------
(* Agreement.                                                              *)

\* Fewer than threshold observations of the Byzantine oracles alone make no
\* agreement.
LEMMA AgreementNeedsHonest ==
    ASSUME NEW least, NEW most, NEW byz \in Nat, NEW threshold \in Nat, byz < threshold,
           NEW S \in Agreements(least, most, byz, threshold), NEW x \in S
    PROVE  \/ x \in DOMAIN least /\ least[x] >= threshold
           \/ x \in DOMAIN most /\ most[x] + byz >= threshold
  BY DEF Agreements

\* A Byzantine minority among the readers of the destination. The votes of a
\* round are counted against f + 1 of the source chain (plugin_functions.go:544),
\* so the destination's own bound must not be above it.
LEMMA FewByzantineReaders ==
    ASSUME NEW obs \in Observers, FDest <= FSource
    PROVE  /\ Cardinality(obs.byz \cap DestReaders) \in Nat
           /\ Cardinality(obs.byz \cap DestReaders) < CommitReportsThreshold
           /\ CommitReportsThreshold \in Nat
           /\ Cardinality(obs.up \cap DestReaders) \in Nat
  <1>1. IsFiniteSet(Oracles) /\ Byzantine \subseteq Oracles /\ FSource \in Nat
        /\ FDest \in Nat /\ Cardinality(Byzantine \cap DestReaders) <= FDest
    BY ExecuteAssumption
  <1>2. obs.byz \subseteq Byzantine /\ obs.up \subseteq Oracles
    <2>1. PICK Q, down : obs = Observing(Q, down) BY DEF Observers
    <2>3. obs.byz = Q \cap Byzantine /\ obs.up = (Q \cap Honest) \ down
      BY <2>1 DEF Observing
    <2> QED BY <2>3 DEF Honest
  <1>3. IsFiniteSet(Byzantine \cap DestReaders) /\ IsFiniteSet(obs.up \cap DestReaders)
    BY <1>1, <1>2, FS_Subset
  <1>4. /\ IsFiniteSet(obs.byz \cap DestReaders)
        /\ Cardinality(obs.byz \cap DestReaders) <= Cardinality(Byzantine \cap DestReaders)
    BY <1>2, <1>3, FS_Subset
  <1>5. /\ Cardinality(obs.byz \cap DestReaders) \in Nat
        /\ Cardinality(Byzantine \cap DestReaders) \in Nat
        /\ Cardinality(obs.up \cap DestReaders) \in Nat
    BY <1>3, <1>4, FS_CardinalityType
  <1> QED BY <1>1, <1>4, <1>5 DEF CommitReportsThreshold, FPlus1

LEMMA AgreedReportsReal ==
    ASSUME NEW n \in Nat, NEW byz \in Nat, NEW threshold \in Nat, byz < threshold,
           NEW executed \in AgreedCommitReports(n, byz, threshold)
    PROVE  /\ DOMAIN executed \subseteq chain.committed
           /\ \A r \in DOMAIN executed : executed[r] \subseteq Attempted
  <1> DEFINE committed(r) == r \in chain.committed
             pending(r) == committed(r) /\ ~chain.cursed /\ ~(Roots[r] \subseteq Attempted)
             done(m) == m \in Attempted
             agreedRoots == Agreements([x \in DOMAIN Roots |-> AtLeast(n, pending(x))],
                                [x \in DOMAIN Roots |-> AtMost(n, committed(x))], byz, threshold)
             agreedDone == Agreements([x \in Messages |-> AtLeast(n, done(x))],
                                [x \in Messages |-> AtMost(n, done(x))], byz, threshold)
  <1>1. PICK roots \in agreedRoots :
           \E E \in agreedDone : executed = [r \in roots |-> E \cap Roots[r]]
    BY DEF AgreedCommitReports
  <1>2. PICK E \in agreedDone : executed = [r \in roots |-> E \cap Roots[r]]
    BY <1>1
  <1>3. roots \subseteq chain.committed
    <2> SUFFICES ASSUME NEW r \in roots PROVE r \in chain.committed OBVIOUS
    <2>1. \/ r \in DOMAIN Roots /\ AtLeast(n, pending(r)) >= threshold
          \/ r \in DOMAIN Roots /\ AtMost(n, committed(r)) + byz >= threshold
      BY <1>1, AgreementNeedsHonest
    <2> QED BY <2>1 DEF AtLeast, AtMost
  <1>4. E \subseteq Attempted
    <2> SUFFICES ASSUME NEW m \in E PROVE m \in Attempted OBVIOUS
    <2>1. \/ m \in Messages /\ AtLeast(n, done(m)) >= threshold
          \/ m \in Messages /\ AtMost(n, done(m)) + byz >= threshold
      BY <1>2, AgreementNeedsHonest
    <2> QED BY <2>1 DEF AtLeast, AtMost
  <1> QED BY <1>2, <1>3, <1>4

\* What is agreed is a subset of the items.
LEMMA AgreementFromItems ==
    ASSUME NEW least, NEW most, NEW byz, NEW threshold,
           NEW S \in Agreements(least, most, byz, threshold)
    PROVE  S \subseteq DOMAIN least \cup DOMAIN most
  BY DEF Agreements

\* The messages round adds nothing to the agreed roots and executed messages.
LEMMA MessagesRoundReal ==
    ASSUME NEW obs, NEW out \in MessagesOutcomes(obs)
    PROVE  /\ DOMAIN out.executed \subseteq DOMAIN outcome.executed
           /\ \A r \in DOMAIN out.executed : out.executed[r] \subseteq outcome.executed[r]
  <1>1. CASE out = Initialized
    BY <1>1 DEF Initialized
  <1>2. CASE \E roots \in AgreedRoots(obs), executed \in AgreedMessages(obs, Listed \ Unexecuted) :
             \E messages, full, late :
                out = MessagesOutcome(roots, executed, messages, full, late)
    <2>1. PICK roots \in AgreedRoots(obs), executed \in AgreedMessages(obs, Listed \ Unexecuted) :
             \E messages, full, late :
                out = MessagesOutcome(roots, executed, messages, full, late)
      BY <1>2
    <2>2. out.executed = [r \in roots |-> executed \cap Roots[r]]
      BY <2>1 DEF Initialized, MessagesOutcome
    <2>3. roots \subseteq DOMAIN outcome.executed
      BY AgreementFromItems DEF AgreedRoots, AgreedBySourceReaders
    <2>4. executed \subseteq Listed \ Unexecuted
      BY AgreementFromItems DEF AgreedMessages, AgreedBySourceReaders
    <2> QED BY <2>2, <2>3, <2>4 DEF Unexecuted
  <1>3. out \in MessagesAgreed(obs) \/ out = Initialized
    BY DEF MessagesOutcomes
  <1> QED BY <1>1, <1>2, <1>3 DEF MessagesAgreed

\* The commit reports round.
LEMMA CommitReportsRoundReal ==
    ASSUME FDest <= FSource, AgreedIsReal, NEW obs \in Observers, NEW out \in CommitReportsOutcomes(obs)
    PROVE  /\ DOMAIN out.executed \subseteq chain.committed
           /\ \A r \in DOMAIN out.executed : out.executed[r] \subseteq Attempted
  <1> DEFINE agreed == AgreedCommitReports(Cardinality(obs.up \cap DestReaders),
                           Cardinality(obs.byz \cap DestReaders), CommitReportsThreshold)
             outOf(executed) ==
                IF DOMAIN executed = {} THEN Initialized
                ELSE [Initialized EXCEPT !.state = "GetCommitReports", !.executed = executed]
  <1>1. CASE out = Initialized BY <1>1 DEF Initialized
  <1>2. CASE out = outcome BY <1>2 DEF AgreedIsReal
  <1>3. ASSUME NEW executed \in agreed, out = outOf(executed), out # Initialized
        PROVE  /\ DOMAIN out.executed \subseteq chain.committed
               /\ \A r \in DOMAIN out.executed : out.executed[r] \subseteq Attempted
    <2>1. /\ DOMAIN executed \subseteq chain.committed
          /\ \A r \in DOMAIN executed : executed[r] \subseteq Attempted
      BY FewByzantineReaders, AgreedReportsReal
    <2>2. out.executed = executed BY <1>3 DEF Initialized
    <2> QED BY <2>1, <2>2
  <1>4. out \in {outOf(executed) : executed \in agreed} \/ out \in {Initialized, outcome}
    BY DEF CommitReportsOutcomes
  <1> HIDE DEF agreed, outOf
  <1> QED BY <1>1, <1>2, <1>3, <1>4

\* What the outcome is compared with only grows.
LEMMA ExecutedGrows ==
    ASSUME chain \in Chains, NEW attempted, NEW failed, NEW retried,
           Executed(attempted, failed, retried)
    PROVE  chain'.committed = chain.committed /\ Attempted \subseteq Attempted'
  <1>1. /\ chain'.committed = chain.committed
        /\ chain'.state = [m \in Messages |-> IF m \in failed THEN "failure"
                              ELSE IF m \in attempted \cup retried THEN "success"
                              ELSE chain.state[m]]
    BY DEF Executed, Chains
  <1> QED BY <1>1 DEF Attempted

LEMMA RoundsStep ==
    ASSUME FDest <= FSource, ChainInv, AgreedIsReal, [Next]_vars
    PROVE  AgreedIsReal'
  <1>0. chain \in Chains BY DEF ChainInv
  <1>1. ASSUME UNCHANGED outcome, chain.committed \subseteq chain'.committed,
               Attempted \subseteq Attempted'
        PROVE  AgreedIsReal'
    BY <1>1 DEF AgreedIsReal
  <1>2. ASSUME UNCHANGED chain, DOMAIN outcome'.executed \subseteq chain.committed,
               \A r \in DOMAIN outcome'.executed : outcome'.executed[r] \subseteq Attempted
        PROVE  AgreedIsReal'
    BY <1>2 DEF AgreedIsReal, Attempted
  <1>3. ASSUME UNCHANGED <<chain, outcome>> PROVE AgreedIsReal'
    BY <1>3 DEF AgreedIsReal, Attempted
  <1>4. ASSUME GetCommitReports PROVE AgreedIsReal'
    <2>1. PICK obs \in Observers : outcome' \in CommitReportsOutcomes(obs)
      <3>1. PICK obs \in Observers :
               \E round \in {<<out, MarkInflight(P)>> : out \in CommitReportsOutcomes(obs),
                                                       P \in Participants(obs.up)} :
                  outcome' = round[1]
        BY <1>4 DEF GetCommitReports
      <3> QED BY <3>1
    <2>2. UNCHANGED chain BY <1>4 DEF GetCommitReports
    <2> QED BY <1>2, <2>1, <2>2, CommitReportsRoundReal
  <1>5. ASSUME GetMessages PROVE AgreedIsReal'
    <2>1. UNCHANGED chain BY <1>5 DEF GetMessages
    <2>2. CASE UNCHANGED outcome BY <1>3, <2>1, <2>2
    <2>3. CASE \E obs \in Observers : outcome' \in MessagesOutcomes(obs)
      <3>1. /\ DOMAIN outcome'.executed \subseteq DOMAIN outcome.executed
            /\ \A r \in DOMAIN outcome'.executed : outcome'.executed[r] \subseteq outcome.executed[r]
        BY <2>3, MessagesRoundReal
      <3> QED BY <1>2, <2>1, <3>1 DEF AgreedIsReal
    <2> QED BY <1>5, <2>2, <2>3 DEF GetMessages
  <1>6. ASSUME Filter PROVE AgreedIsReal'
    <2>1. UNCHANGED chain BY <1>6 DEF Filter
    <2>2. CASE UNCHANGED outcome BY <1>3, <2>1, <2>2
    <2>3. CASE \E nonces : outcome' = FilterOutcome(nonces)
      <3>1. PICK nonces : outcome' = FilterOutcome(nonces) BY <2>3
      <3>2. FilterOutcome(nonces).executed = [r \in {} |-> {}]
        BY DEF FilterOutcome, Initialized
      <3> QED BY <1>2, <2>1, <3>1, <3>2
    <2> QED BY <1>6, <2>2, <2>3 DEF Filter
  <1>7. ASSUME Commit PROVE AgreedIsReal'
    <2>1. PICK r \in DOMAIN Roots : chain' = [chain EXCEPT !.committed = @ \cup {r}]
      BY <1>7 DEF Commit
    <2>2. chain'.committed = chain.committed \cup {r} /\ chain'.state = chain.state
      BY <1>0, <2>1 DEF Chains
    <2>3. UNCHANGED outcome BY <1>7 DEF Commit
    <2> QED BY <1>1, <2>2, <2>3 DEF Attempted
  <1>8. ASSUME Curse PROVE AgreedIsReal'
    <2>1. chain' = [chain EXCEPT !.cursed = ~@] /\ UNCHANGED outcome BY <1>8 DEF Curse
    <2>2. chain'.committed = chain.committed /\ chain'.state = chain.state
      BY <1>0, <2>1 DEF Chains
    <2> QED BY <1>1, <2>1, <2>2 DEF Attempted
  <1>9. ASSUME NEW report \in DOMAIN reports, Land(report) PROVE AgreedIsReal'
    <2>1. UNCHANGED outcome BY <1>9 DEF Land
    <2>2. UNCHANGED chain \/ \E attempted, failed, retried : Executed(attempted, failed, retried)
      BY <1>9 DEF Land
    <2> QED BY <1>0, <1>1, <1>3, <2>1, <2>2, ExecutedGrows
  <1>10. ASSUME NEW m \in Messages, ManuallyExecute(m) PROVE AgreedIsReal'
    <2>1. UNCHANGED outcome BY <1>10 DEF ManuallyExecute
    <2>2. Executed({m}, {}, {}) \/ Executed({}, {}, {m}) BY <1>10 DEF ManuallyExecute
    <2> QED BY <1>0, <1>1, <2>1, <2>2, ExecutedGrows
  <1>11. ASSUME Stabilize \/ UNCHANGED vars PROVE AgreedIsReal'
    BY <1>3, <1>11 DEF Stabilize, vars
  <1>12. ASSUME NEW o \in Honest, Restart(o) \/ \E m \in Messages : ExpireInflight(o, m)
         PROVE  AgreedIsReal'
    BY <1>3, <1>12 DEF Restart, ExpireInflight
  <1>13. ASSUME NEW report \in DOMAIN reports,
                \/ ShouldAcceptAttestedReport(report) \/ ShouldTransmitAcceptedReport(report)
                \/ Lose(report) \/ ByzantineTransmit(report)
         PROVE  AgreedIsReal'
    BY <1>3, <1>13 DEF ShouldAcceptAttestedReport, ShouldTransmitAcceptedReport, Lose,
                       ByzantineTransmit, Decided
  <1> QED BY <1>4, <1>5, <1>6, <1>7, <1>8, <1>9, <1>10, <1>11, <1>12, <1>13 DEF Next, Round

\* Where the destination's fault bound is not above the source's, the rounds
\* agree only on roots that were committed and on executions that happened,
\* whatever the Byzantine oracles observe and however old the honest reads are.
THEOREM RoundsAgreeOnFacts ==
    ASSUME FDest <= FSource
    PROVE  Spec => []AgreedIsReal
  <1>1. Init => ChainInv /\ AgreedIsReal
    <2>1. Init => ChainInv BY ChainInit
    <2>2. Init => AgreedIsReal BY DEF Init, Initialized, AgreedIsReal
    <2> QED BY <2>1, <2>2
  <1>2. ChainInv /\ AgreedIsReal /\ [Next]_vars => (ChainInv /\ AgreedIsReal)'
    BY LaneStep, RoundsStep
  <1> QED BY <1>1, <1>2, PTL DEF Spec

-----------------------------------------------------------------------------
(* Filter: what the reports are made of.                                   *)

LEMMA NoncesTyped ==
    ASSUME NEW obs, NEW nonces \in AgreedNonces(obs)
    PROVE  nonces \in [DOMAIN nonces -> Nat]
  <1> DEFINE near(s) == NoncesAgreed(Cardinality(obs.up \cap DestReaders),
                                     IF stable THEN chain.nonce[s] ELSE 0, chain.nonce[s],
                                     Cardinality(obs.byz \cap DestReaders))
             agreed == {s \in {Sender[m] : m \in outcome.full} : near(s) # {}}
  <1>1. PICK choice \in {c \in [agreed -> UNION {near(s) : s \in agreed}] :
                            \A s \in agreed : c[s] \in near(s)} :
           nonces = [k \in {"source"} \X agreed |-> choice[k[2]]]
    BY DEF AgreedNonces
  <1>2. \A s \in agreed : choice[s] \in near(s) BY <1>1
  <1>3. \A s : near(s) \subseteq Nat
    <2>1. Cardinality(Messages) \in Nat BY ExecuteAssumption, FS_CardinalityType
    <2>2. 0..(Cardinality(Messages) + 1) \subseteq Nat BY <2>1
    <2> QED BY <2>2 DEF NoncesAgreed
  <1> HIDE DEF near, agreed
  <1>4. \A k \in {"source"} \X agreed : k[2] \in agreed OBVIOUS
  <1>5. \A k \in {"source"} \X agreed : choice[k[2]] \in Nat BY <1>2, <1>3, <1>4
  <1> QED BY <1>1, <1>5

\* What the rounds hand to the report builder.
OutcomeOK ==
    /\ DOMAIN outcome.executed \subseteq DOMAIN Roots
    /\ \A r \in DOMAIN outcome.executed : outcome.executed[r] \subseteq Roots[r]
    /\ outcome.ready \subseteq outcome.full /\ outcome.full \subseteq outcome.messages
    /\ outcome.messages \subseteq Messages

LEMMA MessagesFinite ==
    ASSUME NEW S \in SUBSET Messages
    PROVE  S \in SUBSET Nat /\ IsFiniteSet(S)
  <1>1. Messages \subseteq Nat BY ExecuteAssumption DEF Messages
  <1>2. IsFiniteSet(S) BY ExecuteAssumption, FS_Subset
  <1> QED BY <1>1, <1>2

\* Message i of the commit report of root r is one of the agreed messages
\* under r, and is deleted unless it is among the full ones.
LEMMA CommitReportOf ==
    ASSUME OutcomeOK, NEW r \in DOMAIN outcome.executed
    PROVE  /\ CommitReport(r) \in CommitData({"source"}, Senders)
           /\ \A i \in 1..Len(CommitReport(r).messages) :
                 /\ CommitReport(r).messages[i].seqNum \in Roots[r] \cap outcome.messages
                 /\ CommitReport(r).messages[i].seqNum \notin outcome.full =>
                       CommitReport(r).messages[i].deleted
  <1> DEFINE S == Roots[r] \cap outcome.messages
             msgs == Ascending(S)
             msg(i) == [seqNum |-> msgs[i], sender |-> Sender[msgs[i]], nonce |-> Nonce[msgs[i]],
                        cost |-> Cost[msgs[i]], deleted |-> msgs[i] \notin outcome.full,
                        tokenReady |-> msgs[i] \in outcome.ready]
             c == CommitReport(r)
  <1>1. S \in SUBSET Messages /\ S \subseteq Roots[r] BY DEF OutcomeOK
  <1>2. S \in SUBSET Nat /\ IsFiniteSet(S) BY <1>1, MessagesFinite
  <1> HIDE DEF S
  <1>3. Cardinality(S) \in Nat /\ msgs \in [1..Cardinality(S) -> S] BY <1>2, AscendingIs
  <1>4. PICK n \in Nat : n = Cardinality(S) BY <1>3
  <1>5. c = [chain |-> "source", executed |-> outcome.executed[r],
             complete |-> Roots[r] \subseteq outcome.messages,
             messages |-> [i \in DOMAIN msgs |-> msg(i)]]
    BY DEF CommitReport, S
  <1>6. /\ c.chain = "source" /\ c.executed = outcome.executed[r]
        /\ c.complete = (Roots[r] \subseteq outcome.messages)
        /\ c.messages = [i \in DOMAIN msgs |-> msg(i)]
        /\ c = [chain |-> c.chain, messages |-> c.messages, executed |-> c.executed,
                complete |-> c.complete]
    BY <1>5
  <1> HIDE DEF c, msgs
  <1>7. DOMAIN msgs = 1..n /\ \A i \in 1..n : msgs[i] \in S BY <1>3, <1>4
  <1>8. ASSUME NEW i \in 1..n PROVE msg(i) \in Message(Senders)
    <2>1. PICK m \in Messages : m = msgs[i] BY <1>1, <1>7
    <2>2. /\ m \in Nat /\ Sender[m] \in Senders /\ Nonce[m] \in Nat /\ Cost[m] \in Nat
      BY <1>1, <1>2, <1>7, <2>1, ExecuteAssumption DEF Senders
    <2> QED BY <2>1, <2>2 DEF Message
  <1>9. c.messages = [i \in 1..n |-> msg(i)] BY <1>6, <1>7
  <1>10. c.messages \in Seq(Message(Senders)) /\ Len(c.messages) = n BY <1>8, <1>9
  <1>11. outcome.executed[r] \in SUBSET Nat
    <2>1. outcome.executed[r] \subseteq Roots[r] /\ r \in DOMAIN Roots BY DEF OutcomeOK
    <2>2. Roots[r] \subseteq Nat BY <2>1, ExecuteAssumption
    <2> QED BY <2>1, <2>2
  <1>12. c \in CommitData({"source"}, Senders) BY <1>6, <1>10, <1>11 DEF CommitData
  <1>13. ASSUME NEW i \in 1..n
         PROVE  /\ c.messages[i].seqNum = msgs[i]
                /\ c.messages[i].deleted = (msgs[i] \notin outcome.full)
    <2>1. c.messages[i] = msg(i) BY <1>9
    <2> QED BY <2>1
  <1>14. \A i \in 1..n : /\ c.messages[i].seqNum \in S
                         /\ c.messages[i].seqNum \notin outcome.full => c.messages[i].deleted
    BY <1>7, <1>13
  <1> QED BY <1>10, <1>12, <1>14 DEF c, S

LEMMA CommitReportsTyped ==
    ASSUME OutcomeOK
    PROVE  /\ CommitReports \in Seq(CommitData({"source"}, Senders))
           /\ \A d \in Offered(CommitReports) : \E r \in DOMAIN outcome.executed : d = CommitReport(r)
  <1> DEFINE S == DOMAIN outcome.executed
             roots == Ascending(S)
  <1>1. S \subseteq DOMAIN Roots BY DEF OutcomeOK
  <1>2. PICK N \in Nat : N = Len(Roots) /\ DOMAIN Roots = 1..N BY ExecuteAssumption
  <1>3. IsFiniteSet(1..N) BY FS_Interval
  <1>4. S \in SUBSET Nat /\ IsFiniteSet(S)
    <2>1. S \subseteq 1..N BY <1>1, <1>2
    <2> HIDE DEF S
    <2>2. IsFiniteSet(S) BY <1>3, <2>1, FS_Subset
    <2>3. 1..N \subseteq Nat OBVIOUS
    <2> QED BY <2>1, <2>2, <2>3
  <1>5. CommitReports = [i \in DOMAIN roots |-> CommitReport(roots[i])] BY DEF CommitReports
  <1>6. \A r \in S : CommitReport(r) \in CommitData({"source"}, Senders) BY CommitReportOf
  <1> HIDE DEF S
  <1>7. Cardinality(S) \in Nat /\ roots \in [1..Cardinality(S) -> S] BY <1>4, AscendingIs
  <1> HIDE DEF roots
  <1>8. PICK n \in Nat : n = Cardinality(S) BY <1>7
  <1>9. CommitReports = [i \in 1..n |-> CommitReport(roots[i])] /\ \A i \in 1..n : roots[i] \in S
    BY <1>5, <1>7, <1>8
  <1>10. CommitReports \in Seq(CommitData({"source"}, Senders)) /\ Len(CommitReports) = n
    BY <1>6, <1>9
  <1>11. ASSUME NEW d \in Offered(CommitReports) PROVE \E r \in S : d = CommitReport(r)
    <2>1. PICK i \in 1..n : d = CommitReports[i] BY <1>10 DEF Offered
    <2> QED BY <1>9, <2>1
  <1> QED BY <1>10, <1>11 DEF S

\* Every message of a report was agreed on in full, under an agreed root.
LEMMA FilterSelects ==
    ASSUME OutcomeOK, NEW nonces, nonces \in [DOMAIN nonces -> Nat],
           NEW out, out = FilterOutcome(nonces), NEW i \in DOMAIN out.reports,
           NEW m \in Included(out.reports[i])
    PROVE  m \in outcome.full /\ \E r \in DOMAIN outcome.executed : m \in Roots[r]
  <1> DEFINE selected == selectReports(BuilderSettings, nonces, CommitReports)
             numbers == [a \in DOMAIN selected |-> [j \in DOMAIN selected[a] |->
                           [k \in DOMAIN selected[a][j].messages |->
                               selected[a][j].messages[k].seqNum]]]
  <1>1. BuilderSettings \in BuilderSetting BY ExecuteAssumption
  <1>2. /\ selected \in Seq(Seq(ChainReport({"source"}, Senders)))
        /\ Sourced(Offered(CommitReports), selected)
    BY <1>1, CommitReportsTyped, SelectedReports
  <1>3. out = IF selected[1] = <<>> THEN Initialized
              ELSE [Initialized EXCEPT !.state = "Filter", !.reports = numbers]
    BY DEF FilterOutcome
  <1> HIDE DEF selected
  <1>4. out.reports = <<>> \/ out.reports = numbers BY <1>3 DEF Initialized
  <1>5. DOMAIN <<>> = {} OBVIOUS
  <1>6. out.reports = numbers BY <1>4, <1>5
  <1>7. i \in DOMAIN selected BY <1>6
  <1>8. out.reports[i] = [j \in DOMAIN selected[i] |-> [k \in DOMAIN selected[i][j].messages |->
                               selected[i][j].messages[k].seqNum]]
    BY <1>6, <1>7
  <1>9. PICK j \in DOMAIN out.reports[i] :
           m \in {out.reports[i][j][k] : k \in DOMAIN out.reports[i][j]}
    <2>1. PICK j \in DOMAIN out.reports[i] : m \in {out.reports[i][j][k] : k \in DOMAIN out.reports[i][j]}
      BY DEF Included
    <2> QED BY <2>1
  <1>10. j \in DOMAIN selected[i]
         /\ out.reports[i][j] = [k \in DOMAIN selected[i][j].messages |->
                                    selected[i][j].messages[k].seqNum]
    BY <1>8
  <1>11. PICK k \in DOMAIN selected[i][j].messages : m = selected[i][j].messages[k].seqNum
    <2>1. PICK k \in DOMAIN out.reports[i][j] : m = out.reports[i][j][k] BY <1>9
    <2> QED BY <1>10, <2>1
  <1>12. PICK p : p = <<i, j, k>> OBVIOUS
  <1>13. p[1] = i /\ p[2] = j /\ p[3] = k /\ p = <<p[1], p[2], p[3]>> BY <1>12
  <1>14. p \in Places(selected) /\ MessageAt(selected, p).seqNum = m
    BY <1>7, <1>10, <1>11, <1>13, PlaceIntro DEF MessageAt
  <1>15. PICK d \in Offered(CommitReports) : \E h \in 1..Len(d.messages) :
            FromReport(selected, p, d, h)
    BY <1>2, <1>14 DEF Sourced
  <1>16. PICK h \in 1..Len(d.messages) : FromReport(selected, p, d, h) BY <1>15
  <1>17. d.messages[h].seqNum = m /\ ~d.messages[h].deleted
    BY <1>14, <1>16 DEF FromReport, Passable
  <1>18. PICK r \in DOMAIN outcome.executed : d = CommitReport(r) BY CommitReportsTyped
  <1>19. /\ d.messages[h].seqNum \in Roots[r] \cap outcome.messages
         /\ d.messages[h].seqNum \notin outcome.full => d.messages[h].deleted
    BY <1>16, <1>18, CommitReportOf
  <1> QED BY <1>17, <1>19

-----------------------------------------------------------------------------
(* The types, and what is signed.                                          *)

OutcomeStates == {"Initialized", "GetCommitReports", "GetMessages", "Filter"}

\* An outcome of the rounds. Its reports are marked in flight in the round
\* behind it, which is why their messages count for the type of the caches.
Known(out) ==
    /\ out.state \in OutcomeStates
    /\ DOMAIN out.executed \subseteq DOMAIN Roots
    /\ \A r \in DOMAIN out.executed : out.executed[r] \subseteq Roots[r]
    /\ out.ready \subseteq out.full /\ out.full \subseteq out.messages
    /\ out.messages \subseteq Messages
    /\ \A i \in DOMAIN out.reports : Included(out.reports[i]) \subseteq Messages

InflightKnown == inflight \in [Honest -> SUBSET Messages]

ReportsKnown ==
    \A report \in DOMAIN reports :
        /\ Included(report) \subseteq Messages
        /\ reports[report] \in {"attested", "accepted", "submitted", "closed"}

RoundsInv == InflightKnown /\ Known(outcome) /\ ReportsKnown /\ stable \in BOOLEAN

LEMMA InitializedKnown == Known(Initialized)
  <1>1. DOMAIN <<>> = {} /\ DOMAIN [r \in {} |-> {}] = {} OBVIOUS
  <1> QED BY <1>1 DEF Known, Initialized, OutcomeStates

LEMMA CommitReportsKnown ==
    ASSUME Known(outcome), NEW obs, NEW out \in CommitReportsOutcomes(obs)
    PROVE  Known(out) /\ (outcome.state # "GetMessages" => out.state # "GetMessages")
  <1> DEFINE agreed == AgreedCommitReports(Cardinality(obs.up \cap DestReaders),
                           Cardinality(obs.byz \cap DestReaders), CommitReportsThreshold)
             outOf(executed) ==
                IF DOMAIN executed = {} THEN Initialized
                ELSE [Initialized EXCEPT !.state = "GetCommitReports", !.executed = executed]
  <1>1. Initialized.state = "Initialized" BY DEF Initialized
  <1>2. CASE out = Initialized BY <1>1, <1>2, InitializedKnown
  <1>3. CASE out = outcome BY <1>3
  <1>4. ASSUME NEW executed \in agreed, out = outOf(executed), out # Initialized
        PROVE  Known(out) /\ out.state # "GetMessages"
    <2>1. /\ out.state = "GetCommitReports" /\ out.executed = executed
          /\ out.messages = {} /\ out.full = {} /\ out.ready = {} /\ out.reports = <<>>
      BY <1>4 DEF Initialized
    <2>2. PICK n, b, t : executed \in AgreedCommitReports(n, b, t) OBVIOUS
    <2>3. DOMAIN executed \subseteq DOMAIN Roots
          /\ \A r \in DOMAIN executed : executed[r] \subseteq Roots[r]
      <3> DEFINE committed(r) == r \in chain.committed
                 pending(r) == committed(r) /\ ~chain.cursed /\ ~(Roots[r] \subseteq Attempted)
                 agreedRoots == Agreements([x \in DOMAIN Roots |-> AtLeast(n, pending(x))],
                                    [x \in DOMAIN Roots |-> AtMost(n, committed(x))], b, t)
                 done(m) == m \in Attempted
                 agreedDone == Agreements([x \in Messages |-> AtLeast(n, done(x))],
                                    [x \in Messages |-> AtMost(n, done(x))], b, t)
      <3>1. PICK roots \in agreedRoots :
               \E S \in agreedDone : executed = [r \in roots |-> S \cap Roots[r]]
        BY <2>2 DEF AgreedCommitReports
      <3>2. roots \subseteq DOMAIN Roots BY <3>1, AgreementFromItems
      <3> HIDE DEF agreedDone
      <3> QED BY <3>1, <3>2
    <2>4. DOMAIN <<>> = {} OBVIOUS
    <2> QED BY <2>1, <2>3, <2>4 DEF Known, OutcomeStates
  <1>5. out \in {outOf(executed) : executed \in agreed} \/ out \in {Initialized, outcome}
    BY DEF CommitReportsOutcomes
  <1> HIDE DEF agreed, outOf
  <1> QED BY <1>2, <1>3, <1>4, <1>5

\* The parts of an outcome of the messages round.
LEMMA MessagesOutcomeIs ==
    ASSUME NEW obs, NEW out \in MessagesOutcomes(obs), out # Initialized
    PROVE  /\ out.state = "GetMessages" /\ out.reports = <<>>
           /\ out.messages \subseteq Listed /\ out.full \in AgreedFull(obs)
           /\ out.ready \subseteq out.full
           /\ DOMAIN out.executed \subseteq DOMAIN outcome.executed
           /\ \A r \in DOMAIN out.executed : out.executed[r] \subseteq Roots[r]
  <1>1. out \in MessagesAgreed(obs) BY DEF MessagesOutcomes
  <1>2. PICK roots \in AgreedRoots(obs), messages \in AgreedMessages(obs, Listed),
             full \in AgreedFull(obs) :
           \E executed, late : out = MessagesOutcome(roots, executed, messages, full, late)
    BY <1>1 DEF MessagesAgreed
  <1>3. PICK executed, late : out = MessagesOutcome(roots, executed, messages, full, late)
    BY <1>2
  <1>4. /\ out.state = "GetMessages" /\ out.executed = [r \in roots |-> executed \cap Roots[r]]
        /\ out.messages = messages /\ out.full = full /\ out.ready = full \ late
        /\ out.reports = <<>>
    BY <1>3 DEF Initialized, MessagesOutcome
  <1>5. roots \subseteq DOMAIN outcome.executed
    BY AgreementFromItems DEF AgreedRoots, AgreedBySourceReaders
  <1>6. messages \subseteq Listed
    BY AgreementFromItems DEF AgreedMessages, AgreedBySourceReaders
  <1> QED BY <1>2, <1>4, <1>5, <1>6

LEMMA MessagesKnown ==
    ASSUME Known(outcome), NEW obs, NEW out \in MessagesOutcomes(obs),
           out.full \subseteq out.messages
    PROVE  Known(out)
  <1>1. CASE out = Initialized BY <1>1, InitializedKnown
  <1>2. CASE out # Initialized
    <2>1. Listed \subseteq Messages BY DEF Listed, Messages, Known
    <2>2. DOMAIN <<>> = {} OBVIOUS
    <2>3. out.state \in OutcomeStates BY <1>2, MessagesOutcomeIs DEF OutcomeStates
    <2>4. \A i \in DOMAIN out.reports : Included(out.reports[i]) \subseteq Messages
      BY <1>2, <2>2, MessagesOutcomeIs
    <2> QED BY <1>2, <2>1, <2>3, <2>4, MessagesOutcomeIs DEF Known
  <1> QED BY <1>1, <1>2

LEMMA FilterKnown ==
    ASSUME Known(outcome), NEW nonces, nonces \in [DOMAIN nonces -> Nat]
    PROVE  Known(FilterOutcome(nonces)) /\ FilterOutcome(nonces).state # "GetMessages"
  <1> DEFINE out == FilterOutcome(nonces)
  <1>1. OutcomeOK BY DEF Known, OutcomeOK
  <1>2. /\ out.state \in {"Initialized", "Filter"} /\ out.executed = [r \in {} |-> {}]
        /\ out.messages = {} /\ out.full = {} /\ out.ready = {}
    BY DEF FilterOutcome, Initialized
  <1>3. \A i \in DOMAIN out.reports : \A m \in Included(out.reports[i]) : m \in outcome.full
    BY <1>1, FilterSelects
  <1>4. outcome.full \subseteq Messages BY DEF Known
  <1>5. DOMAIN [r \in {} |-> {}] = {} OBVIOUS
  <1> HIDE DEF out
  <1>6. \A i \in DOMAIN out.reports : Included(out.reports[i]) \subseteq Messages BY <1>3, <1>4
  <1>7. out.state \in OutcomeStates /\ out.state # "GetMessages" BY <1>2 DEF OutcomeStates
  <1>8. Known(out) BY <1>2, <1>5, <1>6, <1>7 DEF Known
  <1> QED BY <1>7, <1>8 DEF out

\* A signed report is one of the outcome's or was signed before.
LEMMA FilterSigns ==
    ASSUME Known(outcome), Filter
    PROVE  /\ Known(outcome') /\ (UNCHANGED outcome \/ outcome'.state # "GetMessages")
           /\ \A i \in DOMAIN outcome'.reports : \A m \in Included(outcome'.reports[i]) :
                 outcome'.state = "Filter" =>
                    m \in outcome.full /\ \E r \in DOMAIN outcome.executed : m \in Roots[r]
           /\ \A report \in DOMAIN reports' :
                 \/ report \in DOMAIN reports /\ reports'[report] = reports[report]
                 \/ /\ reports'[report] = "attested"
                    /\ \A m \in Included(report) :
                          m \in outcome.full /\ \E r \in DOMAIN outcome.executed : m \in Roots[r]
  <1>0. outcome.state = "GetMessages" BY DEF Filter
  <1>1. OutcomeOK BY DEF Known, OutcomeOK
  <1>2. UNCHANGED outcome \/ \E nonces : nonces \in [DOMAIN nonces -> Nat]
                                         /\ outcome' = FilterOutcome(nonces)
    <2>1. UNCHANGED outcome \/ \E nonces \in UNION {AgreedNonces(obs) : obs \in Observers} :
                                  outcome' = FilterOutcome(nonces)
      BY DEF Filter
    <2> QED BY <2>1, NoncesTyped
  <1>3. CASE UNCHANGED outcome
    <2>1. outcome'.state # "Filter" /\ Known(outcome') BY <1>0, <1>3 DEF Known
    <2>2. reports' = reports BY <2>1 DEF Filter
    <2> QED BY <1>3, <2>1, <2>2
  <1>4. ASSUME NEW nonces, nonces \in [DOMAIN nonces -> Nat], outcome' = FilterOutcome(nonces)
        PROVE  /\ Known(outcome') /\ outcome'.state # "GetMessages"
               /\ \A i \in DOMAIN outcome'.reports : \A m \in Included(outcome'.reports[i]) :
                     m \in outcome.full /\ \E r \in DOMAIN outcome.executed : m \in Roots[r]
    BY <1>1, <1>4, FilterKnown, FilterSelects
  <1>5. CASE outcome'.state # "Filter"
    <2>1. reports' = reports BY <1>5 DEF Filter
    <2> QED BY <1>2, <1>3, <1>4, <1>5, <2>1
  <1>6. CASE outcome'.state = "Filter"
    <2> DEFINE new == {outcome'.reports[i] : i \in DOMAIN outcome'.reports}
    <2>1. reports' = [r \in DOMAIN reports \cup new |->
                         IF r \in DOMAIN reports /\ (r \in new => reports[r] # "closed")
                         THEN reports[r] ELSE "attested"]
      BY <1>6 DEF Filter
    <2>2. \A report \in new : \A m \in Included(report) :
             m \in outcome.full /\ \E r \in DOMAIN outcome.executed : m \in Roots[r]
      BY <1>0, <1>2, <1>4, <1>6
    <2>3. ASSUME NEW report \in DOMAIN reports'
          PROVE \/ report \in DOMAIN reports /\ reports'[report] = reports[report]
                \/ report \in new /\ reports'[report] = "attested"
      BY <2>1
    <2> HIDE DEF new
    <2> QED BY <1>0, <1>2, <1>4, <1>6, <2>2, <2>3
  <1> QED BY <1>5, <1>6

\* A step that is no round changes neither the outcome nor, other than by
\* taking away from the caches, the messages in flight.
NoRound ==
    /\ UNCHANGED outcome
    /\ InflightKnown => InflightKnown' /\ \A o \in Honest : inflight'[o] \subseteq inflight[o]
    /\ \A report \in DOMAIN reports' :
          /\ report \in DOMAIN reports
          /\ reports'[report] \in {reports[report], "accepted", "submitted", "closed"}
    /\ stable' \in {stable, TRUE}

LEMMA OtherSteps ==
    ASSUME [Next]_vars, ~Round
    PROVE  NoRound
  <1>1. ASSUME UNCHANGED <<inflight, outcome, reports, stable>> PROVE NoRound
    BY <1>1 DEF NoRound, InflightKnown
  <1>2. ASSUME Stabilize PROVE NoRound
    BY <1>2 DEF Stabilize, NoRound, InflightKnown
  <1>3. ASSUME NEW o \in Honest, NEW m, ExpireInflight(o, m) PROVE NoRound
    <2>1. inflight' = [inflight EXCEPT ![o] = @ \ {m}] BY <1>3 DEF ExpireInflight
    <2>2. InflightKnown => InflightKnown' /\ \A a \in Honest : inflight'[a] \subseteq inflight[a]
      BY <2>1 DEF InflightKnown
    <2> QED BY <1>3, <2>2 DEF ExpireInflight, NoRound
  <1>4. ASSUME NEW o \in Honest, Restart(o) PROVE NoRound
    <2>1. inflight' = [inflight EXCEPT ![o] = {}] BY <1>4 DEF Restart
    <2>2. InflightKnown => InflightKnown' /\ \A a \in Honest : inflight'[a] \subseteq inflight[a]
      BY <2>1 DEF InflightKnown
    <2> QED BY <1>4, <2>2 DEF Restart, NoRound
  <1>5. ASSUME NEW report \in DOMAIN reports, NEW status \in {"accepted", "submitted", "closed"},
               reports' = [reports EXCEPT ![report] = status],
               UNCHANGED <<inflight, outcome, stable>>
        PROVE  NoRound
    <2>1. \A q \in DOMAIN reports' :
             /\ q \in DOMAIN reports
             /\ reports'[q] \in {reports[q], "accepted", "submitted", "closed"}
      BY <1>5
    <2> QED BY <1>5, <2>1 DEF NoRound, InflightKnown
  <1>6. ASSUME NEW report \in DOMAIN reports, ShouldAcceptAttestedReport(report) PROVE NoRound
    BY <1>5, <1>6 DEF ShouldAcceptAttestedReport, Decided
  <1>7. ASSUME NEW report \in DOMAIN reports, ShouldTransmitAcceptedReport(report) PROVE NoRound
    BY <1>5, <1>7 DEF ShouldTransmitAcceptedReport, Decided
  <1>8. ASSUME NEW report \in DOMAIN reports, Lose(report) \/ ByzantineTransmit(report)
        PROVE  NoRound
    BY <1>5, <1>8 DEF Lose, ByzantineTransmit, Decided
  <1>9. ASSUME NEW report \in DOMAIN reports, Land(report) PROVE NoRound
    BY <1>5, <1>9 DEF Land
  <1>10. ASSUME Commit \/ Curse \/ UNCHANGED vars \/ \E m \in Messages : ManuallyExecute(m)
         PROVE  NoRound
    BY <1>1, <1>10 DEF Commit, Curse, vars, ManuallyExecute
  <1> QED BY <1>2, <1>3, <1>4, <1>6, <1>7, <1>8, <1>9, <1>10 DEF Next

\* The round of commit reports, which marks the reports of the last outcome.
LEMMA GetCommitReportsIs ==
    ASSUME RoundsInv, GetCommitReports
    PROVE  InflightKnown' /\ Known(outcome') /\ outcome'.state # "GetMessages"
  <1>1. outcome.state # "GetMessages" BY DEF GetCommitReports
  <1>2. PICK obs \in Observers :
           \E out \in CommitReportsOutcomes(obs), P \in Participants(obs.up) :
              outcome' = out /\ inflight' = MarkInflight(P)
    <2>1. PICK obs \in Observers :
             \E round \in {<<out, MarkInflight(P)>> : out \in CommitReportsOutcomes(obs),
                                                     P \in Participants(obs.up)} :
                outcome' = round[1] /\ inflight' = round[2]
      BY DEF GetCommitReports
    <2> QED BY <2>1
  <1>3. PICK P : inflight' = MarkInflight(P) BY <1>2
  <1>4. UNION {Included(outcome.reports[i]) : i \in DOMAIN outcome.reports} \subseteq Messages
    BY DEF RoundsInv, Known
  <1>5. InflightKnown'
    BY <1>3, <1>4 DEF MarkInflight, InflightKnown, RoundsInv
  <1>6. Known(outcome') /\ outcome'.state # "GetMessages"
    BY <1>1, <1>2, CommitReportsKnown DEF RoundsInv
  <1> QED BY <1>5, <1>6

LEMMA GetMessagesIs ==
    ASSUME RoundsInv, GetMessages
    PROVE  Known(outcome')
  <1>1. CASE UNCHANGED outcome BY <1>1 DEF RoundsInv, Known
  <1>2. CASE \E obs \in Observers : outcome' \in MessagesOutcomes(obs)
                                    /\ outcome'.full \subseteq outcome'.messages
    BY <1>2, MessagesKnown DEF RoundsInv
  <1> QED BY <1>1, <1>2 DEF GetMessages

LEMMA RoundsTyped ==
    ASSUME RoundsInv, [Next]_vars
    PROVE  RoundsInv'
  <1>1. CASE ~Round
    <2>1. NoRound BY <1>1, OtherSteps
    <2>2. Known(outcome') BY <2>1 DEF NoRound, RoundsInv, Known
    <2>3. ReportsKnown'
      BY <2>1 DEF NoRound, RoundsInv, ReportsKnown
    <2> QED BY <2>1, <2>2, <2>3 DEF NoRound, RoundsInv
  <1>2. CASE GetCommitReports
    <2>1. UNCHANGED <<reports, stable>> BY <1>2 DEF GetCommitReports
    <2>2. ReportsKnown' BY <2>1 DEF RoundsInv, ReportsKnown
    <2> QED BY <1>2, <2>1, <2>2, GetCommitReportsIs DEF RoundsInv
  <1>3. CASE GetMessages
    <2>1. UNCHANGED <<inflight, reports, stable>> BY <1>3 DEF GetMessages
    <2>2. ReportsKnown' /\ InflightKnown' BY <2>1 DEF RoundsInv, ReportsKnown, InflightKnown
    <2> QED BY <1>3, <2>1, <2>2, GetMessagesIs DEF RoundsInv
  <1>4. CASE Filter
    <2>1. UNCHANGED <<inflight, stable>> BY <1>4 DEF Filter
    <2>2. InflightKnown' BY <2>1 DEF RoundsInv, InflightKnown
    <2>3. ReportsKnown'
      <3> SUFFICES ASSUME NEW report \in DOMAIN reports'
                   PROVE  /\ Included(report) \subseteq Messages
                          /\ reports'[report] \in {"attested", "accepted", "submitted", "closed"}
        BY DEF ReportsKnown
      <3>1. outcome.full \subseteq Messages BY DEF RoundsInv, Known
      <3>2. CASE report \in DOMAIN reports /\ reports'[report] = reports[report]
        BY <3>2 DEF RoundsInv, ReportsKnown
      <3>3. CASE reports'[report] = "attested" /\ \A m \in Included(report) : m \in outcome.full
        BY <3>1, <3>3
      <3> QED BY <1>4, <3>2, <3>3, FilterSigns DEF RoundsInv
    <2>4. Known(outcome') BY <1>4, FilterSigns DEF RoundsInv
    <2> QED BY <2>1, <2>2, <2>3, <2>4 DEF RoundsInv
  <1> QED BY <1>1, <1>2, <1>3, <1>4 DEF Round

LEMMA RoundsInit == Init => RoundsInv
  <1> SUFFICES ASSUME Init PROVE RoundsInv OBVIOUS
  <1>1. Known(outcome) BY InitializedKnown DEF Init
  <1>2. DOMAIN reports = {} BY DEF Init
  <1> QED BY <1>1, <1>2 DEF Init, RoundsInv, InflightKnown, ReportsKnown

\* Type correctness: the rounds agree only on known roots and messages, with
\* the full messages among the agreed ones, and only known messages are in
\* flight or in a signed report.
THEOREM ExecuteTyped == Spec => []TypeOK
  <1>1. Init => ChainInv /\ RoundsInv BY ChainInit, RoundsInit
  <1>2. ChainInv /\ RoundsInv /\ [Next]_vars => (ChainInv /\ RoundsInv)'
    BY LaneStep, RoundsTyped
  <1>3. ChainInv /\ RoundsInv => TypeOK
    BY DEF ChainInv, RoundsInv, Known, ReportsKnown, InflightKnown, OutcomeStates, TypeOK
  <1> QED BY <1>1, <1>2, <1>3, PTL DEF Spec

-----------------------------------------------------------------------------
(* What is signed can be executed.                                         *)

LEMMA SignedStep ==
    ASSUME ChainInv, AgreedIsReal, RoundsInv, SignedIsCommitted, [Next]_vars
    PROVE  SignedIsCommitted'
  <1>0. chain \in Chains BY DEF ChainInv
  <1>1. CASE Filter
    <2>1. UNCHANGED chain BY <1>1 DEF Filter
    <2>2. Available' = Available BY <2>1 DEF Available
    <2>3. ASSUME NEW report \in DOMAIN reports' PROVE Included(report) \subseteq Available
      <3>1. CASE report \in DOMAIN reports BY <3>1 DEF SignedIsCommitted
      <3>2. CASE \A m \in Included(report) : \E r \in DOMAIN outcome.executed : m \in Roots[r]
        BY <3>2 DEF AgreedIsReal, Available
      <3> QED BY <1>1, <3>1, <3>2, FilterSigns DEF RoundsInv
    <2> QED BY <2>2, <2>3 DEF SignedIsCommitted
  <1>2. CASE ~Filter
    <2>1. DOMAIN reports' \subseteq DOMAIN reports
      <3>1. CASE Round
        <4>1. GetCommitReports \/ GetMessages BY <1>2, <3>1 DEF Round
        <4>2. GetCommitReports => reports' = reports BY DEF GetCommitReports
        <4>3. GetMessages => reports' = reports BY DEF GetMessages
        <4> QED BY <4>1, <4>2, <4>3
      <3>2. CASE ~Round BY <3>2, OtherSteps DEF NoRound
      <3> QED BY <3>1, <3>2
    <2>2. chain.committed \subseteq chain'.committed
      <3>1. CASE UNCHANGED chain BY <3>1
      <3>2. CASE Commit BY <1>0, <3>2 DEF Commit, Chains
      <3>3. CASE Curse BY <1>0, <3>3 DEF Curse, Chains
      <3>4. CASE \E attempted, failed, retried : Executed(attempted, failed, retried)
        BY <1>0, <3>4, ExecutedGrows
      <3>5. ASSUME NEW report, Land(report)
            PROVE  UNCHANGED chain
                   \/ \E attempted, failed, retried : Executed(attempted, failed, retried)
        BY <3>5 DEF Land
      <3>6. ASSUME NEW m, ManuallyExecute(m)
            PROVE  \E attempted, failed, retried : Executed(attempted, failed, retried)
        BY <3>6 DEF ManuallyExecute
      <3>7. ASSUME NEW o, NEW m, Restart(o) \/ ExpireInflight(o, m) PROVE UNCHANGED chain
        BY <3>7 DEF Restart, ExpireInflight
      <3>8. ASSUME NEW report, ShouldAcceptAttestedReport(report)
                               \/ ShouldTransmitAcceptedReport(report)
                               \/ Lose(report) \/ ByzantineTransmit(report)
            PROVE  UNCHANGED chain
        BY <3>8 DEF ShouldAcceptAttestedReport, ShouldTransmitAcceptedReport, Lose,
                    ByzantineTransmit, Decided
      <3>9. GetCommitReports => UNCHANGED chain BY DEF GetCommitReports
      <3>10. GetMessages => UNCHANGED chain BY DEF GetMessages
      <3>11. Stabilize \/ UNCHANGED vars => UNCHANGED chain BY DEF Stabilize, vars
      <3> QED BY <1>2, <3>1, <3>2, <3>3, <3>4, <3>5, <3>6, <3>7, <3>8, <3>9, <3>10, <3>11
              DEF Next, Round
    <2>3. Available \subseteq Available' BY <2>2 DEF Available
    <2> QED BY <2>1, <2>3 DEF SignedIsCommitted
  <1> QED BY <1>1, <1>2

\* On the same condition a signed report holds only messages under a committed
\* root: the agreement on roots, rounds before it is signed, and the choices of
\* the report builder add nothing the destination would refuse.
THEOREM SignedReportsExecutable ==
    ASSUME FDest <= FSource
    PROVE  Spec => []SignedIsCommitted
  <1>1. Init => ChainInv /\ AgreedIsReal /\ RoundsInv /\ SignedIsCommitted
    <2>1. Init => AgreedIsReal BY DEF Init, Initialized, AgreedIsReal
    <2>2. Init => SignedIsCommitted BY DEF Init, SignedIsCommitted
    <2> QED BY <2>1, <2>2, ChainInit, RoundsInit
  <1>2. ChainInv /\ AgreedIsReal /\ RoundsInv /\ SignedIsCommitted /\ [Next]_vars
           => (ChainInv /\ AgreedIsReal /\ RoundsInv /\ SignedIsCommitted)'
    BY LaneStep, RoundsStep, RoundsTyped, SignedStep
  <1> QED BY <1>1, <1>2, PTL DEF Spec

-----------------------------------------------------------------------------
(* A message is reported again only after it has lapsed.                   *)

\* The honest readers of the source that do not hold m in flight make up, with
\* the Byzantine ones, the f + 1 votes for m in full.
Lapsed(m) ==
    Cardinality({o \in Honest \cap SourceReaders : m \notin inflight[o]})
        >= FPlus1(FSource) - Cardinality(Byzantine \cap SourceReaders)

\* Between the votes and the report the caches only lose messages.
LapseInv == outcome.state = "GetMessages" => \A m \in outcome.full : Lapsed(m)

LEMMA LapsedFinite ==
    ASSUME NEW S, S \subseteq Honest \cap SourceReaders
    PROVE  IsFiniteSet(S) /\ Cardinality(S) \in Nat
  BY ExecuteAssumption, FS_Subset, FS_CardinalityType DEF Honest

LEMMA LapsedStays ==
    ASSUME NEW m, Lapsed(m), \A o \in Honest : inflight'[o] \subseteq inflight[o]
    PROVE  Lapsed(m)'
  <1> DEFINE S == {o \in Honest \cap SourceReaders : m \notin inflight[o]}
             T == {o \in Honest \cap SourceReaders : m \notin inflight'[o]}
  <1>1. S \subseteq T /\ S \subseteq Honest \cap SourceReaders /\ T \subseteq Honest \cap SourceReaders
    OBVIOUS
  <1>2. IsFiniteSet(Byzantine \cap SourceReaders) BY ExecuteAssumption, FS_Subset
  <1>3. PICK b \in Nat : b = Cardinality(Byzantine \cap SourceReaders)
    BY <1>2, FS_CardinalityType
  <1>4. FPlus1(FSource) \in Nat BY ExecuteAssumption DEF FPlus1
  <1>5. Cardinality(S) >= FPlus1(FSource) - b BY <1>3 DEF Lapsed
  <1> HIDE DEF S, T
  <1>6. Cardinality(S) <= Cardinality(T) /\ Cardinality(S) \in Nat /\ Cardinality(T) \in Nat
    BY <1>1, LapsedFinite, FS_Subset
  <1>7. Cardinality(T) >= FPlus1(FSource) - b BY <1>4, <1>5, <1>6
  <1> QED BY <1>3, <1>7 DEF T, Lapsed

\* f + 1 votes for m in full, of which the honest ones are from oracles that do
\* not hold it in flight.
LEMMA FullIsLapsed ==
    ASSUME NEW obs \in Observers, NEW full \in AgreedFull(obs), NEW m \in full
    PROVE  Lapsed(m)
  <1> DEFINE up == obs.up \cap SourceReaders
             Votes(x) == {o \in up : x \in WithinLimit(o)}
             votes == [x \in Listed |-> Cardinality(Votes(x))]
             byz == Cardinality(obs.byz \cap SourceReaders)
             S == {o \in Honest \cap SourceReaders : m \notin inflight[o]}
  <1>1. full \in Agreements(votes, votes, byz, MessagesThreshold)
    BY DEF AgreedFull, AgreedBySourceReaders
  <1>2. obs.byz \subseteq Byzantine /\ obs.up \subseteq Honest
    <2>1. PICK Q, down : obs = Observing(Q, down) BY DEF Observers
    <2>2. obs.byz = Q \cap Byzantine /\ obs.up = (Q \cap Honest) \ down
      BY <2>1 DEF Observing
    <2> QED BY <2>2
  <1>3. Votes(m) \subseteq S /\ S \subseteq Honest \cap SourceReaders
    BY <1>2 DEF WithinLimit, Wanted
  <1>4. IsFiniteSet(Byzantine \cap SourceReaders) BY ExecuteAssumption, FS_Subset
  <1>5. obs.byz \cap SourceReaders \subseteq Byzantine \cap SourceReaders BY <1>2
  <1>6. byz \in Nat /\ byz <= Cardinality(Byzantine \cap SourceReaders)
        /\ Cardinality(Byzantine \cap SourceReaders) \in Nat
    BY <1>4, <1>5, FS_Subset, FS_CardinalityType
  <1> HIDE DEF byz, votes
  <1>7. m \in DOMAIN votes /\ (votes[m] >= MessagesThreshold \/ votes[m] + byz >= MessagesThreshold)
    BY <1>1 DEF Agreements
  <1>8. votes[m] = Cardinality(Votes(m)) BY <1>7 DEF votes
  <1> HIDE DEF Votes, S
  <1>9. votes[m] <= Cardinality(S) /\ votes[m] \in Nat /\ Cardinality(S) \in Nat
    BY <1>3, <1>8, LapsedFinite, FS_Subset
  <1>10. MessagesThreshold = FPlus1(FSource) /\ FPlus1(FSource) \in Nat
    BY ExecuteAssumption DEF MessagesThreshold, FPlus1
  <1>11. Cardinality(S) >= FPlus1(FSource) - Cardinality(Byzantine \cap SourceReaders)
    BY <1>6, <1>7, <1>9, <1>10
  <1> QED BY <1>11 DEF S, Lapsed

LEMMA LapseStep ==
    ASSUME RoundsInv, LapseInv, [Next]_vars
    PROVE  LapseInv'
  <1>1. CASE ~Round
    <2>1. NoRound BY <1>1, OtherSteps
    <2>2. UNCHANGED outcome /\ \A o \in Honest : inflight'[o] \subseteq inflight[o]
      BY <2>1 DEF NoRound, RoundsInv
    <2> QED BY <2>2, LapsedStays DEF LapseInv
  <1>2. CASE GetCommitReports
    BY <1>2, GetCommitReportsIs DEF LapseInv
  <1>3. CASE GetMessages
    <2>1. UNCHANGED inflight /\ outcome.state # "GetMessages" BY <1>3 DEF GetMessages
    <2>2. CASE UNCHANGED outcome BY <2>1, <2>2 DEF LapseInv
    <2>3. ASSUME NEW obs \in Observers, outcome' \in MessagesOutcomes(obs) PROVE LapseInv'
      <3>1. Initialized.state # "GetMessages" BY DEF Initialized
      <3>2. CASE outcome' = Initialized BY <3>1, <3>2 DEF LapseInv
      <3>3. CASE outcome' # Initialized
        <4>1. outcome'.full \in AgreedFull(obs) BY <2>3, <3>3, MessagesOutcomeIs
        <4>2. \A m \in outcome'.full : Lapsed(m) BY <4>1, FullIsLapsed
        <4>3. \A m : Lapsed(m) => Lapsed(m)' BY <2>1 DEF Lapsed
        <4> QED BY <4>2, <4>3 DEF LapseInv
      <3> QED BY <3>2, <3>3
    <2> QED BY <1>3, <2>2, <2>3 DEF GetMessages
  <1>4. CASE Filter
    <2>1. UNCHANGED inflight BY <1>4 DEF Filter
    <2>2. \A m : Lapsed(m) => Lapsed(m)' BY <2>1 DEF Lapsed
    <2>3. UNCHANGED outcome \/ outcome'.state # "GetMessages"
      BY <1>4, FilterSigns DEF RoundsInv
    <2> QED BY <2>2, <2>3 DEF LapseInv
  <1> QED BY <1>1, <1>2, <1>3, <1>4 DEF Round

\* Only a round of Filter takes the outcome from GetMessages to Filter.
LEMMA ReportsAfterLapse ==
    ASSUME RoundsInv, LapseInv, [Next]_vars,
           outcome.state = "GetMessages", outcome'.state = "Filter",
           NEW i \in DOMAIN outcome'.reports, NEW m \in Included(outcome'.reports[i])
    PROVE  Lapsed(m)
  <1>1. Filter
    <2>1. Round BY OtherSteps DEF NoRound
    <2> QED BY <2>1 DEF Round, GetCommitReports, GetMessages
  <1>2. m \in outcome.full BY <1>1, FilterSigns DEF RoundsInv
  <1> QED BY <1>2 DEF LapseInv

\* The Byzantine oracles alone never bring a message into a second report: the
\* honest readers that have lost it from their caches make up the f + 1 votes
\* in full, whatever was cached, lost or expired between the rounds.
THEOREM ReportedAgainOnlyAfterLapse == Spec => ReportedAgainAfterLapse
  <1>1. Init => RoundsInv /\ LapseInv
    <2>1. Init => LapseInv BY DEF Init, Initialized, LapseInv
    <2> QED BY <2>1, RoundsInit
  <1>2. RoundsInv /\ LapseInv /\ [Next]_vars => (RoundsInv /\ LapseInv)'
    BY RoundsTyped, LapseStep
  <1>3. RoundsInv /\ LapseInv /\ [Next]_vars =>
           [outcome.state = "GetMessages" /\ outcome'.state = "Filter" =>
              \A i \in DOMAIN outcome'.reports : \A m \in Included(outcome'.reports[i]) :
                 (\E report \in DOMAIN reports : m \in Included(report)) =>
                    Cardinality({o \in Honest \cap SourceReaders : m \notin inflight[o]})
                       >= FPlus1(FSource) - Cardinality(Byzantine \cap SourceReaders)]_vars
    BY ReportsAfterLapse DEF Lapsed
  <1> QED BY <1>1, <1>2, <1>3, PTL DEF Spec, ReportedAgainAfterLapse
=============================================================================
