----------------------- MODULE MCExecuteReportBuilder -----------------------
(* Inputs of ExecuteReportBuilder for TLC. *)
EXTENDS ExecuteReportBuilder

CONSTANTS Costs, Conditions, MaxGases, Completeness, SecondChains

Kinds == [ordered : BOOLEAN, cost : Costs, condition : Conditions]

\* Three messages of one sender, two in a commit report of chain 1 and one in a
\* second commit report, of chain 1 or of another; ordered messages have
\* consecutive nonces, and each chain counts from 1.
MCInputs ==
    {LET first(i) == IF i = 3 /\ second # 1 THEN 3 ELSE 1
         nonce(i) == IF k[i].ordered
                     THEN Cardinality({j \in first(i)..i : k[j].ordered}) ELSE 0
         msg(i) == [seqNum |-> i - first(i) + 1, sender |-> "s", nonce |-> nonce(i),
                    cost |-> k[i].cost, deleted |-> k[i].condition = "deleted",
                    tokenReady |-> k[i].condition # "waiting"]
         report(chain, is) ==
            [chain |-> chain, messages |-> [i \in DOMAIN is |-> msg(is[i])], complete |-> TRUE,
             executed |-> {msg(is[i]).seqNum : i \in {j \in DOMAIN is :
                                                       k[is[j]].condition = "executed"}}]
     IN  <<[report(1, <<1, 2>>) EXCEPT !.complete = complete], report(second, <<3>>)>> :
         k \in [1..3 -> Kinds], complete \in Completeness, second \in SecondChains}

MCNonces == {<<>>} \cup [{<<1, "s">>} -> {0, 1}] \cup [Chains \X {"s"} -> {0}]

MCSettings ==
    {s \in [maxGas : MaxGases, maxMessages : {0, 1}, maxSingleChainReports : {0, 1},
            maxReportCount : {3}, multipleReportsEnabled : BOOLEAN] :
        s.multipleReportsEnabled \/ s.maxSingleChainReports = 0}
==============================================================================
