---------------------------- MODULE ExecuteLane ----------------------------
(***************************************************************************)
(* What executing promises, without oracles, reports and nonce counters:   *)
(* only messages under a committed root are attempted, a failed attempt    *)
(* may be repeated until it succeeds, and nothing is attempted after that: *)
(* no message is ever delivered a second time.                             *)
(***************************************************************************)
EXTENDS Integers

CONSTANT Messages     \* the messages of the lane

VARIABLES available,  \* the messages under a committed root
          failed,     \* attempted without success
          deliveries  \* message -> the number of its successful executions

laneVars == <<available, failed, deliveries>>

LaneInit ==
    /\ available = {} /\ failed = {}
    /\ deliveries = [m \in Messages |-> 0]

Publish(batch) ==
    /\ available' = available \cup batch
    /\ UNCHANGED <<failed, deliveries>>

\* The messages of batch are attempted, those of good with success.
Attempt(batch, good) ==
    /\ batch \subseteq available /\ good \subseteq batch
    /\ \A m \in batch : deliveries[m] = 0
    /\ deliveries' = [m \in Messages |-> deliveries[m] + IF m \in good THEN 1 ELSE 0]
    /\ failed' = (failed \cup batch) \ good
    /\ UNCHANGED available

LaneNext ==
    \/ \E batch \in SUBSET (Messages \ available) : Publish(batch)
    \/ \E batch \in SUBSET available : \E good \in SUBSET batch : Attempt(batch, good)

LaneSpec == LaneInit /\ [][LaneNext]_laneVars
=============================================================================
