----------------------------- MODULE CommitLane -----------------------------
(***************************************************************************)
(* What committing promises, without oracles: each lane of the destination *)
(* chain is an append-only log of consecutive intervals of messages that   *)
(* were sent, each interval committed with the merkle root of exactly its  *)
(* messages; several lanes may advance together, in one report, and then   *)
(* all or none of them do.                                                 *)
(***************************************************************************)
EXTENDS Integers

CONSTANTS Sources,            \* the source chains
          MaxMerkleTreeSize   \* the largest interval of a root

VARIABLES sent,     \* source -> latest message sequence number
          next,     \* source -> the next sequence number to commit
          commits   \* the committed roots

laneVars == <<sent, next, commits>>

LaneInit ==
    /\ sent = [c \in Sources |-> 0]
    /\ next = [c \in Sources |-> 1]
    /\ commits = {}

Send(c) ==
    /\ sent' = [sent EXCEPT ![c] = @ + 1]
    /\ UNCHANGED <<next, commits>>

\* The lanes of heads advance, lane c up to heads[c].
Advance(heads) ==
    /\ \A c \in DOMAIN heads : /\ next[c] <= heads[c] /\ heads[c] <= sent[c]
                               /\ heads[c] - next[c] < MaxMerkleTreeSize
    /\ next' = [c \in Sources |-> IF c \in DOMAIN heads THEN heads[c] + 1 ELSE next[c]]
    /\ commits' = commits \cup {[chain |-> c, start |-> next[c], end |-> heads[c],
                                 root |-> "computed"] : c \in DOMAIN heads}
    /\ UNCHANGED sent

LaneNext ==
    \/ \E c \in Sources : Send(c)
    \/ \E lanes \in SUBSET Sources :
          \E heads \in [lanes -> UNION {1..sent[c] : c \in Sources}] : Advance(heads)

LaneSpec == LaneInit /\ [][LaneNext]_laneVars
=============================================================================
