--------------------------- MODULE OracleConsensus ---------------------------
(***************************************************************************)
(* The agreement operators of internal/plugincommon/consensus, shared by   *)
(* the commit and the execute plugin.                                      *)
(*                                                                         *)
(* The observations of one item (the value of one map key) are a function  *)
(* from the oracles that observed it to what they observed: a Go slice of  *)
(* observations with its attribution kept, so that honest and Byzantine    *)
(* contributions can be told apart.                                        *)
(***************************************************************************)
EXTENDS Integers, FiniteSets

TwoFPlus1(f) == 2 * f + 1
FPlus1(f) == f + 1

\* The observations of item c, given what each oracle observed: a partial
\* function from items to values. ValidateObservation rejects an observation
\* of an item whose chain the oracle does not read.
Observed(view, readers, c) ==
    LET who == {o \in DOMAIN view \cap readers : c \in DOMAIN view[o]}
    IN  [o \in who |-> view[o][c]]

\* The oracles that observed exactly v (minObservation.Add counts them).
Supporters(obs, v) == {o \in DOMAIN obs : obs[o] = v}

\* minObservation.GetValid: the values observed at least threshold times.
GetValid(obs, threshold) ==
    {v \in {obs[o] : o \in DOMAIN obs} :
        Cardinality(Supporters(obs, v)) >= threshold}

\* GetConsensusMap for one key: a value is agreed when it is the only valid
\* one; two valid values leave the key without a consensus.
HasConsensus(obs, threshold) == Cardinality(GetValid(obs, threshold)) = 1
ConsensusItem(obs, threshold) == CHOOSE v \in GetValid(obs, threshold) : TRUE

\* The observations below v, and those up to v.
Below(obs, v) == {o \in DOMAIN obs : obs[o] < v}
UpTo(obs, v) == {o \in DOMAIN obs : obs[o] <= v}

\* slices.Sort(items); items[f]: the (f+1)-th smallest observation.
IsSortedAt(obs, f, v) ==
    /\ Cardinality(Below(obs, v)) <= f
    /\ Cardinality(UpTo(obs, v)) > f
SortedAt(obs, f) == CHOOSE v \in {obs[o] : o \in DOMAIN obs} : IsSortedAt(obs, f, v)

\* GetOrderedConsensus for one key: the threshold f must be positive and at
\* least 2f+1 observations are needed; then sorted[f] is agreed.
HasOrderedConsensus(obs, f) ==
    /\ f > 0
    /\ Cardinality(DOMAIN obs) >= TwoFPlus1(f)

\* Median: the middle element after sorting, the upper one of two.
Median(obs) == SortedAt(obs, Cardinality(DOMAIN obs) \div 2)
=============================================================================
