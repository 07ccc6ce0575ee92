--------------------------- MODULE MCCommitPrices ---------------------------
(* Instances of CommitPrices for TLC: F = 1, one feed chain.               *)
EXTENDS CommitPrices, TLC

CONSTANTS o1, o2, o3

MCReaders == [c \in Chains |-> Oracles]
MCFChain == [c \in Chains |-> 1]
MCFeedChain == [k \in Keys |-> 8]

MCSymmetry == Permutations({o1, o2, o3})
=============================================================================
