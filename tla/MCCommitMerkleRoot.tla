------------------------- MODULE MCCommitMerkleRoot -------------------------
(* Instances of CommitMerkleRoot for TLC: F = 1, so four oracles; either   *)
(* one of them is Byzantine and all read every chain, or one is down and   *)
(* is left out.                                                            *)
EXTENDS CommitMerkleRoot, TLC

CONSTANTS o1, o2, o3

MCReaders == [k \in Chains |-> Oracles]
MCFChain == [k \in Chains |-> 1]

\* The honest oracles are interchangeable where none is flaky.
MCSymmetry == Permutations({o1, o2, o3})
=============================================================================
