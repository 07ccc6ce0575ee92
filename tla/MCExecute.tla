------------------------------ MODULE MCExecute ------------------------------
(* Instances of Execute for TLC: four oracles that read both chains, the    *)
(* fourth Byzantine (F = 1), and two messages of one sender.                *)
EXTENDS Execute, TLC

CONSTANTS o1, o2, o3, o4

MCOneRoot == <<{1, 2}>>
MCTwoRoots == <<{1}, {2}>>
MCSender == <<"a", "a">>
MCOrdered == <<1, 2>>
MCOneOrdered == <<0, 1>>
MCCost == <<1, 1>>

\* A report has room for both messages, or for one.
MCBoth == [maxGas |-> 2, maxMessages |-> 0, maxSingleChainReports |-> 0,
           maxReportCount |-> 1, multipleReportsEnabled |-> FALSE]
MCSingle == [MCBoth EXCEPT !.maxGas = 1]

MCSymmetry == Permutations(Honest)
=============================================================================
