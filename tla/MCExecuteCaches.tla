--------------------------- MODULE MCExecuteCaches ---------------------------
(* Instances of ExecuteCaches for TLC. *)
EXTENDS ExecuteCaches

\* A root with two messages between two reports that carry prices only.
MCMessages == <<{}, {1, 2}, {}>>

\* A report with one root of two messages.
MCOneRoot == <<{1, 2}>>
==============================================================================
