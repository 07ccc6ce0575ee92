----------------------- MODULE MCTokenDataBackground -----------------------
(* Two overlapping calls, one or two workers, two messages.                *)
EXTENDS TokenDataBackground, TLC
=============================================================================
