------------------------------ MODULE MCDrafts ------------------------------
(* A small instance of the draft synchronisation for TLC.                  *)
EXTENDS DraftSync

CONSTANTS a, b, x, t1, t2

TwoTexts == <<a, b>>

=============================================================================
