------------------------------- MODULE MCRead -------------------------------
(***************************************************************************)
(* The read state of one channel for TLC.                                  *)
(***************************************************************************)
EXTENDS ReadState, TLC

=============================================================================
