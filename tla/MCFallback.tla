----------------------------- MODULE MCFallback -----------------------------
(***************************************************************************)
(* The realtime connection with its polling fallback for TLC.              *)
(***************************************************************************)
EXTENDS RealtimeFallback

Ids == {TRUE}

=============================================================================
