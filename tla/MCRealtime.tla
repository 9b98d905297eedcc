----------------------------- MODULE MCRealtime -----------------------------
(***************************************************************************)
(* The realtime connection for TLC.                                        *)
(***************************************************************************)
EXTENDS RealtimeProperties

Ids == {TRUE}

=============================================================================
