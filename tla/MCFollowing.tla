---------------------------- MODULE MCFollowing ----------------------------
(***************************************************************************)
(* One followed thread for TLC, with one request to read in flight.        *)
(***************************************************************************)
EXTENDS Following, TLC

=============================================================================
