---------------------------- MODULE MCOutboxStore ----------------------------
(* Small instances of the outbox file for TLC.                             *)
EXTENDS OutboxStore, TLC

CONSTANTS m1, m2, m3

TwoMsgs   == {m1, m2}
ThreeMsgs == {m1, m2, m3}

=============================================================================
