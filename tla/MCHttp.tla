------------------------------- MODULE MCHttp -------------------------------
(***************************************************************************)
(* The HTTP connectors for TLC: the connector of Backend, with one GET     *)
(* and a write, and one owned by a window, with one GET.                   *)
(***************************************************************************)
EXTENDS HttpTransport

CONSTANTS backend, window, g1, g3, w1

BothHomes == [r \in {g1, g3, w1} |-> IF r = g3 THEN window ELSE backend]

=============================================================================
