-------------------------- MODULE OrderedDelivery --------------------------
(***************************************************************************)
(* What the outbox promises: each conversation is a FIFO queue whose head  *)
(* alone is ever offered to the server.  An offer may be lost, repeated or *)
(* land late; a message stops waiting when it has landed, or when the user *)
(* withdraws it.                                                           *)
(***************************************************************************)
EXTENDS Naturals

CONSTANTS Posts, ConvOf

VARIABLES
  waiting,    \* messages entrusted to the outbox
  ticket,     \* place in the order of submission; 0 = never submitted
  wire,       \* messages with an offer under way
  landed,     \* the server's stamp of each message; 0 = not there
  withdrawn   \* messages the user took back

vars == <<waiting, ticket, wire, landed, withdrawn>>

Ahead(q, p) == ConvOf[q] = ConvOf[p] /\ ticket[q] < ticket[p]

Init ==
  /\ waiting = {} /\ wire = {} /\ withdrawn = {}
  /\ ticket = [p \in Posts |-> 0]
  /\ landed = [p \in Posts |-> 0]

Submit(p) ==
  /\ ticket[p] = 0
  /\ waiting' = waiting \cup {p}
  /\ \A q \in Posts : ticket[q] < ticket'[p]
  /\ ticket' = [ticket EXCEPT ![p] = ticket'[p]]
  /\ UNCHANGED <<wire, landed, withdrawn>>

Offer(p) ==
  /\ p \in waiting
  /\ \A q \in waiting : ~Ahead(q, p)
  /\ wire' = wire \cup {p}
  /\ UNCHANGED <<waiting, ticket, landed, withdrawn>>

\* The server takes an offer; its last copy may leave the wire with that.
Land(p) ==
  /\ p \in wire
  /\ landed[p] = 0
  /\ \A q \in Posts : landed[q] < landed'[p]
  /\ landed' = [landed EXCEPT ![p] = landed'[p]]
  /\ wire' \in {wire, wire \ {p}}
  /\ UNCHANGED <<waiting, ticket, withdrawn>>

\* The last copy leaves the wire: refused, lost, or a duplicate.
Drop(p) ==
  /\ p \in wire
  /\ wire' = wire \ {p}
  /\ UNCHANGED <<waiting, ticket, landed, withdrawn>>

Finish(p) ==
  /\ p \in waiting /\ landed[p] > 0
  /\ waiting' = waiting \ {p}
  /\ wire' \in {wire, wire \ {p}}
  /\ UNCHANGED <<ticket, landed, withdrawn>>

Withdraw(p) ==
  /\ p \in waiting
  /\ waiting' = waiting \ {p}
  /\ withdrawn' = withdrawn \cup {p}
  /\ UNCHANGED <<ticket, wire, landed>>

Next == \E p \in Posts :
  Submit(p) \/ Offer(p) \/ Land(p) \/ Drop(p) \/ Finish(p) \/ Withdraw(p)

Spec == Init /\ [][Next]_vars
=============================================================================
