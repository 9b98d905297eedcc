-------------------------- MODULE OutboxProperties --------------------------
(* What the outbox promises, and the ways it could go wrong.               *)
EXTENDS Outbox

-----------------------------------------------------------------------------
(* Safety.                                                                 *)

\* FIFO delivery: of two messages of one conversation, the later one is on
\* the server only if the earlier one is there before it or the user
\* withdrew it.  Retries, lost replies and late acceptances must not let a
\* message overtake (PendingPostService.h:75-80, "preserves FIFO ordering").
DeliveryInOrder ==
  \A p, q \in Posts :
    (Before(p, q) /\ createdAt[q] > 0) =>
      \/ p \in withdrawn
      \/ 0 < createdAt[p] /\ createdAt[p] < createdAt[q]

\* A message leaves the outbox only because the server has it or the user
\* cancelled it; no failure, timeout or stale callback drops one.
NoSilentLoss ==
  \A p \in Posts :
    (serial[p] > 0 /\ p \notin pending) => createdAt[p] > 0 \/ p \in withdrawn

\* At most one create of a conversation's pending posts is in flight, even
\* though a confirmation by realtime event leaves its own request behind.
OneLiveRequest ==
  \A r, s \in requests :
    (/\ {r.post, s.post} \subseteq pending
     /\ ConvOf[r.post] = ConvOf[s.post]) => r = s

\* Every unfinished message has something that will move it on: the timer or
\* reply that carries its current generation.  A generation bump that does
\* not re-arm strands the message, and the whole conversation behind it.
Waits(p) ==
  LET r == row[p]
      c == ConvOf[p]
  IN CASE r.state = "Failed"    -> TRUE
       [] r.state = "RetryWait" -> <<p, r.gen>> \in retryDue
       [] r.state = "Queued"    -> <<p, r.gen>> \in attemptDue \/ c \in starts
       [] r.state = "Blocked"   -> ~IsHead(p) \/ c \in starts
       [] r.state = "Sending"   ->
            \E q \in requests : q.post = p /\ q.gen = r.gen
       [] r.state = "Uploading" ->
            \/ c \in starts
            \/ /\ Missing(p) # {}
               /\ \A u \in Missing(p) :
                    /\ upload[u].state = "Uploading"
                    /\ <<u, upload[u].gen>> \in transfers

NoStrandedPost == \A p \in pending : Waits(p)

\* While a message may still be attempted, the timer that ends its ten
\* minutes is armed for its current window, across every manual retry.
DeadlineArmed ==
  \A p \in pending :
    row[p].state \notin {"Failed", "Sending"} =>
      <<p, row[p].window>> \in deadlines

\* A failed upload shows as a failed message, in whatever state the message
\* was when the upload's reply arrived.
UploadFailureSurfaces ==
  \A p \in pending :
    InState(Missing(p), "Failed") # {} => row[p].state = "Failed"

\* Once the conversation moved on, the head is not attempted any more: it is
\* failed, unless its create is already in flight, a start is about to look at
\* it, or it counted the posts behind another head and still waits for its
\* files, whose end brings the start that fails it.
CutOffHolds ==
  \A p \in pending :
    (IsHead(p) /\ CutOff(row[p])) =>
      \/ row[p].state \in {"Failed", "Sending", "Uploading"}
      \/ ConvOf[p] \in starts

-----------------------------------------------------------------------------
(* The abstract outbox, and how the session's state maps to it.            *)

OnWire == {r.post : r \in requests} \cup floating

Ordered == INSTANCE OrderedDelivery WITH
  waiting <- pending,
  ticket  <- serial,
  wire    <- OnWire,
  landed  <- [p \in Posts |-> createdAt[p]]

\* The outbox implements ordered delivery: only the head of a conversation
\* is put on the wire, and a message stops waiting only when it has landed or
\* was withdrawn, through every retry, lost reply and stale timer.
ImplementsOrderedDelivery == Ordered!Spec

-----------------------------------------------------------------------------
(* Liveness.                                                               *)

\* Every message handed to the outbox is eventually confirmed, withdrawn or
\* shown as failed: nothing spins or waits for ever.
Settles == \A p \in Posts :
  p \in pending ~> (p \notin pending \/ row[p].state = "Failed")


=============================================================================
