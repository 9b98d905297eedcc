------------------------------- MODULE Outbox -------------------------------
(***************************************************************************)
(* The session outbox: PendingPostService, the upload ownership it builds  *)
(* on (AttachmentUploadService) and the REST call it makes                 *)
(* (PostCreateService::createPostDetailed).                                *)
(*                                                                         *)
(* Everything runs on one GUI thread.  What interleaves are the callbacks: *)
(* zero-delay start and attempt timers, the retry and deadline timers, the *)
(* HTTP replies of creates and uploads, the posts that realtime events and *)
(* history merges deliver, and the user's Enqueue, Retry and Cancel.  A    *)
(* timer or a reply carries the generation it was armed with, exactly as   *)
(* the lambdas of the source capture it, so a stale one can still arrive.  *)
(*                                                                         *)
(* The server is external: it assigns creation stamps, deduplicates on     *)
(* pending_post_id, may lose a reply after accepting, and may accept a     *)
(* request whose reply the client already gave up on.                      *)
(***************************************************************************)
EXTENDS Naturals, FiniteSets

CONSTANTS
  Posts,            \* our own messages, named by pending_post_id
  Foreign,          \* messages of other users
  Convs,            \* logical conversations: channel + root_id
  Threads,          \* the conversations that have a root_id
  ConvOf,           \* [Posts \cup Foreign -> Convs]
  Uploads,          \* attachment uploads
  UploadsOf,        \* [Posts -> SUBSET Uploads]
  MaxAttempts,      \* PendingPostService::MaxAttempts
  MaxIntervening,   \* PendingPostService::MaxInterveningPosts
  RetryWindow,      \* PendingPostService::RetryWindowMs, in ticks
  Losable,          \* bound: the conversations whose channel may go away
  Evictable,        \* bound: the messages that may leave resident memory
  Told,             \* bound: the messages whose posted event may arrive
  Paged,            \* bound: the messages that a page of history may bring
  MaxTime,          \* bound: the clock stops here
  LastInput,        \* bound: the user acts no later than this
  MaxGen            \* bound: the user retries only below this generation

Messages == Posts \cup Foreign

ASSUME OutboxAssumption ==
  /\ Posts \cap Foreign = {}
  /\ Threads \subseteq Convs
  /\ ConvOf \in [Messages -> Convs]
  /\ UploadsOf \in [Posts -> SUBSET Uploads]
  /\ \A p, q \in Posts : p # q => UploadsOf[p] \cap UploadsOf[q] = {}
  /\ {MaxAttempts, MaxIntervening, RetryWindow} \subseteq Nat \ {0}
  /\ {MaxTime, LastInput, MaxGen} \subseteq Nat

VARIABLES
  now,          \* currentMSecsSinceEpoch, in ticks
  pending,      \* posts in PendingPostService::posts
  issued,       \* how many posts were ever appended to order
  serial,       \* position in PendingPostService::order; 0 = never enqueued
  row,          \* the PendingPost record of each pending post
  starts,       \* conversations with a zero-delay tryStartConversation
  attemptDue,   \* zero-delay attempt timers: <<post, generation>>
  retryDue,     \* scheduleRetry timers: <<post, generation>>
  deadlines,    \* scheduleRetryDeadline timers: <<post, retryWindowStartedAt>>
  requests,     \* POST /posts in flight
  confirmed,    \* confirmedServerPostIds: <<post, time of confirmation>>
  known,        \* last_root_post_at, or last_reply_at of the thread's root
  resident,     \* posts in BackendChannel::postIdToPost
  gone,         \* conversations whose channel left the Storage
  upload,       \* AttachmentUploadService::uploads
  transfers,    \* upload requests in flight: <<upload, generation>>
  clock,        \* server: the latest creation stamp
  createdAt,    \* server: create_at of each message; 0 = not accepted
  floating,     \* server: requests still on the wire after the client gave up
  echoed,       \* server: messages whose posted event was delivered
  withdrawn     \* history: posts the user cancelled

outboxVars == <<pending, issued, serial, row>>
timerVars  == <<starts, attemptDue, retryDue, deadlines>>
clientVars == <<confirmed, known, resident, gone>>
uploadVars == <<upload, transfers>>
serverVars == <<clock, createdAt, floating, echoed>>
vars == <<now, outboxVars, timerVars, requests, clientVars, uploadVars,
          serverVars, withdrawn>>

States == {"Uploading", "Queued", "Sending", "RetryWait", "Failed", "Blocked"}

Row == [state : States, gen : Nat, attempts : Nat, newer : SUBSET Messages,
        tail : Nat, files : SUBSET Uploads, window : Nat]

EmptyRow == [state |-> "Queued", gen |-> 0, attempts |-> 0, newer |-> {},
             tail |-> 0, files |-> {}, window |-> 0]

UploadStates == {"none", "Uploading", "Ready", "Failed"}
MarkedReleased == [state |-> "released", gen |-> 0]
NoUpload == [state |-> "none", gen |-> 0]

-----------------------------------------------------------------------------
(* Queue order and the predicates the handlers branch on.                  *)

Queue(c) == {p \in pending : ConvOf[p] = c}

Before(p, q) == ConvOf[p] = ConvOf[q] /\ 0 < serial[p] /\ serial[p] < serial[q]

AnyIsHead(p) == p \in pending
NewestIsHead(p) == p \in pending /\ \A q \in pending : ~Before(p, q)

IsHead(p) == p \in pending /\ \A q \in pending : ~Before(q, p)

ExpiredLate(r) == now > r.window + RetryWindow

Expired(r) == now >= r.window + RetryWindow

CutOff(r) == Cardinality(r.newer) >= MaxIntervening

Spent(r) == CutOff(r) \/ Expired(r)

\* Every change of state bumps the generation, which orphans older timers.
With(r, s) == [r EXCEPT !.state = s, !.gen = @ + 1]

\* tryStartConversation: rows of conversation c after it ran on rows.
Startable(rows, c) ==
  {p \in Queue(c) : IsHead(p) /\ rows[p].state \in {"Queued", "Blocked"}}

ToBlock(rows, c) ==
  {p \in Queue(c) : ~IsHead(p) /\ rows[p].state \notin {"Failed", "Blocked"}}

Started(rows, c) ==
  [p \in Posts |->
     CASE p \in ToBlock(rows, c)   -> With(rows[p], "Blocked")
       [] p \in Startable(rows, c) ->
            With(rows[p], IF Spent(rows[p]) THEN "Failed" ELSE "Queued")
       [] OTHER                    -> rows[p]]

ArmedStale(rows, c) ==
  {<<p, rows[p].gen>> : p \in {q \in Startable(rows, c) : ~Spent(rows[q])}}

Armed(rows, c) ==
  {<<p, rows[p].gen + 1>> : p \in {q \in Startable(rows, c) : ~Spent(rows[q])}}

-----------------------------------------------------------------------------
(* Uploads.                                                                *)

\* AttachmentUploadService::start on every upload of us, channel present.
Restarted(us) ==
  [u \in Uploads |-> IF u \in us
     THEN [state |-> "Uploading", gen |-> upload[u].gen + 1] ELSE upload[u]]

Transfers(us) == {<<u, upload[u].gen + 1>> : u \in us}

InState(us, s) == {u \in us : upload[u].state = s}

\* AttachmentUploadService::release
Released(p) == [u \in Uploads |->
                  IF u \in UploadsOf[p] THEN NoUpload ELSE upload[u]]

Missing(p) == UploadsOf[p] \ row[p].files

-----------------------------------------------------------------------------
\* The session starts in channels with one old post and threads with none.
Init ==
  /\ now = 0
  /\ pending = {}
  /\ issued = 0
  /\ serial = [p \in Posts |-> 0]
  /\ row = [p \in Posts |-> EmptyRow]
  /\ starts = {} /\ attemptDue = {} /\ retryDue = {} /\ deadlines = {}
  /\ requests = {}
  /\ confirmed = {}
  /\ known = [c \in Convs |-> IF c \in Threads THEN 0 ELSE 1]
  /\ resident = {}
  /\ gone = {}
  /\ upload = [u \in Uploads |-> NoUpload]
  /\ transfers = {}
  /\ clock = 1
  /\ createdAt = [m \in Messages |-> 0]
  /\ floating = {}
  /\ echoed = {}
  /\ withdrawn = {}

-----------------------------------------------------------------------------
(* What the user does.                                                     *)

CanSend(p) ==
  serial[p] = 0 /\ now <= LastInput /\ ConvOf[p] \notin gone

\* The composer stages a picked file before the message is sent.
Stage(p, u) ==
  /\ CanSend(p) /\ u \in UploadsOf[p] /\ upload[u].state = "none"
  /\ upload' = Restarted({u})
  /\ transfers' = transfers \cup Transfers({u})
  /\ UNCHANGED <<now, outboxVars, timerVars, requests, clientVars, serverVars,
                 withdrawn>>

\* enqueue, when the outbox file could be written.
Enqueue(p) ==
  LET c      == ConvOf[p]
      staged == InState(UploadsOf[p], "none")
      state  == IF InState(UploadsOf[p], "Failed") # {} THEN "Failed"
                ELSE IF InState(UploadsOf[p], "Uploading") \cup staged # {}
                THEN "Uploading" ELSE "Queued"
  IN /\ CanSend(p)
     /\ pending' = pending \cup {p}
     /\ issued' = issued + 1
     /\ serial' = [serial EXCEPT ![p] = issued + 1]
     /\ row' = [row EXCEPT ![p] =
                 [EmptyRow EXCEPT !.state = state,
                                  !.files = InState(UploadsOf[p], "Ready"),
                                  !.tail = known[c],
                                  !.window = now]]
     /\ upload' = Restarted(staged)
     /\ transfers' = transfers \cup Transfers(staged)
     /\ starts' = starts \cup {c}
     /\ deadlines' = deadlines \cup {<<p, now>>}
     /\ UNCHANGED <<now, attemptDue, retryDue, requests, clientVars,
                    serverVars, withdrawn>>

\* enqueue, when it could not: the row is rolled back, its uploads released.
EnqueueRefused(p) ==
  /\ CanSend(p)
  /\ upload' = Released(p)
  /\ transfers' = transfers \cup Transfers(InState(UploadsOf[p], "none"))
  /\ UNCHANGED <<now, outboxVars, timerVars, requests, clientVars, serverVars,
                 withdrawn>>

RemoveQueue(p) ==
  /\ pending' = pending \ Queue(ConvOf[p])
  /\ row' = [q \in Posts |-> IF q \in Queue(ConvOf[p]) THEN EmptyRow ELSE row[q]]
  /\ upload' = Released(p)
  /\ starts' = starts \cup {ConvOf[p]}
  /\ UNCHANGED <<issued, serial>>

\* remove: the row, its uploads, and a start of whatever is next.
Remove(p) ==
  /\ pending' = pending \ {p}
  /\ row' = [row EXCEPT ![p] = EmptyRow]
  /\ upload' = Released(p)
  /\ starts' = starts \cup {ConvOf[p]}
  /\ UNCHANGED <<issued, serial>>

\* cancel, which the context menu offers in every state but Sending.
Cancel(p) ==
  /\ p \in pending
  /\ row[p].state # "Sending"
  /\ Remove(p)
  /\ withdrawn' = withdrawn \cup {p}
  /\ UNCHANGED <<now, attemptDue, retryDue, deadlines, requests, clientVars,
                 transfers, serverVars>>

\* The row of p once retry has reset its budget and looked at its uploads.
Reset(p) ==
  [row[p] EXCEPT !.state = "Uploading", !.gen = @ + 1, !.attempts = 0,
                 !.newer = {}, !.window = now,
                 !.tail = IF ConvOf[p] \in gone THEN @ ELSE known[ConvOf[p]],
                 !.files = @ \cup InState(UploadsOf[p], "Ready")]

\* A mutant: retry takes it that the uploads it restarts are under way.
ResetOnly(p) == Reset(p)

\* The same once its uploads were restarted and failed at once, because the
\* channel is gone.
Refailed(p) == With(Reset(p), "Failed")

\* retry.  Restarting an upload emits changed() before retry goes on, and the
\* outbox's own slot for it starts the conversation synchronously.
Retry(p) ==
  LET c       == ConvOf[p]
      waiting == Missing(p) \ InState(UploadsOf[p], "Ready")
      failed  == InState(waiting, "Failed")
      reset   == [row EXCEPT ![p] = Reset(p)]
      refail  == [reset EXCEPT ![p] = Refailed(p)]
  IN /\ p \in pending /\ row[p].state = "Failed"
     /\ now <= LastInput /\ row[p].gen < MaxGen
     /\ \/ /\ waiting = {}
           /\ row' = [reset EXCEPT ![p] = With(@, "Queued")]
           /\ UNCHANGED <<upload, transfers, attemptDue>>
        \/ /\ waiting # {} /\ failed = {}
           /\ row' = reset
           /\ UNCHANGED <<upload, transfers, attemptDue>>
        \/ /\ failed # {} /\ c \notin gone
           /\ row' = Started(reset, c)
           /\ attemptDue' = attemptDue \cup Armed(reset, c)
           /\ upload' = Restarted(failed)
           /\ transfers' = transfers \cup Transfers(failed)
        \/ /\ failed # {} /\ c \in gone
           /\ row' = Started(refail, c)
           /\ attemptDue' = attemptDue \cup Armed(refail, c)
           /\ upload' = [u \in Uploads |-> IF u \in failed
                           THEN [upload[u] EXCEPT !.gen = @ + 1] ELSE upload[u]]
           /\ UNCHANGED transfers
     /\ deadlines' = deadlines \cup {<<p, now>>}
     /\ starts' = starts \cup {c}
     /\ UNCHANGED <<now, pending, issued, serial, retryDue, requests, clientVars,
                    serverVars, withdrawn>>

-----------------------------------------------------------------------------
(* Timers.                                                                 *)

\* The zero-delay timer that enqueue, retry and remove leave behind.
Start(c) ==
  /\ c \in starts
  /\ starts' = starts \ {c}
  /\ row' = Started(row, c)
  /\ attemptDue' = attemptDue \cup Armed(row, c)
  /\ UNCHANGED <<now, pending, issued, serial, retryDue, deadlines, requests,
                 clientVars, uploadVars, serverVars, withdrawn>>

\* What the attempt timer and attempt() check before anything else.
AttemptableStale(p, g) == IsHead(p)

Attemptable(p, g) == IsHead(p) /\ row[p].gen = g /\ row[p].state = "Queued"

Hopeless(p) ==
  row[p].attempts >= MaxAttempts \/ Spent(row[p]) \/ ConvOf[p] \in gone

TriedInPlace(p) == [row[p] EXCEPT !.state = "Sending", !.attempts = @ + 1]

Tried(p) == [With(row[p], "Sending") EXCEPT !.attempts = @ + 1]

Attempt(p, g) ==
  /\ <<p, g>> \in attemptDue
  /\ attemptDue' = attemptDue \ {<<p, g>>}
  /\ \/ /\ ~Attemptable(p, g)
        /\ UNCHANGED <<row, requests>>
     \/ /\ Attemptable(p, g) /\ Hopeless(p)
        /\ row' = [row EXCEPT ![p] = With(@, "Failed")]
        /\ UNCHANGED requests
     \/ /\ Attemptable(p, g) /\ ~Hopeless(p) /\ Missing(p) # {}
        /\ row' = [row EXCEPT ![p] = With(@, "Uploading")]
        /\ UNCHANGED requests
     \/ /\ Attemptable(p, g) /\ ~Hopeless(p) /\ Missing(p) = {}
        /\ row' = [row EXCEPT ![p] = Tried(p)]
        /\ requests' = requests \cup
             {[post |-> p, gen |-> g + 1, accepted |-> FALSE]}
     \/ \* an unresolved local reference fails inside createPostDetailed
        /\ Attemptable(p, g) /\ ~Hopeless(p) /\ Missing(p) = {}
        /\ row' = [row EXCEPT ![p] = With(Tried(p), "Failed")]
        /\ UNCHANGED requests
  /\ UNCHANGED <<now, pending, issued, serial, starts, retryDue, deadlines, clientVars,
                 uploadVars, serverVars, withdrawn>>

\* The timer of scheduleRetry, which starts the conversation synchronously.
RetryTimer(p, g) ==
  LET live == p \in pending /\ row[p].gen = g /\ row[p].state = "RetryWait"
      back == [row EXCEPT ![p] = With(@, "Queued")]
  IN /\ <<p, g>> \in retryDue
     /\ retryDue' = retryDue \ {<<p, g>>}
     /\ \/ ~live /\ UNCHANGED <<row, attemptDue>>
        \/ /\ live
           /\ row' = Started(back, ConvOf[p])
           /\ attemptDue' = attemptDue \cup Armed(back, ConvOf[p])
     /\ UNCHANGED <<now, pending, issued, serial, starts, deadlines, requests,
                    clientVars, uploadVars, serverVars, withdrawn>>

\* The timer of scheduleRetryDeadline; it never revokes a create in flight.
Deadline(p, w) ==
  LET live == /\ p \in pending /\ row[p].window = w
              /\ row[p].state \notin {"Failed", "Sending"}
  IN /\ <<p, w>> \in deadlines /\ now >= w + RetryWindow
     /\ deadlines' = deadlines \ {<<p, w>>}
     /\ row' = IF live THEN [row EXCEPT ![p] = With(@, "Failed")] ELSE row
     /\ UNCHANGED <<now, pending, issued, serial, starts, attemptDue, retryDue,
                    requests, clientVars, uploadVars, serverVars, withdrawn>>

\* The timer confirm arms to forget a server id after the retry window.
Forget(m, t) ==
  /\ <<m, t>> \in confirmed /\ now >= t + RetryWindow
  /\ confirmed' = confirmed \ {<<m, t>>}
  /\ UNCHANGED <<now, outboxVars, timerVars, requests, known, resident, gone,
                 uploadVars, serverVars, withdrawn>>

Tick ==
  /\ now < MaxTime
  /\ now' = now + 1
  /\ UNCHANGED <<outboxVars, timerVars, requests, clientVars, uploadVars,
                 serverVars, withdrawn>>

-----------------------------------------------------------------------------
(* Replies.                                                                *)

Advance(c, stamp) == [known EXCEPT ![c] = IF @ < stamp THEN stamp ELSE @]

\* confirm: remember the server id, drop the row.
Confirm(p) ==
  /\ confirmed' = confirmed \cup {<<p, now>>}
  /\ Remove(p)

\* A 2xx reply with the created post, while its channel is still there.
\* ingestCreatedPost advances a thread's edge, never last_root_post_at.
CreateSucceeds(r) ==
  LET p == r.post
  IN /\ r \in requests /\ r.accepted /\ ConvOf[p] \notin gone
     /\ requests' = requests \ {r}
     /\ resident' = resident \cup {p}
     /\ known' = IF ConvOf[p] \in Threads /\ p \notin resident
                 THEN Advance(ConvOf[p], createdAt[p]) ELSE known
     /\ \/ p \in pending /\ Confirm(p)
        \/ /\ p \notin pending
           /\ UNCHANGED <<outboxVars, confirmed, upload, starts>>
     /\ UNCHANGED <<now, attemptDue, retryDue, deadlines, gone, transfers,
                    serverVars, withdrawn>>

\* Any other reply: an error status, a dead connection, an unusable body.
CreateFails(r, retryable) ==
  LET p     == r.post
      live  == /\ p \in pending /\ row[p].gen = r.gen
               /\ row[p].state # "Failed"
      again == retryable /\ row[p].attempts < MaxAttempts /\ ~Spent(row[p])
  IN /\ r \in requests
     /\ requests' = requests \ {r}
     /\ \/ UNCHANGED floating
        \/ \* the connection died before the server saw the request
           retryable /\ ~r.accepted /\ floating' = floating \cup {p}
     /\ \/ ~live /\ UNCHANGED <<row, retryDue>>
        \/ /\ live /\ again
           /\ row' = [row EXCEPT ![p] = With(@, "RetryWait")]
           /\ retryDue' = retryDue \cup {<<p, r.gen + 1>>}
        \/ /\ live /\ ~again
           /\ row' = [row EXCEPT ![p] = With(@, "Failed")]
           /\ UNCHANGED retryDue
     /\ UNCHANGED <<now, pending, issued, serial, starts, attemptDue, deadlines,
                    clientVars, uploadVars, clock, createdAt, echoed,
                    withdrawn>>

Filed(p, u, ok) ==
  IF ok THEN [row[p] EXCEPT !.files = @ \cup {u}] ELSE row[p]

\* The row of p after handleAttachmentUploadChanged for its upload u.
Moved(p, u, ok) ==
  CASE ~ok /\ row[p].state # "Failed" -> With(row[p], "Failed")
    [] ok /\ row[p].state = "Uploading" /\ Missing(p) = {u}
         -> With(Filed(p, u, ok), "Queued")
    [] OTHER -> Filed(p, u, ok)

\* An upload reply, then the outbox's slot for changed().
UploadReplies(u, g, ok) ==
  LET current == upload[u].state # "none" /\ upload[u].gen = g
      owners  == {p \in pending : u \in Missing(p)}
      rows == [p \in Posts |-> IF p \in owners THEN Moved(p, u, ok) ELSE row[p]]
  IN /\ <<u, g>> \in transfers
     /\ transfers' = transfers \ {<<u, g>>}
     /\ \/ ~current /\ UNCHANGED <<row, attemptDue, upload>>
        \/ /\ current
           /\ upload' = [upload EXCEPT ![u].state =
                           IF ok THEN "Ready" ELSE "Failed"]
           /\ \/ owners = {} /\ UNCHANGED <<row, attemptDue>>
              \/ \E p \in owners :
                   /\ row' = Started(rows, ConvOf[p])
                   /\ attemptDue' = attemptDue \cup Armed(rows, ConvOf[p])
     /\ UNCHANGED <<now, pending, issued, serial, starts, retryDue, deadlines,
                    requests, clientVars, serverVars, withdrawn>>

-----------------------------------------------------------------------------
(* Authoritative posts reaching the client.                                *)

CountedOnly(m) ==
  [p \in Posts |->
     IF p \in Queue(ConvOf[m]) /\ (row[p].tail > 0 => createdAt[m] > row[p].tail)
     THEN [row[p] EXCEPT !.newer = @ \cup {m}] ELSE row[p]]

\* The rows of m's conversation once m counted against them.
Counted(m) ==
  LET counts(p) == /\ p \in Queue(ConvOf[m])
                   /\ row[p].tail > 0 => createdAt[m] > row[p].tail
      more(p) == [row[p] EXCEPT !.newer = @ \cup {m}]
  IN [p \in Posts |->
        CASE ~counts(p) -> row[p]
          [] /\ counts(p) /\ IsHead(p) /\ CutOff(more(p)) /\ m \notin row[p].newer
             /\ row[p].state \notin {"Failed", "Sending"}
               -> With(more(p), "Failed")
          [] OTHER -> more(p)]

\* handleAuthoritativePost
Remembered(m) == \E c \in confirmed : c[1] = m

HandleAuthoritative(m) ==
  \/ /\ Remembered(m)
     /\ UNCHANGED <<outboxVars, confirmed, upload, starts>>
  \/ /\ ~Remembered(m)
     /\ m \in pending
     /\ Confirm(m)
  \/ /\ ~Remembered(m)
     /\ m \notin pending
     /\ row' = Counted(m)
     /\ UNCHANGED <<pending, issued, serial, confirmed, upload, starts>>

\* A posted event, delivered at most once (WebSocketEventHandler::deliverPost).
Realtime(m) ==
  /\ m \in Told /\ createdAt[m] > 0 /\ m \notin echoed /\ ConvOf[m] \notin gone
  /\ echoed' = echoed \cup {m}
  /\ resident' = resident \cup {m}
  /\ known' = IF ConvOf[m] \in Threads /\ m \in resident
              THEN known ELSE Advance(ConvOf[m], createdAt[m])
  /\ HandleAuthoritative(m)
  /\ UNCHANGED <<now, attemptDue, retryDue, deadlines, requests, gone,
                 transfers, clock, createdAt, floating, withdrawn>>

\* A page of history or a fallback poll that brings in a post the channel
\* does not hold; neither advances the conversation's edge.
HistoryMerged(m) ==
  /\ m \in Paged /\ createdAt[m] > 0 /\ m \notin resident /\ ConvOf[m] \notin gone
  /\ resident' = resident \cup {m}
  /\ HandleAuthoritative(m)
  /\ UNCHANGED <<now, attemptDue, retryDue, deadlines, requests, known, gone,
                 transfers, serverVars, withdrawn>>

\* PostRepository drops a cold channel's resident bodies.
Evicted(m) ==
  /\ m \in resident \cap Evictable
  /\ resident' = resident \ {m}
  /\ UNCHANGED <<now, outboxVars, timerVars, requests, confirmed, known, gone,
                 uploadVars, serverVars, withdrawn>>

\* SidebarService's channel refresh re-reads last_root_post_at.
ChannelRefreshed(c) ==
  /\ c \notin Threads \cup gone
  /\ \E m \in Messages :
       /\ ConvOf[m] = c /\ createdAt[m] > known[c]
       /\ known' = [known EXCEPT ![c] = createdAt[m]]
  /\ UNCHANGED <<now, outboxVars, timerVars, requests, confirmed, resident,
                 gone, uploadVars, serverVars, withdrawn>>

\* The user leaves the channel, or it is archived.
ChannelLost(c) ==
  /\ c \in Losable \ gone
  /\ gone' = gone \cup {c}
  /\ UNCHANGED <<now, outboxVars, timerVars, requests, confirmed, known,
                 resident, uploadVars, serverVars, withdrawn>>

-----------------------------------------------------------------------------
(* The server.                                                             *)

Stamp(m) ==
  \/ /\ createdAt[m] = 0
     /\ clock' = clock + 1
     /\ createdAt' = [createdAt EXCEPT ![m] = clock + 1]
  \/ /\ createdAt[m] > 0
     /\ UNCHANGED <<clock, createdAt>>

ServerAccepts(r) ==
  /\ r \in requests /\ ~r.accepted
  /\ Stamp(r.post)
  /\ requests' = (requests \ {r}) \cup {[r EXCEPT !.accepted = TRUE]}
  /\ UNCHANGED <<now, outboxVars, timerVars, clientVars, uploadVars, floating,
                 echoed, withdrawn>>

ServerAcceptsLate(p) ==
  /\ p \in floating
  /\ floating' = floating \ {p}
  /\ Stamp(p)
  /\ UNCHANGED <<now, outboxVars, timerVars, requests, clientVars, uploadVars,
                 echoed, withdrawn>>

ForeignPosted(m) ==
  /\ m \in Foreign /\ createdAt[m] = 0
  /\ Stamp(m)
  /\ UNCHANGED <<now, outboxVars, timerVars, requests, clientVars, uploadVars,
                 floating, echoed, withdrawn>>

-----------------------------------------------------------------------------
User ==
  \/ \E p \in Posts : Enqueue(p) \/ EnqueueRefused(p) \/ Cancel(p) \/ Retry(p)
  \/ \E p \in Posts, u \in Uploads : Stage(p, u)

Timers ==
  \/ \E c \in Convs : Start(c)
  \/ \E t \in attemptDue : Attempt(t[1], t[2])
  \/ \E t \in retryDue : RetryTimer(t[1], t[2])
  \/ \E t \in deadlines : Deadline(t[1], t[2])
  \/ \E t \in confirmed : Forget(t[1], t[2])

Replies ==
  \/ \E r \in requests : CreateSucceeds(r)
  \/ \E r \in requests, retryable \in BOOLEAN : CreateFails(r, retryable)
  \/ \E t \in transfers, ok \in BOOLEAN : UploadReplies(t[1], t[2], ok)

Arrivals ==
  \/ \E m \in Messages : Realtime(m) \/ HistoryMerged(m) \/ Evicted(m)
  \/ \E c \in Convs : ChannelRefreshed(c) \/ ChannelLost(c)

Server ==
  \/ \E r \in requests : ServerAccepts(r)
  \/ \E p \in Posts : ServerAcceptsLate(p)
  \/ \E m \in Messages : ForeignPosted(m)

Next == User \/ Timers \/ Tick \/ Replies \/ Arrivals \/ Server

Spec == Init /\ [][Next]_vars

\* Qt runs every expired timer, and every HTTP request ends in a reply; the
\* user and the peers owe nothing.
Fairness ==
  /\ WF_vars(Tick)
  /\ WF_vars(Timers)
  /\ WF_vars(Replies)

FairSpec == Spec /\ Fairness

-----------------------------------------------------------------------------
TypeOK ==
  /\ now \in Nat
  /\ pending \subseteq Posts
  /\ issued \in Nat
  /\ serial \in [Posts -> Nat]
  /\ row \in [Posts -> Row]
  /\ starts \subseteq Convs
  /\ attemptDue \subseteq Posts \X Nat
  /\ retryDue \subseteq Posts \X Nat
  /\ deadlines \subseteq Posts \X Nat
  /\ requests \subseteq [post : Posts, gen : Nat, accepted : BOOLEAN]
  /\ confirmed \subseteq Posts \X Nat
  /\ known \in [Convs -> Nat]
  /\ resident \subseteq Messages
  /\ gone \subseteq Convs
  /\ upload \in [Uploads -> [state : UploadStates, gen : Nat]]
  /\ transfers \subseteq Uploads \X Nat
  /\ clock \in Nat
  /\ createdAt \in [Messages -> Nat]
  /\ floating \subseteq Posts
  /\ echoed \subseteq Messages
  /\ withdrawn \subseteq Posts
=============================================================================
