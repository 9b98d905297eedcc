----------------------------- MODULE Following -----------------------------
(***************************************************************************)
(* One followed thread: its row in FollowingModel, the requests of         *)
(* ThreadFollowService, a ChatLogWidget that shows the thread, and the     *)
(* server.                                                                 *)
(*                                                                         *)
(* The replies are numbered in order: a number is a post and its create_at *)
(* on the server, and a time of any clock is the reply it lies after.  The *)
(* client's clock is not the server's: a read to the end names any time.   *)
(* The server keeps whether the user follows the thread and up to which    *)
(* time he has read it.  The client learns of both only from snapshots:    *)
(* every event and every answer just schedules another one, and a snapshot *)
(* is two queries made one after the other, each answered in its own time; *)
(* the first asks for one page of the followed threads only.               *)
(* In between the client shows what it has done itself: a read to the end  *)
(* is acknowledged at once (the pending acknowledgement), a mark as unread *)
(* holds until it is read again (the marker and the attention it draws).   *)
(*                                                                         *)
(* Requests go over different connections and are taken in any order.  All *)
(* replies are by others; the thread stays open in one view.               *)
(***************************************************************************)
EXTENDS Naturals, Sequences, FiniteSets, FiniteSetsExt

CONSTANTS
    MaxPosts,      \* bound: replies of the thread
    Before,        \* the replies there when the client starts
    Slots,         \* bound: the requests to read that may be in flight
    MaxActs,       \* bound: clicks on the bell, what other devices and threads do, pages,
                   \* clocks that are off, a failure; a mark counts for two
    MaxEvents      \* bound: events under way

Posts == 1..MaxPosts

ASSUME FollowingAssumption ==
    /\ MaxPosts \in Nat /\ Before \in 0..MaxPosts
    /\ MaxActs \in Nat /\ MaxEvents \in Nat

VARIABLES
    (* The server, external. *)
    posted,     \* how many replies the thread has
    viewed,     \* last_viewed_at: the replies up to it are read
    followed,   \* the user follows the thread
    aged,       \* a page of followed threads has newer replies
    events,     \* its events of replies and of the membership under way, oldest first
    changed,    \* events that the thread was updated or read are under way
    (* FollowingModel. *)
    heard,      \* the replies in Storage
    row,        \* the entry of the thread in entries_
    marker,     \* manualUnreadMarkers_: the post of the mark, or 0
    attention,  \* manualAttentionKeys_ holds the thread
    timer,      \* threadRefreshTimer_ runs
    requested,  \* threadRefreshRequested_
    snapshot,   \* the two queries of a refresh
    (* Requests in flight. *)
    reads,      \* PUT .../read/<time>
    manual,     \* POST .../set_unread/<post>
    follows,    \* PUT and DELETE .../following
    (* ChatLogWidget. *)
    view,
    (* History, and the bounds. *)
    told,       \* the replies an event told of since the row is there
    lowered,    \* since the last read to the end the server's boundary moved back, or that
                \* read named a time before what it acknowledges
    failed,     \* a request failed, or a connection was lost
    acts

server   == <<posted, viewed, followed, aged, events, changed>>
marked   == <<marker, attention>>
refresh  == <<timer, requested, snapshot>>
calls    == <<reads, manual, follows>>
history  == <<told, lowered>>
spent    == <<failed, acts>>
vars     == <<server, heard, row, marked, refresh, calls, view, history, spent>>

Larger(m, n) == IF m < n THEN n ELSE m

-----------------------------------------------------------------------------
(* FollowingModel's entries.                                               *)

Entry == [present : BOOLEAN, unread : BOOLEAN, last : 0..MaxPosts, viewed : 0..MaxPosts,
          resume : {"Unknown", "FirstUnread", "AtEnd"}, first : 0..MaxPosts,
          through : 0..MaxPosts, pending : BOOLEAN, ackAt : 0..MaxPosts]

NoEntry == [present |-> FALSE, unread |-> FALSE, last |-> 0, viewed |-> 0,
            resume |-> "Unknown", first |-> 0, through |-> 0,
            pending |-> FALSE, ackAt |-> 0]

\* What the server tells of a thread, in the list of followed ones or of unread ones.
Summaries == [there : BOOLEAN, viewed : 0..MaxPosts, last : 0..MaxPosts, unread : BOOLEAN]
NoThread  == [there |-> FALSE, viewed |-> 0, last |-> 0, unread |-> FALSE]
Summary(unread) == [there |-> TRUE, viewed |-> viewed, last |-> posted, unread |-> unread]

\* A mutant: an event restarts the resume cursor of a thread read in part too.
NoteIncomingAlways(e, p) ==
    IF e.present THEN [e EXCEPT !.resume = "FirstUnread", !.first = p] ELSE e

\* noteIncomingForResume
NoteIncoming(e, p) ==
    IF e.present /\ e.resume = "AtEnd" /\ (e.through = 0 \/ p > e.through)
    THEN [e EXCEPT !.resume = "FirstUnread", !.first = p]
    ELSE e

\* FollowingModel::markPostUnread, for the entry.
MarkedUnread(e, p) ==
    [e EXCEPT !.present = TRUE, !.unread = TRUE, !.resume = "FirstUnread", !.first = p,
              !.through = 0, !.pending = FALSE, !.ackAt = 0, !.last = Larger(@, p)]

\* applyThreadSnapshot: a mark of this client holds the thread unread,
Held(e) ==
    IF ~attention THEN e
    ELSE IF marker = 0 THEN [e EXCEPT !.unread = TRUE]
    ELSE [e EXCEPT !.unread = TRUE, !.resume = "FirstUnread", !.first = marker, !.through = 0]

\* a pending acknowledgement holds it read, up to where it was read,
Acknowledged(e) ==
    IF ~e.pending THEN e
    ELSE IF e.unread /\ e.last <= e.ackAt THEN [e EXCEPT !.unread = FALSE]
    ELSE [e EXCEPT !.pending = FALSE, !.ackAt = 0]

\* and an entry that is not in the snapshot stays only for a mark.
Applied(e, thread) ==
    IF thread.there
    THEN Acknowledged(Held([e EXCEPT !.present = TRUE, !.viewed = thread.viewed,
                                     !.last = thread.last, !.unread = thread.unread]))
    ELSE IF attention THEN e ELSE NoEntry

\* nextCachedPostId, or 0.
NextCached(p) ==
    LET after == {h \in heard : h > p} IN IF after = {} THEN 0 ELSE Min(after)

\* observeReadThrough, for the entry.
ReadThrough(e, p, atEnd) ==
    IF ~e.present \/ p < e.through THEN e
    ELSE [e EXCEPT !.through = p,
                   !.first = NextCached(p),
                   !.resume = IF NextCached(p) # 0 THEN "FirstUnread"
                              ELSE IF atEnd THEN "AtEnd" ELSE "Unknown"]

\* markThreadRead, for the entry.
ReadToEnd(e) ==
    IF ~e.present THEN e
    ELSE [e EXCEPT !.unread = FALSE, !.pending = TRUE,
                   !.ackAt = IF e.through # 0 THEN e.through ELSE e.last]

-----------------------------------------------------------------------------
(* Calls, events and the view.                                             *)

Read   == [kind : {"none", "full", "part"}, upTo : 0..MaxPosts, taken : BOOLEAN,
           marks : BOOLEAN, heard : BOOLEAN]
NoRead == [kind |-> "none", upTo |-> 0, taken |-> FALSE, marks |-> FALSE, heard |-> FALSE]
Mark   == [post : Posts, taken : BOOLEAN]
Follow == [on : BOOLEAN, taken : BOOLEAN]

Event       == [kind : {"posted", "followed"}, post : 0..MaxPosts, on : BOOLEAN]
Posted(p)   == [kind |-> "posted", post |-> p, on |-> TRUE]
FollowedAs(on) == [kind |-> "followed", post |-> 0, on |-> on]

Snapshot == [stage : {"idle", "all", "allRead", "unread", "unreadRead"},
             all : Summaries, unread : Summaries]
NoSnapshot == [stage |-> "idle", all |-> NoThread, unread |-> NoThread]

(* gate: the marked post until it is seen again; observed: observedReadAt_;  *)
(* sent: readProgressSentAt_; due: readProgressTimer_; inFlight:             *)
(* readProgressInFlight_.                                                    *)
View == [gate : 0..MaxPosts, observed : 0..MaxPosts, sent : 0..MaxPosts,
         due : BOOLEAN, inFlight : BOOLEAN]

Init ==
    /\ posted = Before /\ viewed \in 0..Before /\ followed \in BOOLEAN
    /\ aged = FALSE /\ events = << >> /\ changed = FALSE
    /\ heard = 1..Before
    /\ row = NoEntry /\ marker = 0 /\ attention = FALSE
    /\ timer = TRUE /\ requested = FALSE /\ snapshot = NoSnapshot
    /\ reads = [s \in Slots |-> NoRead] /\ manual = {} /\ follows = {}
    /\ view = [gate |-> 0, observed |-> 0, sent |-> 0, due |-> FALSE, inFlight |-> FALSE]
    /\ told = {} /\ lowered = FALSE
    /\ failed = FALSE /\ acts = 0

Acts(n) == acts + n <= MaxActs /\ acts' = acts + n
Act     == Acts(1)
\* The first failure is the last act; that of a mark or of a follow is no act of its own.
Failure == failed' = TRUE /\ acts' = MaxActs
Trouble == acts < MaxActs /\ Failure

\* scheduleThreadRefresh.  Whatever sets threadSnapshotDirty_ starts the timer
\* or sets requested too, so that the flag decides nothing more.
Schedule == timer' = TRUE /\ UNCHANGED <<requested, snapshot>>

\* A mutant: an invalidation during a refresh is taken for a part of it.
RefreshThreadsForgetting ==
    IF snapshot.stage # "idle"
    THEN UNCHANGED <<requested, snapshot>>
    ELSE /\ snapshot' = [NoSnapshot EXCEPT !.stage = "all"]
         /\ requested' = FALSE

\* refreshThreads
RefreshThreads ==
    IF snapshot.stage # "idle"
    THEN requested' = TRUE /\ UNCHANGED snapshot
    ELSE /\ snapshot' = [NoSnapshot EXCEPT !.stage = "all"]
         /\ requested' = FALSE

\* ThreadFollowService::markThreadRead, of a call through FollowingModel, when the
\* client's clock says t.  That it is off by a reply or more counts as an act.
FullRead(t) == [kind |-> "full", upTo |-> t, taken |-> FALSE,
                marks |-> row.present, heard |-> FALSE]

SendsRead(s, t) ==
    /\ reads' = [reads EXCEPT ![s] = FullRead(t)]
    /\ lowered' = (t < row'.ackAt)
    /\ Acts(IF t = posted THEN 0 ELSE 1)

-----------------------------------------------------------------------------
(* The server, and other people.                                           *)

Emits(e) == Len(events) < MaxEvents /\ events' = Append(events, e)

SomebodyReplies ==
    /\ posted < MaxPosts
    /\ posted' = posted + 1 /\ Emits(Posted(posted + 1)) /\ aged' = FALSE
    /\ UNCHANGED <<viewed, followed, changed, heard, row, marked, refresh, calls, view,
                   history, spent>>

\* The boundary is what the request names, also when it is an older one.
ReadTaken(s) ==
    /\ reads[s].kind # "none" /\ ~reads[s].taken
    /\ reads' = [reads EXCEPT ![s].taken = TRUE]
    /\ viewed' = reads[s].upTo /\ changed' = TRUE
    /\ lowered' = (lowered \/ reads[s].upTo < viewed)
    /\ UNCHANGED <<posted, followed, aged, events, heard, row, marked, refresh, manual,
                   follows, view, told, spent>>

MarkTaken(c) ==
    /\ ~c.taken
    /\ manual' = (manual \ {c}) \cup {[c EXCEPT !.taken = TRUE]}
    /\ viewed' = c.post - 1 /\ changed' = TRUE
    /\ UNCHANGED <<posted, followed, aged, events, heard, row, marked, refresh, reads,
                   follows, view, history, spent>>

\* A DELETE is fire and forget: nobody waits for its answer.
FollowTaken(c) ==
    /\ ~c.taken
    /\ follows' = (follows \ {c}) \cup (IF c.on THEN {[c EXCEPT !.taken = TRUE]} ELSE {})
    /\ followed' = c.on /\ Emits(FollowedAs(c.on))
    /\ UNCHANGED <<posted, viewed, aged, changed, heard, row, marked, refresh, reads,
                   manual, view, history, spent>>

\* Another device reads the thread, by its own clock, or marks a reply as unread.
ReadElsewhere ==
    /\ Act
    /\ \E t \in 0..MaxPosts : viewed' = t /\ lowered' = (lowered \/ t < viewed)
    /\ changed' = TRUE
    /\ UNCHANGED <<posted, followed, aged, events, heard, row, marked, refresh, calls, view,
                   told, failed>>

FollowedElsewhere ==
    /\ Act
    /\ followed' = ~followed /\ Emits(FollowedAs(~followed))
    /\ UNCHANGED <<posted, viewed, aged, changed, heard, row, marked, refresh, calls, view,
                   history, failed>>

\* Other threads get replies, or are followed no more: each has its own event.
OthersMove ==
    /\ Act
    /\ aged' = ~aged /\ changed' = TRUE
    /\ UNCHANGED <<posted, viewed, followed, events, heard, row, marked, refresh, calls, view,
                   history, failed>>

\* The server reads what a query asks for: a page of the followed threads,
AllRead ==
    /\ snapshot.stage = "all"
    /\ snapshot' = [snapshot EXCEPT !.stage = "allRead",
                                    !.all = IF followed /\ ~aged
                                            THEN Summary(FALSE) ELSE NoThread]
    /\ UNCHANGED <<server, heard, row, marked, timer, requested, calls, view,
                   history, spent>>

\* and all the unread ones.
UnreadRead ==
    /\ snapshot.stage = "unread"
    /\ snapshot' = [snapshot EXCEPT !.stage = "unreadRead",
                                    !.unread = IF followed /\ viewed < posted
                                               THEN Summary(TRUE) ELSE NoThread]
    /\ UNCHANGED <<server, heard, row, marked, timer, requested, calls, view,
                   history, spent>>

ServerStep ==
    \/ SomebodyReplies \/ ReadElsewhere \/ FollowedElsewhere \/ OthersMove
    \/ AllRead \/ UnreadRead
    \/ \E s \in Slots : ReadTaken(s)
    \/ \E c \in manual : MarkTaken(c)
    \/ \E c \in follows : FollowTaken(c)

-----------------------------------------------------------------------------
(* Events.                                                                 *)

\* A reply: deliverPost and the model's own handler of Backend::onNewPost.
HearPosted ==
    /\ events # << >> /\ Head(events).kind = "posted"
    /\ LET p == Head(events).post
       IN  /\ heard' = heard \cup {p}
           /\ row' = NoteIncoming(row, p)
           /\ told' = IF row.present THEN told \cup {p} ELSE told
    /\ events' = Tail(events)
    /\ Schedule
    /\ UNCHANGED <<posted, viewed, followed, aged, changed, marked, calls, view, lowered,
                   spent>>

\* thread_updated and thread_read_changed.
HearChanged ==
    /\ changed /\ changed' \in BOOLEAN
    /\ Schedule
    /\ UNCHANGED <<posted, viewed, followed, aged, events, heard, row, marked, calls, view,
                   history, spent>>

\* followingChanged, as the model hears it.
FollowingChanged(on) ==
    /\ row' = IF on THEN row ELSE NoEntry
    /\ told' = IF on THEN told ELSE {}
    /\ Schedule

\* thread_follow_changed
HearFollowed ==
    /\ events # << >> /\ Head(events).kind = "followed"
    /\ events' = Tail(events)
    /\ FollowingChanged(Head(events).on)
    /\ UNCHANGED <<posted, viewed, followed, aged, changed, heard, marked, calls, view,
                   lowered, spent>>

\* The connection is lost with the events under way; the next one schedules a
\* refresh.
Reconnected ==
    /\ Trouble
    /\ events' = << >> /\ changed' = FALSE
    /\ Schedule
    /\ UNCHANGED <<posted, viewed, followed, aged, heard, row, marked, calls, view, history>>

\* A page of the thread brings what no event told of, or not yet.
HistoryMerged ==
    /\ heard # 1..posted
    /\ heard' = 1..posted
    /\ IF failed THEN UNCHANGED spent ELSE Act /\ UNCHANGED failed
    /\ UNCHANGED <<server, row, marked, refresh, calls, view, history>>

-----------------------------------------------------------------------------
(* Refreshes.                                                              *)

RefreshTimer ==
    /\ timer /\ timer' = FALSE
    /\ RefreshThreads
    /\ UNCHANGED <<server, heard, row, marked, calls, view, history, spent>>

\* The first query is answered, or fails and counts as an empty list.
AllAnswered(ok) ==
    /\ IF ok THEN snapshot.stage = "allRead" /\ UNCHANGED <<failed, acts>>
       ELSE snapshot.stage \in {"all", "allRead"} /\ Trouble
    /\ snapshot' = [stage |-> "unread", all |-> IF ok THEN snapshot.all ELSE NoThread,
                    unread |-> NoThread]
    /\ UNCHANGED <<server, heard, row, marked, timer, requested, calls, view,
                   history>>

\* The second one too: the two are merged and applied.
UnreadAnswered(ok) ==
    /\ IF ok THEN snapshot.stage = "unreadRead" /\ UNCHANGED <<failed, acts>>
       ELSE snapshot.stage \in {"unread", "unreadRead"} /\ Trouble
    /\ LET thread == IF ok /\ snapshot.unread.there THEN snapshot.unread ELSE snapshot.all
       IN  /\ row' = Applied(row, thread)
           /\ told' = IF row.present /\ ~(thread.there \/ attention) THEN {} ELSE told
    /\ snapshot' = NoSnapshot /\ requested' = FALSE
    /\ timer' = (timer \/ requested)
    /\ UNCHANGED <<server, heard, marked, calls, view, lowered>>

-----------------------------------------------------------------------------
(* Reading.                                                                *)

\* queueReadProgress, after post p was read.
QueueProgress(v, p) ==
    IF \A h \in heard : h <= p THEN [v EXCEPT !.due = FALSE]
    ELSE IF v.inFlight \/ ~row.unread \/ (\A h \in heard : h <= v.observed) \/ p <= v.sent THEN v
    ELSE [v EXCEPT !.due = TRUE]

\* updateReadCursorFromVisibility: p is the newest post that is seen.  A mark
\* holds the pass back until its post has been out of sight and is seen again;
\* where the viewport is meanwhile is left open.
Pass(p, s) ==
    /\ p \in heard /\ view.gate <= p
    /\ reads[s] = NoRead
    /\ LET atEnd == \A h \in heard : h <= p
           acknowledge == atEnd /\ row.present /\ (row.unread \/ row.resume = "FirstUnread")
           read == ReadThrough(row, p, atEnd)
       IN  /\ view' = QueueProgress([view EXCEPT !.gate = 0, !.observed = Larger(@, p)], p)
           /\ marker' = IF row.present /\ marker <= p THEN 0 ELSE marker
           /\ IF acknowledge /\ read.resume = "AtEnd"
              THEN row' = ReadToEnd(read) /\ \E t \in 0..MaxPosts : SendsRead(s, t)
              ELSE row' = read /\ UNCHANGED <<reads, lowered, acts>>
    /\ UNCHANGED <<server, heard, attention, refresh, manual, follows, told, failed>>

\* flushReadProgress
ToReport ==
    /\ ~view.inFlight /\ view.gate = 0
    /\ view.sent < view.observed /\ \E h \in heard : h > view.observed
    /\ row.present /\ row.viewed < view.observed

Flush(s) ==
    /\ view.due /\ ToReport /\ reads[s] = NoRead
    /\ reads' = [reads EXCEPT ![s] = [kind |-> "part", upTo |-> view.observed, taken |-> FALSE,
                                      marks |-> FALSE, heard |-> TRUE]]
    /\ view' = [view EXCEPT !.due = FALSE, !.inFlight = TRUE]
    /\ UNCHANGED <<server, heard, row, marked, refresh, manual, follows, history, spent>>

FlushNothing ==
    /\ view.due /\ ~ToReport
    /\ view' = [view EXCEPT !.due = FALSE]
    /\ UNCHANGED <<server, heard, row, marked, refresh, calls, history, spent>>

\* The answer to a read to the end.
FullReplied(s) ==
    /\ reads[s].kind = "full" /\ reads[s].taken
    /\ reads' = [reads EXCEPT ![s] = NoRead]
    /\ IF reads[s].marks THEN marker' = 0 /\ attention' = FALSE ELSE UNCHANGED marked
    /\ Schedule
    /\ UNCHANGED <<server, heard, row, manual, follows, view, history, spent>>

FullFails(s) ==
    /\ reads[s].kind = "full" /\ Trouble
    /\ reads' = [reads EXCEPT ![s] = NoRead]
    /\ row' = [row EXCEPT !.pending = FALSE, !.ackAt = 0]
    /\ Schedule
    /\ UNCHANGED <<server, heard, marked, manual, follows, view, history>>

\* The answer to progress: the model refreshes at once, and a view that is at
\* the end by now reads to the end again.
PartReplied(s, atEnd) ==
    /\ reads[s].kind = "part" /\ reads[s].taken
    /\ timer' = TRUE
    /\ IF ~reads[s].heard
       THEN /\ UNCHANGED <<requested, snapshot, row, view, lowered, acts>>
            /\ reads' = [reads EXCEPT ![s] = NoRead]
       ELSE /\ RefreshThreads
            /\ view' = [view EXCEPT !.inFlight = FALSE, !.sent = Larger(@, reads[s].upTo),
                                    !.due = @ \/ (~atEnd /\ view.observed > reads[s].upTo)]
            /\ IF atEnd /\ row.present
               THEN row' = ReadToEnd(row) /\ \E t \in 0..MaxPosts : SendsRead(s, t)
               ELSE UNCHANGED <<row, lowered, acts>> /\ reads' = [reads EXCEPT ![s] = NoRead]
    /\ UNCHANGED <<server, heard, marked, manual, follows, told, failed>>

PartFails(s, atEnd) ==
    /\ reads[s].kind = "part" /\ Trouble
    /\ reads' = [reads EXCEPT ![s] = NoRead]
    /\ view' = IF ~reads[s].heard THEN view
               ELSE [view EXCEPT !.inFlight = FALSE, !.due = @ \/ ~atEnd]
    /\ UNCHANGED <<server, heard, row, marked, refresh, manual, follows, history>>

-----------------------------------------------------------------------------
(* Marks as unread, and the bell.                                          *)

MarkPostUnread ==
    /\ Acts(2)
    /\ \E p \in heard :
        /\ \A c \in manual : c.post # p
        /\ manual' = manual \cup {[post |-> p, taken |-> FALSE]}
        /\ view' = [view EXCEPT !.gate = p, !.observed = 0, !.sent = 0, !.due = FALSE]
    /\ reads' = [s \in Slots |-> [reads[s] EXCEPT !.heard = FALSE]]
    /\ UNCHANGED <<server, heard, row, marked, refresh, follows, history, failed>>

MarkReplied ==
    \E c \in manual :
        /\ c.taken
        /\ manual' = manual \ {c}
        /\ marker' = c.post /\ attention' = TRUE
        /\ row' = MarkedUnread(row, c.post)
        /\ RefreshThreads
        /\ UNCHANGED <<server, heard, timer, reads, follows, view, history, spent>>

MarkFails ==
    \E c \in manual :
        /\ Failure
        /\ manual' = manual \ {c}
        /\ view' = IF view.gate = c.post THEN [view EXCEPT !.gate = 0] ELSE view
        /\ UNCHANGED <<server, heard, row, marked, refresh, reads, follows, history>>

\* setFollowing: an unfollow is shown at once, a follow when it is answered.
Unfollow ==
    /\ Act
    /\ follows' = follows \cup {[on |-> FALSE, taken |-> FALSE]}
    /\ FollowingChanged(FALSE)
    /\ UNCHANGED <<server, heard, marked, reads, manual, view, lowered, failed>>

StartFollowing ==
    /\ Act
    /\ follows' = follows \cup {[on |-> TRUE, taken |-> FALSE]}
    /\ UNCHANGED <<server, heard, row, marked, refresh, reads, manual, view, history,
                   failed>>

FollowReplied ==
    \E c \in follows :
        /\ c.taken
        /\ follows' = follows \ {c}
        /\ FollowingChanged(TRUE)
        /\ UNCHANGED <<server, heard, marked, reads, manual, view, lowered, spent>>

\* A call that never reaches the server, or whose answer does not come back.
FollowFails ==
    \E c \in follows :
        /\ Failure
        /\ follows' = follows \ {c}
        /\ UNCHANGED <<server, heard, row, marked, refresh, reads, manual, view, history>>

ClientStep ==
    \/ HearPosted \/ HearChanged \/ HearFollowed \/ Reconnected \/ HistoryMerged
    \/ RefreshTimer
    \/ \E ok \in BOOLEAN : AllAnswered(ok) \/ UnreadAnswered(ok)
    \/ \E s \in Slots :
        \/ \E p \in Posts : Pass(p, s)
        \/ Flush(s) \/ FullReplied(s) \/ FullFails(s)
        \/ \E atEnd \in BOOLEAN : PartReplied(s, atEnd) \/ PartFails(s, atEnd)
    \/ FlushNothing
    \/ MarkPostUnread \/ MarkReplied \/ MarkFails
    \/ Unfollow \/ StartFollowing \/ FollowReplied \/ FollowFails

Next == ServerStep \/ ClientStep
Spec == Init /\ [][Next]_vars

-----------------------------------------------------------------------------
(* Properties.                                                             *)

ServerTypes ==
    /\ posted \in 0..MaxPosts /\ viewed \in 0..MaxPosts /\ followed \in BOOLEAN
    /\ aged \in BOOLEAN /\ events \in Seq(Event) /\ changed \in BOOLEAN
RowTypes ==
    /\ row \in Entry /\ (~row.present => row = NoEntry)
    /\ marker \in 0..MaxPosts /\ attention \in BOOLEAN /\ (marker # 0 => attention)
RefreshTypes ==
    /\ timer \in BOOLEAN /\ requested \in BOOLEAN
    /\ snapshot \in Snapshot /\ (requested => snapshot.stage # "idle")
CallsTypes == reads \in [Slots -> Read] /\ manual \subseteq Mark /\ follows \subseteq Follow
HistoryTypes ==
    /\ heard \subseteq 1..posted /\ told \subseteq heard /\ lowered \in BOOLEAN
    /\ failed \in BOOLEAN /\ acts \in 0..MaxActs

\* The members have their types, a refresh that is asked for waits for one under
\* way, a row that is not there has nothing to resume, and a marker draws attention.
TypeOK ==
    /\ ServerTypes /\ RowTypes /\ RefreshTypes /\ CallsTypes /\ view \in View
    /\ HistoryTypes

Quiet ==
    /\ ~timer /\ snapshot.stage = "idle" /\ events = << >> /\ ~changed
    /\ \A s \in Slots : reads[s] = NoRead
    /\ manual = {} /\ follows = {} /\ ~failed

\* Once everything is answered and nothing failed, the row tells what the server
\* has, whoever read or marked the thread on which device.  A followed thread has
\* its row when it is unread or on the first page; a row is shown unread for what
\* the server has unread or for a mark made here, and shown read when the server
\* has all of it read, with one exception, which the code makes: an acknowledgement
\* that is still pending hides that the server has less read, but only of replies
\* it covers, and only if the boundary moved back since it was made or the
\* client's clock was behind when it was sent (applyThreadSnapshot).
RowTellsServer ==
    Quiet =>
        /\ followed /\ (viewed < posted \/ ~aged) => row.present
        /\ row.present => followed \/ attention
        /\ row.present /\ row.unread => (followed /\ viewed < posted) \/ attention
        /\ row.present /\ ~row.unread =>
              /\ ~attention
              /\ followed /\ viewed < posted => row.pending /\ posted <= row.ackAt /\ lowered

\* The resume cursor skips no reply the program was told of.
ResumeSkipsNothing ==
    row.present /\ row.through # 0 =>
        /\ row.resume = "AtEnd" => \A p \in told : p <= row.through
        /\ row.resume = "FirstUnread" =>
              /\ row.through < row.first
              /\ \A p \in told : p <= row.through \/ row.first <= p
=============================================================================
