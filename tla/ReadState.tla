----------------------------- MODULE ReadState -----------------------------
(***************************************************************************)
(* What of one channel is read: the activity and the read checkpoints of   *)
(* SidebarService, a ChatLogWidget that shows the channel, and the server. *)
(*                                                                         *)
(* The posts are numbered in order, so that a number is a post, its        *)
(* create_at, and how many messages there are up to it.  The server keeps  *)
(* one boundary: the posts up to it are read.  A request to view moves it  *)
(* to the end; set_unread(p) moves it to just before p, and the client     *)
(* uses it both for "mark as unread" and, with the first post not yet      *)
(* read, to report partial progress (a checkpoint).  The two go over       *)
(* different connections, so that the server may take them in any order.   *)
(* Replies of checkpoints rewrite the whole entry of the channel, and the  *)
(* server sends an event of each change too, before or after the reply.    *)
(*                                                                         *)
(* Collapsed threads are off: all posts count for the channel.             *)
(***************************************************************************)
EXTENDS Naturals, Sequences, FiniteSets

CONSTANTS
    MaxPosts,      \* bound: posts of the channel
    Before,        \* the posts there when the client starts
    Own,           \* the posts this user writes
    Mentions,      \* the posts that mention the user
    NamesTime,     \* the server's event of a view names its time
    MaxActs,       \* bound: marks as unread, what another device does, and troubles
    MaxRefreshes,  \* bound: refreshes of the sidebar's snapshot
    MaxViews,      \* bound: requests to view in flight
    MaxEvents      \* bound: events under way

Posts == 1..MaxPosts

ASSUME ReadAssumption ==
    /\ MaxPosts \in Nat /\ Before \in 0..MaxPosts
    /\ Own \subseteq Posts /\ Mentions \subseteq Posts \ Own
    /\ NamesTime \in BOOLEAN
    /\ MaxActs \in Nat /\ MaxRefreshes \in Nat
    /\ MaxViews \in Nat /\ MaxEvents \in Nat

VARIABLES
    (* The server, external. *)
    posted,     \* how many posts the channel has
    boundary,   \* the posts up to it are read
    events,     \* its events under way, oldest first
    views,      \* requests to view in flight
    (* SidebarService and the channel in Storage. *)
    entry,      \* the tracker's entry of the channel
    lastPost, total,   \* last_post_at, total_msg_count
    pending,    \* pendingReadCheckpoints_ with the call under way
    recent,     \* recentReadCheckpointIds_
    manual,     \* the calls to mark a post as unread
    members,    \* the GET of the memberships
    retry,      \* its retry timer runs
    loaded,     \* membershipsLoaded
    summaries,  \* the GET of the channel summaries
    (* ChatLogWidget. *)
    rows,       \* the newest post its source has
    view,
    (* History, and the bounds. *)
    readAll,    \* how far the last full read went; 0 after a mark as unread
    outran,     \* a set_unread was taken or told while a snapshot was under way
    marks, refreshes, troubles

server  == <<posted, boundary, events, views>>
numbers == <<lastPost, total>>
channel == <<entry, numbers>>
calls   == <<pending, recent, manual>>
loading == <<members, retry, loaded, summaries>>
widget  == <<rows, view>>
client  == <<channel, calls, loading, widget>>
history == <<readAll, outran>>
bounds  == <<marks, refreshes, troubles>>
vars    == <<server, client, history, bounds>>

Larger(m, n)  == IF m < n THEN n ELSE m
Smaller(m, n) == IF m < n THEN m ELSE n
Less(m, n)    == IF m < n THEN 0 ELSE m - n

-----------------------------------------------------------------------------
(* ChannelActivityTracker.                                                 *)

Entry == [viewed : 0..MaxPosts, read : 0..MaxPosts, credit : Nat, mentions : BOOLEAN,
          serverUnread : BOOLEAN, serverMentioned : BOOLEAN,
          runtime : BOOLEAN, runtimeMentioned : BOOLEAN]

\* What the server tells of a membership.
Answers  == [boundary : 0..MaxPosts, mentioned : BOOLEAN]
NoAnswer == [boundary |-> MaxPosts + 1, mentioned |-> FALSE]
Membership(at) == [boundary |-> at, mentioned |-> \E p \in Mentions : at < p /\ p <= posted]

\* A mutant: the mentions of an older snapshot are taken too.
SetMembershipBlindly(e, a) ==
    [e EXCEPT !.viewed = Larger(@, a.boundary),
              !.credit = Less(@, Less(a.boundary, e.read)),
              !.read = Larger(@, a.boundary),
              !.mentions = a.mentioned]

SetMembership(e, a) ==
    LET stale == a.boundary < e.viewed \/ a.boundary < e.read
    IN  [e EXCEPT !.viewed = Larger(@, a.boundary),
                  !.credit = Less(@, Less(a.boundary, e.read)),
                  !.read = Larger(@, a.boundary),
                  !.mentions = IF stale THEN @ ELSE a.mentioned]

\* A mutant: a snapshot stands for the posts that came by events too.
SynchronizeClearing(e, count) ==
    [e EXCEPT !.serverUnread = count > e.read /\ count - e.read > e.credit,
              !.serverMentioned = e.mentions, !.runtime = FALSE, !.runtimeMentioned = FALSE]

Synchronize(e, count) ==
    [e EXCEPT !.serverUnread = count > e.read /\ count - e.read > e.credit,
              !.serverMentioned = e.mentions]

RecordPost(e, p) ==
    IF p \in Own THEN [e EXCEPT !.credit = @ + 1]
    ELSE [e EXCEPT !.runtime = TRUE, !.runtimeMentioned = @ \/ p \in Mentions]

RecordViewed(e, at, count) ==
    [viewed |-> Larger(e.viewed, at), read |-> Larger(e.read, count), credit |-> 0,
     mentions |-> FALSE, serverUnread |-> FALSE, serverMentioned |-> FALSE,
     runtime |-> FALSE, runtimeMentioned |-> FALSE]

SetUnread(e, a) ==
    [viewed |-> a.boundary, read |-> a.boundary, credit |-> 0,
     mentions |-> a.mentioned, serverUnread |-> TRUE, serverMentioned |-> a.mentioned,
     runtime |-> FALSE, runtimeMentioned |-> FALSE]

HasMention(e)  == e.serverMentioned \/ e.runtimeMentioned
IsUnread(e)    == HasMention(e) \/ e.serverUnread \/ e.runtime
UnreadCount(e) == Less(Less(total, e.read), e.credit)

-----------------------------------------------------------------------------
(* Calls, events and the view.                                             *)

NoPost   == 0
NoCall   == [post |-> NoPost, full |-> FALSE, answer |-> NoAnswer]
Call(p)  == [post |-> p, full |-> FALSE, answer |-> NoAnswer]
Mark(p)  == [post |-> p, answer |-> NoAnswer]

PostedEvent(p)            == [kind |-> "posted", post |-> p]
\* multiple_channels_viewed names the time, channel_viewed does not.
ViewedEvent               == [kind |-> "viewed", at |-> IF NamesTime THEN posted' ELSE 0]
UnreadEvent(p, a, origin) == [kind |-> "unread", post |-> p, answer |-> a, origin |-> origin]

Event == [kind : {"posted"}, post : Posts]
         \cup [kind : {"viewed"}, at : 0..MaxPosts]
         \cup [kind : {"unread"}, post : Posts, answer : Answers,
               origin : {"checkpoint", "mark", "elsewhere"}]

\* The members of ChatLogWidget that reading is about.  "edge" is the newest
\* post whose lower edge is in the viewport, of a viewport that is one row high.
\* "heard" tells whether the completion of the last checkpoint still belongs
\* to this generation; the post it reports is the one before pending.post.
View == [edge : 0..MaxPosts, scheduled : BOOLEAN,
         observed : 0..MaxPosts, sent : 0..MaxPosts, timer : BOOLEAN,
         inFlight : BOOLEAN, heard : {"nobody", "current", "old"},
         phase : {"Idle", "WaitForExit", "WaitForEntry"}, marked : 0..MaxPosts,
         exited : BOOLEAN, high : 0..MaxPosts]

Gate(v, p) ==
    [v EXCEPT !.phase = IF v.edge = p THEN "WaitForExit" ELSE "WaitForEntry",
              !.marked = p]
Ungated(v) ==
    [v EXCEPT !.phase = "Idle", !.marked = NoPost, !.exited = FALSE, !.high = 0]
Scheduled(v) == [v EXCEPT !.scheduled = TRUE]

\* A new generation: the completion of a checkpoint will find it is an old one.
Regenerated(v) ==
    [v EXCEPT !.observed = 0, !.sent = 0, !.timer = FALSE,
              !.heard = IF @ = "current" THEN "old" ELSE @]

\* The handler of channelUnreadRewound.
Rewind(v, p) == Gate([Regenerated(v) EXCEPT !.inFlight = FALSE], p)

\* A mutant: the origin of the set_unread is not looked at.
RewindsWhenever(e, p, a) == a.boundary < e.viewed

\* applyServerPostUnread: whether it tells the views that the boundary went back.
Rewinds(e, p, a) == p \notin recent /\ a.boundary < e.viewed

AtEnd(v) == v.edge = rows

\* unreadEdgeCount
EdgeCount(v) ==
    IF v.observed = 0 THEN UnreadCount(entry)
    ELSE Smaller(UnreadCount(entry), Less(rows, v.observed))

Init ==
    /\ posted = Before /\ boundary \in 0..Before /\ events = << >> /\ views = 0
    /\ entry = Synchronize(
          [viewed |-> boundary, read |-> boundary, credit |-> 0,
           mentions |-> Membership(boundary).mentioned,
           serverUnread |-> FALSE, serverMentioned |-> FALSE,
           runtime |-> FALSE, runtimeMentioned |-> FALSE], Before)
    /\ lastPost = Before /\ total = Before
    /\ pending = NoCall /\ recent = {} /\ manual = {}
    /\ members = [stage |-> "idle", answer |-> NoAnswer]
    /\ retry = FALSE /\ loaded = TRUE
    /\ summaries = [stage |-> "idle", posts |-> 0]
    /\ rows = Before
    /\ view = [edge |-> 0, scheduled |-> FALSE, observed |-> 0, sent |-> 0,
               timer |-> FALSE, inFlight |-> FALSE, heard |-> "nobody",
               phase |-> "Idle", marked |-> NoPost, exited |-> FALSE, high |-> 0]
    /\ readAll = 0 /\ outran = FALSE
    /\ marks = 0 /\ refreshes = 0 /\ troubles = 0

-----------------------------------------------------------------------------
(* The server, and the user on another device.                             *)

Tell(es) ==
    /\ Len(events) + Len(es) <= MaxEvents
    /\ events' = events \o es

\* Somebody posts.  A post of one's own is a view of the channel too.
SomebodyPosts ==
    /\ posted < MaxPosts
    /\ posted' = posted + 1
    /\ IF posted' \in Own
       THEN Tell(<<PostedEvent(posted'), ViewedEvent>>) /\ boundary' = posted'
       ELSE Tell(<<PostedEvent(posted')>>) /\ boundary' = boundary
    /\ UNCHANGED <<views, client, history, bounds>>

ViewTaken ==
    /\ views > 0
    /\ views' = views - 1
    /\ boundary' = posted
    /\ posted' = posted
    /\ Tell(<<ViewedEvent>>)
    /\ UNCHANGED <<client, history, bounds>>

ViewedElsewhere ==
    /\ boundary < posted
    /\ boundary' = posted
    /\ posted' = posted
    /\ Tell(<<ViewedEvent>>)
    /\ marks + troubles < MaxActs /\ marks' = marks + 1
    /\ UNCHANGED <<views, client, history, refreshes, troubles>>

ViewFails ==
    /\ views > 0 /\ marks + troubles < MaxActs
    /\ views' = views - 1
    /\ readAll' = 0
    /\ troubles' = troubles + 1
    /\ UNCHANGED <<posted, boundary, events, client, outran, marks, refreshes>>

Outrun == outran' = (outran \/ "read" \in {members.stage, summaries.stage})

\* The server takes a set_unread: the boundary is just before the post.
SetUnreadTaken(p, origin) ==
    /\ boundary' = p - 1
    /\ Outrun
    /\ Tell(<<UnreadEvent(p, Membership(p - 1), origin)>>)

CheckpointTaken ==
    /\ pending.post # NoPost /\ pending.answer = NoAnswer
    /\ SetUnreadTaken(pending.post, "checkpoint")
    /\ pending' = [pending EXCEPT !.answer = Membership(pending.post - 1)]
    /\ UNCHANGED <<posted, views, channel, recent, manual, loading, widget, readAll,
                   bounds>>

MarkTaken ==
    \E c \in manual :
        /\ c.answer = NoAnswer
        /\ SetUnreadTaken(c.post, "mark")
        /\ manual' = (manual \ {c}) \cup {[c EXCEPT !.answer = Membership(c.post - 1)]}
        /\ readAll' = 0
        /\ UNCHANGED <<posted, views, channel, pending, recent, loading, widget,
                       bounds>>

MarkedElsewhere ==
    /\ marks + troubles < MaxActs
    /\ \E p \in 1..posted : SetUnreadTaken(p, "elsewhere")
    /\ readAll' = 0
    /\ marks' = marks + 1
    /\ UNCHANGED <<posted, views, client, refreshes, troubles>>

\* The GETs read the server.
MembersRead ==
    /\ members.stage = "asked"
    /\ members' = [stage |-> "read", answer |-> Membership(boundary)]
    /\ UNCHANGED <<server, channel, calls, retry, loaded, summaries, widget, history,
                   bounds>>

SummariesRead ==
    /\ summaries.stage = "asked"
    /\ summaries' = [stage |-> "read", posts |-> posted]
    /\ UNCHANGED <<server, channel, calls, members, retry, loaded, widget, history,
                   bounds>>

ServerStep ==
    \/ SomebodyPosts \/ ViewTaken \/ ViewedElsewhere \/ ViewFails \/ CheckpointTaken \/ MarkTaken
    \/ MarkedElsewhere \/ MembersRead \/ SummariesRead

-----------------------------------------------------------------------------
(* Events.                                                                 *)

\* An event of a post: deliverPost, then the sources and recordChannelPost.  A
\* viewport at the end stays there.
HearPosted(m) ==
    /\ m.kind = "posted"
    /\ lastPost' = Larger(lastPost, m.post)
    /\ rows' = Larger(rows, m.post)
    /\ entry' = RecordPost(entry, m.post)
    /\ view' = [Scheduled(view) EXCEPT !.edge = IF AtEnd(view) THEN rows' ELSE @]
    /\ UNCHANGED history

\* applyServerChannelViewed
HearViewed(m) ==
    /\ m.kind = "viewed"
    /\ entry' = RecordViewed(entry, IF m.at = 0 THEN lastPost ELSE m.at, total)
    /\ UNCHANGED <<lastPost, widget, history>>

\* applyServerPostUnread
HearUnread(m) ==
    /\ m.kind = "unread"
    /\ entry' = SetUnread(entry, m.answer)
    /\ Outrun
    /\ view' = IF Rewinds(entry, m.post, m.answer) THEN Rewind(view, m.post) ELSE view
    /\ readAll' = IF m.origin = "checkpoint" /\ readAll <= m.answer.boundary THEN readAll ELSE 0
    /\ UNCHANGED <<lastPost, rows>>

Hear ==
    /\ events # << >>
    /\ events' = Tail(events)
    /\ HearPosted(Head(events)) \/ HearViewed(Head(events)) \/ HearUnread(Head(events))
    /\ UNCHANGED <<posted, boundary, views, total, calls, loading, bounds>>

\* The tag of a checkpoint expires after a minute: later than its answer and its
\* event, which is the assumption the code makes.
Untag ==
    \E p \in recent :
        /\ pending.post # p
        /\ \A i \in DOMAIN events :
               ~(events[i].kind = "unread" /\ events[i].post = p /\ events[i].origin = "checkpoint")
        /\ recent' = recent \ {p}
        /\ UNCHANGED <<server, channel, pending, manual, loading, widget, history,
                       bounds>>

-----------------------------------------------------------------------------
(* Reading.                                                                *)

\* What lies in the viewport changes; a pass over it is due.
Scroll ==
    /\ \E e \in 0..rows : e # view.edge /\ view' = [Scheduled(view) EXCEPT !.edge = e]
    /\ UNCHANGED <<server, channel, calls, loading, rows, history, bounds>>

\* updateReadCursorFromVisibility, held back by the gate of a marked post.
Blocked(v) ==
    \/ v.phase = "WaitForExit"
    \/ v.phase = "WaitForEntry" /\ v.edge # v.marked

PassBlocked ==
    /\ view.scheduled /\ Blocked(view)
    /\ LET leaves == view.phase = "WaitForExit" /\ view.edge # view.marked
           exited == view.exited \/ leaves
       IN  view' = [view EXCEPT
                      !.scheduled = FALSE,
                      !.phase = IF leaves THEN "WaitForEntry" ELSE @,
                      !.exited = exited,
                      !.high = IF exited /\ view.edge > view.marked
                               THEN Larger(@, view.edge) ELSE @]
    /\ UNCHANGED <<server, channel, calls, loading, rows, history, bounds>>

\* queueReadProgress
QueueProgress(v, post) ==
    IF post >= rows THEN [v EXCEPT !.timer = FALSE]
    ELSE IF v.inFlight \/ EdgeCount(v) = 0 \/ post <= v.sent THEN v
    ELSE [v EXCEPT !.timer = TRUE]

\* A mutant: a checkpoint under way is not told of the full read.
MarkViewedForgetting ==
    /\ entry' = RecordViewed(entry, lastPost, total)
    /\ UNCHANGED pending

\* markChannelViewedLocally
MarkViewedLocally ==
    /\ entry' = RecordViewed(entry, lastPost, total)
    /\ pending' = IF pending.post = NoPost THEN pending ELSE [pending EXCEPT !.full = TRUE]

\* acknowledgeChannelRead, when the last row of the source was read.
Acknowledge ==
    /\ MarkViewedLocally
    /\ views' = views + 1
    /\ readAll' = IF manual = {} THEN Smaller(rows, lastPost) ELSE readAll

\* The pass: the newest post that is seen, or was seen while a mark held it back.
PassReads ==
    /\ view.scheduled /\ ~Blocked(view)
    /\ views < MaxViews
    /\ LET post == IF view.phase = "Idle" THEN view.edge ELSE Larger(view.edge, view.high)
           open == IF view.phase = "Idle" THEN view ELSE Ungated(view)
           seen == [open EXCEPT !.scheduled = FALSE, !.observed = Larger(@, post)]
       IN  /\ view' = IF post = 0 THEN seen ELSE QueueProgress(seen, post)
           /\ IF post = rows /\ post # 0 /\ IsUnread(entry)
              THEN Acknowledge
              ELSE UNCHANGED <<views, entry, pending, readAll>>
    /\ UNCHANGED <<posted, boundary, events, numbers, recent, manual, loading, rows,
                   outran, bounds>>

-----------------------------------------------------------------------------
(* Checkpoints of partial progress.                                        *)

\* flushReadProgress: is there progress that nothing else reports?
ToReport(v) ==
    /\ ~v.inFlight /\ v.phase = "Idle"
    /\ v.sent < v.observed /\ v.observed < rows
    /\ entry.viewed < v.observed

FlushNothing ==
    /\ view.timer /\ ~ToReport(view)
    /\ view' = [view EXCEPT !.timer = FALSE]
    /\ UNCHANGED <<server, channel, calls, loading, rows, history, bounds>>

\* checkpointChannelRead refuses: another view's checkpoint is under way.
FlushRefused ==
    /\ view.timer /\ ToReport(view) /\ pending.post # NoPost
    /\ view' = [view EXCEPT !.timer = ~AtEnd(view)]
    /\ UNCHANGED <<server, channel, calls, loading, rows, history, bounds>>

\* A mutant: the checkpoint is not tagged as the program's own.
FlushUntagged ==
    /\ view.timer /\ ToReport(view) /\ pending.post = NoPost
    /\ pending' = Call(view.observed + 1)
    /\ view' = [view EXCEPT !.timer = FALSE, !.inFlight = TRUE, !.heard = "current"]
    /\ UNCHANGED <<server, channel, recent, manual, loading, rows, history, bounds>>

Flush ==
    /\ view.timer /\ ToReport(view) /\ pending.post = NoPost
    /\ pending' = Call(view.observed + 1)
    /\ recent' = recent \cup {view.observed + 1}
    /\ view' = [view EXCEPT !.timer = FALSE, !.inFlight = TRUE, !.heard = "current"]
    /\ UNCHANGED <<server, channel, manual, loading, rows, history, bounds>>

\* The completion in flushReadProgress, but for its acknowledgement.
Completed(v, ok) ==
    LET done == [v EXCEPT !.inFlight = FALSE, !.heard = "nobody",
                          !.sent = IF ok THEN Larger(@, pending.post - 1) ELSE @]
    IN  IF v.heard # "current" THEN [v EXCEPT !.heard = "nobody"]
        ELSE IF ~AtEnd(v) /\ (~ok \/ v.observed >= pending.post) THEN [done EXCEPT !.timer = TRUE]
        ELSE done

\* The reply: the entry is rewritten, a full read that overtook the checkpoint
\* is repeated, and the view that reported it goes on.
CheckpointReplied(ok) ==
    /\ pending.post # NoPost
    /\ IF ok THEN pending.answer # NoAnswer /\ UNCHANGED troubles
       ELSE marks + troubles < MaxActs /\ troubles' = troubles + 1
    /\ LET moved == IF ok THEN SetUnread(entry, pending.answer) ELSE entry
           back  == ok /\ Rewinds(entry, pending.post, pending.answer)
           again == IF pending.full THEN RecordViewed(moved, lastPost, total) ELSE moved
           told  == IF back THEN Rewind(view, pending.post) ELSE view
           ack   == ok /\ told.heard = "current" /\ AtEnd(told) /\ IsUnread(again)
       IN  /\ entry' = IF ack THEN RecordViewed(again, lastPost, total) ELSE again
           /\ view' = Completed(told, ok)
           /\ views' = views + (IF pending.full THEN 1 ELSE 0) + (IF ack THEN 1 ELSE 0)
           /\ views' <= MaxViews
           /\ readAll' = IF back THEN 0 ELSE IF ack /\ manual = {} THEN Smaller(rows, lastPost) ELSE readAll
    /\ pending' = NoCall
    /\ IF ok THEN Outrun ELSE UNCHANGED outran
    /\ UNCHANGED <<posted, boundary, events, numbers, recent, manual, loading, rows,
                   marks, refreshes>>

\* Another view of the channel reports its progress.
OtherViewFlushes ==
    /\ pending.post = NoPost
    /\ \E p \in 1..rows :
        /\ p < rows /\ entry.viewed < p
        /\ pending' = Call(p + 1)
        /\ recent' = recent \cup {p + 1}
    /\ UNCHANGED <<server, channel, manual, loading, widget, history, bounds>>

-----------------------------------------------------------------------------
(* Marks as unread.                                                        *)

\* ChatLogWidget::markPostUnread; it leaves readProgressInFlight_ alone.
MarkPostUnread ==
    /\ marks + troubles < MaxActs
    /\ \E p \in 1..rows :
        /\ \A c \in manual : c.post # p
        /\ view' = Gate([Regenerated(view) EXCEPT !.exited = FALSE, !.high = 0], p)
        /\ manual' = manual \cup {Mark(p)}
    /\ marks' = marks + 1
    /\ UNCHANGED <<server, channel, pending, recent, loading, rows, history, refreshes,
                   troubles>>

MarkReplied ==
    \E c \in manual :
        /\ c.answer # NoAnswer
        /\ manual' = manual \ {c}
        /\ entry' = SetUnread(entry, c.answer)
        /\ Outrun
        /\ LET back == Rewinds(entry, c.post, c.answer)
           IN  /\ view' = Scheduled(IF back THEN Rewind(view, c.post) ELSE view)
               /\ readAll' = 0
        /\ UNCHANGED <<server, numbers, pending, recent, loading, rows, bounds>>

\* The bound leaves every mark its own failure.
MarkFails ==
    /\ troubles < MaxActs
    /\ \E c \in manual :
        /\ manual' = manual \ {c}
        /\ view' = IF view.marked = c.post THEN Scheduled(Ungated(view)) ELSE view
    /\ troubles' = troubles + 1
    /\ UNCHANGED <<server, channel, pending, recent, loading, rows, history, marks,
                   refreshes>>

-----------------------------------------------------------------------------
(* The snapshot of the sidebar: memberships first, then summaries.         *)

Idle == [stage |-> "idle", answer |-> NoAnswer]

\* retrieveChannelMemberships, when nothing is loaded.
Retrieve ==
    members' = IF members.stage = "idle" THEN [Idle EXCEPT !.stage = "asked"] ELSE members

\* refreshServerSnapshot.  The bound lets it wait for the last summaries.
Refresh ==
    /\ refreshes < MaxRefreshes
    /\ summaries.stage = "idle"
    /\ loaded' = FALSE
    /\ Retrieve
    /\ refreshes' = refreshes + 1
    /\ UNCHANGED <<retry, summaries, outran>>

Refreshed ==
    /\ Refresh
    /\ UNCHANGED <<server, channel, calls, widget, history, marks, troubles>>

\* The WebSocket was down: what it had to say is lost, and once it is back the
\* snapshot is refreshed.
EventsLost ==
    /\ events # << >> /\ marks + troubles < MaxActs
    /\ events' = << >>
    /\ troubles' = troubles + 1
    /\ Refresh
    /\ UNCHANGED <<posted, boundary, views, channel, calls, widget, history, marks>>

\* Posts come with a page of history, without an event.
HistoryMerged ==
    /\ rows < posted
    /\ rows' = posted
    /\ view' = [Scheduled(view) EXCEPT !.edge = IF AtEnd(view) THEN rows' ELSE @]
    /\ UNCHANGED <<server, channel, calls, loading, history, bounds>>

MembersReplied ==
    /\ members.stage = "read"
    /\ entry' = Synchronize(SetMembership(entry, members.answer), total)
    /\ members' = Idle
    /\ loaded' = TRUE
    /\ summaries' = [stage |-> "asked", posts |-> 0]
    /\ UNCHANGED <<server, numbers, calls, retry, widget, history, bounds>>

MembersFail ==
    /\ members.stage # "idle" /\ marks + troubles < MaxActs
    /\ members' = Idle
    /\ retry' = TRUE
    /\ troubles' = troubles + 1
    /\ UNCHANGED <<server, channel, calls, loaded, summaries, widget, history, marks,
                   refreshes>>

RetryTimer ==
    /\ retry
    /\ retry' = FALSE
    /\ IF loaded THEN UNCHANGED members ELSE Retrieve
    /\ UNCHANGED <<server, channel, calls, loaded, summaries, widget, history, bounds>>

\* refreshKnownChannelSummaries: newer live events win over the answer.
SummariesReplied ==
    /\ summaries.stage = "read"
    /\ summaries' = [stage |-> "idle", posts |-> 0]
    /\ IF summaries.posts < lastPost THEN UNCHANGED numbers
       ELSE lastPost' = summaries.posts /\ total' = summaries.posts
    /\ entry' = Synchronize(entry, total')
    /\ UNCHANGED <<server, calls, members, retry, loaded, widget, history, bounds>>

SummariesFail ==
    /\ summaries.stage # "idle" /\ marks + troubles < MaxActs
    /\ summaries' = [stage |-> "idle", posts |-> 0]
    /\ entry' = Synchronize(entry, total)
    /\ troubles' = troubles + 1
    /\ UNCHANGED <<server, numbers, calls, members, retry, loaded, widget, history,
                   marks, refreshes>>

ClientStep ==
    \/ Hear \/ Untag \/ Scroll \/ PassBlocked \/ PassReads
    \/ FlushNothing \/ FlushRefused \/ Flush \/ OtherViewFlushes
    \/ CheckpointReplied(TRUE) \/ CheckpointReplied(FALSE)
    \/ MarkPostUnread \/ MarkReplied \/ MarkFails
    \/ Refreshed \/ EventsLost \/ HistoryMerged
    \/ MembersReplied \/ MembersFail \/ RetryTimer \/ SummariesReplied \/ SummariesFail

Next == ServerStep \/ ClientStep

Spec == Init /\ [][Next]_vars

-----------------------------------------------------------------------------
(* Properties.                                                             *)

ServerTypes ==
    /\ posted \in 0..MaxPosts /\ boundary \in 0..MaxPosts
    /\ events \in Seq(Event) /\ views \in 0..MaxViews
ChannelTypes ==
    /\ entry \in Entry /\ lastPost \in 0..MaxPosts /\ total \in 0..MaxPosts
CallsTypes ==
    /\ pending \in [post : 0..MaxPosts, full : BOOLEAN, answer : Answers \cup {NoAnswer}]
    /\ recent \subseteq Posts
    /\ manual \subseteq [post : Posts, answer : Answers \cup {NoAnswer}]
LoadingTypes ==
    /\ members \in [stage : {"idle", "asked", "read"}, answer : Answers \cup {NoAnswer}]
    /\ members.stage = "read" <=> members.answer # NoAnswer
    /\ retry \in BOOLEAN /\ loaded \in BOOLEAN
    /\ summaries \in [stage : {"idle", "asked", "read"}, posts : 0..MaxPosts]
WidgetTypes == rows \in 0..MaxPosts /\ view \in View
HistoryTypes == readAll \in 0..MaxPosts /\ outran \in BOOLEAN
BoundsTypes ==
    marks \in 0..MaxActs /\ refreshes \in 0..MaxRefreshes /\ troubles \in 0..MaxActs

\* The state has the shape the program's members have; a checkpoint under way
\* is tagged.
TypeOK ==
    /\ ServerTypes /\ ChannelTypes /\ CallsTypes /\ LoadingTypes
    /\ WidgetTypes /\ HistoryTypes /\ BoundsTypes
    /\ pending.post # NoPost => pending.post \in recent

\* "A late set_unread response must never undo a newer full-view action": once
\* every request has been taken by the server and answered, what was read to the
\* end is read on the server, unless a request to view failed or a post was
\* marked as unread since.
FullReadStands ==
    pending = NoCall /\ views = 0 => readAll <= boundary

\* The event and the reply of a checkpoint are not taken for a mark as unread:
\* only a mark, here or on another device, sends a view back.
OnlyMarksRewind ==
    [][\/ view.phase = "Idle" /\ view'.phase # "Idle"
       \/ view'.observed < view.observed
       => \/ marks' > marks
          \/ \E c \in manual : c \notin manual'
          \/ events # << >> /\ Head(events).kind = "unread" /\ Head(events).origin # "checkpoint"
    ]_vars

\* No snapshot and no checkpoint brings a read mention back: whatever requests
\* and events are under way or have failed, the server's flag of a mention stands
\* only for a post that came after the last full read, or after a mark as unread.
MentionsStayRead ==
    readAll > 0 /\ entry.serverMentioned => \E p \in Mentions : readAll < p /\ p <= posted

\* Nothing unread hides: once the server has taken every view, the events are
\* heard, the summaries are merged and no request failed, a channel that has posts
\* the server counts as unread is shown as unread, unless a set_unread ran while a
\* snapshot was under way: the answer does not say when it was read.
NothingUnreadHides ==
    /\ views = 0 /\ events = << >> /\ troubles = 0 /\ summaries.stage = "idle"
    /\ boundary < posted /\ ~outran
    => IsUnread(entry)

\* "A late set_unread response must never undo a newer full-view action"
\* (SidebarService.cpp:500): the reply of a checkpoint moves nothing back that is
\* viewed on the server.  The program knows of full reads of its own views only:
\* an event that the channel was viewed on another device, handled before the
\* reply, is undone by it.  Does not hold.
LateRepliesUndoNothing ==
    [][pending # NoCall /\ pending' = NoCall /\ entry.viewed <= boundary
       => entry.viewed <= entry'.viewed]_vars
=============================================================================
