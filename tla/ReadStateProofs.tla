-------------------------- MODULE ReadStateProofs --------------------------
(***************************************************************************)
(* Proofs about the read state of a channel: its types, that the replies   *)
(* and events of checkpoints send no view back, that full reads stand,     *)
(* that read mentions stay read, and that nothing unread hides.            *)
(***************************************************************************)
EXTENDS ReadState, TLAPS

-----------------------------------------------------------------------------
(* The helpers.                                                            *)

\* Bounded numbers: the helpers stay within the posts of the channel.
LEMMA NumberTypes ==
    ASSUME NEW m \in Nat, NEW n \in Nat
    PROVE  /\ Larger(m, n) \in Nat /\ Larger(m, n) >= m /\ Larger(m, n) >= n
           /\ Larger(m, n) \in {m, n}
           /\ Smaller(m, n) \in {m, n} /\ Smaller(m, n) <= m /\ Smaller(m, n) <= n
           /\ Less(m, n) \in Nat
BY DEF Larger, Smaller, Less

\* An entry of the tracker stays one, whatever it is told (ChannelActivityTracker):
\* a snapshot of the membership moves no boundary back.
LEMMA SetMembershipTypes ==
    ASSUME NEW e \in Entry, NEW a \in Answers
    PROVE  SetMembership(e, a) \in Entry /\ SetMembership(e, a).viewed >= e.viewed
<1> USE ReadAssumption DEF Entry, Answers
<1>1. \A m, n \in 0..MaxPosts, c \in Nat, b \in BOOLEAN :
          LET d == [e EXCEPT !.viewed = m, !.credit = c, !.read = n, !.mentions = b]
          IN  d \in Entry /\ d.viewed = m
    OBVIOUS
<1> DEFINE m == Larger(e.viewed, a.boundary)
           n == Larger(e.read, a.boundary)
           c == Less(e.credit, Less(a.boundary, e.read))
           b == IF a.boundary < e.viewed \/ a.boundary < e.read THEN e.mentions ELSE a.mentioned
<1>2. m \in 0..MaxPosts /\ n \in 0..MaxPosts /\ c \in Nat /\ b \in BOOLEAN /\ m >= e.viewed
    BY DEF Larger, Less
<1>3. SetMembership(e, a) = [e EXCEPT !.viewed = m, !.credit = c, !.read = n, !.mentions = b]
    BY DEF SetMembership
<1> HIDE DEF m, n, c, b
<1>4. LET d == [e EXCEPT !.viewed = m, !.credit = c, !.read = n, !.mentions = b]
      IN  d \in Entry /\ d.viewed = m
    BY <1>1, <1>2
<1> HIDE DEF Entry
<1> QED BY <1>2, <1>3, <1>4

\* The same of synchronizeChannel, which moves no boundary.
LEMMA SynchronizeTypes ==
    ASSUME NEW e \in Entry, NEW count \in 0..MaxPosts
    PROVE  Synchronize(e, count) \in Entry /\ Synchronize(e, count).viewed = e.viewed
BY DEF Synchronize, Entry

\* The same of recordChannelPost.
LEMMA RecordPostTypes ==
    ASSUME NEW e \in Entry, NEW p
    PROVE  RecordPost(e, p) \in Entry /\ RecordPost(e, p).viewed = e.viewed
<1>1. \A c \in Nat : LET d == [e EXCEPT !.credit = c] IN d \in Entry /\ d.viewed = e.viewed
    BY DEF Entry
<1>2. \A b \in BOOLEAN : LET d == [e EXCEPT !.runtime = TRUE, !.runtimeMentioned = b]
                         IN  d \in Entry /\ d.viewed = e.viewed
    BY DEF Entry
<1>3. e.credit + 1 \in Nat /\ (e.runtimeMentioned \/ p \in Mentions) \in BOOLEAN
    BY DEF Entry
<1> HIDE DEF Entry
<1> QED BY <1>1, <1>2, <1>3 DEF RecordPost

\* A view moves the boundary forward (recordChannelViewed).
LEMMA RecordViewedTypes ==
    ASSUME NEW e \in Entry, NEW at \in 0..MaxPosts, NEW count \in 0..MaxPosts
    PROVE  /\ RecordViewed(e, at, count) \in Entry
           /\ RecordViewed(e, at, count).viewed >= at
           /\ RecordViewed(e, at, count).viewed >= e.viewed
BY ReadAssumption DEF RecordViewed, Larger, Entry

\* A set_unread moves it anywhere (recordChannelUnread).
LEMMA EntryUnread ==
    ASSUME NEW e, NEW a \in Answers
    PROVE  SetUnread(e, a) \in Entry /\ SetUnread(e, a).viewed = a.boundary
BY ReadAssumption DEF SetUnread, Entry, Answers

\* A view stays one, and what each helper does to its phase and its progress:
\* a pass is due.
LEMMA ScheduledTypes ==
    ASSUME NEW v \in View
    PROVE  /\ Scheduled(v) \in View
           /\ Scheduled(v).phase = v.phase /\ Scheduled(v).observed = v.observed
BY DEF Scheduled, View

\* The gate of a marked post.
LEMMA GateTypes ==
    ASSUME NEW v \in View, NEW p \in 0..MaxPosts
    PROVE  Gate(v, p) \in View /\ Gate(v, p).observed = v.observed
BY DEF Gate, View

\* The gate is opened again.
LEMMA UngatedTypes ==
    ASSUME NEW v \in View
    PROVE  /\ Ungated(v) \in View /\ Ungated(v).observed = v.observed
           /\ Ungated(v).phase = "Idle"
<1>0. 0 \in 0..MaxPosts
    BY ReadAssumption
<1>1. \A z \in 0..MaxPosts :
          LET u == [v EXCEPT !.phase = "Idle", !.marked = z, !.exited = FALSE, !.high = z]
          IN  u \in View /\ u.observed = v.observed /\ u.phase = "Idle"
    BY DEF View
<1> QED BY <1>0, <1>1 DEF Ungated, NoPost

\* A new generation.
LEMMA RegeneratedTypes ==
    ASSUME NEW v \in View
    PROVE  Regenerated(v) \in View
<1>0. 0 \in 0..MaxPosts
    BY ReadAssumption
<1>1. \A z \in 0..MaxPosts :
          [v EXCEPT !.observed = z, !.sent = z, !.timer = FALSE,
                    !.heard = IF @ = "current" THEN "old" ELSE @] \in View
    BY DEF View
<1> QED BY <1>0, <1>1 DEF Regenerated

\* The view goes back to an unread boundary.
LEMMA RewindTypes ==
    ASSUME NEW v \in View, NEW p \in 0..MaxPosts
    PROVE  Rewind(v, p) \in View
<1>1. \A u \in View : [u EXCEPT !.inFlight = FALSE] \in View
    BY DEF View
<1> QED BY <1>1, RegeneratedTypes, GateTypes DEF Rewind

\* The completion of a checkpoint leaves the phase and the progress alone.
LEMMA CompletedTypes ==
    ASSUME NEW v \in View, NEW ok \in BOOLEAN, rows \in 0..MaxPosts, pending.post \in Posts
    PROVE  /\ Completed(v, ok) \in View
           /\ Completed(v, ok).phase = v.phase
           /\ Completed(v, ok).observed = v.observed
<1> USE ReadAssumption
<1> DEFINE n == IF ok THEN Larger(v.sent, pending.post - 1) ELSE v.sent
           done == [v EXCEPT !.inFlight = FALSE, !.heard = "nobody", !.sent = n]
<1>1. n \in 0..MaxPosts
    BY DEF Larger, View, Posts
<1>2. \A z \in 0..MaxPosts :
          LET u == [v EXCEPT !.inFlight = FALSE, !.heard = "nobody", !.sent = z]
          IN  u \in View /\ u.phase = v.phase /\ u.observed = v.observed
    BY DEF View
<1> HIDE DEF n
<1>3. done \in View /\ done.phase = v.phase /\ done.observed = v.observed
    BY <1>1, <1>2
<1>4. \A u \in View : LET t == [u EXCEPT !.timer = TRUE]
                      IN  t \in View /\ t.phase = u.phase /\ t.observed = u.observed
    BY DEF View
<1>5. LET t == [v EXCEPT !.heard = "nobody"]
      IN  t \in View /\ t.phase = v.phase /\ t.observed = v.observed
    BY DEF View
<1>6. done = [v EXCEPT !.inFlight = FALSE, !.heard = "nobody",
                       !.sent = IF ok THEN Larger(@, pending.post - 1) ELSE @]
    BY DEF n, View
<1> HIDE DEF done
<1>7. Completed(v, ok) \in {done, [done EXCEPT !.timer = TRUE], [v EXCEPT !.heard = "nobody"]}
    BY <1>6 DEF Completed
<1> QED BY <1>3, <1>4, <1>5, <1>7

\* queueReadProgress touches nothing but the timer.
LEMMA QueueTypes ==
    ASSUME NEW v \in View, NEW p \in 0..MaxPosts
    PROVE  /\ QueueProgress(v, p) \in View
           /\ QueueProgress(v, p).phase = v.phase
           /\ QueueProgress(v, p).observed = v.observed
BY DEF QueueProgress, View

\* What the server answers about a membership (external).
LEMMA AnswerTypes ==
    ASSUME NEW at \in 0..MaxPosts
    PROVE  Membership(at) \in Answers /\ Membership(at).boundary = at
BY DEF Membership, Answers

\* An answer is told from none (the shape of the requests' records).
LEMMA NoAnswerIsNone == NoAnswer \notin Answers
BY ReadAssumption DEF NoAnswer, Answers

\* A field of the view set to a value of its own.
LEMMA ViewFields ==
    ASSUME NEW v \in View
    PROVE  /\ \A z \in 0..MaxPosts :
                 /\ [v EXCEPT !.edge = z] \in View
                 /\ [v EXCEPT !.edge = z].phase = v.phase
                 /\ [v EXCEPT !.edge = z].observed = v.observed
                 /\ [v EXCEPT !.exited = FALSE, !.high = z] \in View
           /\ \A b \in BOOLEAN : /\ [v EXCEPT !.timer = b] \in View
                                 /\ [v EXCEPT !.timer = b].phase = v.phase
                                 /\ [v EXCEPT !.timer = b].observed = v.observed
           /\ LET t == [v EXCEPT !.timer = FALSE, !.inFlight = TRUE, !.heard = "current"]
              IN  t \in View /\ t.phase = v.phase /\ t.observed = v.observed
BY DEF View

\* A post is seen: the progress does not go back.
LEMMA SeenTypes ==
    ASSUME NEW v \in View, NEW n \in 0..MaxPosts
    PROVE  LET u == [v EXCEPT !.scheduled = FALSE, !.observed = Larger(@, n)]
           IN  u \in View /\ u.phase = v.phase /\ u.observed >= v.observed
<1>1. \A z \in 0..MaxPosts :
          LET u == [v EXCEPT !.scheduled = FALSE, !.observed = z]
          IN  u \in View /\ u.phase = v.phase /\ u.observed = z
    BY DEF View
<1>2. Larger(v.observed, n) \in 0..MaxPosts /\ Larger(v.observed, n) >= v.observed
    BY ReadAssumption DEF Larger, View
<1>3. [v EXCEPT !.scheduled = FALSE, !.observed = Larger(@, n)]
      = [v EXCEPT !.scheduled = FALSE, !.observed = Larger(v.observed, n)]
    OBVIOUS
<1> QED BY <1>1, <1>2, <1>3

\* One event more, or two, make a sequence of events again.
LEMMA TellTypes ==
    ASSUME events \in Seq(Event), NEW e \in Event, NEW f \in Event
    PROVE  /\ Tell(<<e>>) => events' \in Seq(Event)
           /\ Tell(<<e, f>>) => events' \in Seq(Event)
<1> HIDE DEF Event
<1>1. \A s \in Seq(Event) : events \o s \in Seq(Event)
    OBVIOUS
<1>2. <<e>> \in Seq(Event) /\ <<e, f>> \in Seq(Event)
    OBVIOUS
<1>3. /\ Tell(<<e>>) => events' = events \o <<e>>
      /\ Tell(<<e, f>>) => events' = events \o <<e, f>>
    BY DEF Tell
<1> QED BY <1>1, <1>2, <1>3

\* The events are of the set of events.
LEMMA EventTypes ==
    ASSUME posted' \in 0..MaxPosts, NEW p \in Posts, NEW a \in Answers,
           NEW origin \in {"checkpoint", "mark", "elsewhere"}
    PROVE  /\ PostedEvent(p) \in Event
           /\ ViewedEvent \in Event
           /\ UnreadEvent(p, a, origin) \in Event
<1> USE ReadAssumption
<1>1. PostedEvent(p) \in Event
    BY DEF PostedEvent, Event
<1>2. ViewedEvent \in Event
    BY DEF ViewedEvent, Event
<1>3. UnreadEvent(p, a, origin) \in Event
    BY DEF UnreadEvent, Event
<1> QED BY <1>1, <1>2, <1>3

\* A set_unread the server takes leaves a boundary and events behind.
LEMMA SetUnreadTypes ==
    ASSUME events \in Seq(Event), NEW p \in Posts, posted' \in 0..MaxPosts,
           NEW origin \in {"checkpoint", "mark", "elsewhere"}, outran \in BOOLEAN,
           SetUnreadTaken(p, origin)
    PROVE  /\ boundary' \in 0..MaxPosts /\ events' \in Seq(Event) /\ outran' \in BOOLEAN
           /\ p - 1 \in 0..MaxPosts
<1>1. p - 1 \in 0..MaxPosts
    BY ReadAssumption DEF Posts
<1>2. UnreadEvent(p, Membership(p - 1), origin) \in Event
    BY <1>1, AnswerTypes, EventTypes
<1>3. events' \in Seq(Event)
    BY <1>2, TellTypes DEF SetUnreadTaken
<1> QED BY <1>1, <1>3 DEF SetUnreadTaken, Outrun

-----------------------------------------------------------------------------
(* Types.                                                                  *)

\* The types hold at the start.
LEMMA TypesInit == Init => TypeOK
<1> SUFFICES ASSUME Init PROVE TypeOK
    OBVIOUS
<1> USE ReadAssumption
<1>1. boundary \in 0..MaxPosts /\ Before \in 0..MaxPosts /\ 0 \in 0..MaxPosts
    BY DEF Init
<1>2. Membership(boundary).mentioned \in BOOLEAN
    BY DEF Membership
<1>3. \A b \in 0..MaxPosts, m \in BOOLEAN :
          [viewed |-> b, read |-> b, credit |-> 0, mentions |-> m,
           serverUnread |-> FALSE, serverMentioned |-> FALSE,
           runtime |-> FALSE, runtimeMentioned |-> FALSE] \in Entry
    BY DEF Entry
<1>4. entry \in Entry
    BY <1>1, <1>2, <1>3 DEF Init, Synchronize, Entry
<1>5. view \in View
    BY <1>1 DEF Init, View, NoPost
<1>6. events \in Seq(Event)
    BY DEF Init
<1>7. pending \in [post : 0..MaxPosts, full : BOOLEAN, answer : Answers \cup {NoAnswer}]
    BY <1>1 DEF Init, NoCall, NoPost
<1>8. members \in [stage : {"idle", "asked", "read"}, answer : Answers \cup {NoAnswer}]
      /\ members.stage # "read" /\ members.answer = NoAnswer
    BY DEF Init
<1>9. recent \subseteq Posts /\ pending.post = NoPost /\ manual = {}
    BY DEF Init, NoCall
<1>10. /\ {posted, lastPost, total, rows, readAll} \subseteq 0..MaxPosts
       /\ views \in 0..MaxViews /\ marks \in 0..MaxActs
       /\ refreshes \in 0..MaxRefreshes /\ troubles \in 0..MaxActs
    BY <1>1 DEF Init
<1>11. /\ {retry, loaded, outran} \subseteq BOOLEAN
       /\ summaries \in [stage : {"idle", "asked", "read"}, posts : 0..MaxPosts]
    BY <1>1 DEF Init
<1> QED BY <1>1, <1>4, <1>5, <1>6, <1>7, <1>8, <1>9, <1>10, <1>11
    DEF TypeOK, ServerTypes, ChannelTypes, CallsTypes, LoadingTypes, WidgetTypes, HistoryTypes,
        BoundsTypes

\* What is left alone keeps its type.
LEMMA TypesKept ==
    /\ ServerTypes /\ UNCHANGED server => ServerTypes'
    /\ ChannelTypes /\ UNCHANGED channel => ChannelTypes'
    /\ CallsTypes /\ UNCHANGED calls => CallsTypes'
    /\ LoadingTypes /\ UNCHANGED loading => LoadingTypes'
    /\ WidgetTypes /\ UNCHANGED widget => WidgetTypes'
    /\ HistoryTypes /\ UNCHANGED history => HistoryTypes'
    /\ BoundsTypes /\ UNCHANGED bounds => BoundsTypes'
<1>1. ServerTypes /\ UNCHANGED server => ServerTypes'
    BY DEF ServerTypes, server
<1>2. ChannelTypes /\ UNCHANGED channel => ChannelTypes'
    BY DEF ChannelTypes, channel, numbers
<1>3. CallsTypes /\ UNCHANGED calls => CallsTypes'
    BY DEF CallsTypes, calls
<1>4. LoadingTypes /\ UNCHANGED loading => LoadingTypes'
    BY DEF LoadingTypes, loading
<1>5. WidgetTypes /\ UNCHANGED widget => WidgetTypes'
    BY DEF WidgetTypes, widget
<1>6. HistoryTypes /\ UNCHANGED history => HistoryTypes'
    BY DEF HistoryTypes, history
<1>7. BoundsTypes /\ UNCHANGED bounds => BoundsTypes'
    BY DEF BoundsTypes, bounds
<1> QED BY <1>1, <1>2, <1>3, <1>4, <1>5, <1>6, <1>7

\* Every step keeps the types: what each action touches.
LEMMA TypesStep == TypeOK /\ [Next]_vars => TypeOK'
<1> SUFFICES ASSUME TypeOK, [Next]_vars PROVE TypeOK'
    OBVIOUS
<1> USE ReadAssumption
<1> USE DEF client
<1>0. /\ ServerTypes /\ ChannelTypes /\ CallsTypes /\ LoadingTypes
      /\ WidgetTypes /\ HistoryTypes /\ BoundsTypes
      /\ pending.post # NoPost => pending.post \in recent
    BY DEF TypeOK
<1>a. 0 \in 0..MaxPosts /\ NoAnswer \notin Answers
    BY NoAnswerIsNone
<1>b. pending.post \in 0..MaxPosts /\ (pending.post # NoPost => pending.post \in Posts)
    BY <1>0 DEF CallsTypes, NoPost, Posts
<1>c. \A p \in Posts : Call(p) \in [post : 0..MaxPosts, full : BOOLEAN, answer : Answers \cup {NoAnswer}]
                       /\ Call(p).post = p
    BY DEF Call, Posts
<1>d. NoCall \in [post : 0..MaxPosts, full : BOOLEAN, answer : Answers \cup {NoAnswer}]
      /\ NoCall.post = NoPost
    BY <1>a DEF NoCall, NoPost
<1>1. CASE SomebodyPosts
    <2>1. ChannelTypes' /\ CallsTypes' /\ LoadingTypes' /\ WidgetTypes' /\ HistoryTypes' /\ BoundsTypes'
        BY <1>0, <1>1, TypesKept DEF SomebodyPosts
    <2>2. ServerTypes'
        <3>1. posted' \in 0..MaxPosts /\ boundary' \in 0..MaxPosts /\ views' \in 0..MaxViews
            BY <1>0, <1>1 DEF SomebodyPosts, ServerTypes
        <3>2. posted' \in Posts
            BY <1>0, <1>1 DEF SomebodyPosts, ServerTypes, Posts
        <3>3. PostedEvent(posted') \in Event /\ ViewedEvent \in Event
            BY <3>1, <3>2 DEF PostedEvent, ViewedEvent, Event
        <3>4. events' \in Seq(Event)
            BY <1>0, <1>1, <3>3, TellTypes DEF SomebodyPosts, ServerTypes
        <3> QED BY <3>1, <3>4 DEF ServerTypes
    <2>3. pending'.post # NoPost => pending'.post \in recent'
        BY <1>0, <1>1 DEF SomebodyPosts, calls
    <2> QED BY <2>1, <2>2, <2>3 DEF TypeOK
<1>2. CASE ViewTaken
    <2>1. ChannelTypes' /\ CallsTypes' /\ LoadingTypes' /\ WidgetTypes' /\ HistoryTypes' /\ BoundsTypes'
        BY <1>0, <1>2, TypesKept DEF ViewTaken
    <2>2. ServerTypes'
        <3>1. posted' \in 0..MaxPosts /\ boundary' \in 0..MaxPosts /\ views' \in 0..MaxViews
            BY <1>0, <1>2 DEF ViewTaken, ServerTypes
        <3>2. ViewedEvent \in Event
            BY <3>1 DEF ViewedEvent, Event
        <3>3. events' \in Seq(Event)
            BY <1>0, <1>2, <3>2, TellTypes DEF ViewTaken, ServerTypes
        <3> QED BY <3>1, <3>3 DEF ServerTypes
    <2>3. pending'.post # NoPost => pending'.post \in recent'
        BY <1>0, <1>2 DEF ViewTaken, calls
    <2> QED BY <2>1, <2>2, <2>3 DEF TypeOK
<1>3. CASE ViewedElsewhere
    <2>1. ChannelTypes' /\ CallsTypes' /\ LoadingTypes' /\ WidgetTypes' /\ HistoryTypes'
        BY <1>0, <1>3, TypesKept DEF ViewedElsewhere
    <2>2. ServerTypes'
        <3>1. posted' \in 0..MaxPosts /\ boundary' \in 0..MaxPosts /\ views' \in 0..MaxViews
            BY <1>0, <1>3 DEF ViewedElsewhere, ServerTypes
        <3>2. ViewedEvent \in Event
            BY <3>1 DEF ViewedEvent, Event
        <3>3. events' \in Seq(Event)
            BY <1>0, <1>3, <3>2, TellTypes DEF ViewedElsewhere, ServerTypes
        <3> QED BY <3>1, <3>3 DEF ServerTypes
    <2>3. BoundsTypes'
        BY <1>0, <1>a, <1>3 DEF ViewedElsewhere, BoundsTypes, bounds
    <2>4. pending'.post # NoPost => pending'.post \in recent'
        BY <1>0, <1>3 DEF ViewedElsewhere, calls
    <2> QED BY <2>1, <2>2, <2>3, <2>4 DEF TypeOK
<1>4. CASE ViewFails
    <2>1. ChannelTypes' /\ CallsTypes' /\ LoadingTypes' /\ WidgetTypes'
        BY <1>0, <1>4, TypesKept DEF ViewFails
    <2>2. ServerTypes'
        BY <1>0, <1>a, <1>4 DEF ViewFails, ServerTypes, server
    <2>3. HistoryTypes'
        BY <1>0, <1>a, <1>4 DEF ViewFails, HistoryTypes, history
    <2>4. BoundsTypes'
        BY <1>0, <1>a, <1>4 DEF ViewFails, BoundsTypes, bounds
    <2>5. pending'.post # NoPost => pending'.post \in recent'
        BY <1>0, <1>4 DEF ViewFails, calls
    <2> QED BY <2>1, <2>2, <2>3, <2>4, <2>5 DEF TypeOK
<1>5. CASE CheckpointTaken
    <2>x. /\ boundary' \in 0..MaxPosts /\ events' \in Seq(Event) /\ outran' \in BOOLEAN
          /\ pending.post - 1 \in 0..MaxPosts
        BY <1>0, <1>b, <1>5, SetUnreadTypes DEF CheckpointTaken, ServerTypes, HistoryTypes
    <2>1. ChannelTypes' /\ LoadingTypes' /\ WidgetTypes' /\ BoundsTypes'
        BY <1>0, <1>5, TypesKept DEF CheckpointTaken
    <2>2. ServerTypes'
        BY <1>0, <1>5, <2>x DEF CheckpointTaken, ServerTypes
    <2>3. CallsTypes'
        <3>1. Membership(pending.post - 1) \in Answers
            BY <2>x, AnswerTypes
        <3> QED BY <1>0, <1>5, <3>1 DEF CheckpointTaken, CallsTypes
    <2>4. HistoryTypes'
        BY <1>0, <1>a, <1>5, <2>x DEF CheckpointTaken, HistoryTypes
    <2>5. pending'.post # NoPost => pending'.post \in recent'
        BY <1>0, <1>5 DEF CheckpointTaken, CallsTypes
    <2> QED BY <2>1, <2>2, <2>3, <2>4, <2>5 DEF TypeOK
<1>6. CASE MarkTaken
    <2>w. PICK c \in manual : /\ c.answer = NoAnswer /\ SetUnreadTaken(c.post, "mark")
                              /\ manual' = (manual \ {c})
                                           \cup {[c EXCEPT !.answer = Membership(c.post - 1)]}
        BY <1>6 DEF MarkTaken
    <2>v. c \in [post : Posts, answer : Answers \cup {NoAnswer}]
        BY <1>0 DEF CallsTypes
    <2>x. /\ boundary' \in 0..MaxPosts /\ events' \in Seq(Event) /\ outran' \in BOOLEAN
          /\ c.post - 1 \in 0..MaxPosts
        BY <1>0, <1>b, <1>6, <2>v, <2>w, SetUnreadTypes DEF MarkTaken, ServerTypes, HistoryTypes
    <2>1. ChannelTypes' /\ LoadingTypes' /\ WidgetTypes' /\ BoundsTypes'
        BY <1>0, <1>6, TypesKept DEF MarkTaken
    <2>2. ServerTypes'
        BY <1>0, <1>6, <2>x DEF MarkTaken, ServerTypes
    <2>3. CallsTypes'
        <3>1. Membership(c.post - 1) \in Answers
            BY <2>x, AnswerTypes
        <3>2. [c EXCEPT !.answer = Membership(c.post - 1)]
                  \in [post : Posts, answer : Answers \cup {NoAnswer}]
            BY <2>v, <3>1
        <3> QED BY <1>0, <1>6, <2>w, <3>2 DEF MarkTaken, CallsTypes
    <2>4. HistoryTypes'
        BY <1>0, <1>a, <1>6, <2>x DEF MarkTaken, HistoryTypes
    <2>5. pending'.post # NoPost => pending'.post \in recent'
        BY <1>0, <1>6 DEF MarkTaken
    <2> QED BY <2>1, <2>2, <2>3, <2>4, <2>5 DEF TypeOK
<1>7. CASE MarkedElsewhere
    <2>w. PICK p \in Posts : SetUnreadTaken(p, "elsewhere")
        BY <1>0, <1>7 DEF MarkedElsewhere, ServerTypes, Posts
    <2>x. /\ boundary' \in 0..MaxPosts /\ events' \in Seq(Event) /\ outran' \in BOOLEAN
          /\ p - 1 \in 0..MaxPosts
        BY <1>0, <1>b, <1>7, <2>w, SetUnreadTypes DEF MarkedElsewhere, ServerTypes, HistoryTypes
    <2>1. ChannelTypes' /\ CallsTypes' /\ LoadingTypes' /\ WidgetTypes'
        BY <1>0, <1>7, TypesKept DEF MarkedElsewhere
    <2>2. ServerTypes'
        BY <1>0, <1>7, <2>x DEF MarkedElsewhere, ServerTypes
    <2>3. HistoryTypes'
        BY <1>0, <1>a, <1>7, <2>x DEF MarkedElsewhere, HistoryTypes
    <2>4. BoundsTypes'
        BY <1>0, <1>a, <1>7 DEF MarkedElsewhere, BoundsTypes, bounds
    <2>5. pending'.post # NoPost => pending'.post \in recent'
        BY <1>0, <1>7 DEF MarkedElsewhere, calls
    <2> QED BY <2>1, <2>2, <2>3, <2>4, <2>5 DEF TypeOK
<1>8. CASE MembersRead
    <2>1. ServerTypes' /\ ChannelTypes' /\ CallsTypes' /\ WidgetTypes' /\ HistoryTypes' /\ BoundsTypes'
        BY <1>0, <1>8, TypesKept DEF MembersRead
    <2>2. LoadingTypes'
        <3>1. /\ members' \in [stage : {"idle", "asked", "read"}, answer : Answers \cup {NoAnswer}]
              /\ members'.stage = "read" <=> members'.answer # NoAnswer
            BY <1>0, <1>a, <1>8, AnswerTypes DEF MembersRead, ServerTypes
        <3>2. retry' \in BOOLEAN /\ loaded' \in BOOLEAN
            BY <1>0, <1>8 DEF MembersRead, LoadingTypes
        <3>3. summaries' \in [stage : {"idle", "asked", "read"}, posts : 0..MaxPosts]
            BY <1>0, <1>a, <1>8 DEF MembersRead, LoadingTypes
        <3> QED BY <3>1, <3>2, <3>3 DEF LoadingTypes
    <2>3. pending'.post # NoPost => pending'.post \in recent'
        BY <1>0, <1>8 DEF MembersRead, calls
    <2> QED BY <2>1, <2>2, <2>3 DEF TypeOK
<1>9. CASE SummariesRead
    <2>1. ServerTypes' /\ ChannelTypes' /\ CallsTypes' /\ WidgetTypes' /\ HistoryTypes' /\ BoundsTypes'
        BY <1>0, <1>9, TypesKept DEF SummariesRead
    <2>2. LoadingTypes'
        <3>1. /\ members' \in [stage : {"idle", "asked", "read"}, answer : Answers \cup {NoAnswer}]
              /\ members'.stage = "read" <=> members'.answer # NoAnswer
            BY <1>0, <1>a, <1>9 DEF SummariesRead, LoadingTypes
        <3>2. retry' \in BOOLEAN /\ loaded' \in BOOLEAN
            BY <1>0, <1>9 DEF SummariesRead, LoadingTypes
        <3>3. summaries' \in [stage : {"idle", "asked", "read"}, posts : 0..MaxPosts]
            BY <1>0, <1>9 DEF SummariesRead, ServerTypes
        <3> QED BY <3>1, <3>2, <3>3 DEF LoadingTypes
    <2>3. pending'.post # NoPost => pending'.post \in recent'
        BY <1>0, <1>9 DEF SummariesRead, calls
    <2> QED BY <2>1, <2>2, <2>3 DEF TypeOK
<1>10. CASE Hear
    <2> DEFINE m == Head(events)
    <2>m. m \in Event
        BY <1>0, <1>10 DEF Hear, ServerTypes
    <2>w. rows \in 0..MaxPosts /\ view \in View /\ entry \in Entry /\ total \in 0..MaxPosts
          /\ lastPost \in 0..MaxPosts
        BY <1>0 DEF WidgetTypes, ChannelTypes
    <2>k. HearPosted(m) \/ HearViewed(m) \/ HearUnread(m)
        BY <1>10 DEF Hear
    <2>p. m.kind = "posted" => m.post \in Posts
        BY <2>m DEF Event
    <2>q. m.kind = "viewed" => m.at \in 0..MaxPosts
        BY <2>m DEF Event
    <2>r. m.kind = "unread" => m.post \in Posts /\ m.answer \in Answers
        BY <2>m DEF Event
    <2> HIDE DEF m
    <2>1. CallsTypes' /\ LoadingTypes' /\ BoundsTypes'
        BY <1>0, <1>10, TypesKept DEF Hear
    <2>2. ServerTypes'
        BY <1>0, <1>10 DEF Hear, ServerTypes
    <2>3. ChannelTypes'
        <3>1. lastPost' \in 0..MaxPosts /\ total' \in 0..MaxPosts
            BY <1>10, <2>w, <2>k, <2>p DEF Hear, HearPosted, HearViewed, HearUnread, Larger, Posts
        <3>2. ASSUME HearPosted(m) PROVE entry' \in Entry
            BY <2>w, <3>2, RecordPostTypes DEF HearPosted
        <3>3. ASSUME HearViewed(m) PROVE entry' \in Entry
            <4>1. (IF m.at = 0 THEN lastPost ELSE m.at) \in 0..MaxPosts
                BY <2>w, <2>q, <3>3 DEF HearViewed
            <4> QED BY <2>w, <3>3, <4>1, RecordViewedTypes DEF HearViewed
        <3>4. ASSUME HearUnread(m) PROVE entry' \in Entry
            BY <2>r, <3>4, EntryUnread DEF HearUnread
        <3>5. entry' \in Entry
            BY <2>k, <3>2, <3>3, <3>4
        <3> QED BY <3>1, <3>5 DEF ChannelTypes
    <2>4. WidgetTypes'
        <3>1. CASE HearPosted(m)
            <4>1. rows' \in 0..MaxPosts
                BY <2>w, <2>p, <3>1 DEF HearPosted, Larger, Posts
            <4>2. Scheduled(view) \in View
                BY <2>w, ScheduledTypes
            <4>3. (IF AtEnd(view) THEN rows' ELSE Scheduled(view).edge) \in 0..MaxPosts
                BY <4>1, <4>2 DEF View
            <4>4. view' = [Scheduled(view) EXCEPT !.edge = IF AtEnd(view) THEN rows' ELSE Scheduled(view).edge]
                BY <3>1 DEF HearPosted
            <4>5. view' \in View
                BY <4>2, <4>3, <4>4, ViewFields
            <4> QED BY <4>1, <4>5 DEF WidgetTypes
        <3>2. CASE HearViewed(m)
            BY <1>0, <3>2, TypesKept DEF HearViewed
        <3>3. CASE HearUnread(m)
            <4>1. Rewind(view, m.post) \in View
                BY <2>w, <2>r, <3>3, RewindTypes DEF HearUnread, Posts
            <4> QED BY <2>w, <3>3, <4>1 DEF HearUnread, WidgetTypes
        <3> QED BY <2>k, <3>1, <3>2, <3>3
    <2>5. HistoryTypes'
        BY <1>0, <1>a, <2>k DEF HearPosted, HearViewed, HearUnread, Outrun, history, HistoryTypes
    <2>6. pending'.post # NoPost => pending'.post \in recent'
        BY <1>0, <1>10 DEF Hear, calls
    <2> QED BY <2>1, <2>2, <2>3, <2>4, <2>5, <2>6 DEF TypeOK
<1>11. CASE Untag
    <2>1. ServerTypes' /\ ChannelTypes' /\ LoadingTypes' /\ WidgetTypes' /\ HistoryTypes' /\ BoundsTypes'
        BY <1>0, <1>11, TypesKept DEF Untag
    <2>2. CallsTypes'
        BY <1>0, <1>11 DEF Untag, CallsTypes
    <2>3. pending'.post # NoPost => pending'.post \in recent'
        BY <1>0, <1>11 DEF Untag
    <2> QED BY <2>1, <2>2, <2>3 DEF TypeOK
<1>12. CASE Scroll
    <2>1. ServerTypes' /\ ChannelTypes' /\ CallsTypes' /\ LoadingTypes' /\ HistoryTypes' /\ BoundsTypes'
        BY <1>0, <1>12, TypesKept DEF Scroll
    <2>2. WidgetTypes'
        <3>1. PICK e \in 0..rows : view' = [Scheduled(view) EXCEPT !.edge = e]
            BY <1>12 DEF Scroll
        <3>2. Scheduled(view) \in View /\ e \in 0..MaxPosts
            BY <1>0, ScheduledTypes DEF WidgetTypes
        <3>3. view' \in View
            BY <3>1, <3>2, ViewFields
        <3> QED BY <1>0, <1>12, <3>3 DEF Scroll, WidgetTypes
    <2>3. pending'.post # NoPost => pending'.post \in recent'
        BY <1>0, <1>12 DEF Scroll, calls
    <2> QED BY <2>1, <2>2, <2>3 DEF TypeOK
<1>13. CASE PassBlocked
    <2>1. ServerTypes' /\ ChannelTypes' /\ CallsTypes' /\ LoadingTypes' /\ HistoryTypes' /\ BoundsTypes'
        BY <1>0, <1>13, TypesKept DEF PassBlocked
    <2>2. WidgetTypes'
        <3>1. view' \in View
            <4> DEFINE leaves == view.phase = "WaitForExit" /\ view.edge # view.marked
                       exited == view.exited \/ leaves
                       n == IF exited /\ view.edge > view.marked THEN Larger(view.high, view.edge)
                            ELSE view.high
                       ph == IF leaves THEN "WaitForEntry" ELSE view.phase
            <4>1. n \in 0..MaxPosts
                BY <1>0 DEF WidgetTypes, View, Larger
            <4>2. ph \in {"Idle", "WaitForExit", "WaitForEntry"}
                BY <1>0 DEF WidgetTypes, View
            <4>3. exited \in BOOLEAN
                BY <1>0 DEF WidgetTypes, View
            <4>4. view' = [view EXCEPT !.scheduled = FALSE, !.phase = ph, !.exited = exited, !.high = n]
                BY <1>0, <1>13 DEF PassBlocked, WidgetTypes, View
            <4>5. view \in View
                BY <1>0 DEF WidgetTypes
            <4> HIDE DEF n, ph, exited
            <4> QED BY <4>1, <4>2, <4>3, <4>4, <4>5 DEF View
        <3> QED BY <1>0, <1>13, <3>1 DEF PassBlocked, WidgetTypes
    <2>3. pending'.post # NoPost => pending'.post \in recent'
        BY <1>0, <1>13 DEF PassBlocked, calls
    <2> QED BY <2>1, <2>2, <2>3 DEF TypeOK
<1>14. CASE PassReads
    <2> DEFINE post == IF view.phase = "Idle" THEN view.edge ELSE Larger(view.edge, view.high)
               open == IF view.phase = "Idle" THEN view ELSE Ungated(view)
               seen == [open EXCEPT !.scheduled = FALSE, !.observed = Larger(@, post)]
    <2>w. view \in View /\ rows \in 0..MaxPosts
        BY <1>0 DEF WidgetTypes
    <2>x. post \in 0..MaxPosts
        BY <2>w DEF View, Larger
    <2>y. /\ view' = IF post = 0 THEN seen ELSE QueueProgress(seen, post)
          /\ \/ Acknowledge
             \/ UNCHANGED <<entry, pending, views, readAll>>
        BY <1>14 DEF PassReads
    <2>1. LoadingTypes' /\ BoundsTypes'
        BY <1>0, <1>14, TypesKept DEF PassReads
    <2>2. ServerTypes'
        BY <1>0, <1>14, <2>y DEF PassReads, Acknowledge, ServerTypes
    <2>3. ChannelTypes'
        <3>1. lastPost' \in 0..MaxPosts /\ total' \in 0..MaxPosts
            BY <1>0, <1>14 DEF PassReads, numbers, ChannelTypes
        <3>2. entry' \in Entry
            BY <1>0, <2>y, RecordViewedTypes DEF Acknowledge, MarkViewedLocally, ChannelTypes
        <3> QED BY <3>1, <3>2 DEF ChannelTypes
    <2>4. CallsTypes'
        <3>1. pending' \in [post : 0..MaxPosts, full : BOOLEAN, answer : Answers \cup {NoAnswer}]
            BY <1>0, <2>y DEF Acknowledge, MarkViewedLocally, CallsTypes
        <3> QED BY <1>0, <1>14, <3>1 DEF PassReads, CallsTypes
    <2>5. WidgetTypes'
        <3>1. open \in View
            BY <2>w, UngatedTypes
        <3> HIDE DEF open
        <3>2. seen \in View
            BY <2>x, <3>1, SeenTypes
        <3> HIDE DEF seen
        <3>3. view' \in View
            BY <2>x, <2>y, <3>2, QueueTypes
        <3> QED BY <1>0, <1>14, <3>3 DEF PassReads, WidgetTypes
    <2>6. HistoryTypes'
        <3>1. Smaller(rows, lastPost) \in 0..MaxPosts
            BY <1>0 DEF Smaller, ChannelTypes, WidgetTypes
        <3> QED BY <1>0, <1>14, <2>y, <3>1 DEF PassReads, Acknowledge, HistoryTypes
    <2>7. pending'.post # NoPost => pending'.post \in recent'
        BY <1>0, <1>14, <2>y DEF PassReads, Acknowledge, MarkViewedLocally, CallsTypes
    <2> QED BY <2>1, <2>2, <2>3, <2>4, <2>5, <2>6, <2>7 DEF TypeOK
<1>15. CASE FlushNothing
    <2>1. ServerTypes' /\ ChannelTypes' /\ CallsTypes' /\ LoadingTypes' /\ HistoryTypes' /\ BoundsTypes'
        BY <1>0, <1>15, TypesKept DEF FlushNothing
    <2>2. WidgetTypes'
        BY <1>0, <1>15, ViewFields DEF FlushNothing, WidgetTypes
    <2>3. pending'.post # NoPost => pending'.post \in recent'
        BY <1>0, <1>15 DEF FlushNothing, calls
    <2> QED BY <2>1, <2>2, <2>3 DEF TypeOK
<1>16. CASE FlushRefused
    <2>1. ServerTypes' /\ ChannelTypes' /\ CallsTypes' /\ LoadingTypes' /\ HistoryTypes' /\ BoundsTypes'
        BY <1>0, <1>16, TypesKept DEF FlushRefused
    <2>2. WidgetTypes'
        BY <1>0, <1>16, ViewFields DEF FlushRefused, WidgetTypes, AtEnd
    <2>3. pending'.post # NoPost => pending'.post \in recent'
        BY <1>0, <1>16 DEF FlushRefused, calls
    <2> QED BY <2>1, <2>2, <2>3 DEF TypeOK
<1>17. CASE Flush
    <2>w. view \in View /\ rows \in 0..MaxPosts
        BY <1>0 DEF WidgetTypes
    <2>x. view.observed + 1 \in Posts
        BY <2>w, <1>17 DEF Flush, ToReport, View, Posts
    <2>1. ServerTypes' /\ ChannelTypes' /\ LoadingTypes' /\ HistoryTypes' /\ BoundsTypes'
        BY <1>0, <1>17, TypesKept DEF Flush
    <2>2. CallsTypes'
        BY <1>0, <1>c, <1>17, <2>x DEF Flush, CallsTypes
    <2>3. WidgetTypes'
        BY <2>w, <1>17, ViewFields DEF Flush, WidgetTypes
    <2>4. pending'.post # NoPost => pending'.post \in recent'
        BY <1>c, <1>17, <2>x DEF Flush
    <2> QED BY <2>1, <2>2, <2>3, <2>4 DEF TypeOK
<1>18. CASE OtherViewFlushes
    <2>w. PICK p \in 1..rows : /\ p < rows
                               /\ pending' = Call(p + 1) /\ recent' = recent \cup {p + 1}
        BY <1>18 DEF OtherViewFlushes
    <2>x. p + 1 \in Posts
        BY <1>0, <2>w DEF WidgetTypes, Posts
    <2>1. ServerTypes' /\ ChannelTypes' /\ LoadingTypes' /\ WidgetTypes' /\ HistoryTypes' /\ BoundsTypes'
        BY <1>0, <1>18, TypesKept DEF OtherViewFlushes
    <2>2. CallsTypes'
        BY <1>0, <1>c, <1>18, <2>w, <2>x DEF OtherViewFlushes, CallsTypes
    <2>3. pending'.post # NoPost => pending'.post \in recent'
        BY <1>c, <2>w, <2>x
    <2> QED BY <2>1, <2>2, <2>3 DEF TypeOK
<1>19. CASE CheckpointReplied(TRUE)
    <2> DEFINE OK == TRUE
               moved == IF OK THEN SetUnread(entry, pending.answer) ELSE entry
               back  == OK /\ Rewinds(entry, pending.post, pending.answer)
               again == IF pending.full THEN RecordViewed(moved, lastPost, total) ELSE moved
               told  == IF back THEN Rewind(view, pending.post) ELSE view
               ack   == OK /\ told.heard = "current" /\ AtEnd(told) /\ IsUnread(again)
    <2>w. /\ view \in View /\ rows \in 0..MaxPosts /\ entry \in Entry
          /\ lastPost \in 0..MaxPosts /\ total \in 0..MaxPosts /\ pending.post \in Posts
        BY <1>0, <1>b, <1>19 DEF CheckpointReplied, WidgetTypes, ChannelTypes
    <2>x. OK => pending.answer \in Answers
        BY <1>0, <1>19 DEF CheckpointReplied, CallsTypes
    <2>y. /\ entry' = IF ack THEN RecordViewed(again, lastPost, total) ELSE again
          /\ view' = Completed(told, OK)
          /\ views' = views + (IF pending.full THEN 1 ELSE 0) + (IF ack THEN 1 ELSE 0)
          /\ readAll' = IF back THEN 0
                        ELSE IF ack /\ manual = {} THEN Smaller(rows, lastPost) ELSE readAll
        BY <1>19 DEF CheckpointReplied
    <2>z. views' <= MaxViews /\ pending' = NoCall
        BY <1>19 DEF CheckpointReplied
    <2>v. moved \in Entry /\ again \in Entry
        BY <2>w, <2>x, EntryUnread, RecordViewedTypes
    <2>u. told \in View
        BY <2>w, RewindTypes DEF Posts
    <2> HIDE DEF moved, back, again, told, ack
    <2>1. LoadingTypes'
        BY <1>0, <1>19, TypesKept DEF CheckpointReplied
    <2>2. ServerTypes'
        <3>1. views' \in 0..MaxViews
            BY <1>0, <2>y, <2>z DEF ServerTypes
        <3> QED BY <1>0, <1>19, <3>1 DEF CheckpointReplied, ServerTypes
    <2>3. ChannelTypes'
        <3>1. entry' \in Entry
            BY <2>w, <2>v, <2>y, RecordViewedTypes
        <3> QED BY <1>0, <1>19, <3>1 DEF CheckpointReplied, numbers, ChannelTypes
    <2>4. CallsTypes'
        BY <1>0, <1>d, <1>19 DEF CheckpointReplied, CallsTypes
    <2>5. WidgetTypes'
        <3>1. view' \in View
            BY <2>w, <2>u, <2>y, CompletedTypes
        <3> QED BY <1>0, <1>19, <3>1 DEF CheckpointReplied, WidgetTypes
    <2>6. HistoryTypes'
        <3>1. Smaller(rows, lastPost) \in 0..MaxPosts
            BY <2>w DEF Smaller
        <3>2. outran' \in BOOLEAN
            BY <1>0, <1>19 DEF CheckpointReplied, Outrun, HistoryTypes
        <3> QED BY <1>0, <1>a, <2>y, <3>1, <3>2 DEF HistoryTypes
    <2>7. BoundsTypes'
        BY <1>0, <1>a, <1>19 DEF CheckpointReplied, BoundsTypes, bounds
    <2>8. pending'.post # NoPost => pending'.post \in recent'
        BY <1>d, <2>z
    <2> QED BY <2>1, <2>2, <2>3, <2>4, <2>5, <2>6, <2>7, <2>8 DEF TypeOK
<1>20. CASE CheckpointReplied(FALSE)
    <2> DEFINE OK == FALSE
               moved == IF OK THEN SetUnread(entry, pending.answer) ELSE entry
               back  == OK /\ Rewinds(entry, pending.post, pending.answer)
               again == IF pending.full THEN RecordViewed(moved, lastPost, total) ELSE moved
               told  == IF back THEN Rewind(view, pending.post) ELSE view
               ack   == OK /\ told.heard = "current" /\ AtEnd(told) /\ IsUnread(again)
    <2>w. /\ view \in View /\ rows \in 0..MaxPosts /\ entry \in Entry
          /\ lastPost \in 0..MaxPosts /\ total \in 0..MaxPosts /\ pending.post \in Posts
        BY <1>0, <1>b, <1>20 DEF CheckpointReplied, WidgetTypes, ChannelTypes
    <2>x. OK => pending.answer \in Answers
        BY <1>0, <1>20 DEF CheckpointReplied, CallsTypes
    <2>y. /\ entry' = IF ack THEN RecordViewed(again, lastPost, total) ELSE again
          /\ view' = Completed(told, OK)
          /\ views' = views + (IF pending.full THEN 1 ELSE 0) + (IF ack THEN 1 ELSE 0)
          /\ readAll' = IF back THEN 0
                        ELSE IF ack /\ manual = {} THEN Smaller(rows, lastPost) ELSE readAll
        BY <1>20 DEF CheckpointReplied
    <2>z. views' <= MaxViews /\ pending' = NoCall
        BY <1>20 DEF CheckpointReplied
    <2>v. moved \in Entry /\ again \in Entry
        BY <2>w, <2>x, EntryUnread, RecordViewedTypes
    <2>u. told \in View
        BY <2>w, RewindTypes DEF Posts
    <2> HIDE DEF moved, back, again, told, ack
    <2>1. LoadingTypes'
        BY <1>0, <1>20, TypesKept DEF CheckpointReplied
    <2>2. ServerTypes'
        <3>1. views' \in 0..MaxViews
            BY <1>0, <2>y, <2>z DEF ServerTypes
        <3> QED BY <1>0, <1>20, <3>1 DEF CheckpointReplied, ServerTypes
    <2>3. ChannelTypes'
        <3>1. entry' \in Entry
            BY <2>w, <2>v, <2>y, RecordViewedTypes
        <3> QED BY <1>0, <1>20, <3>1 DEF CheckpointReplied, numbers, ChannelTypes
    <2>4. CallsTypes'
        BY <1>0, <1>d, <1>20 DEF CheckpointReplied, CallsTypes
    <2>5. WidgetTypes'
        <3>1. view' \in View
            BY <2>w, <2>u, <2>y, CompletedTypes
        <3> QED BY <1>0, <1>20, <3>1 DEF CheckpointReplied, WidgetTypes
    <2>6. HistoryTypes'
        <3>1. Smaller(rows, lastPost) \in 0..MaxPosts
            BY <2>w DEF Smaller
        <3>2. outran' \in BOOLEAN
            BY <1>0, <1>20 DEF CheckpointReplied, Outrun, HistoryTypes
        <3> QED BY <1>0, <1>a, <2>y, <3>1, <3>2 DEF HistoryTypes
    <2>7. BoundsTypes'
        BY <1>0, <1>a, <1>20 DEF CheckpointReplied, BoundsTypes, bounds
    <2>8. pending'.post # NoPost => pending'.post \in recent'
        BY <1>d, <2>z
    <2> QED BY <2>1, <2>2, <2>3, <2>4, <2>5, <2>6, <2>7, <2>8 DEF TypeOK
<1>21. CASE MarkPostUnread
    <2>w. PICK p \in 1..rows :
              /\ view' = Gate([Regenerated(view) EXCEPT !.exited = FALSE, !.high = 0], p)
              /\ manual' = manual \cup {Mark(p)}
        BY <1>21 DEF MarkPostUnread
    <2>x. p \in Posts /\ view \in View
        BY <1>0 DEF WidgetTypes, Posts
    <2>1. ServerTypes' /\ ChannelTypes' /\ LoadingTypes' /\ HistoryTypes'
        BY <1>0, <1>21, TypesKept DEF MarkPostUnread
    <2>2. CallsTypes'
        <3>1. Mark(p) \in [post : Posts, answer : Answers \cup {NoAnswer}]
            BY <2>x DEF Mark
        <3> QED BY <1>0, <1>21, <2>w, <3>1 DEF MarkPostUnread, CallsTypes
    <2>3. WidgetTypes'
        <3>1. Regenerated(view) \in View
            BY <2>x, RegeneratedTypes
        <3>2. [Regenerated(view) EXCEPT !.exited = FALSE, !.high = 0] \in View
            BY <1>a, <3>1, ViewFields
        <3>3. view' \in View
            BY <2>w, <2>x, <3>2, GateTypes DEF Posts
        <3> QED BY <1>0, <1>21, <3>3 DEF MarkPostUnread, WidgetTypes
    <2>4. BoundsTypes'
        BY <1>0, <1>a, <1>21 DEF MarkPostUnread, BoundsTypes, bounds
    <2>5. pending'.post # NoPost => pending'.post \in recent'
        BY <1>0, <1>21 DEF MarkPostUnread
    <2> QED BY <2>1, <2>2, <2>3, <2>4, <2>5 DEF TypeOK
<1>22. CASE MarkReplied
    <2>w. PICK c \in manual :
              /\ c.answer # NoAnswer
              /\ manual' = manual \ {c}
              /\ entry' = SetUnread(entry, c.answer)
              /\ view' = Scheduled(IF Rewinds(entry, c.post, c.answer)
                                   THEN Rewind(view, c.post) ELSE view)
              /\ Outrun /\ readAll' = 0
              /\ UNCHANGED <<server, numbers, pending, recent, loading, rows, bounds>>
        BY <1>22 DEF MarkReplied
    <2>x. c.post \in Posts /\ c.answer \in Answers
        BY <1>0, <2>w DEF CallsTypes
    <2>1. ServerTypes' /\ LoadingTypes' /\ BoundsTypes'
        BY <1>0, <1>22, TypesKept DEF MarkReplied
    <2>2. ChannelTypes'
        BY <1>0, <2>w, <2>x, EntryUnread DEF ChannelTypes, numbers
    <2>3. CallsTypes'
        BY <1>0, <2>w DEF CallsTypes
    <2>4. WidgetTypes'
        <3>1. view \in View /\ rows \in 0..MaxPosts /\ Rewind(view, c.post) \in View
            BY <1>0, <2>x, RewindTypes DEF WidgetTypes, Posts
        <3> QED BY <2>w, <3>1, ScheduledTypes DEF WidgetTypes
    <2>5. HistoryTypes'
        BY <1>0, <1>a, <2>w DEF HistoryTypes, Outrun
    <2>6. pending'.post # NoPost => pending'.post \in recent'
        BY <1>0, <2>w
    <2> QED BY <2>1, <2>2, <2>3, <2>4, <2>5, <2>6 DEF TypeOK
<1>23. CASE MarkFails
    <2>w. PICK c \in manual :
              /\ manual' = manual \ {c}
              /\ view' = IF view.marked = c.post THEN Scheduled(Ungated(view)) ELSE view
        BY <1>23 DEF MarkFails
    <2>1. ServerTypes' /\ ChannelTypes' /\ LoadingTypes' /\ HistoryTypes'
        BY <1>0, <1>23, TypesKept DEF MarkFails
    <2>2. CallsTypes'
        BY <1>0, <1>23, <2>w DEF MarkFails, CallsTypes
    <2>3. WidgetTypes'
        BY <1>0, <1>23, <2>w, ScheduledTypes, UngatedTypes DEF MarkFails, WidgetTypes
    <2>4. BoundsTypes'
        BY <1>0, <1>a, <1>23 DEF MarkFails, BoundsTypes, bounds
    <2>5. pending'.post # NoPost => pending'.post \in recent'
        BY <1>0, <1>23 DEF MarkFails
    <2> QED BY <2>1, <2>2, <2>3, <2>4, <2>5 DEF TypeOK
<1>24. CASE Refreshed
    <2>1. ServerTypes' /\ ChannelTypes' /\ CallsTypes' /\ WidgetTypes' /\ HistoryTypes'
        BY <1>0, <1>24, TypesKept DEF Refreshed, Refresh
    <2>2. LoadingTypes'
        <3>1. /\ members' \in [stage : {"idle", "asked", "read"}, answer : Answers \cup {NoAnswer}]
              /\ members'.stage = "read" <=> members'.answer # NoAnswer
            BY <1>0, <1>a, <1>24 DEF Refreshed, Refresh, Retrieve, Idle, LoadingTypes
        <3>2. retry' \in BOOLEAN /\ loaded' \in BOOLEAN
            BY <1>0, <1>24 DEF Refreshed, Refresh, LoadingTypes
        <3>3. summaries' \in [stage : {"idle", "asked", "read"}, posts : 0..MaxPosts]
            BY <1>0, <1>a, <1>24 DEF Refreshed, Refresh, LoadingTypes
        <3> QED BY <3>1, <3>2, <3>3 DEF LoadingTypes
    <2>3. BoundsTypes'
        BY <1>0, <1>a, <1>24 DEF Refreshed, Refresh, BoundsTypes, bounds
    <2>4. pending'.post # NoPost => pending'.post \in recent'
        BY <1>0, <1>24 DEF Refreshed, Refresh, calls
    <2> QED BY <2>1, <2>2, <2>3, <2>4 DEF TypeOK
<1>25. CASE EventsLost
    <2>1. ChannelTypes' /\ CallsTypes' /\ WidgetTypes' /\ HistoryTypes'
        BY <1>0, <1>25, TypesKept DEF EventsLost, Refresh
    <2>2. ServerTypes'
        BY <1>0, <1>a, <1>25 DEF EventsLost, Refresh, ServerTypes, server
    <2>3. LoadingTypes'
        <3>1. /\ members' \in [stage : {"idle", "asked", "read"}, answer : Answers \cup {NoAnswer}]
              /\ members'.stage = "read" <=> members'.answer # NoAnswer
            BY <1>0, <1>a, <1>25 DEF EventsLost, Refresh, Retrieve, Idle, LoadingTypes
        <3>2. retry' \in BOOLEAN /\ loaded' \in BOOLEAN
            BY <1>0, <1>25 DEF EventsLost, Refresh, LoadingTypes
        <3>3. summaries' \in [stage : {"idle", "asked", "read"}, posts : 0..MaxPosts]
            BY <1>0, <1>a, <1>25 DEF EventsLost, Refresh, LoadingTypes
        <3> QED BY <3>1, <3>2, <3>3 DEF LoadingTypes
    <2>4. BoundsTypes'
        BY <1>0, <1>a, <1>25 DEF EventsLost, Refresh, BoundsTypes, bounds
    <2>5. pending'.post # NoPost => pending'.post \in recent'
        BY <1>0, <1>25 DEF EventsLost, Refresh, calls
    <2> QED BY <2>1, <2>2, <2>3, <2>4, <2>5 DEF TypeOK
<1>26. CASE HistoryMerged
    <2>1. ServerTypes' /\ ChannelTypes' /\ CallsTypes' /\ LoadingTypes' /\ HistoryTypes' /\ BoundsTypes'
        BY <1>0, <1>26, TypesKept DEF HistoryMerged
    <2>2. WidgetTypes'
        <3>1. Scheduled(view) \in View /\ rows' \in 0..MaxPosts
            BY <1>0, <1>26, ScheduledTypes DEF WidgetTypes, HistoryMerged, ServerTypes
        <3>2. (IF AtEnd(view) THEN rows' ELSE Scheduled(view).edge) \in 0..MaxPosts
            BY <3>1 DEF View
        <3>3. view' = [Scheduled(view) EXCEPT !.edge = IF AtEnd(view) THEN rows' ELSE Scheduled(view).edge]
            BY <1>26 DEF HistoryMerged
        <3>4. view' \in View
            BY <3>1, <3>2, <3>3, ViewFields
        <3> QED BY <3>1, <3>4 DEF WidgetTypes
    <2>3. pending'.post # NoPost => pending'.post \in recent'
        BY <1>0, <1>26 DEF HistoryMerged, calls
    <2> QED BY <2>1, <2>2, <2>3 DEF TypeOK
<1>27. CASE MembersReplied
    <2>1. ServerTypes' /\ CallsTypes' /\ WidgetTypes' /\ HistoryTypes' /\ BoundsTypes'
        BY <1>0, <1>27, TypesKept DEF MembersReplied
    <2>2. ChannelTypes'
        <3>1. members.answer \in Answers
            BY <1>0, <1>27 DEF MembersReplied, LoadingTypes
        <3>2. SetMembership(entry, members.answer) \in Entry
            BY <1>0, <3>1, SetMembershipTypes DEF ChannelTypes
        <3>3. entry' \in Entry
            BY <1>0, <1>27, <3>2, SynchronizeTypes DEF MembersReplied, ChannelTypes
        <3> QED BY <1>0, <1>27, <3>3 DEF MembersReplied, numbers, ChannelTypes
    <2>3. LoadingTypes'
        <3>1. /\ members' \in [stage : {"idle", "asked", "read"}, answer : Answers \cup {NoAnswer}]
              /\ members'.stage = "read" <=> members'.answer # NoAnswer
            BY <1>0, <1>a, <1>27 DEF MembersReplied, Idle, LoadingTypes
        <3>2. retry' \in BOOLEAN /\ loaded' \in BOOLEAN
            BY <1>0, <1>27 DEF MembersReplied, LoadingTypes
        <3>3. summaries' \in [stage : {"idle", "asked", "read"}, posts : 0..MaxPosts]
            BY <1>0, <1>a, <1>27 DEF MembersReplied, LoadingTypes
        <3> QED BY <3>1, <3>2, <3>3 DEF LoadingTypes
    <2>4. pending'.post # NoPost => pending'.post \in recent'
        BY <1>0, <1>27 DEF MembersReplied, calls
    <2> QED BY <2>1, <2>2, <2>3, <2>4 DEF TypeOK
<1>28. CASE MembersFail
    <2>1. ServerTypes' /\ ChannelTypes' /\ CallsTypes' /\ WidgetTypes' /\ HistoryTypes'
        BY <1>0, <1>28, TypesKept DEF MembersFail
    <2>2. LoadingTypes'
        <3>1. /\ members' \in [stage : {"idle", "asked", "read"}, answer : Answers \cup {NoAnswer}]
              /\ members'.stage = "read" <=> members'.answer # NoAnswer
            BY <1>0, <1>a, <1>28 DEF MembersFail, Idle, LoadingTypes
        <3>2. retry' \in BOOLEAN /\ loaded' \in BOOLEAN
            BY <1>0, <1>28 DEF MembersFail, LoadingTypes
        <3>3. summaries' \in [stage : {"idle", "asked", "read"}, posts : 0..MaxPosts]
            BY <1>0, <1>a, <1>28 DEF MembersFail, LoadingTypes
        <3> QED BY <3>1, <3>2, <3>3 DEF LoadingTypes
    <2>3. BoundsTypes'
        BY <1>0, <1>a, <1>28 DEF MembersFail, BoundsTypes, bounds
    <2>4. pending'.post # NoPost => pending'.post \in recent'
        BY <1>0, <1>28 DEF MembersFail, calls
    <2> QED BY <2>1, <2>2, <2>3, <2>4 DEF TypeOK
<1>29. CASE RetryTimer
    <2>1. ServerTypes' /\ ChannelTypes' /\ CallsTypes' /\ WidgetTypes' /\ HistoryTypes' /\ BoundsTypes'
        BY <1>0, <1>29, TypesKept DEF RetryTimer
    <2>2. LoadingTypes'
        <3>1. /\ members' \in [stage : {"idle", "asked", "read"}, answer : Answers \cup {NoAnswer}]
              /\ members'.stage = "read" <=> members'.answer # NoAnswer
            BY <1>0, <1>a, <1>29 DEF RetryTimer, Retrieve, Idle, LoadingTypes
        <3>2. retry' \in BOOLEAN /\ loaded' \in BOOLEAN
            BY <1>0, <1>29 DEF RetryTimer, LoadingTypes
        <3>3. summaries' \in [stage : {"idle", "asked", "read"}, posts : 0..MaxPosts]
            BY <1>0, <1>a, <1>29 DEF RetryTimer, LoadingTypes
        <3> QED BY <3>1, <3>2, <3>3 DEF LoadingTypes
    <2>3. pending'.post # NoPost => pending'.post \in recent'
        BY <1>0, <1>29 DEF RetryTimer, calls
    <2> QED BY <2>1, <2>2, <2>3 DEF TypeOK
<1>30. CASE SummariesReplied
    <2>1. ServerTypes' /\ CallsTypes' /\ WidgetTypes' /\ HistoryTypes' /\ BoundsTypes'
        BY <1>0, <1>30, TypesKept DEF SummariesReplied
    <2>2. ChannelTypes'
        <3>1. lastPost' \in 0..MaxPosts /\ total' \in 0..MaxPosts
            BY <1>0, <1>30 DEF SummariesReplied, ChannelTypes, LoadingTypes, numbers
        <3> QED BY <1>0, <1>30, <3>1, SynchronizeTypes DEF SummariesReplied, ChannelTypes
    <2>3. LoadingTypes'
        <3>1. /\ members' \in [stage : {"idle", "asked", "read"}, answer : Answers \cup {NoAnswer}]
              /\ members'.stage = "read" <=> members'.answer # NoAnswer
            BY <1>0, <1>a, <1>30 DEF SummariesReplied, LoadingTypes
        <3>2. retry' \in BOOLEAN /\ loaded' \in BOOLEAN
            BY <1>0, <1>30 DEF SummariesReplied, LoadingTypes
        <3>3. summaries' \in [stage : {"idle", "asked", "read"}, posts : 0..MaxPosts]
            BY <1>0, <1>a, <1>30 DEF SummariesReplied, LoadingTypes
        <3> QED BY <3>1, <3>2, <3>3 DEF LoadingTypes
    <2>4. pending'.post # NoPost => pending'.post \in recent'
        BY <1>0, <1>30 DEF SummariesReplied, calls
    <2> QED BY <2>1, <2>2, <2>3, <2>4 DEF TypeOK
<1>31. CASE SummariesFail
    <2>1. ServerTypes' /\ CallsTypes' /\ WidgetTypes' /\ HistoryTypes'
        BY <1>0, <1>31, TypesKept DEF SummariesFail
    <2>2. ChannelTypes'
        BY <1>0, <1>31, SynchronizeTypes DEF SummariesFail, ChannelTypes, numbers
    <2>3. LoadingTypes'
        <3>1. /\ members' \in [stage : {"idle", "asked", "read"}, answer : Answers \cup {NoAnswer}]
              /\ members'.stage = "read" <=> members'.answer # NoAnswer
            BY <1>0, <1>a, <1>31 DEF SummariesFail, LoadingTypes
        <3>2. retry' \in BOOLEAN /\ loaded' \in BOOLEAN
            BY <1>0, <1>31 DEF SummariesFail, LoadingTypes
        <3>3. summaries' \in [stage : {"idle", "asked", "read"}, posts : 0..MaxPosts]
            BY <1>0, <1>a, <1>31 DEF SummariesFail, LoadingTypes
        <3> QED BY <3>1, <3>2, <3>3 DEF LoadingTypes
    <2>4. BoundsTypes'
        BY <1>0, <1>a, <1>31 DEF SummariesFail, BoundsTypes, bounds
    <2>5. pending'.post # NoPost => pending'.post \in recent'
        BY <1>0, <1>31 DEF SummariesFail, calls
    <2> QED BY <2>1, <2>2, <2>3, <2>4, <2>5 DEF TypeOK
<1>32. CASE UNCHANGED vars
    BY <1>0, <1>32, TypesKept DEF vars, TypeOK, calls
<1> QED BY <1>1, <1>2, <1>3, <1>4, <1>5, <1>6, <1>7, <1>8, <1>9, <1>10, <1>11, <1>12, <1>13,
       <1>14, <1>15, <1>16, <1>17, <1>18, <1>19, <1>20, <1>21, <1>22, <1>23, <1>24, <1>25,
       <1>26, <1>27, <1>28, <1>29, <1>30, <1>31, <1>32 DEF Next, ServerStep, ClientStep

\* The members of the program keep their shape, whatever the server sends and
\* when; a checkpoint under way is tagged.
THEOREM ReadTyped == Spec => []TypeOK
<1>1. Init => TypeOK
    BY TypesInit
<1>2. TypeOK /\ [Next]_vars => TypeOK'
    BY TypesStep
<1> QED BY <1>1, <1>2, PTL DEF Spec

-----------------------------------------------------------------------------
(* Checkpoints send no view back: the event of each is tagged until it is  *)
(* heard, and the call under way is tagged by TypeOK.                      *)

Tagged(e, ids) == e.kind = "unread" /\ e.origin = "checkpoint" => e.post \in ids

TagInv ==
    /\ TypeOK
    /\ \A i \in DOMAIN events : Tagged(events[i], recent)

\* What is told is heard after what was told before.
LEMMA Appended ==
    ASSUME events \in Seq(Event), NEW e \in Event, NEW f \in Event,
           Tell(<<e>>) \/ Tell(<<e, f>>)
    PROVE  \A i \in DOMAIN events' :
               \/ i \in DOMAIN events /\ events'[i] = events[i]
               \/ events'[i] \in {e, f}
<1> HIDE DEF Event
<1>1. CASE Tell(<<e>>)
    <2>1. events' = events \o <<e>>
        BY <1>1 DEF Tell
    <2> QED BY <2>1
<1>2. CASE Tell(<<e, f>>)
    <2>1. events' = events \o <<e, f>>
        BY <1>2 DEF Tell
    <2> QED BY <2>1
<1> QED BY <1>1, <1>2

\* The events of the three kinds, and where they come from.
LEMMA EventKinds ==
    ASSUME NEW p, NEW a, NEW origin
    PROVE  /\ PostedEvent(p).kind = "posted" /\ PostedEvent(p).post = p
           /\ ViewedEvent.kind = "viewed"
           /\ UnreadEvent(p, a, origin).kind = "unread"
           /\ UnreadEvent(p, a, origin).post = p
           /\ UnreadEvent(p, a, origin).origin = origin
           /\ UnreadEvent(p, a, origin).answer = a
BY DEF PostedEvent, ViewedEvent, UnreadEvent

\* The tags outlive the events, whoever acts.
LEMMA TagStep == TagInv /\ [Next]_vars => TagInv'
<1> SUFFICES ASSUME TagInv, [Next]_vars PROVE TagInv'
    OBVIOUS
<1> USE DEF client
<1>0. /\ TypeOK /\ TypeOK' /\ \A i \in DOMAIN events : Tagged(events[i], recent)
      /\ events \in Seq(Event)
    BY TypesStep DEF TagInv, TypeOK, ServerTypes
<1>b. pending.post # NoPost => pending.post \in Posts /\ pending.post \in recent
    BY <1>0 DEF TypeOK, CallsTypes, Posts, NoPost
<1>c. UNCHANGED events /\ recent \subseteq recent' => TagInv'
    BY <1>0 DEF TagInv, Tagged
<1>d. ASSUME NEW e \in Event, NEW f \in Event, Tell(<<e>>) \/ Tell(<<e, f>>),
             Tagged(e, recent), Tagged(f, recent), recent' = recent
      PROVE  TagInv'
    <2>1. \A i \in DOMAIN events' : \/ i \in DOMAIN events /\ events'[i] = events[i]
                                    \/ events'[i] \in {e, f}
        BY <1>0, <1>d, Appended
    <2>2. \A i \in DOMAIN events' : Tagged(events'[i], recent)
        BY <1>0, <1>d, <2>1
    <2> QED BY <1>0, <1>d, <2>2 DEF TagInv
<1>1. CASE SomebodyPosts
    <2>1. PostedEvent(posted') \in Event /\ ViewedEvent \in Event
        <3>1. posted' \in Posts /\ posted' \in 0..MaxPosts
            BY <1>0, <1>1, ReadAssumption DEF SomebodyPosts, TypeOK, ServerTypes, Posts
        <3>2. PostedEvent(posted') \in Event
            BY <3>1 DEF PostedEvent, Event
        <3>3. ViewedEvent \in Event
            BY <3>1, ReadAssumption DEF ViewedEvent, Event
        <3> QED BY <3>2, <3>3
    <2>2. Tell(<<PostedEvent(posted')>>) \/ Tell(<<PostedEvent(posted'), ViewedEvent>>)
        BY <1>1 DEF SomebodyPosts
    <2>3. Tagged(PostedEvent(posted'), recent) /\ Tagged(ViewedEvent, recent)
        BY EventKinds DEF Tagged
    <2>4. recent' = recent
        BY <1>1 DEF SomebodyPosts, calls
    <2> QED BY <1>d, <2>1, <2>2, <2>3, <2>4
<1>2. CASE ViewTaken
    <2>1. ViewedEvent \in Event
        BY <1>0, ReadAssumption DEF TypeOK, ServerTypes, ViewedEvent, Event
    <2>2. Tell(<<ViewedEvent>>)
        BY <1>2 DEF ViewTaken
    <2>3. Tagged(ViewedEvent, recent)
        BY EventKinds DEF Tagged
    <2>4. recent' = recent
        BY <1>2 DEF ViewTaken, calls
    <2> QED BY <1>d, <2>1, <2>2, <2>3, <2>4
<1>3. CASE ViewedElsewhere
    <2>1. ViewedEvent \in Event
        BY <1>0, ReadAssumption DEF TypeOK, ServerTypes, ViewedEvent, Event
    <2>2. Tell(<<ViewedEvent>>)
        BY <1>3 DEF ViewedElsewhere
    <2>3. Tagged(ViewedEvent, recent)
        BY EventKinds DEF Tagged
    <2>4. recent' = recent
        BY <1>3 DEF ViewedElsewhere, calls
    <2> QED BY <1>d, <2>1, <2>2, <2>3, <2>4
<1>4. CASE ViewFails
    BY <1>4, <1>c DEF ViewFails, server, calls
<1>5. CASE CheckpointTaken
    <2>0. pending.post # NoPost
        BY <1>5 DEF CheckpointTaken
    <2>1. UnreadEvent(pending.post, Membership(pending.post - 1), "checkpoint") \in Event
        <3>1. pending.post - 1 \in 0..MaxPosts /\ posted' \in 0..MaxPosts
            BY <1>0, <1>b, <2>0, ReadAssumption DEF TypeOK, ServerTypes, Posts
        <3> QED BY <1>b, <2>0, <3>1, AnswerTypes, EventTypes
    <2>2. Tell(<<UnreadEvent(pending.post, Membership(pending.post - 1), "checkpoint")>>)
        BY <1>5, <1>b, <2>0 DEF CheckpointTaken, SetUnreadTaken
    <2>3. Tagged(UnreadEvent(pending.post, Membership(pending.post - 1), "checkpoint"), recent)
        BY <1>5, <1>b, <2>0, EventKinds DEF Tagged, CheckpointTaken
    <2>4. recent' = recent
        BY <1>5 DEF CheckpointTaken, calls
    <2> QED BY <1>d, <2>1, <2>2, <2>3, <2>4
<1>6. CASE MarkTaken
    <2>w. PICK c \in manual : SetUnreadTaken(c.post, "mark")
        BY <1>6 DEF MarkTaken
    <2>v. c.post \in Posts
        BY <1>0 DEF TypeOK, CallsTypes
    <2>1. UnreadEvent(c.post, Membership(c.post - 1), "mark") \in Event
        <3>1. c.post - 1 \in 0..MaxPosts /\ posted' \in 0..MaxPosts
            BY <1>0, <2>v, <2>w, ReadAssumption DEF TypeOK, ServerTypes, Posts
        <3> QED BY <2>v, <2>w, <3>1, AnswerTypes, EventTypes
    <2>2. Tell(<<UnreadEvent(c.post, Membership(c.post - 1), "mark")>>)
        BY <1>6, <2>v, <2>w DEF MarkTaken, SetUnreadTaken
    <2>3. Tagged(UnreadEvent(c.post, Membership(c.post - 1), "mark"), recent)
        BY <1>6, <2>v, <2>w, EventKinds DEF Tagged, MarkTaken
    <2>4. recent' = recent
        BY <1>6 DEF MarkTaken, calls
    <2> QED BY <1>d, <2>1, <2>2, <2>3, <2>4
<1>7. CASE MarkedElsewhere
    <2>w. PICK p \in Posts : SetUnreadTaken(p, "elsewhere")
        BY <1>0, <1>7, ReadAssumption DEF MarkedElsewhere, TypeOK, ServerTypes, Posts
    <2>1. UnreadEvent(p, Membership(p - 1), "elsewhere") \in Event
        <3>1. p - 1 \in 0..MaxPosts /\ posted' \in 0..MaxPosts
            BY <1>0, <2>w, ReadAssumption DEF TypeOK, ServerTypes, Posts
        <3> QED BY <2>w, <3>1, AnswerTypes, EventTypes
    <2>2. Tell(<<UnreadEvent(p, Membership(p - 1), "elsewhere")>>)
        BY <1>7, <2>w DEF MarkedElsewhere, SetUnreadTaken
    <2>3. Tagged(UnreadEvent(p, Membership(p - 1), "elsewhere"), recent)
        BY <1>7, <2>w, EventKinds DEF Tagged, MarkedElsewhere
    <2>4. recent' = recent
        BY <1>7 DEF MarkedElsewhere, calls
    <2> QED BY <1>d, <2>1, <2>2, <2>3, <2>4
<1>8. CASE MembersRead
    BY <1>8, <1>c DEF MembersRead, server, calls
<1>9. CASE SummariesRead
    BY <1>9, <1>c DEF SummariesRead, server, calls
<1>10. CASE Hear
    <2>1. events # << >> /\ events' = Tail(events) /\ recent' = recent
        BY <1>10 DEF Hear, calls
    <2>2. \A i \in DOMAIN events' : i + 1 \in DOMAIN events /\ events'[i] = events[i + 1]
        BY <1>0, <2>1
    <2> QED BY <1>0, <2>1, <2>2 DEF TagInv
<1>11. CASE Untag
    BY <1>0, <1>11 DEF Untag, TagInv, Tagged, server
<1>12. CASE Scroll
    BY <1>12, <1>c DEF Scroll, server, calls
<1>13. CASE PassBlocked
    BY <1>13, <1>c DEF PassBlocked, server, calls
<1>14. CASE PassReads
    BY <1>14, <1>c DEF PassReads, server, calls
<1>15. CASE FlushNothing
    BY <1>15, <1>c DEF FlushNothing, server, calls
<1>16. CASE FlushRefused
    BY <1>16, <1>c DEF FlushRefused, server, calls
<1>17. CASE Flush
    BY <1>17, <1>c DEF Flush, server, calls
<1>18. CASE OtherViewFlushes
    BY <1>18, <1>c DEF OtherViewFlushes, server, calls
<1>19. CASE CheckpointReplied(TRUE)
    BY <1>19, <1>c DEF CheckpointReplied, server, calls
<1>20. CASE CheckpointReplied(FALSE)
    BY <1>20, <1>c DEF CheckpointReplied, server, calls
<1>21. CASE MarkPostUnread
    BY <1>21, <1>c DEF MarkPostUnread, server, calls
<1>22. CASE MarkReplied
    BY <1>22, <1>c DEF MarkReplied, server, calls
<1>23. CASE MarkFails
    BY <1>23, <1>c DEF MarkFails, server, calls
<1>24. CASE Refreshed
    BY <1>24, <1>c DEF Refreshed, server, calls, Refresh
<1>25. CASE EventsLost
    BY <1>0, <1>25 DEF EventsLost, TagInv
<1>26. CASE HistoryMerged
    BY <1>26, <1>c DEF HistoryMerged, server, calls
<1>27. CASE MembersReplied
    BY <1>27, <1>c DEF MembersReplied, server, calls
<1>28. CASE MembersFail
    BY <1>28, <1>c DEF MembersFail, server, calls
<1>29. CASE RetryTimer
    BY <1>29, <1>c DEF RetryTimer, server, calls
<1>30. CASE SummariesReplied
    BY <1>30, <1>c DEF SummariesReplied, server, calls
<1>31. CASE SummariesFail
    BY <1>31, <1>c DEF SummariesFail, server, calls
<1>32. CASE UNCHANGED vars
    BY <1>32, <1>c DEF vars, server, calls
<1> QED BY <1>1, <1>2, <1>3, <1>4, <1>5, <1>6, <1>7, <1>8, <1>9, <1>10, <1>11, <1>12, <1>13,
       <1>14, <1>15, <1>16, <1>17, <1>18, <1>19, <1>20, <1>21, <1>22, <1>23, <1>24, <1>25,
       <1>26, <1>27, <1>28, <1>29, <1>30, <1>31, <1>32 DEF Next, ServerStep, ClientStep

\* Neither the reply nor the event of a checkpoint sends a view back: only marks
\* as unread do, made here or elsewhere.
LEMMA RewindStep ==
    ASSUME TagInv, [Next]_vars
    PROVE  \/ view.phase = "Idle" /\ view'.phase # "Idle"
           \/ view'.observed < view.observed
           => \/ marks' > marks
              \/ \E c \in manual : c \notin manual'
              \/ events # << >> /\ Head(events).kind = "unread" /\ Head(events).origin # "checkpoint"
<1> DEFINE Back == \/ view.phase = "Idle" /\ view'.phase # "Idle"
                   \/ view'.observed < view.observed
           Marked == \/ marks' > marks
                     \/ \E c \in manual : c \notin manual'
                     \/ /\ events # << >> /\ Head(events).kind = "unread"
                        /\ Head(events).origin # "checkpoint"
<1> SUFFICES Back => Marked
    OBVIOUS
<1> USE DEF client
<1>0. /\ TypeOK /\ view \in View /\ rows \in 0..MaxPosts /\ view.observed \in 0..MaxPosts
      /\ events \in Seq(Event)
    BY DEF TagInv, TypeOK, ServerTypes, WidgetTypes, View
<1>b. pending.post # NoPost => pending.post \in Posts /\ pending.post \in recent
    BY <1>0 DEF TypeOK, CallsTypes, Posts, NoPost
<1>c. view'.phase = view.phase /\ view'.observed = view.observed => ~Back
    BY <1>0
<1>d. view' = view => ~Back
    BY <1>c
<1>1. CASE SomebodyPosts
    BY <1>1, <1>d DEF SomebodyPosts, widget
<1>2. CASE ViewTaken
    BY <1>2, <1>d DEF ViewTaken, widget
<1>3. CASE ViewedElsewhere
    BY <1>3, <1>d DEF ViewedElsewhere, widget
<1>4. CASE ViewFails
    BY <1>4, <1>d DEF ViewFails, widget
<1>5. CASE CheckpointTaken
    BY <1>5, <1>d DEF CheckpointTaken, widget
<1>6. CASE MarkTaken
    BY <1>6, <1>d DEF MarkTaken, widget
<1>7. CASE MarkedElsewhere
    BY <1>7, <1>d DEF MarkedElsewhere, widget
<1>8. CASE MembersRead
    BY <1>8, <1>d DEF MembersRead, widget
<1>9. CASE SummariesRead
    BY <1>9, <1>d DEF SummariesRead, widget
<1>10. CASE Hear
    <2> DEFINE m == Head(events)
    <2>1. events # << >> /\ (HearPosted(m) \/ HearViewed(m) \/ HearUnread(m))
        BY <1>10 DEF Hear
    <2>2. m = events[1] /\ 1 \in DOMAIN events /\ m \in Event
        BY <1>0, <2>1
    <2> HIDE DEF m
    <2>3. CASE HearPosted(m)
        <3>1. Scheduled(view) \in View /\ Scheduled(view).phase = view.phase
              /\ Scheduled(view).observed = view.observed
            BY <1>0, ScheduledTypes
        <3>2. rows' \in 0..MaxPosts
            BY <1>10, <1>0, <2>2, <2>3 DEF HearPosted, Larger, Posts, Event
        <3>3. (IF AtEnd(view) THEN rows' ELSE Scheduled(view).edge) \in 0..MaxPosts
            BY <3>1, <3>2 DEF View
        <3>4. view' = [Scheduled(view) EXCEPT !.edge = IF AtEnd(view) THEN rows' ELSE Scheduled(view).edge]
            BY <2>3 DEF HearPosted
        <3> QED BY <1>c, <3>1, <3>3, <3>4, ViewFields
    <2>4. CASE HearViewed(m)
        BY <1>d, <2>4 DEF HearViewed, widget
    <2>5. CASE HearUnread(m)
        <3>1. CASE Rewinds(entry, m.post, m.answer)
            <4>1. m.kind = "unread" /\ m.post \notin recent
                BY <2>5, <3>1 DEF HearUnread, Rewinds
            <4>2. m.origin # "checkpoint"
                BY <2>2, <4>1 DEF TagInv, Tagged
            <4> QED BY <2>1, <4>1, <4>2 DEF m
        <3>2. CASE ~Rewinds(entry, m.post, m.answer)
            BY <1>d, <2>5, <3>2 DEF HearUnread
        <3> QED BY <3>1, <3>2
    <2> QED BY <2>1, <2>3, <2>4, <2>5
<1>11. CASE Untag
    BY <1>11, <1>d DEF Untag, widget
<1>12. CASE Scroll
    <2>1. PICK e \in 0..rows : view' = [Scheduled(view) EXCEPT !.edge = e]
        BY <1>12 DEF Scroll
    <2>2. Scheduled(view) \in View /\ e \in 0..MaxPosts
        BY <1>0, ScheduledTypes, ReadAssumption
    <2> QED BY <1>0, <1>c, <2>1, <2>2, ScheduledTypes, ViewFields
<1>13. CASE PassBlocked
    <2>1. view.phase # "Idle"
        BY <1>0, <1>13 DEF PassBlocked, Blocked
    <2>2. view'.observed = view.observed
        BY <1>0, <1>13 DEF PassBlocked, View
    <2> QED BY <1>0, <2>1, <2>2
<1>14. CASE PassReads
    <2> DEFINE post == IF view.phase = "Idle" THEN view.edge ELSE Larger(view.edge, view.high)
               open == IF view.phase = "Idle" THEN view ELSE Ungated(view)
               seen == [open EXCEPT !.scheduled = FALSE, !.observed = Larger(@, post)]
    <2>1. view' = IF post = 0 THEN seen ELSE QueueProgress(seen, post)
        BY <1>14 DEF PassReads
    <2>2. post \in 0..MaxPosts
        BY <1>0 DEF View, Larger
    <2>3. open \in View /\ open.phase = "Idle" /\ open.observed = view.observed
        BY <1>0, UngatedTypes
    <2> HIDE DEF open, post
    <2>4. seen \in View /\ seen.phase = "Idle" /\ seen.observed >= view.observed
        BY <2>2, <2>3, SeenTypes
    <2> HIDE DEF seen
    <2>5. view'.phase = "Idle" /\ view'.observed >= view.observed
        BY <2>1, <2>2, <2>4, QueueTypes
    <2>6. seen.observed \in 0..MaxPosts /\ (view'.observed = seen.observed)
        BY <2>1, <2>2, <2>4, QueueTypes DEF View
    <2> QED BY <1>0, <2>5, <2>6
<1>15. CASE FlushNothing
    BY <1>0, <1>c, <1>15, ViewFields DEF FlushNothing, AtEnd
<1>16. CASE FlushRefused
    BY <1>0, <1>c, <1>16, ViewFields DEF FlushRefused, AtEnd
<1>17. CASE Flush
    BY <1>0, <1>c, <1>17, ViewFields DEF Flush, AtEnd
<1>18. CASE OtherViewFlushes
    BY <1>18, <1>d DEF OtherViewFlushes, widget
<1>19. CASE CheckpointReplied(TRUE)
    <2>1. pending.post \in Posts /\ pending.post \in recent
        BY <1>b, <1>19 DEF CheckpointReplied
    <2>2. ~Rewinds(entry, pending.post, pending.answer)
        BY <2>1 DEF Rewinds
    <2>3. view' = Completed(view, TRUE)
        BY <1>19, <2>2 DEF CheckpointReplied
    <2> QED BY <1>0, <1>c, <2>1, <2>3, CompletedTypes
<1>20. CASE CheckpointReplied(FALSE)
    <2>1. pending.post \in Posts /\ pending.post \in recent
        BY <1>b, <1>20 DEF CheckpointReplied
    <2>2. ~Rewinds(entry, pending.post, pending.answer)
        BY <2>1 DEF Rewinds
    <2>3. view' = Completed(view, FALSE)
        BY <1>20, <2>2 DEF CheckpointReplied
    <2> QED BY <1>0, <1>c, <2>1, <2>3, CompletedTypes
<1>21. CASE MarkPostUnread
    <2>1. marks' > marks
        BY <1>0, <1>21, ReadAssumption DEF MarkPostUnread, TypeOK, BoundsTypes
    <2> QED BY <2>1
<1>22. CASE MarkReplied
    <2>1. \E c \in manual : c \notin manual'
        BY <1>22 DEF MarkReplied
    <2> QED BY <2>1
<1>23. CASE MarkFails
    <2>1. \E c \in manual : c \notin manual'
        BY <1>23 DEF MarkFails
    <2> QED BY <2>1
<1>24. CASE Refreshed
    BY <1>24, <1>d DEF Refreshed, widget, Refresh
<1>25. CASE EventsLost
    BY <1>25, <1>d DEF EventsLost, widget, Refresh
<1>26. CASE HistoryMerged
    <2>1. Scheduled(view) \in View /\ rows' \in 0..MaxPosts
        BY <1>0, <1>26, ScheduledTypes DEF HistoryMerged, TypeOK, ServerTypes
    <2>2. (IF AtEnd(view) THEN rows' ELSE Scheduled(view).edge) \in 0..MaxPosts
        BY <2>1 DEF View
    <2>3. view' = [Scheduled(view) EXCEPT !.edge = IF AtEnd(view) THEN rows' ELSE Scheduled(view).edge]
        BY <1>26 DEF HistoryMerged
    <2> QED BY <1>0, <1>c, <2>1, <2>2, <2>3, ScheduledTypes, ViewFields
<1>27. CASE MembersReplied
    BY <1>27, <1>d DEF MembersReplied, widget
<1>28. CASE MembersFail
    BY <1>28, <1>d DEF MembersFail, widget
<1>29. CASE RetryTimer
    BY <1>29, <1>d DEF RetryTimer, widget
<1>30. CASE SummariesReplied
    BY <1>30, <1>d DEF SummariesReplied, widget
<1>31. CASE SummariesFail
    BY <1>31, <1>d DEF SummariesFail, widget
<1>32. CASE UNCHANGED vars
    BY <1>32, <1>d DEF vars, widget
<1> QED BY <1>1, <1>2, <1>3, <1>4, <1>5, <1>6, <1>7, <1>8, <1>9, <1>10, <1>11, <1>12, <1>13,
       <1>14, <1>15, <1>16, <1>17, <1>18, <1>19, <1>20, <1>21, <1>22, <1>23, <1>24, <1>25,
       <1>26, <1>27, <1>28, <1>29, <1>30, <1>31, <1>32 DEF Next, ServerStep, ClientStep

\* A view goes back to an unread boundary only for a mark as unread: a checkpoint
\* is told from it by its tag, on both of the ways it comes back.
THEOREM OnlyMarks == Spec => OnlyMarksRewind
<1>1. Init => TagInv
    BY TypesInit DEF TagInv, Init
<1>2. TagInv /\ [Next]_vars => TagInv'
    BY TagStep
<1>3. TagInv /\ [Next]_vars
      => [\/ view.phase = "Idle" /\ view'.phase # "Idle"
          \/ view'.observed < view.observed
          => \/ marks' > marks
             \/ \E c \in manual : c \notin manual'
             \/ events # << >> /\ Head(events).kind = "unread" /\ Head(events).origin # "checkpoint"
         ]_vars
    BY RewindStep
<1> QED BY <1>1, <1>2, <1>3, PTL DEF Spec, OnlyMarksRewind

-----------------------------------------------------------------------------
(* Full reads stand.  A full read that overtakes a checkpoint under way is *)
(* remembered with it, and any other checkpoint lies beyond what was read  *)
(* to the end, so that the server's answer cannot be older than that.      *)

\* The client knows of no post the server does not have.
Known(e) == e.kind = "posted" => e.post <= posted
NothingInvented ==
    /\ lastPost <= posted /\ summaries.posts <= posted
    /\ \A i \in DOMAIN events : Known(events[i])

\* What was read to the end is viewed, for this client.
Remembered == readAll <= entry.viewed /\ readAll <= lastPost

\* A checkpoint goes ahead of the last full read, or knows of it.
CallAhead ==
    pending.post # NoPost =>
        /\ ~pending.full => readAll < pending.post
        /\ pending.answer # NoAnswer => pending.answer.boundary = pending.post - 1

\* Where the server is behind, a request to view is under way or will be.
Repaid == boundary < readAll => views > 0 \/ (pending.post # NoPost /\ pending.full)

ReadInv == TypeOK /\ NothingInvented /\ Remembered /\ CallAhead /\ Repaid

\* It holds at the start.
LEMMA ReadInit == Init => ReadInv
<1> SUFFICES ASSUME Init PROVE ReadInv
    OBVIOUS
<1> USE ReadAssumption
<1>1. TypeOK
    BY TypesInit
<1>2. NothingInvented /\ CallAhead
    BY DEF Init, NothingInvented, CallAhead, NoCall, NoPost
<1>3. readAll = 0 /\ lastPost \in Nat /\ entry.viewed \in Nat /\ boundary \in Nat
    BY <1>1 DEF Init, TypeOK, ChannelTypes, Entry, ServerTypes
<1>4. Remembered /\ Repaid
    BY <1>3 DEF Remembered, Repaid
<1> QED BY <1>1, <1>2, <1>4 DEF ReadInv

\* Every step keeps it.
LEMMA ReadStep == ReadInv /\ [Next]_vars => ReadInv'
<1> SUFFICES ASSUME ReadInv, [Next]_vars PROVE ReadInv'
    OBVIOUS
<1> USE DEF client
<1>0. TypeOK /\ TypeOK' /\ NothingInvented /\ Remembered /\ CallAhead /\ Repaid
    BY TypesStep DEF ReadInv
<1>a. /\ posted \in Nat /\ boundary \in Nat /\ views \in Nat /\ events \in Seq(Event)
      /\ lastPost \in 0..MaxPosts /\ total \in 0..MaxPosts /\ entry \in Entry
      /\ entry.viewed \in Nat /\ summaries.posts \in Nat /\ readAll \in Nat /\ rows \in Nat
      /\ rows \in 0..MaxPosts /\ view \in View
    BY <1>0, ReadAssumption DEF TypeOK, ServerTypes, ChannelTypes, Entry, LoadingTypes,
       HistoryTypes,
                                WidgetTypes
<1>b. /\ posted' \in Nat /\ boundary' \in Nat /\ views' \in Nat /\ lastPost' \in Nat
      /\ entry'.viewed \in Nat /\ summaries'.posts \in Nat /\ readAll' \in Nat
    BY <1>0, ReadAssumption DEF TypeOK, ServerTypes, ChannelTypes, Entry, LoadingTypes,
       HistoryTypes
<1>c. pending.post \in Nat /\ (pending.post # NoPost => pending.post \in Posts)
    BY <1>0 DEF TypeOK, CallsTypes, NoPost, Posts
<1>d. ASSUME NEW e \in Event, NEW f \in Event, Tell(<<e>>) \/ Tell(<<e, f>>),
             Known(e)', Known(f)', posted <= posted', UNCHANGED <<lastPost, summaries>>
      PROVE  NothingInvented'
    <2>1. \A i \in DOMAIN events' : \/ i \in DOMAIN events /\ events'[i] = events[i]
                                    \/ events'[i] \in {e, f}
        BY <1>a, <1>d, Appended
    <2>2. \A i \in DOMAIN events : events[i].kind = "posted" => events[i].post \in Nat
        <3>1. \A i \in DOMAIN events : events[i] \in Event
            BY <1>a
        <3> QED BY <3>1 DEF Event, Posts
    <2>3. \A i \in DOMAIN events : events[i].kind = "posted" => events[i].post <= posted'
        BY <1>0, <1>a, <1>b, <1>d, <2>2 DEF NothingInvented, Known
    <2>4. \A i \in DOMAIN events' : Known(events[i])'
        BY <1>d, <2>1, <2>3 DEF Known
    <2> QED BY <1>0, <1>a, <1>b, <1>d, <2>4 DEF NothingInvented
<1>e. UNCHANGED <<posted, events>> /\ lastPost' \in {lastPost, summaries.posts}
      /\ summaries'.posts \in {0, summaries.posts, posted} => NothingInvented'
    BY <1>0, <1>a, <1>b DEF NothingInvented, Known
<1>f. UNCHANGED <<readAll, entry, lastPost>> => Remembered'
    BY <1>0 DEF Remembered
<1>g. UNCHANGED <<readAll, pending>> => CallAhead'
    BY <1>0 DEF CallAhead
<1>h. UNCHANGED <<boundary, readAll, views, pending>> => Repaid'
    BY <1>0 DEF Repaid
<1>i. readAll' = 0 => Remembered' /\ Repaid'
    BY <1>b DEF Remembered, Repaid
<1>j. readAll' = 0 /\ UNCHANGED pending => CallAhead'
    BY <1>0, <1>c DEF CallAhead, Posts
<1>1. CASE SomebodyPosts
    <2>20. NothingInvented'
        <3>1. posted' \in Posts /\ posted' \in 0..MaxPosts
            BY <1>0, <1>1, ReadAssumption DEF SomebodyPosts, TypeOK, ServerTypes, Posts
        <3>2. PostedEvent(posted') \in Event
            BY <3>1 DEF PostedEvent, Event
        <3>3. ViewedEvent \in Event
            BY <3>1, ReadAssumption DEF ViewedEvent, Event
        <3>4. PostedEvent(posted').post = posted' /\ ViewedEvent.kind = "viewed"
            BY EventKinds
        <3>5. \/ Tell(<<PostedEvent(posted')>>)
              \/ Tell(<<PostedEvent(posted'), ViewedEvent>>)
            BY <1>1 DEF SomebodyPosts
        <3>6. posted <= posted' /\ UNCHANGED <<lastPost, summaries>>
            BY <1>a, <1>1 DEF SomebodyPosts, channel, numbers, loading
        <3>7. PICK e \in {PostedEvent(posted')} : TRUE
            OBVIOUS
        <3>8. PICK f \in {ViewedEvent} : TRUE
            OBVIOUS
        <3>9. Known(e)' /\ Known(f)'
            BY <1>b, <3>4, <3>7, <3>8 DEF Known
        <3> QED BY <1>d, <3>2, <3>3, <3>5, <3>6, <3>7, <3>8, <3>9
    <2>21. Remembered'
        BY <1>1, <1>f DEF SomebodyPosts, channel, numbers, history
    <2>22. CallAhead'
        BY <1>1, <1>g DEF SomebodyPosts, calls, history
    <2>23. Repaid'
        <3>1. /\ boundary' = boundary \/ boundary' >= posted
              /\ UNCHANGED <<readAll, views, pending>>
            BY <1>a, <1>1 DEF SomebodyPosts, calls, history
        <3> QED BY <1>0, <1>a, <1>b, <3>1 DEF Repaid, Remembered, NothingInvented
    <2> QED BY <1>0, <2>20, <2>21, <2>22, <2>23 DEF ReadInv
<1>2. CASE ViewTaken
    <2>20. NothingInvented'
        <3>1. PICK e \in {ViewedEvent} : TRUE
            OBVIOUS
        <3>2. e \in Event
            BY <1>0, <3>1, ReadAssumption DEF TypeOK, ServerTypes, ViewedEvent, Event
        <3>3. Known(e)'
            BY <3>1, EventKinds DEF Known
        <3>4. Tell(<<e>>) /\ posted <= posted' /\ UNCHANGED <<lastPost, summaries>>
            BY <1>a, <1>2, <3>1 DEF ViewTaken, channel, numbers, loading
        <3> QED BY <1>d, <3>2, <3>3, <3>4
    <2>21. Remembered'
        BY <1>2, <1>f DEF ViewTaken, channel, numbers, history
    <2>22. CallAhead'
        BY <1>2, <1>g DEF ViewTaken, calls, history
    <2>23. Repaid'
        BY <1>0, <1>a, <1>b, <1>2 DEF ViewTaken, Remembered, NothingInvented, Repaid, channel,
           numbers, history
    <2> QED BY <1>0, <2>20, <2>21, <2>22, <2>23 DEF ReadInv
<1>3. CASE ViewedElsewhere
    <2>20. NothingInvented'
        <3>1. PICK e \in {ViewedEvent} : TRUE
            OBVIOUS
        <3>2. e \in Event
            BY <1>0, <3>1, ReadAssumption DEF TypeOK, ServerTypes, ViewedEvent, Event
        <3>3. Known(e)'
            BY <3>1, EventKinds DEF Known
        <3>4. Tell(<<e>>) /\ posted <= posted' /\ UNCHANGED <<lastPost, summaries>>
            BY <1>a, <1>3, <3>1 DEF ViewedElsewhere, channel, numbers, loading
        <3> QED BY <1>d, <3>2, <3>3, <3>4
    <2>21. Remembered'
        BY <1>3, <1>f DEF ViewedElsewhere, channel, numbers, history
    <2>22. CallAhead'
        BY <1>3, <1>g DEF ViewedElsewhere, calls, history
    <2>23. Repaid'
        BY <1>0, <1>a, <1>b, <1>3 DEF ViewedElsewhere, Remembered, NothingInvented, Repaid,
           channel, numbers, history
    <2> QED BY <1>0, <2>20, <2>21, <2>22, <2>23 DEF ReadInv
<1>4. CASE ViewFails
    <2>20. NothingInvented'
        BY <1>e, <1>4 DEF ViewFails, channel, numbers, loading
    <2>21. Remembered'
        BY <1>i, <1>4 DEF ViewFails
    <2>22. CallAhead'
        BY <1>j, <1>4 DEF ViewFails, calls
    <2>23. Repaid'
        BY <1>i, <1>4 DEF ViewFails
    <2> QED BY <1>0, <2>20, <2>21, <2>22, <2>23 DEF ReadInv
<1>5. CASE CheckpointTaken
    <2>v. pending.post # NoPost /\ pending.post \in Posts
        BY <1>c, <1>5 DEF CheckpointTaken
    <2>20. NothingInvented'
        <3>1. PICK e \in {UnreadEvent(pending.post, Membership(pending.post - 1), "checkpoint")} : TRUE
            OBVIOUS
        <3>2. pending.post - 1 \in 0..MaxPosts /\ posted' \in 0..MaxPosts
            BY <1>0, <2>v, ReadAssumption DEF TypeOK, ServerTypes, Posts
        <3>3. e \in Event
            BY <2>v, <3>1, <3>2, AnswerTypes, EventTypes
        <3>4. Known(e)'
            BY <3>1, EventKinds DEF Known
        <3>5. Tell(<<e>>) /\ posted <= posted' /\ UNCHANGED <<lastPost, summaries>>
            BY <1>a, <1>5, <2>v, <3>1 DEF CheckpointTaken, SetUnreadTaken, channel, numbers,
               loading
        <3> QED BY <1>d, <3>3, <3>4, <3>5
    <2>21. Remembered'
        BY <1>5, <1>f DEF CheckpointTaken, channel, numbers, history
    <2>22. CallAhead'
        <3>1. pending.post - 1 \in 0..MaxPosts
            BY <2>v, ReadAssumption DEF Posts
        <3>2. Membership(pending.post - 1).boundary = pending.post - 1
            BY <3>1, AnswerTypes
        <3>3. /\ pending'.post = pending.post /\ pending'.full = pending.full
              /\ pending'.answer = Membership(pending.post - 1) /\ readAll' = readAll
            BY <1>0, <1>5 DEF CheckpointTaken, TypeOK, CallsTypes
        <3> QED BY <1>0, <3>2, <3>3 DEF CallAhead
    <2>23. Repaid'
        <3>1. /\ boundary' = pending.post - 1 /\ readAll' = readAll
              /\ pending'.post = pending.post /\ pending'.full = pending.full
            BY <1>0, <1>5 DEF CheckpointTaken, SetUnreadTaken, TypeOK, CallsTypes
        <3> QED BY <1>0, <1>a, <1>c, <2>v, <3>1 DEF CallAhead, Repaid, Posts
    <2> QED BY <1>0, <2>20, <2>21, <2>22, <2>23 DEF ReadInv
<1>6. CASE MarkTaken
    <2>w. PICK c \in manual : SetUnreadTaken(c.post, "mark")
        BY <1>6 DEF MarkTaken
    <2>v. c.post \in Posts
        BY <1>0 DEF TypeOK, CallsTypes
    <2>20. NothingInvented'
        <3>1. PICK e \in {UnreadEvent(c.post, Membership(c.post - 1), "mark")} : TRUE
            OBVIOUS
        <3>2. c.post - 1 \in 0..MaxPosts /\ posted' \in 0..MaxPosts
            BY <1>0, <2>v, <2>w, ReadAssumption DEF TypeOK, ServerTypes, Posts
        <3>3. e \in Event
            BY <2>v, <2>w, <3>1, <3>2, AnswerTypes, EventTypes
        <3>4. Known(e)'
            BY <3>1, EventKinds DEF Known
        <3>5. Tell(<<e>>) /\ posted <= posted' /\ UNCHANGED <<lastPost, summaries>>
            BY <1>a, <1>6, <2>v, <2>w, <3>1 DEF MarkTaken, SetUnreadTaken, channel, numbers,
               loading
        <3> QED BY <1>d, <3>3, <3>4, <3>5
    <2>21. Remembered'
        BY <1>i, <1>6 DEF MarkTaken
    <2>22. CallAhead'
        BY <1>j, <1>6 DEF MarkTaken, calls
    <2>23. Repaid'
        BY <1>i, <1>6 DEF MarkTaken
    <2> QED BY <1>0, <2>20, <2>21, <2>22, <2>23 DEF ReadInv
<1>7. CASE MarkedElsewhere
    <2>w. PICK p \in Posts : SetUnreadTaken(p, "elsewhere")
        BY <1>0, <1>7, ReadAssumption DEF MarkedElsewhere, TypeOK, ServerTypes, Posts
    <2>20. NothingInvented'
        <3>1. PICK e \in {UnreadEvent(p, Membership(p - 1), "elsewhere")} : TRUE
            OBVIOUS
        <3>2. p - 1 \in 0..MaxPosts /\ posted' \in 0..MaxPosts
            BY <1>0, <2>w, ReadAssumption DEF TypeOK, ServerTypes, Posts
        <3>3. e \in Event
            BY <2>w, <3>1, <3>2, AnswerTypes, EventTypes
        <3>4. Known(e)'
            BY <3>1, EventKinds DEF Known
        <3>5. Tell(<<e>>) /\ posted <= posted' /\ UNCHANGED <<lastPost, summaries>>
            BY <1>a, <1>7, <2>w, <3>1 DEF MarkedElsewhere, SetUnreadTaken, channel, numbers,
               loading
        <3> QED BY <1>d, <3>3, <3>4, <3>5
    <2>21. Remembered'
        BY <1>i, <1>7 DEF MarkedElsewhere
    <2>22. CallAhead'
        BY <1>j, <1>7 DEF MarkedElsewhere, calls
    <2>23. Repaid'
        BY <1>i, <1>7 DEF MarkedElsewhere
    <2> QED BY <1>0, <2>20, <2>21, <2>22, <2>23 DEF ReadInv
<1>8. CASE MembersRead
    <2>20. NothingInvented'
        BY <1>8, <1>e DEF MembersRead, server, channel, numbers, loading
    <2>21. Remembered'
        BY <1>8, <1>f DEF MembersRead, channel, numbers, history
    <2>22. CallAhead'
        BY <1>8, <1>g DEF MembersRead, calls, history
    <2>23. Repaid'
        BY <1>8, <1>h DEF MembersRead, server, calls, history
    <2> QED BY <1>0, <2>20, <2>21, <2>22, <2>23 DEF ReadInv
<1>9. CASE SummariesRead
    <2>20. NothingInvented'
        BY <1>e, <1>9 DEF SummariesRead, server, channel, numbers
    <2>21. Remembered'
        BY <1>9, <1>f DEF SummariesRead, channel, numbers, history
    <2>22. CallAhead'
        BY <1>9, <1>g DEF SummariesRead, calls, history
    <2>23. Repaid'
        BY <1>9, <1>h DEF SummariesRead, server, calls, history
    <2> QED BY <1>0, <2>20, <2>21, <2>22, <2>23 DEF ReadInv
<1>10. CASE Hear
    <2> DEFINE m == Head(events)
    <2>1. events # << >> /\ (HearPosted(m) \/ HearViewed(m) \/ HearUnread(m))
        BY <1>10 DEF Hear
    <2>2. m = events[1] /\ 1 \in DOMAIN events /\ m \in Event
        BY <1>a, <2>1
    <2>3. UNCHANGED <<posted, boundary, views, total, pending, summaries>>
        BY <1>10 DEF Hear, calls, loading
    <2> HIDE DEF m
    <2>20. NothingInvented'
        <3>1. \A i \in DOMAIN events' : i + 1 \in DOMAIN events /\ events'[i] = events[i + 1]
            BY <1>a, <1>10, <2>1 DEF Hear
        <3>2. \A i \in DOMAIN events' : Known(events[i])'
            BY <1>0, <2>3, <3>1 DEF NothingInvented, Known
        <3>3. HearPosted(m) => m.post <= posted
            BY <1>0, <2>2 DEF HearPosted, NothingInvented, Known
        <3>4. lastPost' <= posted
            BY <1>0, <1>a, <2>1, <3>3 DEF HearPosted, HearViewed, HearUnread, Larger,
               NothingInvented
        <3> QED BY <1>0, <2>3, <3>2, <3>4 DEF NothingInvented
    <2>21. Remembered'
        <3>1. CASE HearPosted(m)
            <4>1. m.post \in Nat
                BY <2>2, <3>1 DEF HearPosted, Event, Posts
            <4>2. entry'.viewed = entry.viewed /\ lastPost' >= lastPost /\ readAll' = readAll
                BY <1>a, <3>1, <4>1, RecordPostTypes DEF HearPosted, Larger, history
            <4> QED BY <1>0, <1>a, <1>b, <4>2 DEF Remembered
        <3>2. CASE HearViewed(m)
            <4>1. (IF m.at = 0 THEN lastPost ELSE m.at) \in 0..MaxPosts
                BY <1>a, <2>2, <3>2 DEF HearViewed, Event
            <4>2. entry'.viewed >= entry.viewed /\ lastPost' = lastPost /\ readAll' = readAll
                BY <1>a, <3>2, <4>1, RecordViewedTypes DEF HearViewed, history
            <4> QED BY <1>0, <1>a, <1>b, <4>2 DEF Remembered
        <3>3. CASE HearUnread(m)
            <4>1. m.answer \in Answers
                BY <2>2, <3>3 DEF HearUnread, Event
            <4>2. entry'.viewed = m.answer.boundary /\ lastPost' = lastPost
                BY <3>3, <4>1, EntryUnread DEF HearUnread
            <4>3. readAll' = 0 \/ (readAll' = readAll /\ readAll <= m.answer.boundary)
                BY <3>3 DEF HearUnread
            <4> QED BY <1>0, <1>i, <4>2, <4>3 DEF Remembered
        <3> QED BY <2>1, <3>1, <3>2, <3>3
    <2>22. CallAhead'
        <3>1. readAll' = readAll \/ readAll' = 0
            BY <2>1 DEF HearPosted, HearViewed, HearUnread, history
        <3> QED BY <1>g, <1>j, <2>3, <3>1
    <2>23. Repaid'
        <3>1. readAll' = readAll \/ readAll' = 0
            BY <2>1 DEF HearPosted, HearViewed, HearUnread, history
        <3> QED BY <1>h, <1>i, <2>3, <3>1
    <2> QED BY <1>0, <2>20, <2>21, <2>22, <2>23 DEF ReadInv
<1>11. CASE Untag
    <2>20. NothingInvented'
        BY <1>11, <1>e DEF Untag, server, channel, numbers, loading
    <2>21. Remembered'
        BY <1>11, <1>f DEF Untag, channel, numbers, history
    <2>22. CallAhead'
        BY <1>11, <1>g DEF Untag, calls, history
    <2>23. Repaid'
        BY <1>11, <1>h DEF Untag, server, calls, history
    <2> QED BY <1>0, <2>20, <2>21, <2>22, <2>23 DEF ReadInv
<1>12. CASE Scroll
    <2>20. NothingInvented'
        BY <1>12, <1>e DEF Scroll, server, channel, numbers, loading
    <2>21. Remembered'
        BY <1>12, <1>f DEF Scroll, channel, numbers, history
    <2>22. CallAhead'
        BY <1>12, <1>g DEF Scroll, calls, history
    <2>23. Repaid'
        BY <1>12, <1>h DEF Scroll, server, calls, history
    <2> QED BY <1>0, <2>20, <2>21, <2>22, <2>23 DEF ReadInv
<1>13. CASE PassBlocked
    <2>20. NothingInvented'
        BY <1>13, <1>e DEF PassBlocked, server, channel, numbers, loading
    <2>21. Remembered'
        BY <1>13, <1>f DEF PassBlocked, channel, numbers, history
    <2>22. CallAhead'
        BY <1>13, <1>g DEF PassBlocked, calls, history
    <2>23. Repaid'
        BY <1>13, <1>h DEF PassBlocked, server, calls, history
    <2> QED BY <1>0, <2>20, <2>21, <2>22, <2>23 DEF ReadInv
<1>14. CASE PassReads
    <2>1. \/ Acknowledge
          \/ UNCHANGED <<views, entry, pending, readAll>>
        BY <1>14 DEF PassReads
    <2>2. UNCHANGED <<posted, boundary, events, lastPost, total, summaries, rows>>
        BY <1>14 DEF PassReads, numbers, loading
    <2>3. ASSUME Acknowledge
          PROVE  /\ entry'.viewed >= entry.viewed /\ entry'.viewed >= lastPost
                 /\ readAll' = readAll \/ readAll' <= lastPost
                 /\ views' = views + 1
                 /\ pending'.post = pending.post /\ pending'.answer = pending.answer
                 /\ pending.post # NoPost => pending'.full
        <3>1. entry'.viewed >= entry.viewed /\ entry'.viewed >= lastPost
            BY <1>a, <2>3, RecordViewedTypes DEF Acknowledge, MarkViewedLocally
        <3>2. readAll' = readAll \/ readAll' <= lastPost
            BY <1>a, <2>3 DEF Acknowledge, Smaller
        <3>3. /\ pending'.post = pending.post /\ pending'.answer = pending.answer
              /\ pending.post # NoPost => pending'.full
            BY <1>0, <2>3 DEF Acknowledge, MarkViewedLocally, TypeOK, CallsTypes
        <3> QED BY <2>3, <3>1, <3>2, <3>3 DEF Acknowledge
    <2>20. NothingInvented'
        BY <1>e, <2>2
    <2>21. Remembered'
        BY <1>0, <1>a, <1>b, <1>f, <2>1, <2>2, <2>3 DEF Remembered
    <2>22. CallAhead'
        BY <1>0, <1>g, <2>1, <2>3 DEF CallAhead
    <2>23. Repaid'
        BY <1>0, <1>a, <1>h, <2>1, <2>2, <2>3 DEF Repaid
    <2> QED BY <1>0, <2>20, <2>21, <2>22, <2>23 DEF ReadInv
<1>15. CASE FlushNothing
    <2>20. NothingInvented'
        BY <1>15, <1>e DEF FlushNothing, server, channel, numbers, loading
    <2>21. Remembered'
        BY <1>15, <1>f DEF FlushNothing, channel, numbers, history
    <2>22. CallAhead'
        BY <1>15, <1>g DEF FlushNothing, calls, history
    <2>23. Repaid'
        BY <1>15, <1>h DEF FlushNothing, server, calls, history
    <2> QED BY <1>0, <2>20, <2>21, <2>22, <2>23 DEF ReadInv
<1>16. CASE FlushRefused
    <2>20. NothingInvented'
        BY <1>16, <1>e DEF FlushRefused, server, channel, numbers, loading
    <2>21. Remembered'
        BY <1>16, <1>f DEF FlushRefused, channel, numbers, history
    <2>22. CallAhead'
        BY <1>16, <1>g DEF FlushRefused, calls, history
    <2>23. Repaid'
        BY <1>16, <1>h DEF FlushRefused, server, calls, history
    <2> QED BY <1>0, <2>20, <2>21, <2>22, <2>23 DEF ReadInv
<1>17. CASE Flush
    <2>1. /\ pending' = Call(view.observed + 1) /\ pending.post = NoPost
          /\ entry.viewed < view.observed /\ view.observed \in Nat
          /\ UNCHANGED <<server, channel, loading, history>>
        BY <1>a, <1>17 DEF Flush, ToReport, View
    <2>2. pending'.post = view.observed + 1 /\ pending'.answer = NoAnswer
        BY <2>1 DEF Call
    <2>20. NothingInvented'
        BY <1>e, <2>1 DEF server, channel, numbers, loading
    <2>21. Remembered'
        BY <1>f, <2>1 DEF channel, numbers, history
    <2>22. CallAhead'
        BY <1>0, <1>a, <2>1, <2>2 DEF CallAhead, Remembered, history
    <2>23. Repaid'
        BY <1>0, <2>1 DEF Repaid, server, history
    <2> QED BY <1>0, <2>20, <2>21, <2>22, <2>23 DEF ReadInv
<1>18. CASE OtherViewFlushes
    <2>1. PICK p \in 1..rows :
              /\ pending' = Call(p + 1) /\ pending.post = NoPost /\ entry.viewed < p
              /\ UNCHANGED <<server, channel, loading, history>>
        BY <1>18 DEF OtherViewFlushes
    <2>2. pending'.post = p + 1 /\ pending'.answer = NoAnswer /\ p \in Nat
        BY <1>a, <2>1 DEF Call
    <2>20. NothingInvented'
        BY <1>e, <2>1 DEF server, channel, numbers, loading
    <2>21. Remembered'
        BY <1>f, <2>1 DEF channel, numbers, history
    <2>22. CallAhead'
        BY <1>0, <1>a, <2>1, <2>2 DEF CallAhead, Remembered, history
    <2>23. Repaid'
        BY <1>0, <2>1 DEF Repaid, server, history
    <2> QED BY <1>0, <2>20, <2>21, <2>22, <2>23 DEF ReadInv
<1>r. ASSUME NEW ok \in BOOLEAN, CheckpointReplied(ok)
      PROVE  ReadInv'
    <2> DEFINE moved == IF ok THEN SetUnread(entry, pending.answer) ELSE entry
               back  == ok /\ Rewinds(entry, pending.post, pending.answer)
               again == IF pending.full THEN RecordViewed(moved, lastPost, total) ELSE moved
               told  == IF back THEN Rewind(view, pending.post) ELSE view
               ack   == ok /\ told.heard = "current" /\ AtEnd(told) /\ IsUnread(again)
    <2>1. /\ entry' = IF ack THEN RecordViewed(again, lastPost, total) ELSE again
          /\ views' = views + (IF pending.full THEN 1 ELSE 0) + (IF ack THEN 1 ELSE 0)
          /\ readAll' = IF back THEN 0
                        ELSE IF ack /\ manual = {} THEN Smaller(rows, lastPost) ELSE readAll
        BY <1>r DEF CheckpointReplied
    <2>2. /\ pending.post # NoPost /\ pending.post \in Posts /\ pending' = NoCall
          /\ UNCHANGED <<posted, boundary, events, lastPost, total, summaries>>
        BY <1>c, <1>r DEF CheckpointReplied, numbers, loading
    <2>3. ok => pending.answer \in Answers /\ pending.answer.boundary = pending.post - 1
        BY <1>0, <1>r, <2>2 DEF CheckpointReplied, TypeOK, CallsTypes, CallAhead
    <2>4. moved \in Entry /\ (~pending.full => readAll <= moved.viewed)
        <3>1. CASE ok
            <4>1. moved \in Entry /\ moved.viewed = pending.post - 1
                BY <2>3, <3>1, EntryUnread
            <4> QED BY <1>0, <1>a, <2>2, <4>1 DEF CallAhead, Posts
        <3>2. CASE ~ok
            BY <1>0, <1>a, <3>2 DEF Remembered
        <3> QED BY <3>1, <3>2
    <2> HIDE DEF moved
    <2>5. /\ again \in Entry /\ again.viewed \in Nat
          /\ pending.full => again.viewed >= lastPost
          /\ ~pending.full => readAll <= again.viewed
        <3>1. /\ RecordViewed(moved, lastPost, total) \in Entry
              /\ RecordViewed(moved, lastPost, total).viewed >= lastPost
            BY <1>a, <2>4, RecordViewedTypes
        <3>2. again \in Entry
            BY <2>4, <3>1
        <3>3. again.viewed \in Nat
            BY <3>2 DEF Entry
        <3>4. CASE pending.full
            BY <3>1, <3>2, <3>3, <3>4
        <3>5. CASE ~pending.full
            BY <2>4, <3>2, <3>3, <3>5
        <3> QED BY <3>4, <3>5
    <2> HIDE DEF again
    <2>6. /\ again.viewed <= entry'.viewed
          /\ ack => lastPost <= entry'.viewed
        <3>1. /\ RecordViewed(again, lastPost, total).viewed >= lastPost
              /\ RecordViewed(again, lastPost, total).viewed >= again.viewed
            BY <1>a, <2>5, RecordViewedTypes
        <3>2. lastPost \in Nat /\ again.viewed \in Nat
            BY <1>a, <2>5
        <3>3. CASE ack
            <4>1. entry' = RecordViewed(again, lastPost, total)
                BY <2>1, <3>3
            <4> HIDE DEF ack
            <4> QED BY <1>b, <3>1, <3>2, <4>1
        <3>4. CASE ~ack
            <4>1. entry' = again
                BY <2>1, <3>4
            <4> HIDE DEF ack
            <4> QED BY <3>2, <3>4, <4>1
        <3> QED BY <3>3, <3>4
    <2>7. Smaller(rows, lastPost) <= lastPost
        BY <1>a DEF Smaller
    <2> HIDE DEF ack, back, told
    <2>20. NothingInvented'
        BY <1>e, <2>2
    <2>21. Remembered'
        <3>1. CASE readAll' = 0
            BY <1>i, <3>1
        <3>2. CASE ack /\ readAll' = Smaller(rows, lastPost)
            BY <1>a, <1>b, <2>2, <2>6, <2>7, <3>2 DEF Remembered
        <3>3. CASE readAll' = readAll
            BY <1>0, <1>a, <1>b, <2>2, <2>5, <2>6, <3>3 DEF Remembered
        <3> QED BY <2>1, <3>1, <3>2, <3>3
    <2>22. CallAhead'
        BY <2>2 DEF CallAhead, NoCall
    <2>23. Repaid'
        BY <1>0, <1>a, <1>b, <2>1, <2>2 DEF Repaid
    <2> QED BY <1>0, <2>20, <2>21, <2>22, <2>23 DEF ReadInv
<1>19. CASE CheckpointReplied(TRUE)
    BY <1>r, <1>19
<1>20. CASE CheckpointReplied(FALSE)
    BY <1>r, <1>20
<1>21. CASE MarkPostUnread
    <2>20. NothingInvented'
        BY <1>21, <1>e DEF MarkPostUnread, server, channel, numbers, loading
    <2>21. Remembered'
        BY <1>21, <1>f DEF MarkPostUnread, channel, numbers, history
    <2>22. CallAhead'
        BY <1>21, <1>g DEF MarkPostUnread, calls, history
    <2>23. Repaid'
        BY <1>21, <1>h DEF MarkPostUnread, server, calls, history
    <2> QED BY <1>0, <2>20, <2>21, <2>22, <2>23 DEF ReadInv
<1>22. CASE MarkReplied
    <2>20. NothingInvented'
        BY <1>e, <1>22 DEF MarkReplied, server, numbers, loading
    <2>21. Remembered'
        BY <1>i, <1>22 DEF MarkReplied
    <2>22. CallAhead'
        BY <1>j, <1>22 DEF MarkReplied, calls
    <2>23. Repaid'
        BY <1>i, <1>22 DEF MarkReplied
    <2> QED BY <1>0, <2>20, <2>21, <2>22, <2>23 DEF ReadInv
<1>23. CASE MarkFails
    <2>20. NothingInvented'
        BY <1>23, <1>e DEF MarkFails, server, channel, numbers, loading
    <2>21. Remembered'
        BY <1>23, <1>f DEF MarkFails, channel, numbers, history
    <2>22. CallAhead'
        BY <1>23, <1>g DEF MarkFails, calls, history
    <2>23. Repaid'
        BY <1>23, <1>h DEF MarkFails, server, calls, history
    <2> QED BY <1>0, <2>20, <2>21, <2>22, <2>23 DEF ReadInv
<1>24. CASE Refreshed
    <2>20. NothingInvented'
        BY <1>24, <1>e DEF Refreshed, Refresh, server, channel, numbers, loading
    <2>21. Remembered'
        BY <1>24, <1>f DEF Refreshed, Refresh, channel, numbers, history
    <2>22. CallAhead'
        BY <1>24, <1>g DEF Refreshed, Refresh, calls, history
    <2>23. Repaid'
        BY <1>24, <1>h DEF Refreshed, Refresh, server, calls, history
    <2> QED BY <1>0, <2>20, <2>21, <2>22, <2>23 DEF ReadInv
<1>25. CASE EventsLost
    <2>20. NothingInvented'
        BY <1>0, <1>25 DEF EventsLost, Refresh, NothingInvented, channel, numbers
    <2>21. Remembered'
        BY <1>25, <1>f DEF EventsLost, Refresh, channel, numbers, history
    <2>22. CallAhead'
        BY <1>25, <1>g DEF EventsLost, Refresh, calls, history
    <2>23. Repaid'
        BY <1>25, <1>h DEF EventsLost, Refresh, server, calls, history
    <2> QED BY <1>0, <2>20, <2>21, <2>22, <2>23 DEF ReadInv
<1>26. CASE HistoryMerged
    <2>20. NothingInvented'
        BY <1>26, <1>e DEF HistoryMerged, server, channel, numbers, loading
    <2>21. Remembered'
        BY <1>26, <1>f DEF HistoryMerged, channel, numbers, history
    <2>22. CallAhead'
        BY <1>26, <1>g DEF HistoryMerged, calls, history
    <2>23. Repaid'
        BY <1>26, <1>h DEF HistoryMerged, server, calls, history
    <2> QED BY <1>0, <2>20, <2>21, <2>22, <2>23 DEF ReadInv
<1>27. CASE MembersReplied
    <2>20. NothingInvented'
        BY <1>e, <1>27 DEF MembersReplied, server, numbers
    <2>21. Remembered'
        <3>1. members.answer \in Answers
            BY <1>0, <1>27 DEF MembersReplied, TypeOK, LoadingTypes
        <3>2. /\ SetMembership(entry, members.answer) \in Entry
              /\ SetMembership(entry, members.answer).viewed >= entry.viewed
            BY <1>a, <3>1, SetMembershipTypes
        <3>3. entry'.viewed >= entry.viewed
            BY <1>a, <1>27, <3>2, SynchronizeTypes DEF MembersReplied
        <3> QED BY <1>0, <1>a, <1>b, <1>27, <3>3 DEF Remembered, MembersReplied, numbers, history
    <2>22. CallAhead'
        BY <1>27, <1>g DEF MembersReplied, calls, history
    <2>23. Repaid'
        BY <1>27, <1>h DEF MembersReplied, server, calls, history
    <2> QED BY <1>0, <2>20, <2>21, <2>22, <2>23 DEF ReadInv
<1>28. CASE MembersFail
    <2>20. NothingInvented'
        BY <1>28, <1>e DEF MembersFail, server, channel, numbers, loading
    <2>21. Remembered'
        BY <1>28, <1>f DEF MembersFail, channel, numbers, history
    <2>22. CallAhead'
        BY <1>28, <1>g DEF MembersFail, calls, history
    <2>23. Repaid'
        BY <1>28, <1>h DEF MembersFail, server, calls, history
    <2> QED BY <1>0, <2>20, <2>21, <2>22, <2>23 DEF ReadInv
<1>29. CASE RetryTimer
    <2>20. NothingInvented'
        BY <1>29, <1>e DEF RetryTimer, server, channel, numbers, loading
    <2>21. Remembered'
        BY <1>29, <1>f DEF RetryTimer, channel, numbers, history
    <2>22. CallAhead'
        BY <1>29, <1>g DEF RetryTimer, calls, history
    <2>23. Repaid'
        BY <1>29, <1>h DEF RetryTimer, server, calls, history
    <2> QED BY <1>0, <2>20, <2>21, <2>22, <2>23 DEF ReadInv
<1>30. CASE SummariesReplied
    <2>20. NothingInvented'
        BY <1>e, <1>30 DEF SummariesReplied, server, numbers
    <2>21. Remembered'
        <3>1. total' \in 0..MaxPosts
            BY <1>0 DEF TypeOK, ChannelTypes
        <3>2. entry'.viewed = entry.viewed
            BY <1>a, <1>30, <3>1, SynchronizeTypes DEF SummariesReplied
        <3>3. lastPost' >= lastPost /\ readAll' = readAll
            BY <1>a, <1>30 DEF SummariesReplied, numbers, history
        <3> QED BY <1>0, <1>a, <1>b, <3>2, <3>3 DEF Remembered
    <2>22. CallAhead'
        BY <1>30, <1>g DEF SummariesReplied, calls, history
    <2>23. Repaid'
        BY <1>30, <1>h DEF SummariesReplied, server, calls, history
    <2> QED BY <1>0, <2>20, <2>21, <2>22, <2>23 DEF ReadInv
<1>31. CASE SummariesFail
    <2>20. NothingInvented'
        BY <1>e, <1>31 DEF SummariesFail, server, numbers
    <2>21. Remembered'
        BY <1>0, <1>a, <1>31, SynchronizeTypes DEF SummariesFail, Remembered, numbers, history
    <2>22. CallAhead'
        BY <1>31, <1>g DEF SummariesFail, calls, history
    <2>23. Repaid'
        BY <1>31, <1>h DEF SummariesFail, server, calls, history
    <2> QED BY <1>0, <2>20, <2>21, <2>22, <2>23 DEF ReadInv
<1>32. CASE UNCHANGED vars
    <2>1. NothingInvented' /\ Remembered'
        BY <1>32, <1>e, <1>f DEF vars, server, channel, numbers, loading, history
    <2>2. CallAhead' /\ Repaid'
        BY <1>32, <1>g, <1>h DEF vars, server, calls, history
    <2> QED BY <1>0, <2>1, <2>2 DEF ReadInv
<1> QED BY <1>1, <1>2, <1>3, <1>4, <1>5, <1>6, <1>7, <1>8, <1>9, <1>10, <1>11, <1>12, <1>13,
       <1>14, <1>15, <1>16, <1>17, <1>18, <1>19, <1>20, <1>21, <1>22, <1>23, <1>24, <1>25,
       <1>26, <1>27, <1>28, <1>29, <1>30, <1>31, <1>32 DEF Next, ServerStep, ClientStep

\* A late reply of a checkpoint never undoes a newer full read: once every call is
\* answered, what was read to the end is read on the server.
THEOREM FullReadsStand == Spec => []FullReadStands
<1>1. Init => ReadInv
    BY ReadInit
<1>2. ReadInv /\ [Next]_vars => ReadInv'
    BY ReadStep
<1>3. ReadInv => FullReadStands
    <2> SUFFICES ASSUME ReadInv, pending = NoCall, views = 0 PROVE readAll <= boundary
        BY DEF FullReadStands
    <2>1. pending.post = NoPost
        BY DEF NoCall
    <2>2. readAll \in Nat /\ boundary \in Nat
        BY DEF ReadInv, TypeOK, HistoryTypes, ServerTypes
    <2> QED BY <2>1, <2>2 DEF ReadInv, Repaid
<1> QED BY <1>1, <1>2, <1>3, PTL DEF Spec

-----------------------------------------------------------------------------
(* Which steps change what.                                                *)

Replied == CheckpointReplied(TRUE) \/ CheckpointReplied(FALSE)

\* What fails, or is lost.
Troubled ==
    \/ ViewFails \/ CheckpointReplied(FALSE) \/ MarkFails
    \/ EventsLost \/ MembersFail \/ SummariesFail

Touches ==
    /\ \/ UNCHANGED <<posted, boundary>>
       \/ SomebodyPosts \/ ViewTaken \/ ViewedElsewhere
       \/ CheckpointTaken \/ MarkTaken \/ MarkedElsewhere
    /\ \/ UNCHANGED events
       \/ SomebodyPosts \/ ViewTaken \/ ViewedElsewhere
       \/ CheckpointTaken \/ MarkTaken \/ MarkedElsewhere \/ Hear \/ EventsLost
    /\ \/ UNCHANGED views
       \/ ViewTaken \/ ViewFails \/ PassReads \/ Replied
    /\ \/ UNCHANGED <<entry, lastPost, total>>
       \/ Hear \/ PassReads \/ Replied \/ MarkReplied
       \/ MembersReplied \/ SummariesReplied \/ SummariesFail
    /\ \/ UNCHANGED pending
       \/ CheckpointTaken \/ PassReads \/ Flush \/ OtherViewFlushes \/ Replied
    /\ \/ UNCHANGED manual
       \/ MarkTaken \/ MarkPostUnread \/ MarkReplied \/ MarkFails
    /\ \/ UNCHANGED <<members, loaded>>
       \/ MembersRead \/ Refreshed \/ EventsLost
       \/ MembersReplied \/ MembersFail \/ RetryTimer
    /\ \/ UNCHANGED summaries
       \/ SummariesRead \/ MembersReplied \/ SummariesReplied \/ SummariesFail
    /\ \/ readAll' \in {readAll, 0}
       \/ PassReads \/ Replied
    /\ \/ UNCHANGED outran
       \/ CheckpointTaken \/ MarkTaken \/ MarkedElsewhere \/ Hear \/ MarkReplied \/ Replied
    /\ UNCHANGED rows \/ Hear \/ HistoryMerged
    /\ UNCHANGED troubles \/ Troubled

\* Every step says what it leaves alone.
LEMMA Footprints == [Next]_vars => Touches
<1> SUFFICES ASSUME [Next]_vars PROVE Touches
    OBVIOUS
<1> USE DEF server, numbers, channel, calls, loading, widget, client, history, bounds
<1>1. CASE SomebodyPosts
    BY <1>1 DEF Touches, SomebodyPosts
<1>2. CASE ViewTaken
    BY <1>2 DEF Touches, ViewTaken
<1>3. CASE ViewedElsewhere
    BY <1>3 DEF Touches, ViewedElsewhere
<1>4. CASE ViewFails
    BY <1>4 DEF Touches, ViewFails, Troubled
<1>5. CASE CheckpointTaken
    BY <1>5 DEF Touches, CheckpointTaken, SetUnreadTaken
<1>6. CASE MarkTaken
    BY <1>6 DEF Touches, MarkTaken, SetUnreadTaken
<1>7. CASE MarkedElsewhere
    BY <1>7 DEF Touches, MarkedElsewhere, SetUnreadTaken
<1>8. CASE MembersRead
    BY <1>8 DEF Touches, MembersRead
<1>9. CASE SummariesRead
    BY <1>9 DEF Touches, SummariesRead
<1>10. CASE Hear
    BY <1>10 DEF Touches, Hear, HearPosted, HearViewed, HearUnread
<1>11. CASE Untag
    BY <1>11 DEF Touches, Untag
<1>12. CASE Scroll
    BY <1>12 DEF Touches, Scroll
<1>13. CASE PassBlocked
    BY <1>13 DEF Touches, PassBlocked
<1>14. CASE PassReads
    BY <1>14 DEF Touches, PassReads
<1>15. CASE FlushNothing
    BY <1>15 DEF Touches, FlushNothing
<1>16. CASE FlushRefused
    BY <1>16 DEF Touches, FlushRefused
<1>17. CASE Flush
    BY <1>17 DEF Touches, Flush
<1>18. CASE OtherViewFlushes
    BY <1>18 DEF Touches, OtherViewFlushes
<1>19. CASE CheckpointReplied(TRUE)
    BY <1>19 DEF Touches, CheckpointReplied, Troubled, Replied
<1>20. CASE CheckpointReplied(FALSE)
    BY <1>20 DEF Touches, CheckpointReplied, Troubled, Replied
<1>21. CASE MarkPostUnread
    BY <1>21 DEF Touches, MarkPostUnread
<1>22. CASE MarkReplied
    BY <1>22 DEF Touches, MarkReplied
<1>23. CASE MarkFails
    BY <1>23 DEF Touches, MarkFails, Troubled
<1>24. CASE Refreshed
    BY <1>24 DEF Touches, Refreshed, Refresh
<1>25. CASE EventsLost
    BY <1>25 DEF Touches, EventsLost, Troubled, Refresh
<1>26. CASE HistoryMerged
    BY <1>26 DEF Touches, HistoryMerged
<1>27. CASE MembersReplied
    BY <1>27 DEF Touches, MembersReplied
<1>28. CASE MembersFail
    BY <1>28 DEF Touches, MembersFail, Troubled
<1>29. CASE RetryTimer
    BY <1>29 DEF Touches, RetryTimer
<1>30. CASE SummariesReplied
    BY <1>30 DEF Touches, SummariesReplied
<1>31. CASE SummariesFail
    BY <1>31 DEF Touches, SummariesFail, Troubled
<1>32. CASE UNCHANGED vars
    BY <1>32 DEF Touches, vars
<1> QED
    BY <1>1, <1>2, <1>3, <1>4, <1>5, <1>6, <1>7, <1>8, <1>9, <1>10, <1>11, <1>12,
       <1>13, <1>14, <1>15, <1>16, <1>17, <1>18, <1>19, <1>20, <1>21, <1>22, <1>23,
       <1>24, <1>25, <1>26, <1>27, <1>28, <1>29, <1>30, <1>31, <1>32
    DEF Next, ServerStep, ClientStep

-----------------------------------------------------------------------------
(* Read mentions stay read.  An answer tells of a mention only if there is *)
(* one after its boundary, and whatever makes the client take an answer    *)
(* makes sure that its boundary is not before the last full read, or is a  *)
(* mark as unread.                                                         *)

\* A post after n mentions the user.
MentionAfter(n) == \E p \in Mentions : n < p /\ p <= posted

\* An answer tells of a mention that is there.
Warranted(a) == a.mentioned => MentionAfter(a.boundary)

AnswersWarranted ==
    /\ Warranted(pending.answer) /\ Warranted(members.answer)
    /\ \A c \in manual : Warranted(c.answer)

\* So does an event of it, and it tells of something unread.
Truthful(e) == e.kind = "unread" => Warranted(e.answer) /\ e.answer.boundary < posted
EventsTruthful == \A i \in DOMAIN events : Truthful(events[i])

\* What is seen, reported or marked is a post the channel has.
Within ==
    /\ boundary <= posted /\ rows <= posted /\ pending.post <= posted
    /\ \A c \in manual :
           c.post <= posted /\ (c.answer # NoAnswer => c.answer.boundary < posted)

\* The server's word, in answers and events, is true.
WordInv == ReadInv /\ AnswersWarranted /\ EventsTruthful /\ Within

\* Both flags of the entry, of which a merge copies the one to the other.
FlagsWarranted == entry.mentions \/ entry.serverMentioned => MentionAfter(readAll)

MentionInv == WordInv /\ FlagsWarranted

\* No post goes: a mention that was there is there.
LEMMA MentionsRemain ==
    ASSUME TypeOK, TypeOK', Touches
    PROVE  /\ posted <= posted'
           /\ \A m, n \in Nat : n <= m /\ MentionAfter(m) => MentionAfter(n)'
           /\ \A a \in Answers \cup {NoAnswer} : Warranted(a) => Warranted(a)'
<1> USE ReadAssumption
<1>1. posted \in Nat /\ posted' \in Nat
    BY DEF TypeOK, ServerTypes
<1>2. posted <= posted'
    BY <1>1 DEF Touches, SomebodyPosts, ViewTaken, ViewedElsewhere, CheckpointTaken, MarkTaken,
                MarkedElsewhere
<1>3. ASSUME NEW m \in Nat, NEW n \in Nat, n <= m, MentionAfter(m)
      PROVE  MentionAfter(n)'
    <2>1. PICK p \in Mentions : m < p /\ p <= posted
        BY <1>3 DEF MentionAfter
    <2>2. p \in Nat
        BY DEF Posts
    <2>3. n < p /\ p <= posted'
        BY <1>1, <1>2, <1>3, <2>1, <2>2
    <2> QED BY <2>3 DEF MentionAfter
<1>4. ASSUME NEW a \in Answers \cup {NoAnswer}, Warranted(a)
      PROVE  Warranted(a)'
    <2>1. a.boundary \in Nat
        BY DEF Answers, NoAnswer
    <2> QED BY <1>3, <1>4, <2>1 DEF Warranted
<1> QED BY <1>2, <1>3, <1>4

\* What the server answers is so (Membership), and no answer tells nothing.
LEMMA TrueAnswers ==
    ASSUME NEW at \in 0..MaxPosts
    PROVE  Warranted(Membership(at)) /\ Warranted(NoAnswer)
BY DEF Warranted, Membership, MentionAfter, NoAnswer

\* Events under way stay truthful, and so are those the server tells.
LEMMA TruthRemains ==
    ASSUME TypeOK, TypeOK', Touches, EventsTruthful,
           NEW e \in Event, NEW f \in Event, Truthful(e), Truthful(f),
           \/ UNCHANGED events \/ events' = << >>
           \/ events # << >> /\ events' = Tail(events)
           \/ Tell(<<e>>) \/ Tell(<<e, f>>)
    PROVE  EventsTruthful'
<1>1. events \in Seq(Event) /\ events' \in Seq(Event)
    BY DEF TypeOK, ServerTypes
<1>2. ASSUME NEW g \in Event, Truthful(g)
      PROVE  Truthful(g)'
    <2>1. g.kind = "unread" => g.answer \in Answers
        BY DEF Event
    <2>2. g.kind = "unread" => g.answer.boundary \in Nat
        BY <2>1, ReadAssumption DEF Answers
    <2>3. posted \in Nat /\ posted' \in Nat /\ posted <= posted'
        BY ReadAssumption, MentionsRemain DEF TypeOK, ServerTypes
    <2> HIDE DEF Event
    <2> QED BY <1>2, <2>1, <2>2, <2>3, MentionsRemain DEF Truthful
<1> HIDE DEF Event
<1>3. ASSUME NEW i \in DOMAIN events'
      PROVE  \/ events'[i] \in {e, f}
             \/ \E j \in DOMAIN events : events'[i] = events[j]
    <2>1. CASE UNCHANGED events
        BY <1>3, <2>1
    <2>2. CASE events' = << >>
        BY <1>3, <2>2
    <2>3. CASE events # << >> /\ events' = Tail(events)
        <3>1. i + 1 \in DOMAIN events /\ events'[i] = events[i + 1]
            BY <1>1, <1>3, <2>3
        <3> QED BY <3>1
    <2>4. CASE Tell(<<e>>) \/ Tell(<<e, f>>)
        BY <1>1, <1>3, <2>4, Appended
    <2> QED BY <2>1, <2>2, <2>3, <2>4
<1>4. ASSUME NEW i \in DOMAIN events'
      PROVE  Truthful(events[i])'
    <2>1. PICK g \in Event : g = events'[i]
        BY <1>1, <1>4
    <2>2. Truthful(g)
        BY <1>3, <1>4, <2>1 DEF EventsTruthful
    <2>3. Truthful(g)'
        BY <1>2, <2>2
    <2> QED BY <2>1, <2>3 DEF Truthful, Warranted, MentionAfter
<1> QED BY <1>4 DEF EventsTruthful

\* Answers and events stay truthful, whoever acts.
LEMMA TruthStep ==
    ASSUME ReadInv, TypeOK', Touches, AnswersWarranted, EventsTruthful, Within
    PROVE  AnswersWarranted' /\ EventsTruthful' /\ Within'
<1> USE ReadAssumption
<1>t. TypeOK /\ NothingInvented
    BY DEF ReadInv
<1>0. /\ posted' \in 0..MaxPosts /\ boundary \in 0..MaxPosts /\ boundary' \in 0..MaxPosts
      /\ events \in Seq(Event) /\ posted \in Nat /\ posted' \in Nat /\ posted <= posted'
      /\ pending.post # NoPost => pending.post \in Posts /\ pending.post <= posted
      /\ \A c \in manual : c.post \in Posts /\ c.post <= posted
    BY <1>t, MentionsRemain DEF TypeOK, ServerTypes, CallsTypes, NoPost, Posts, Within
<1>1. ASSUME NEW a \in Answers \cup {NoAnswer}, Warranted(a)
      PROVE  Warranted(a)'
    BY <1>1, <1>t, MentionsRemain
<1>2. ASSUME NEW p \in Posts, p <= posted
      PROVE  /\ Membership(p - 1) \in Answers /\ Warranted(Membership(p - 1))
             /\ Membership(p - 1).boundary < posted
             /\ \A origin \in {"checkpoint", "mark", "elsewhere"} :
                    /\ UnreadEvent(p, Membership(p - 1), origin) \in Event
                    /\ Truthful(UnreadEvent(p, Membership(p - 1), origin))
    <2>1. p - 1 \in 0..MaxPosts
        BY DEF Posts
    <2>2. /\ Membership(p - 1) \in Answers /\ Warranted(Membership(p - 1))
          /\ Membership(p - 1).boundary < posted
        BY <1>0, <1>2, <2>1, AnswerTypes, TrueAnswers DEF Posts
    <2>3. ASSUME NEW origin \in {"checkpoint", "mark", "elsewhere"}
          PROVE  /\ UnreadEvent(p, Membership(p - 1), origin) \in Event
                 /\ Truthful(UnreadEvent(p, Membership(p - 1), origin))
        BY <1>0, <1>2, <2>2, EventTypes, EventKinds DEF Truthful
    <2> QED BY <2>2, <2>3
<1>3. Warranted(pending.answer)'
    <2>1. pending.answer \in Answers \cup {NoAnswer} /\ Warranted(pending.answer)
        BY <1>t DEF TypeOK, CallsTypes, AnswersWarranted
    <2>2. \/ pending'.answer \in {pending.answer, NoAnswer}
          \/ CheckpointTaken
        <3>1. CASE UNCHANGED pending
            BY <3>1
        <3>2. CASE PassReads
            <4>1. pending' \in {pending, [pending EXCEPT !.full = TRUE]}
                BY <3>2 DEF PassReads, Acknowledge, MarkViewedLocally
            <4>2. [pending EXCEPT !.full = TRUE].answer = pending.answer
                BY <1>t DEF TypeOK, CallsTypes
            <4> QED BY <4>1, <4>2
        <3>3. CASE Flush \/ OtherViewFlushes
            <4>1. \E p : pending' = Call(p)
                BY <3>3 DEF Flush, OtherViewFlushes
            <4> QED BY <4>1 DEF Call
        <3>4. CASE Replied
            <4>1. pending' = NoCall
                BY <3>4 DEF Replied, CheckpointReplied
            <4> QED BY <4>1 DEF NoCall
        <3> QED BY <3>1, <3>2, <3>3, <3>4 DEF Touches
    <2>3. CASE pending'.answer \in {pending.answer, NoAnswer}
        <3>1. PICK a \in Answers \cup {NoAnswer} : a = pending'.answer /\ Warranted(a)
            BY <1>0, <2>1, <2>3, TrueAnswers
        <3>2. Warranted(a)'
            BY <1>1, <3>1
        <3> QED BY <3>1, <3>2 DEF Warranted, MentionAfter
    <2>4. CASE CheckpointTaken
        <3>1. /\ pending.post \in Posts /\ pending.post <= posted
              /\ pending'.answer = Membership(pending.post - 1)
            BY <1>0, <2>4 DEF CheckpointTaken, TypeOK, CallsTypes
        <3>2. PICK a \in Answers \cup {NoAnswer} : a = pending'.answer /\ Warranted(a)
            BY <1>2, <3>1
        <3>3. Warranted(a)'
            BY <1>1, <3>2
        <3> QED BY <3>2, <3>3 DEF Warranted, MentionAfter
    <2> QED BY <2>2, <2>3, <2>4
<1>4. Warranted(members.answer)'
    <2>1. members.answer \in Answers \cup {NoAnswer} /\ Warranted(members.answer)
        BY <1>t DEF TypeOK, LoadingTypes, AnswersWarranted
    <2>2. Membership(boundary) \in Answers /\ Warranted(Membership(boundary))
        BY <1>0, AnswerTypes, TrueAnswers
    <2>3. members'.answer \in {members.answer, NoAnswer, Membership(boundary)}
        BY DEF Touches, MembersRead, Refreshed, EventsLost, Refresh, Retrieve, MembersReplied,
               MembersFail, RetryTimer, Idle, TypeOK, LoadingTypes
    <2>4. PICK a \in Answers \cup {NoAnswer} : a = members'.answer /\ Warranted(a)
        BY <1>0, <2>1, <2>2, <2>3, TrueAnswers
    <2>5. Warranted(a)'
        BY <1>1, <2>4
    <2> QED BY <2>4, <2>5 DEF Warranted, MentionAfter
<1>5. (\A c \in manual : Warranted(c.answer))'
    <2>1. ASSUME NEW d \in manual'
          PROVE  \/ d \in manual \/ d.answer = NoAnswer
                 \/ \E p \in Posts : p <= posted /\ d.answer = Membership(p - 1)
        <3>1. CASE MarkTaken
            <4>1. PICK c \in manual :
                      manual' = (manual \ {c})
                                \cup {[c EXCEPT !.answer = Membership(c.post - 1)]}
                BY <3>1 DEF MarkTaken
            <4>2. [c EXCEPT !.answer = Membership(c.post - 1)].answer
                  = Membership(c.post - 1)
                BY <1>t DEF TypeOK, CallsTypes
            <4> QED BY <1>0, <2>1, <4>1, <4>2
        <3>2. CASE MarkPostUnread
            BY <2>1, <3>2 DEF MarkPostUnread, Mark
        <3>3. CASE ~MarkTaken /\ ~MarkPostUnread
            BY <2>1, <3>3 DEF Touches, MarkReplied, MarkFails
        <3> QED BY <3>1, <3>2, <3>3
    <2>2. ASSUME NEW d \in manual'
          PROVE  d.answer \in Answers \cup {NoAnswer} /\ Warranted(d.answer)
        <3>1. d \in manual => d.answer \in Answers \cup {NoAnswer} /\ Warranted(d.answer)
            BY <1>t DEF TypeOK, CallsTypes, AnswersWarranted
        <3> QED BY <1>0, <1>2, <2>1, <2>2, <3>1, TrueAnswers
    <2> QED BY <1>1, <2>2
<1>6. EventsTruthful'
    <2>1. PICK v \in {ViewedEvent} : TRUE
        OBVIOUS
    <2>2. v \in Event /\ Truthful(v)
        BY <1>0, <2>1, EventKinds DEF ViewedEvent, Event, Truthful
    <2>3. CASE SomebodyPosts
        <3>1. PICK e \in {PostedEvent(posted')} : TRUE
            OBVIOUS
        <3>2. posted' \in Posts
            BY <1>0, <2>3 DEF SomebodyPosts, TypeOK, ServerTypes, Posts
        <3>3. e \in Event /\ Truthful(e)
            BY <3>1, <3>2, EventKinds DEF PostedEvent, Event, Truthful
        <3>4. Tell(<<e>>) \/ Tell(<<e, v>>)
            BY <2>1, <2>3, <3>1 DEF SomebodyPosts
        <3> QED BY <2>2, <3>3, <3>4, TruthRemains, <1>t
    <2>4. CASE ViewTaken \/ ViewedElsewhere
        <3>1. Tell(<<v>>)
            BY <2>1, <2>4 DEF ViewTaken, ViewedElsewhere
        <3> QED BY <2>2, <3>1, TruthRemains, <1>t
    <2>5. ASSUME NEW p \in Posts, p <= posted,
                 NEW origin \in {"checkpoint", "mark", "elsewhere"}, SetUnreadTaken(p, origin)
          PROVE  EventsTruthful'
        <3>1. PICK e \in {UnreadEvent(p, Membership(p - 1), origin)} : TRUE
            OBVIOUS
        <3>2. e \in Event /\ Truthful(e)
            BY <1>2, <2>5, <3>1
        <3>3. Tell(<<e>>)
            BY <2>5, <3>1 DEF SetUnreadTaken
        <3> QED BY <2>2, <3>2, <3>3, TruthRemains, <1>t
    <2>6. CASE CheckpointTaken \/ MarkTaken \/ MarkedElsewhere
        <3>1. \A p \in 1..posted : p \in Posts /\ p <= posted
            BY <1>t DEF TypeOK, ServerTypes, Posts
        <3>2. \E p \in Posts, origin \in {"checkpoint", "mark", "elsewhere"} :
                  p <= posted /\ SetUnreadTaken(p, origin)
            BY <1>0, <2>6, <3>1 DEF CheckpointTaken, MarkTaken, MarkedElsewhere
        <3> QED BY <2>5, <3>2
    <2>7. CASE \/ UNCHANGED events \/ Hear \/ EventsLost
        <3>1. \/ UNCHANGED events \/ events' = << >>
              \/ events # << >> /\ events' = Tail(events)
            BY <2>7 DEF Hear, EventsLost
        <3> QED BY <2>2, <3>1, TruthRemains, <1>t
    <2> QED BY <2>3, <2>4, <2>6, <2>7 DEF Touches
<1>7. (boundary <= posted)'
    <2>1. boundary' \in {boundary, posted, posted'} \/ boundary' < posted
        <3>1. ASSUME NEW p \in Posts, p <= posted, boundary' = p - 1
              PROVE  boundary' < posted
            BY <1>0, <3>1 DEF Posts
        <3>2. CASE CheckpointTaken \/ MarkTaken
            BY <1>0, <3>1, <3>2 DEF CheckpointTaken, MarkTaken, SetUnreadTaken
        <3>3. CASE MarkedElsewhere
            <4>1. \A p \in 1..posted : p \in Posts /\ p <= posted
                BY <1>t DEF TypeOK, ServerTypes, Posts
            <4> QED BY <3>1, <3>3, <4>1 DEF MarkedElsewhere, SetUnreadTaken
        <3> QED BY <3>2, <3>3 DEF Touches, SomebodyPosts, ViewTaken, ViewedElsewhere
    <2> QED BY <1>0, <2>1 DEF Within
<1>8. (rows <= posted)'
    <2>1. CASE Hear
        <3>1. rows' = rows \/ HearPosted(Head(events))
            BY <2>1 DEF Hear, HearViewed, HearUnread, widget
        <3>2. PICK m \in Event : m = Head(events)
            BY <1>0, <2>1 DEF Hear
        <3>3. m.kind = "posted" => m.post <= posted
            BY <1>0, <1>t, <2>1, <3>2 DEF Hear, NothingInvented, Known
        <3>4. rows' \in {rows, m.post} /\ (rows' # rows => m.kind = "posted")
            BY <3>1, <3>2 DEF HearPosted, Larger
        <3> QED BY <1>0, <2>1, <3>3, <3>4 DEF Within, Hear
    <2>2. CASE HistoryMerged
        BY <1>0, <2>2 DEF HistoryMerged, server
    <2>3. CASE UNCHANGED rows
        BY <1>0, <1>t, <2>3 DEF Within, TypeOK, WidgetTypes
    <2> QED BY <2>1, <2>2, <2>3 DEF Touches
<1>9. (pending.post <= posted)'
    <2>1. \/ pending'.post \in {pending.post, NoPost}
          \/ \E p \in Nat : p < rows /\ pending'.post = p + 1
        <3>1. CASE UNCHANGED pending
            BY <3>1
        <3>2. CASE PassReads \/ CheckpointTaken
            <4>1. pending' \in {pending, [pending EXCEPT !.full = TRUE],
                                [pending EXCEPT !.answer = Membership(pending.post - 1)]}
                BY <3>2 DEF PassReads, Acknowledge, MarkViewedLocally, CheckpointTaken
            <4>2. \A b : /\ [pending EXCEPT !.full = b].post = pending.post
                         /\ [pending EXCEPT !.answer = b].post = pending.post
                BY <1>t DEF TypeOK, CallsTypes
            <4> QED BY <4>1, <4>2
        <3>3. CASE Flush
            <4>1. view.observed \in Nat
                BY <1>t DEF TypeOK, WidgetTypes, View
            <4>2. view.observed < rows /\ pending' = Call(view.observed + 1)
                BY <3>3 DEF Flush, ToReport
            <4> QED BY <4>1, <4>2 DEF Call
        <3>4. CASE OtherViewFlushes
            <4>1. PICK p \in 1..rows : p < rows /\ pending' = Call(p + 1)
                BY <3>4 DEF OtherViewFlushes
            <4> QED BY <1>t, <4>1 DEF Call, TypeOK, WidgetTypes
        <3>5. CASE Replied
            <4>1. pending' = NoCall
                BY <3>5 DEF Replied, CheckpointReplied
            <4> QED BY <4>1 DEF NoCall
        <3> QED BY <3>1, <3>2, <3>3, <3>4, <3>5 DEF Touches
    <2>2. pending.post \in Nat /\ rows \in Nat
        BY <1>t DEF TypeOK, CallsTypes, WidgetTypes
    <2> QED BY <1>0, <2>1, <2>2 DEF Within, NoPost
<1>10. (\A c \in manual :
            c.post <= posted /\ (c.answer # NoAnswer => c.answer.boundary < posted))'
    <2>1. ASSUME NEW d \in manual'
          PROVE  d.post <= posted /\ (d.answer # NoAnswer => d.answer.boundary < posted)
        <3>1. d \in manual => d.post <= posted
                               /\ (d.answer # NoAnswer => d.answer.boundary < posted)
            BY DEF Within
        <3>2. CASE MarkTaken
            <4>1. PICK c \in manual :
                      manual' = (manual \ {c})
                                \cup {[c EXCEPT !.answer = Membership(c.post - 1)]}
                BY <3>2 DEF MarkTaken
            <4>2. PICK u \in {[c EXCEPT !.answer = Membership(c.post - 1)]} : TRUE
                OBVIOUS
            <4>3. u.post = c.post /\ u.answer = Membership(c.post - 1)
                BY <1>t, <4>2 DEF TypeOK, CallsTypes
            <4>4. c.post \in Posts /\ c.post <= posted
                BY <1>0
            <4>5. u.post <= posted /\ u.answer.boundary < posted
                BY <1>2, <4>3, <4>4
            <4> QED BY <2>1, <3>1, <4>1, <4>2, <4>5
        <3>3. CASE MarkPostUnread
            <4>1. PICK p \in 1..rows : manual' = manual \cup {Mark(p)}
                BY <3>3 DEF MarkPostUnread
            <4>2. p <= posted
                BY <1>0, <1>t, <4>1 DEF Within, TypeOK, WidgetTypes
            <4> QED BY <2>1, <3>1, <4>1, <4>2 DEF Mark
        <3>4. CASE ~MarkTaken /\ ~MarkPostUnread
            BY <2>1, <3>1, <3>4 DEF Touches, MarkReplied, MarkFails
        <3> QED BY <3>2, <3>3, <3>4
    <2>2. ASSUME NEW d \in manual'
          PROVE  d.post <= posted' /\ (d.answer # NoAnswer => d.answer.boundary < posted')
        <3>1. d.post \in Nat /\ (d.answer # NoAnswer => d.answer.boundary \in Nat)
            BY <2>2 DEF TypeOK, CallsTypes, Posts, Answers
        <3> QED BY <1>0, <2>1, <2>2, <3>1
    <2> QED BY <2>2
<1> QED BY <1>3, <1>4, <1>5, <1>6, <1>7, <1>8, <1>9, <1>10 DEF AnswersWarranted, Within

\* The entry of a full view tells of no mention.
Cleared(e) == ~e.mentions /\ ~e.serverMentioned

\* A full view clears the flags.
LEMMA ViewedCleared ==
    ASSUME NEW e, NEW at, NEW count
    PROVE  Cleared(RecordViewed(e, at, count))
BY DEF Cleared, RecordViewed

\* A set_unread makes the flags those of its answer.
LEMMA UnreadFlags ==
    ASSUME NEW e, NEW a \in Answers, NEW n \in Nat, n <= a.boundary,
           TypeOK, TypeOK', Touches, Warranted(a)
    PROVE  SetUnread(e, a).mentions \/ SetUnread(e, a).serverMentioned => MentionAfter(n)'
<1>1. SetUnread(e, a).mentions = a.mentioned /\ SetUnread(e, a).serverMentioned = a.mentioned
    BY DEF SetUnread
<1>2. a.mentioned => MentionAfter(n)'
    BY ReadAssumption, MentionsRemain DEF Warranted, Answers
<1> QED BY <1>1, <1>2

\* The entry's flags stay warranted, whoever acts.
LEMMA FlagsStep ==
    ASSUME WordInv, TypeOK', Touches, FlagsWarranted
    PROVE  FlagsWarranted'
<1> USE ReadAssumption
<1>0. TypeOK /\ Remembered /\ CallAhead /\ AnswersWarranted /\ EventsTruthful
    BY DEF ReadInv, WordInv
<1>a. /\ readAll \in Nat /\ readAll' \in Nat /\ entry \in Entry /\ entry.viewed \in Nat
      /\ readAll <= entry.viewed
    BY <1>0 DEF TypeOK, HistoryTypes, ChannelTypes, Entry, Remembered
<1>b. ASSUME NEW n \in Nat, n <= readAll, MentionAfter(readAll)
      PROVE  MentionAfter(n)'
    BY <1>0, <1>a, <1>b, MentionsRemain
<1>c. ASSUME readAll' \in {readAll, 0}, entry'.mentions \/ entry'.serverMentioned
                                         => entry.mentions \/ entry.serverMentioned
      PROVE  FlagsWarranted'
    <2>1. PICK n \in Nat : n = readAll'
        BY <1>a
    <2>2. entry.mentions \/ entry.serverMentioned => MentionAfter(n)'
        BY <1>a, <1>b, <1>c, <2>1 DEF FlagsWarranted
    <2> QED BY <1>c, <2>1, <2>2 DEF FlagsWarranted, MentionAfter
<1>d. ASSUME Cleared(entry')
      PROVE  FlagsWarranted'
    BY <1>d DEF Cleared, FlagsWarranted
<1>e. ASSUME NEW a \in Answers, Warranted(a), entry' = SetUnread(entry, a),
             readAll' <= a.boundary
      PROVE  FlagsWarranted'
    <2>1. PICK n \in Nat : n = readAll'
        BY <1>a
    <2>2. entry'.mentions \/ entry'.serverMentioned => MentionAfter(n)'
        BY <1>0, <1>e, <2>1, UnreadFlags
    <2> QED BY <2>1, <2>2 DEF FlagsWarranted, MentionAfter
<1>1. CASE Hear
    <2>1. /\ events # << >> /\ Head(events) \in Event /\ Truthful(Head(events))
        BY <1>0, <1>1 DEF Hear, TypeOK, ServerTypes, EventsTruthful
    <2>2. PICK m \in Event : m = Head(events)
        BY <2>1
    <2>3. CASE HearPosted(m)
        <3>1. entry' = RecordPost(entry, m.post) /\ readAll' = readAll
            BY <2>3 DEF HearPosted, history
        <3>2. entry'.mentions = entry.mentions /\ entry'.serverMentioned = entry.serverMentioned
            BY <1>a, <3>1 DEF RecordPost, Entry
        <3> QED BY <1>c, <3>1, <3>2
    <2>4. CASE HearViewed(m)
        BY <1>d, <2>4, ViewedCleared DEF HearViewed
    <2>5. CASE HearUnread(m)
        <3>1. m.kind = "unread" /\ entry' = SetUnread(entry, m.answer)
            BY <2>5 DEF HearUnread
        <3>2. m.answer \in Answers
            BY <3>1 DEF Event
        <3>3. Warranted(m.answer)
            BY <2>1, <2>2, <3>1 DEF Truthful
        <3>4. m.answer.boundary \in Nat
            BY <3>2 DEF Answers
        <3>5. readAll' <= m.answer.boundary
            BY <2>5, <3>4, <1>a DEF HearUnread
        <3> QED BY <1>e, <3>1, <3>2, <3>3, <3>5
    <2> QED BY <1>1, <2>2, <2>3, <2>4, <2>5 DEF Hear
<1>2. CASE PassReads
    <2>1. CASE entry' = RecordViewed(entry, lastPost, total)
        BY <1>d, <2>1, ViewedCleared
    <2>2. CASE UNCHANGED <<entry, readAll>>
        BY <1>c, <2>2
    <2> QED BY <1>2, <2>1, <2>2 DEF PassReads, Acknowledge, MarkViewedLocally
<1>3. CASE CheckpointReplied(TRUE)
    <2> DEFINE moved == SetUnread(entry, pending.answer)
               back  == Rewinds(entry, pending.post, pending.answer)
               again == IF pending.full THEN RecordViewed(moved, lastPost, total) ELSE moved
               told  == IF back THEN Rewind(view, pending.post) ELSE view
               ack   == told.heard = "current" /\ AtEnd(told) /\ IsUnread(again)
    <2>1. /\ pending.post # NoPost /\ pending.answer # NoAnswer
          /\ entry' = IF ack THEN RecordViewed(again, lastPost, total) ELSE again
          /\ readAll' = IF back THEN 0
                        ELSE IF ack /\ manual = {} THEN Smaller(rows, lastPost) ELSE readAll
        BY <1>3 DEF CheckpointReplied
    <2>2. pending.answer \in Answers /\ pending.answer.boundary = pending.post - 1
        BY <1>0, <2>1 DEF TypeOK, CallsTypes, CallAhead
    <2>3. pending.post \in Nat /\ pending.answer.boundary \in Nat
        BY <1>0, <2>2 DEF TypeOK, CallsTypes, Answers
    <2> HIDE DEF moved, back, told
    <2>4. CASE ack
        <3>1. entry' = RecordViewed(again, lastPost, total)
            BY <2>1, <2>4
        <3> HIDE DEF again, ack
        <3> QED BY <1>d, <3>1, ViewedCleared
    <2> HIDE DEF ack
    <2>5. CASE ~ack /\ pending.full
        BY <1>d, <2>1, <2>5, ViewedCleared
    <2>6. CASE ~ack /\ ~pending.full
        <3>1. entry' = SetUnread(entry, pending.answer) /\ readAll' \in {readAll, 0}
            BY <2>1, <2>6 DEF moved
        <3>2. readAll <= pending.answer.boundary
            BY <1>0, <1>a, <2>1, <2>2, <2>3, <2>6 DEF CallAhead
        <3>3. readAll' <= pending.answer.boundary
            BY <1>a, <2>3, <3>1, <3>2
        <3>4. PICK a \in Answers : a = pending.answer
            BY <2>2
        <3>5. Warranted(a)
            BY <1>0, <3>4 DEF AnswersWarranted
        <3> QED BY <1>e, <3>1, <3>3, <3>4, <3>5
    <2> QED BY <2>4, <2>5, <2>6
<1>4. CASE CheckpointReplied(FALSE)
    <2>1. /\ entry' = IF pending.full THEN RecordViewed(entry, lastPost, total) ELSE entry
          /\ readAll' = readAll
        BY <1>4 DEF CheckpointReplied
    <2>2. CASE pending.full
        BY <1>d, <2>1, <2>2, ViewedCleared
    <2>3. CASE ~pending.full
        BY <1>c, <2>1, <2>3
    <2> QED BY <2>2, <2>3
<1>5. CASE MarkReplied
    <2>1. PICK c \in manual : c.answer # NoAnswer /\ entry' = SetUnread(entry, c.answer)
                              /\ readAll' = 0
        BY <1>5 DEF MarkReplied
    <2>2. c.answer \in Answers /\ c.answer.boundary \in Nat /\ Warranted(c.answer)
        BY <1>0, <2>1 DEF TypeOK, CallsTypes, AnswersWarranted, Answers
    <2> QED BY <1>e, <2>1, <2>2
<1>6. CASE MembersReplied
    <2>1. PICK a \in Answers : a = members.answer
        BY <1>0, <1>6 DEF MembersReplied, TypeOK, LoadingTypes
    <2>2. Warranted(a) /\ a.boundary \in Nat
        BY <1>0, <2>1 DEF AnswersWarranted, Answers
    <2>3. entry' = Synchronize(SetMembership(entry, a), total) /\ readAll' = readAll
        BY <1>6, <2>1 DEF MembersReplied, history
    <2>4. /\ entry'.serverMentioned = SetMembership(entry, a).mentions
          /\ entry'.mentions = SetMembership(entry, a).mentions
        <3>1. SetMembership(entry, a) \in Entry
            BY <1>a, SetMembershipTypes
        <3> QED BY <2>3, <3>1 DEF Synchronize, Entry
    <2>5. SetMembership(entry, a).mentions
          = IF a.boundary < entry.viewed \/ a.boundary < entry.read
            THEN entry.mentions ELSE a.mentioned
        BY <1>a DEF SetMembership, Entry
    <2>6. CASE a.boundary < entry.viewed \/ a.boundary < entry.read
        BY <1>c, <2>3, <2>4, <2>5, <2>6
    <2>7. CASE ~(a.boundary < entry.viewed \/ a.boundary < entry.read)
        <3>1. readAll <= a.boundary
            BY <1>a, <2>2, <2>7
        <3>2. PICK n \in Nat : n = readAll
            BY <1>a
        <3>3. a.mentioned => MentionAfter(n)'
            BY <1>0, <2>2, <3>1, <3>2, MentionsRemain DEF Warranted
        <3> QED BY <2>3, <2>4, <2>5, <2>7, <3>2, <3>3 DEF FlagsWarranted, MentionAfter
    <2> QED BY <2>6, <2>7
<1>7. CASE SummariesReplied \/ SummariesFail
    <2>1. entry' = Synchronize(entry, total') \/ entry' = Synchronize(entry, total)
        BY <1>7 DEF SummariesReplied, SummariesFail
    <2>2. entry'.mentions = entry.mentions /\ entry'.serverMentioned = entry.mentions
        BY <1>a, <2>1 DEF Synchronize, Entry
    <2>3. readAll' = readAll
        BY <1>7 DEF SummariesReplied, SummariesFail, history
    <2> QED BY <1>c, <2>2, <2>3
<1>8. CASE UNCHANGED entry /\ ~PassReads /\ ~Replied
    <2>1. readAll' \in {readAll, 0}
        BY <1>8 DEF Touches
    <2> QED BY <1>8, <1>c, <2>1
<1> QED BY <1>1, <1>2, <1>3, <1>4, <1>5, <1>6, <1>7, <1>8 DEF Touches, Replied

\* What the server has said is so, at the start and after every step.
LEMMA WordInit == Init => WordInv
<1> SUFFICES ASSUME Init PROVE WordInv
    OBVIOUS
<1>1. ReadInv
    BY ReadInit
<1>2. boundary \in 0..MaxPosts
    BY <1>1 DEF ReadInv, TypeOK, ServerTypes
<1>3. Warranted(NoAnswer)
    BY <1>2, TrueAnswers
<1>4. AnswersWarranted /\ EventsTruthful
    BY <1>3 DEF Init, AnswersWarranted, EventsTruthful, NoCall
<1>5. Within
    BY <1>2, ReadAssumption DEF Init, Within, NoCall, NoPost
<1> QED BY <1>1, <1>4, <1>5 DEF WordInv

\* Every step keeps what the server said.
LEMMA WordStep == WordInv /\ [Next]_vars => WordInv'
<1> SUFFICES ASSUME WordInv, [Next]_vars PROVE WordInv'
    OBVIOUS
<1>1. Touches
    BY Footprints
<1>2. ReadInv /\ ReadInv' /\ TypeOK'
    BY ReadStep DEF WordInv, ReadInv
<1>3. AnswersWarranted' /\ EventsTruthful' /\ Within'
    BY <1>1, <1>2, TruthStep DEF WordInv
<1> QED BY <1>2, <1>3 DEF WordInv

\* No snapshot and no checkpoint brings a read mention back: the server's flag of a
\* mention stands only for a post after the last full read, or after a mark as unread.
THEOREM MentionsStay == Spec => []MentionsStayRead
<1>1. Init => MentionInv
    <2> SUFFICES ASSUME Init PROVE MentionInv
        OBVIOUS
    <2>1. WordInv /\ boundary \in 0..MaxPosts
        BY WordInit DEF WordInv, ReadInv, TypeOK, ServerTypes
    <2>2. /\ entry.mentions = Membership(boundary).mentioned
          /\ entry.serverMentioned = Membership(boundary).mentioned
        BY DEF Init, Synchronize
    <2>3. Membership(boundary).mentioned => MentionAfter(boundary)
        BY DEF Membership, MentionAfter
    <2>4. MentionAfter(boundary) => MentionAfter(0)
        BY <2>1, ReadAssumption DEF MentionAfter, Posts
    <2>5. FlagsWarranted
        BY <2>2, <2>3, <2>4 DEF FlagsWarranted, Init
    <2> QED BY <2>1, <2>5 DEF MentionInv
<1>2. MentionInv /\ [Next]_vars => MentionInv'
    <2> SUFFICES ASSUME MentionInv, [Next]_vars PROVE MentionInv'
        OBVIOUS
    <2>1. Touches
        BY Footprints
    <2>2. WordInv /\ WordInv' /\ TypeOK'
        BY WordStep DEF MentionInv, WordInv, ReadInv
    <2>3. FlagsWarranted'
        BY <2>1, <2>2, FlagsStep DEF MentionInv
    <2> QED BY <2>2, <2>3 DEF MentionInv
<1>3. MentionInv => MentionsStayRead
    BY DEF MentionInv, FlagsWarranted, MentionAfter, MentionsStayRead
<1> QED BY <1>1, <1>2, <1>3, PTL DEF Spec

-----------------------------------------------------------------------------
(* Nothing unread hides.  While nothing failed and no set_unread ran under *)
(* a snapshot, what the server counts as unread is news under way that no  *)
(* view follows, or a post heard live, or an entry that stays unread under *)
(* the merges to come.                                                     *)

\* An event that makes the channel unread, and one of an own post.
Unread(e)  == e.kind = "unread" \/ (e.kind = "posted" /\ e.post \notin Own)
OwnPost(e) == e.kind = "posted" /\ e.post \in Own

NewsIn(es)  == \E i \in DOMAIN es : /\ Unread(es[i])
                                    /\ \A j \in DOMAIN es : i < j => es[j].kind # "viewed"
ViewsIn(es) == \E i \in DOMAIN es : es[i].kind = "viewed"
\* The server tells of the view of an own post right after it.
Paired(es)  == \A i \in DOMAIN es :
                   OwnPost(es[i]) => i + 1 \in DOMAIN es /\ es[i + 1].kind = "viewed"

\* The entry is unread, or the merge under way will make it so.
Stays ==
    /\ entry.credit = 0 /\ entry.read < posted
    /\ \/ summaries.stage = "idle" /\ entry.serverUnread
       \/ summaries.stage = "asked"
       \/ summaries.stage = "read" /\ entry.read < summaries.posts /\ lastPost <= summaries.posts

\* Nothing failed, and no mark ran into a snapshot.
Calm == troubles = 0 /\ ~outran

\* What the server counts as unread is shown, or an event or a merge will show it;
\* a view under way to the program comes before news or covers everything; and a
\* snapshot is no newer than what the server has, its summaries read last.
Owed       == boundary < posted /\ views = 0 => NewsIn(events) \/ entry.runtime \/ Stays
ViewedLast == ViewsIn(events) => NewsIn(events) \/ boundary = posted
Snapshot   == /\ members.stage = "read" => members.answer.boundary <= boundary
              /\ summaries.stage # "idle" => members.stage = "idle" /\ loaded

HideInv == WordInv /\ (Calm => Owed /\ ViewedLast /\ Paired(events) /\ Snapshot)

\* What an event told last does to the sequence.
LEMMA NewsTold ==
    ASSUME NEW es \in Seq(Event), NEW e \in Event, NEW f \in Event
    PROVE  /\ Unread(e) => NewsIn(es \o <<e>>)
           /\ Paired(es) /\ ~OwnPost(e) => Paired(es \o <<e>>)
           /\ Paired(es) /\ f.kind = "viewed" => Paired(es \o <<e, f>>)
<1> HIDE DEF Event
<1>1. Unread(e) => NewsIn(es \o <<e>>)
    BY DEF NewsIn
<1>2. Paired(es) /\ ~OwnPost(e) => Paired(es \o <<e>>)
    BY DEF Paired
<1>3. Paired(es) /\ f.kind = "viewed" => Paired(es \o <<e, f>>)
    BY DEF Paired, OwnPost
<1> QED BY <1>1, <1>2, <1>3

\* What hearing the oldest event leaves of the others.
LEMMA NewsHeard ==
    ASSUME NEW es \in Seq(Event), es # << >>
    PROVE  /\ NewsIn(es) => \/ NewsIn(Tail(es))
                            \/ Unread(Head(es)) /\ ~ViewsIn(Tail(es))
           /\ ViewsIn(Tail(es)) => ViewsIn(es)
           /\ Head(es).kind = "viewed" => ViewsIn(es)
           /\ Paired(es) => Paired(Tail(es))
           /\ Paired(es) /\ OwnPost(Head(es)) => ViewsIn(es)
<1> HIDE DEF Event
<1>1. /\ Tail(es) \in Seq(Event)
      /\ \A i \in DOMAIN Tail(es) : i + 1 \in DOMAIN es /\ Tail(es)[i] = es[i + 1]
      /\ \A i \in DOMAIN es : i # 1 => i - 1 \in DOMAIN Tail(es) /\ es[i] = Tail(es)[i - 1]
      /\ 1 \in DOMAIN es /\ Head(es) = es[1]
      /\ DOMAIN es \subseteq Nat /\ DOMAIN Tail(es) \subseteq Nat
      /\ \A i \in DOMAIN es : i >= 1
    OBVIOUS
<1> DEFINE t == Tail(es)
<1> HIDE DEF t
<1>2. NewsIn(es) => NewsIn(t) \/ (Unread(Head(es)) /\ ~ViewsIn(t))
    <2> SUFFICES ASSUME NewsIn(es), ~NewsIn(t)
                 PROVE  Unread(Head(es)) /\ ~ViewsIn(t)
        OBVIOUS
    <2>1. PICK i \in DOMAIN es :
              Unread(es[i]) /\ \A j \in DOMAIN es : i < j => es[j].kind # "viewed"
        BY DEF NewsIn
    <2>2. CASE i = 1
        BY <1>1, <2>1, <2>2 DEF ViewsIn, t
    <2>3. CASE i # 1
        <3>1. i - 1 \in DOMAIN t /\ Unread(t[i - 1])
            BY <1>1, <2>1, <2>3 DEF t
        <3>2. \A j \in DOMAIN t : i - 1 < j => t[j].kind # "viewed"
            BY <1>1, <2>1 DEF t
        <3> QED BY <3>1, <3>2 DEF NewsIn
    <2> QED BY <2>2, <2>3
<1>3. ViewsIn(t) => ViewsIn(es)
    BY <1>1 DEF ViewsIn, t
<1>4. Head(es).kind = "viewed" => ViewsIn(es)
    BY <1>1 DEF ViewsIn
<1>5. Paired(es) => Paired(t)
    <2> SUFFICES ASSUME Paired(es), NEW i \in DOMAIN t, OwnPost(t[i])
                 PROVE  i + 1 \in DOMAIN t /\ t[i + 1].kind = "viewed"
        BY DEF Paired
    <2>1. i + 1 \in DOMAIN es /\ OwnPost(es[i + 1]) /\ i \in Nat
        BY <1>1 DEF t
    <2>2. (i + 1) + 1 \in DOMAIN es /\ es[(i + 1) + 1].kind = "viewed"
        BY <2>1 DEF Paired
    <2>3. ((i + 1) + 1) - 1 = i + 1 /\ (i + 1) + 1 # 1
        BY <2>1
    <2> QED BY <1>1, <2>2, <2>3 DEF t
<1>6. Paired(es) /\ OwnPost(Head(es)) => ViewsIn(es)
    BY <1>1 DEF Paired, ViewsIn
<1> QED BY <1>2, <1>3, <1>4, <1>5, <1>6 DEF t

\* What fails is counted, and what outran a snapshot stays noted.
LEMMA CalmBefore ==
    ASSUME TypeOK, Touches, Calm'
    PROVE  Calm /\ ~Troubled
<1>1. troubles \in Nat
    BY ReadAssumption DEF TypeOK, BoundsTypes
<1>2. troubles' = 0
    BY DEF Calm
<1>3. ~Troubled
    <2> SUFFICES ASSUME Troubled PROVE FALSE
        OBVIOUS
    <2>1. troubles' = troubles + 1
        BY DEF Troubled, ViewFails, CheckpointReplied, MarkFails, EventsLost, MembersFail,
               SummariesFail
    <2> QED BY <1>1, <1>2, <2>1
<1>4. troubles = 0
    BY <1>2, <1>3 DEF Touches
<1>5. outran => outran'
    BY <1>3 DEF Touches, CheckpointTaken, MarkTaken, MarkedElsewhere, SetUnreadTaken, Hear,
           HearPosted, HearViewed, HearUnread, MarkReplied, Replied, CheckpointReplied,
           Outrun, Troubled, history
<1> QED BY <1>3, <1>4, <1>5 DEF Calm

\* An entry made unread stays so, unless that outran a snapshot.
LEMMA UnreadStays ==
    ASSUME TypeOK, NEW a \in Answers, entry' = SetUnread(entry, a), a.boundary < posted',
           UNCHANGED summaries, Outrun, ~outran'
    PROVE  Stays'
<1>1. entry'.credit = 0 /\ entry'.read = a.boundary /\ entry'.serverUnread
    BY DEF SetUnread
<1>2. summaries.stage \in {"idle", "asked"}
    BY DEF Outrun, TypeOK, LoadingTypes
<1> QED BY <1>1, <1>2 DEF Stays

\* What the server does to the events, in a step that it takes.
LEMMA ServerTells ==
    ASSUME WordInv, WordInv', Touches, ~UNCHANGED <<posted, boundary, events>>, ~Hear, ~EventsLost
    PROVE  /\ NewsIn(events') \/ boundary' = posted'
           /\ Paired(events) => Paired(events')
<1> USE ReadAssumption
<1>0. TypeOK /\ TypeOK' /\ events \in Seq(Event)
    BY DEF WordInv, ReadInv, TypeOK, ServerTypes
<1>1. posted' \in 0..MaxPosts /\ 1..posted \subseteq Posts
    BY <1>0 DEF TypeOK, ServerTypes, Posts
<1>2. PICK v \in {ViewedEvent} : TRUE
    OBVIOUS
<1>3. v \in Event /\ v.kind = "viewed" /\ ~OwnPost(v)
    BY <1>1, <1>2, EventKinds DEF ViewedEvent, Event, OwnPost
<1>4. ASSUME NEW p \in Posts, NEW origin \in {"checkpoint", "mark", "elsewhere"},
             SetUnreadTaken(p, origin)
      PROVE  NewsIn(events') /\ (Paired(events) => Paired(events'))
    <2>1. PICK e \in {UnreadEvent(p, Membership(p - 1), origin)} : TRUE
        OBVIOUS
    <2>2. p - 1 \in 0..MaxPosts
        BY DEF Posts
    <2>3. e \in Event /\ Unread(e) /\ ~OwnPost(e)
        BY <1>1, <2>1, <2>2, AnswerTypes, EventTypes, EventKinds DEF Unread, OwnPost
    <2>4. events' = events \o <<e>>
        BY <1>4, <2>1 DEF SetUnreadTaken, Tell
    <2> QED BY <1>0, <2>3, <2>4, NewsTold
<1>5. CASE SomebodyPosts
    <2>1. PICK e \in {PostedEvent(posted')} : TRUE
        OBVIOUS
    <2>2. posted' \in Posts
        BY <1>0, <1>5 DEF SomebodyPosts, TypeOK, ServerTypes, Posts
    <2>3. e \in Event /\ e.kind = "posted" /\ e.post = posted'
        BY <2>1, <2>2, EventKinds DEF PostedEvent, Event
    <2>4. CASE posted' \in Own
        <3>1. events' = events \o <<e, v>> /\ boundary' = posted'
            BY <1>2, <1>5, <2>1, <2>4 DEF SomebodyPosts, Tell
        <3> QED BY <1>0, <1>3, <2>3, <3>1, NewsTold
    <2>5. CASE posted' \notin Own
        <3>1. events' = events \o <<e>>
            BY <1>5, <2>1, <2>5 DEF SomebodyPosts, Tell
        <3>2. Unread(e) /\ ~OwnPost(e)
            BY <2>3, <2>5 DEF Unread, OwnPost
        <3> QED BY <1>0, <2>3, <3>1, <3>2, NewsTold
    <2> QED BY <2>4, <2>5
<1>6. CASE ViewTaken \/ ViewedElsewhere
    <2>1. events' = events \o <<v>> /\ boundary' = posted'
        BY <1>2, <1>6 DEF ViewTaken, ViewedElsewhere, Tell
    <2> QED BY <1>0, <1>3, <2>1, NewsTold
<1>7. CASE CheckpointTaken
    BY <1>0, <1>4, <1>7 DEF CheckpointTaken, TypeOK, CallsTypes, NoPost, Posts
<1>8. CASE MarkTaken
    BY <1>0, <1>4, <1>8 DEF MarkTaken, TypeOK, CallsTypes
<1>9. CASE MarkedElsewhere
    BY <1>1, <1>4, <1>9 DEF MarkedElsewhere
<1> QED BY <1>5, <1>6, <1>7, <1>8, <1>9 DEF Touches

\* What the hearing of an event leaves owed.
LEMMA OwedHeard ==
    ASSUME WordInv, WordInv', Hear, ~outran', Owed, ViewedLast, Paired(events)
    PROVE  Owed'
<1> USE ReadAssumption
<1>0. /\ TypeOK /\ TypeOK' /\ events \in Seq(Event) /\ events # << >>
      /\ events' = Tail(events) /\ EventsTruthful
      /\ UNCHANGED <<posted, boundary, views, summaries>>
    BY DEF WordInv, ReadInv, TypeOK, ServerTypes, Hear, loading
<1>1. PICK m \in Event : m = Head(events)
    BY <1>0
<1>2. SUFFICES ASSUME boundary < posted, views = 0
               PROVE  NewsIn(events') \/ entry'.runtime \/ Stays'
    BY <1>0 DEF Owed
<1>3. boundary # posted
    BY <1>0, <1>2 DEF TypeOK, ServerTypes
<1>4. ASSUME ViewsIn(events), ~Unread(m)
      PROVE  NewsIn(events')
    BY <1>0, <1>1, <1>3, <1>4, NewsHeard DEF ViewedLast
<1>5. CASE HearPosted(m) /\ m.post \in Own
    <2>1. OwnPost(m) /\ ~Unread(m)
        BY <1>5 DEF HearPosted, OwnPost, Unread
    <2> QED BY <1>0, <1>1, <1>4, <2>1, NewsHeard
<1>6. CASE HearPosted(m) /\ m.post \notin Own
    <2>1. entry' = [entry EXCEPT !.runtime = TRUE, !.runtimeMentioned = @ \/ m.post \in Mentions]
        BY <1>6 DEF HearPosted, RecordPost
    <2> QED BY <1>0, <2>1 DEF TypeOK, ChannelTypes, Entry
<1>7. CASE HearViewed(m)
    <2>1. m.kind = "viewed" /\ ~Unread(m)
        BY <1>7 DEF HearViewed, Unread
    <2> QED BY <1>0, <1>1, <1>4, <2>1, NewsHeard
<1>8. CASE HearUnread(m)
    <2>1. m.kind = "unread" /\ entry' = SetUnread(entry, m.answer) /\ Outrun
        BY <1>8 DEF HearUnread
    <2>2. Truthful(m)
        BY <1>0, <1>1 DEF EventsTruthful
    <2>3. m.answer \in Answers /\ m.answer.boundary < posted'
        BY <1>0, <2>1, <2>2 DEF Truthful, Event
    <2> QED BY <1>0, <2>1, <2>3, UnreadStays
<1> QED BY <1>1, <1>5, <1>6, <1>7, <1>8 DEF Hear

\* What is owed stays owed, whatever else is done to the entry.
LEMMA OwedKept ==
    ASSUME WordInv, WordInv', Touches, ~Hear, UNCHANGED <<posted, boundary, events>>,
           Owed, Snapshot, Calm, Calm', ~Troubled
    PROVE  Owed'
<1> USE ReadAssumption
<1>0. TypeOK /\ TypeOK' /\ NothingInvented /\ Within /\ CallAhead
    BY DEF WordInv, ReadInv
<1>1. SUFFICES ASSUME boundary < posted, views' = 0
               PROVE  NewsIn(events) \/ entry'.runtime \/ Stays'
    BY DEF Owed
<1>2. /\ posted \in Nat /\ boundary \in Nat /\ views \in Nat /\ lastPost \in Nat
      /\ entry \in Entry /\ entry.read \in Nat /\ summaries.posts \in Nat
      /\ total' \in 0..MaxPosts /\ total \in 0..MaxPosts
    BY <1>0 DEF TypeOK, ServerTypes, ChannelTypes, Entry, LoadingTypes
<1>3. CASE views # 0
    <2>1. Replied \/ PassReads \/ ViewTaken
        BY <1>1, <1>3 DEF Touches, Troubled
    <2>2. ~ViewTaken
        BY <1>1, <1>2 DEF ViewTaken
    <2>3. views' >= views
        <3>1. CASE PassReads
            BY <1>2, <3>1 DEF PassReads, Acknowledge
        <3>2. CASE Replied
            <4>1. PICK b, c \in {0, 1} : views' = views + b + c
                BY <3>2 DEF Replied, CheckpointReplied
            <4> QED BY <1>2, <4>1
        <3> QED BY <2>1, <2>2, <3>1, <3>2
    <2> QED BY <1>1, <1>2, <1>3, <2>3
<1>4. NewsIn(events) \/ entry.runtime \/ Stays \/ views # 0
    BY <1>1 DEF Owed
<1>5. CASE UNCHANGED <<entry, lastPost, total>> /\ UNCHANGED summaries
    BY <1>1, <1>3, <1>4, <1>5 DEF Stays
<1>6. CASE SummariesRead
    <2>1. /\ UNCHANGED <<entry, lastPost>> /\ summaries.stage = "asked"
          /\ summaries' = [stage |-> "read", posts |-> posted]
        BY <1>6 DEF SummariesRead, channel, numbers
    <2> QED BY <1>0, <1>1, <1>2, <1>3, <1>4, <2>1 DEF Stays, NothingInvented
<1>7. CASE MembersReplied
    <2>1. PICK a \in Answers : a = members.answer
        BY <1>0, <1>7 DEF MembersReplied, TypeOK, LoadingTypes
    <2>2. a.boundary \in Nat /\ a.boundary < posted
        BY <1>1, <1>2, <1>7, <2>1 DEF MembersReplied, Snapshot, Answers
    <2>3. entry' = Synchronize(SetMembership(entry, a), total)
        BY <1>7, <2>1 DEF MembersReplied
    <2>4. SetMembership(entry, a) \in Entry
        BY <1>2, SetMembershipTypes
    <2>5. /\ entry'.runtime = SetMembership(entry, a).runtime
          /\ entry'.read = SetMembership(entry, a).read
          /\ entry'.credit = SetMembership(entry, a).credit
        BY <2>3, <2>4 DEF Synchronize, Entry
    <2>6. /\ SetMembership(entry, a).runtime = entry.runtime
          /\ SetMembership(entry, a).read = Larger(entry.read, a.boundary)
          /\ entry.credit = 0 => SetMembership(entry, a).credit = 0
        <3>1. /\ SetMembership(entry, a).runtime = entry.runtime
              /\ SetMembership(entry, a).read = Larger(entry.read, a.boundary)
              /\ SetMembership(entry, a).credit = Less(entry.credit, Less(a.boundary, entry.read))
            BY <1>2 DEF SetMembership, Entry
        <3>2. \A n \in Nat : Less(0, n) = 0
            BY DEF Less
        <3>3. Less(a.boundary, entry.read) \in Nat
            BY <1>2, <2>2, NumberTypes
        <3> QED BY <3>1, <3>2, <3>3
    <2>7. summaries'.stage = "asked"
        BY <1>7 DEF MembersReplied
    <2> QED BY <1>1, <1>2, <1>3, <1>4, <2>2, <2>5, <2>6, <2>7 DEF Stays, Larger
<1>8. CASE SummariesReplied
    <2>1. /\ summaries.stage = "read" /\ summaries'.stage = "idle"
          /\ entry' = Synchronize(entry, total')
          /\ ~(summaries.posts < lastPost) => total' = summaries.posts
        BY <1>8 DEF SummariesReplied
    <2>2. /\ entry'.runtime = entry.runtime /\ entry'.read = entry.read
          /\ entry'.credit = entry.credit
          /\ entry'.serverUnread = (total' > entry.read /\ total' - entry.read > entry.credit)
        BY <1>2, <2>1 DEF Synchronize, Entry
    <2>3. ASSUME Stays
          PROVE  Stays'
        <3>1. total' = summaries.posts /\ total' > entry.read /\ entry.credit = 0
            BY <1>2, <2>1, <2>3 DEF Stays
        <3>2. total' - entry.read > entry.credit
            BY <1>2, <3>1
        <3>3. entry'.serverUnread
            BY <2>2, <3>1, <3>2
        <3> QED BY <1>2, <2>1, <2>2, <2>3, <3>3 DEF Stays
    <2> QED BY <1>3, <1>4, <2>2, <2>3
<1>9. CASE PassReads
    <2>1. \/ views' = views + 1
          \/ UNCHANGED <<entry, lastPost, total>> /\ UNCHANGED summaries
        BY <1>9 DEF PassReads, Acknowledge, numbers, loading
    <2> QED BY <1>1, <1>2, <1>5, <2>1
<1>10. CASE CheckpointReplied(TRUE)
    <2> DEFINE moved == SetUnread(entry, pending.answer)
               back  == Rewinds(entry, pending.post, pending.answer)
               again == IF pending.full THEN RecordViewed(moved, lastPost, total) ELSE moved
               told  == IF back THEN Rewind(view, pending.post) ELSE view
               ack   == told.heard = "current" /\ AtEnd(told) /\ IsUnread(again)
    <2>1. /\ pending.post # NoPost /\ pending.answer # NoAnswer /\ Outrun
          /\ entry' = IF ack THEN RecordViewed(again, lastPost, total) ELSE again
          /\ views' = views + (IF pending.full THEN 1 ELSE 0) + (IF ack THEN 1 ELSE 0)
          /\ UNCHANGED summaries
        BY <1>10 DEF CheckpointReplied, loading
    <2> HIDE DEF moved, back, told, ack
    <2>2. ~ack /\ ~pending.full
        BY <1>1, <1>2, <2>1
    <2>3. entry' = SetUnread(entry, pending.answer)
        BY <2>1, <2>2 DEF moved
    <2>4. pending.answer \in Answers /\ pending.answer.boundary = pending.post - 1
        BY <1>0, <2>1 DEF TypeOK, CallsTypes, CallAhead
    <2>5. pending.post \in Nat /\ pending.post <= posted
        BY <1>0 DEF TypeOK, CallsTypes, Within
    <2>6. pending.answer.boundary < posted'
        BY <1>2, <2>4, <2>5
    <2>7. PICK a \in Answers : a = pending.answer
        BY <2>4
    <2> QED BY <1>0, <2>1, <2>3, <2>6, <2>7, UnreadStays DEF Calm
<1>11. CASE MarkReplied
    <2>1. PICK c \in manual : c.answer # NoAnswer /\ entry' = SetUnread(entry, c.answer)
                              /\ Outrun /\ UNCHANGED summaries
        BY <1>11 DEF MarkReplied, loading
    <2>2. c.answer \in Answers /\ c.answer.boundary < posted'
        BY <1>0, <2>1 DEF TypeOK, CallsTypes, Within
    <2> QED BY <1>0, <2>1, <2>2, UnreadStays DEF Calm
<1> QED BY <1>5, <1>6, <1>7, <1>8, <1>9, <1>10, <1>11 DEF Touches, Replied, Troubled

\* The snapshot is no newer than the server's boundary, and one thing at a time.
LEMMA SnapshotStep ==
    ASSUME WordInv, WordInv', Touches, Snapshot, Calm', ~Troubled
    PROVE  Snapshot'
<1> USE ReadAssumption
<1>0. TypeOK /\ TypeOK' /\ Within /\ Within' /\ posted <= posted'
    BY MentionsRemain DEF WordInv, ReadInv
<1>2. /\ posted \in Nat /\ posted' \in Nat /\ boundary \in Nat /\ boundary' \in Nat
      /\ boundary <= posted
      /\ members.stage = "read" => members.answer.boundary \in Nat
    BY <1>0 DEF TypeOK, ServerTypes, LoadingTypes, Within, Answers
<1>3. members.stage = "read" => boundary <= boundary' \/ members' # members
    <2>1. CASE UNCHANGED <<posted, boundary>>
        BY <1>2, <2>1
    <2>2. CASE SomebodyPosts \/ ViewTaken \/ ViewedElsewhere
        BY <1>0, <1>2, <2>2 DEF SomebodyPosts, ViewTaken, ViewedElsewhere
    <2>3. CASE CheckpointTaken \/ MarkTaken \/ MarkedElsewhere
        BY <2>3 DEF CheckpointTaken, MarkTaken, MarkedElsewhere, SetUnreadTaken, Outrun, Calm
    <2> QED BY <2>1, <2>2, <2>3 DEF Touches
<1>4. CASE UNCHANGED <<members, loaded>>
    <2>1. CASE UNCHANGED summaries
        BY <1>2, <1>3, <1>4, <2>1 DEF Snapshot
    <2>2. CASE SummariesRead
        BY <1>2, <1>3, <1>4, <2>2 DEF Snapshot, SummariesRead
    <2>3. CASE SummariesReplied
        BY <1>2, <1>3, <1>4, <2>3 DEF Snapshot, SummariesReplied
    <2>4. CASE MembersReplied
        BY <1>4, <2>4 DEF MembersReplied, Idle
    <2> QED BY <2>1, <2>2, <2>3, <2>4 DEF Touches, Troubled
<1>5. CASE MembersRead
    <2>1. /\ members.stage = "asked" /\ members' = [stage |-> "read", answer |-> Membership(boundary)]
          /\ UNCHANGED <<boundary, loaded, summaries>>
        BY <1>5 DEF MembersRead, server
    <2>2. Membership(boundary).boundary = boundary
        BY DEF Membership
    <2> QED BY <1>2, <2>1, <2>2 DEF Snapshot
<1>6. CASE Refreshed
    <2>1. summaries.stage = "idle" /\ UNCHANGED <<summaries, boundary>>
        BY <1>6 DEF Refreshed, Refresh, server
    <2>2. members' = IF members.stage = "idle" THEN [Idle EXCEPT !.stage = "asked"] ELSE members
        BY <1>6 DEF Refreshed, Refresh, Retrieve
    <2> QED BY <2>1, <2>2 DEF Snapshot, Idle
<1>7. CASE MembersReplied
    BY <1>7 DEF MembersReplied, Snapshot, Idle
<1>8. CASE RetryTimer
    <2>1. UNCHANGED <<summaries, boundary, loaded>>
        BY <1>8 DEF RetryTimer, server
    <2>2. loaded => UNCHANGED members
        BY <1>8 DEF RetryTimer
    <2>3. \/ UNCHANGED members
          \/ members' = [Idle EXCEPT !.stage = "asked"]
        BY <1>8 DEF RetryTimer, Retrieve
    <2> QED BY <2>1, <2>2, <2>3 DEF Snapshot, Idle
<1> QED BY <1>4, <1>5, <1>6, <1>7, <1>8 DEF Touches, Troubled

\* It holds at the start.
LEMMA HideInit == Init => HideInv
<1> SUFFICES ASSUME Init PROVE HideInv
    OBVIOUS
<1> USE ReadAssumption
<1>1. WordInv
    BY WordInit
<1>2. ViewedLast /\ Paired(events) /\ Snapshot
    BY DEF Init, ViewedLast, ViewsIn, Paired, Snapshot
<1>3. ASSUME boundary < posted
      PROVE  Stays
    <2>1. /\ boundary \in Nat /\ Before \in Nat /\ summaries.stage = "idle" /\ posted = Before
          /\ entry.credit = 0 /\ entry.read = boundary
          /\ entry.serverUnread = (Before > boundary /\ Before - boundary > 0)
        BY DEF Init, Synchronize
    <2>2. Before > boundary /\ Before - boundary > 0
        BY <1>3, <2>1
    <2> QED BY <1>3, <2>1, <2>2 DEF Stays
<1> QED BY <1>1, <1>2, <1>3 DEF HideInv, Owed

\* Every step keeps it.
LEMMA HideStep == HideInv /\ [Next]_vars => HideInv'
<1> SUFFICES ASSUME HideInv, [Next]_vars PROVE HideInv'
    OBVIOUS
<1>1. Touches
    BY Footprints
<1>2. WordInv /\ WordInv' /\ TypeOK
    BY WordStep DEF HideInv, WordInv, ReadInv
<1>3. SUFFICES ASSUME Calm'
               PROVE  Owed' /\ ViewedLast' /\ Paired(events') /\ Snapshot'
    BY <1>2 DEF HideInv
<1>4. Calm /\ ~Troubled
    BY <1>1, <1>2, <1>3, CalmBefore
<1>5. Owed /\ ViewedLast /\ Paired(events) /\ Snapshot
    BY <1>4 DEF HideInv
<1>6. Snapshot'
    BY <1>1, <1>2, <1>3, <1>4, <1>5, SnapshotStep
<1>7. CASE Hear
    <2>1. events \in Seq(Event) /\ events # << >> /\ events' = Tail(events)
          /\ UNCHANGED <<posted, boundary>>
        BY <1>2, <1>7 DEF Hear, TypeOK, ServerTypes
    <2>2. Owed'
        BY <1>2, <1>3, <1>5, <1>7, OwedHeard DEF Calm
    <2>3. Paired(events') /\ ViewedLast'
        BY <1>5, <2>1, NewsHeard DEF ViewedLast
    <2> QED BY <1>6, <2>2, <2>3
<1>8. CASE ~Hear /\ UNCHANGED <<posted, boundary, events>>
    <2>1. Owed'
        BY <1>1, <1>2, <1>3, <1>4, <1>5, <1>8, OwedKept
    <2>2. Paired(events') /\ ViewedLast'
        BY <1>5, <1>8 DEF ViewedLast
    <2> QED BY <1>6, <2>1, <2>2
<1>9. CASE ~Hear /\ ~UNCHANGED <<posted, boundary, events>>
    <2>1. ~EventsLost
        BY <1>4 DEF Troubled
    <2>2. (NewsIn(events') \/ boundary' = posted') /\ Paired(events')
        BY <1>1, <1>2, <1>5, <1>9, <2>1, ServerTells
    <2>3. posted' \in Nat /\ boundary' \in Nat
        BY <1>2, ReadAssumption DEF WordInv, ReadInv, TypeOK, ServerTypes
    <2>4. Owed' /\ ViewedLast'
        BY <2>2, <2>3 DEF Owed, ViewedLast
    <2> QED BY <1>6, <2>2, <2>4
<1> QED BY <1>7, <1>8, <1>9

\* Nothing unread hides: once the views are taken, the events heard and the summaries
\* merged, a channel with posts the server counts as unread is shown as unread, if no
\* request failed and no set_unread ran while a snapshot was under way.
THEOREM NothingHides == Spec => []NothingUnreadHides
<1>1. HideInv => NothingUnreadHides
    <2> SUFFICES ASSUME HideInv, views = 0, events = << >>, troubles = 0,
                        summaries.stage = "idle", boundary < posted, ~outran
                 PROVE  IsUnread(entry)
        BY DEF NothingUnreadHides
    <2>1. ~NewsIn(events)
        BY DEF NewsIn
    <2>2. entry.runtime \/ Stays
        BY <2>1 DEF HideInv, Calm, Owed
    <2> QED BY <2>2 DEF Stays, IsUnread
<1> QED BY <1>1, HideInit, HideStep, PTL DEF Spec
=============================================================================
