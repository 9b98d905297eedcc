-------------------------- MODULE FollowingProofs --------------------------
(***************************************************************************)
(* Proofs about Following, for any number of replies, requests, acts and   *)
(* events: the types; that the resume cursor skips no reply; and that the  *)
(* row tells what the server has once everything is answered.              *)
(***************************************************************************)
EXTENDS Following, WellFoundedInduction, SequenceTheorems, TLAPS

\* A set of naturals that is not empty has a smallest element.
LEMMA Smallest ==
    ASSUME NEW S, S \subseteq Nat, S # {}
    PROVE  Min(S) \in S /\ \A y \in S : Min(S) <= y
<1> DEFINE R == OpToRel(<, Nat)
<1> HIDE DEF R
<1>1. IsWellFoundedOn(R, Nat)
  BY NatLessThanWellFounded, Zenon DEF R
<1>2. \E x \in S : \A y \in S : ~ (<<y, x>> \in R)
  BY <1>1, WFMin
<1>3. ASSUME NEW x \in Nat, NEW y \in Nat, ~ (<<y, x>> \in R)  PROVE x <= y
  BY <1>3 DEF OpToRel, R
<1>4. \E x \in S : \A y \in S : x <= y
  BY <1>2, <1>3
<1> QED  BY <1>4 DEF Min

-----------------------------------------------------------------------------
(* The helpers.                                                            *)

\* The greater of two bounded numbers.
LEMMA LargerType ==
    ASSUME NEW m \in 0..MaxPosts, NEW n \in 0..MaxPosts
    PROVE  Larger(m, n) \in 0..MaxPosts
BY FollowingAssumption DEF Larger

\* A row that is not there has nothing in it.
Whole(e) == ~e.present => e = NoEntry

\* Two rows with the same place to resume at.
SameCursor(e, f) ==
    f.present = e.present /\ f.resume = e.resume /\ f.first = e.first /\ f.through = e.through

\* An empty row is a row.
LEMMA NoEntryType == NoEntry \in Entry /\ Whole(NoEntry)
BY FollowingAssumption DEF Whole, NoEntry, Entry

\* The next reply in memory after p, if there is one.
LEMMA NextCachedType ==
    ASSUME heard \subseteq Posts, NEW p \in 0..MaxPosts
    PROVE  /\ NextCached(p) \in 0..MaxPosts
           /\ NextCached(p) = 0 => \A h \in heard : h <= p
           /\ NextCached(p) # 0 =>
                 /\ NextCached(p) \in heard /\ p < NextCached(p)
                 /\ \A h \in heard : p < h => NextCached(p) <= h
<1> DEFINE after == {h \in heard : h > p}
<1>1. \A h \in heard : h \in Nat /\ h # 0 /\ h \in 0..MaxPosts
  BY FollowingAssumption DEF Posts
<1>2. p \in Nat  BY FollowingAssumption
<1>3. CASE after = {}
  <2>1. NextCached(p) = 0  BY <1>3 DEF NextCached
  <2>2. \A h \in heard : ~(h > p)  BY <1>3
  <2>3. \A h \in heard : h <= p  BY <1>1, <1>2, <2>2
  <2> QED  BY <2>1, <2>3, FollowingAssumption
<1>4. CASE after # {}
  <2>1. after \subseteq Nat
    <3>1. \A h \in after : h \in heard  OBVIOUS
    <3> HIDE DEF after
    <3> QED  BY <1>1, <3>1
  <2>2. Min(after) \in after /\ \A y \in after : Min(after) <= y
    <3> HIDE DEF after
    <3> QED  BY <2>1, <1>4, Smallest
  <2>3. NextCached(p) = Min(after)  BY <1>4 DEF NextCached
  <2> DEFINE n == NextCached(p)
  <2>4. n \in heard /\ n > p /\ \A y \in heard : y > p => n <= y
    <3>1. n \in after /\ \A y \in after : n <= y  BY <2>2, <2>3
    <3> HIDE DEF n
    <3> QED  BY <3>1
  <2> HIDE DEF n
  <2>5. n \in Nat /\ n # 0 /\ n \in 0..MaxPosts  BY <1>1, <2>4
  <2>6. \A h \in heard : p < h => n <= h  BY <1>1, <1>2, <2>4
  <2> QED  BY <1>2, <2>4, <2>5, <2>6 DEF n
<1> QED  BY <1>3, <1>4

\* A reply that is heard restarts the cursor only from the end.
LEMMA NoteIncomingType ==
    ASSUME NEW e \in Entry, Whole(e), NEW p \in 0..MaxPosts
    PROVE  /\ NoteIncoming(e, p) \in Entry /\ Whole(NoteIncoming(e, p))
           /\ NoteIncoming(e, p).present = e.present
           /\ NoteIncoming(e, p).through = e.through
           /\ IF e.present /\ e.resume = "AtEnd" /\ (e.through = 0 \/ p > e.through)
              THEN NoteIncoming(e, p).resume = "FirstUnread" /\ NoteIncoming(e, p).first = p
              ELSE NoteIncoming(e, p) = e
<1> DEFINE f == [e EXCEPT !.resume = "FirstUnread", !.first = p]
           c == e.present /\ e.resume = "AtEnd" /\ (e.through = 0 \/ p > e.through)
<1>1. f \in Entry /\ f.present = e.present /\ f.through = e.through /\ f.first = p
      /\ f.resume = "FirstUnread"
  BY DEF Entry
<1>2. NoteIncoming(e, p) = IF c THEN f ELSE e  BY DEF NoteIncoming
<1>3. c => e.present  OBVIOUS
<1> HIDE DEF f, c
<1>4. CASE c
  BY <1>1, <1>2, <1>3, <1>4 DEF Whole, c
<1>5. CASE ~c
  BY <1>2, <1>5 DEF c
<1> QED  BY <1>4, <1>5

\* A mark as unread starts the cursor anew.
LEMMA MarkedUnreadType ==
    ASSUME NEW e \in Entry, NEW p \in 0..MaxPosts
    PROVE  /\ MarkedUnread(e, p) \in Entry /\ MarkedUnread(e, p).present
           /\ MarkedUnread(e, p).through = 0
<1>1. \A g \in Entry, c \in BOOLEAN, r \in {"Unknown", "FirstUnread", "AtEnd"} :
        [g EXCEPT !.unread = c, !.resume = r, !.first = p] \in Entry
  BY DEF Entry
<1>2. \A g \in Entry, d \in BOOLEAN, m, n \in 0..MaxPosts :
        LET f == [g EXCEPT !.through = m, !.pending = d, !.ackAt = n]
        IN  f \in Entry /\ f.through = m
  BY DEF Entry
<1>3. \A g \in Entry, l \in 0..MaxPosts :
        LET f == [g EXCEPT !.last = l, !.present = TRUE]
        IN  f \in Entry /\ f.present /\ f.through = g.through
  BY DEF Entry
<1>4. e.last \in 0..MaxPosts  BY DEF Entry
<1>5. PICK l \in 0..MaxPosts : l = Larger(e.last, p)
  BY <1>4, FollowingAssumption DEF Larger
<1>6. PICK z \in 0..MaxPosts : z = 0
  BY FollowingAssumption
<1> DEFINE g == [e EXCEPT !.unread = TRUE, !.resume = "FirstUnread", !.first = p]
           h == [g EXCEPT !.through = z, !.pending = FALSE, !.ackAt = z]
           f == [h EXCEPT !.last = l, !.present = TRUE]
<1>7. g \in Entry  BY <1>1
<1>8. MarkedUnread(e, p) = f  BY <1>5, <1>6 DEF MarkedUnread, Entry
<1> HIDE DEF g
<1>9. h \in Entry /\ h.through = z  BY <1>2, <1>7
<1> HIDE DEF h
<1>10. f \in Entry /\ f.present /\ f.through = z  BY <1>3, <1>9
<1> QED  BY <1>6, <1>8, <1>10

\* A full read leaves the cursor alone.
LEMMA ReadToEndType ==
    ASSUME NEW e \in Entry, Whole(e)
    PROVE  ReadToEnd(e) \in Entry /\ Whole(ReadToEnd(e)) /\ SameCursor(e, ReadToEnd(e))
<1>1. \A a \in 0..MaxPosts, b, c \in BOOLEAN :
        LET f == [e EXCEPT !.unread = b, !.pending = c, !.ackAt = a]
        IN  f \in Entry /\ SameCursor(e, f)
  BY DEF Entry, SameCursor
<1> DEFINE a == IF e.through # 0 THEN e.through ELSE e.last
<1>2. a \in 0..MaxPosts  BY DEF Entry
<1>3. ReadToEnd(e) = IF ~e.present THEN e
                     ELSE [e EXCEPT !.unread = FALSE, !.pending = TRUE, !.ackAt = a]
  BY DEF ReadToEnd
<1> HIDE DEF a
<1>4. LET f == [e EXCEPT !.unread = FALSE, !.pending = TRUE, !.ackAt = a]
      IN  f \in Entry /\ SameCursor(e, f)
  BY <1>1, <1>2
<1> QED  BY <1>3, <1>4 DEF Whole, SameCursor

\* So does a full read that failed.
LEMMA NotPendingType ==
    ASSUME NEW e \in Entry, Whole(e)
    PROVE  LET f == [e EXCEPT !.pending = FALSE, !.ackAt = 0]
           IN  f \in Entry /\ Whole(f) /\ SameCursor(e, f)
<1> DEFINE f == [e EXCEPT !.pending = FALSE, !.ackAt = 0]
<1>1. \A a \in 0..MaxPosts, b \in BOOLEAN :
        LET g == [e EXCEPT !.pending = b, !.ackAt = a]
        IN  /\ g \in Entry /\ SameCursor(e, g)
            /\ e.pending = b /\ e.ackAt = a => g = e
  BY DEF Entry, SameCursor
<1>2. 0 \in 0..MaxPosts  BY FollowingAssumption
<1>3. f \in Entry /\ SameCursor(e, f) /\ (e.pending = FALSE /\ e.ackAt = 0 => f = e)
  BY <1>1, <1>2
<1>4. ~e.present => e.pending = FALSE /\ e.ackAt = 0  BY DEF Whole, NoEntry
<1> HIDE DEF f
<1>5. Whole(f)  BY <1>3, <1>4 DEF Whole, SameCursor
<1> QED  BY <1>3, <1>5 DEF f

\* Reading on moves the boundary, and the cursor to the next reply in memory.
LEMMA ReadThroughType ==
    ASSUME NEW e \in Entry, Whole(e), heard \subseteq Posts, NEW p \in Posts,
           NEW atEnd \in BOOLEAN
    PROVE  LET r == ReadThrough(e, p, atEnd) IN
           /\ r \in Entry /\ Whole(r) /\ r.present = e.present
           /\ \/ r = e
              \/ /\ r.through = p
                 /\ r.resume = "AtEnd" => \A h \in heard : h <= p
                 /\ r.resume = "FirstUnread" =>
                       /\ r.first \in heard /\ p < r.first
                       /\ \A h \in heard : h <= p \/ r.first <= h
<1>1. p \in 0..MaxPosts /\ p \in Nat  BY FollowingAssumption DEF Posts
<1>2. /\ NextCached(p) \in 0..MaxPosts
      /\ NextCached(p) = 0 => \A h \in heard : h <= p
      /\ NextCached(p) # 0 =>
            /\ NextCached(p) \in heard /\ p < NextCached(p)
            /\ \A h \in heard : p < h => NextCached(p) <= h
  BY <1>1, NextCachedType
<1> DEFINE n == NextCached(p)
           s == IF n # 0 THEN "FirstUnread" ELSE IF atEnd THEN "AtEnd" ELSE "Unknown"
           r == ReadThrough(e, p, atEnd)
<1>3. CASE ~e.present \/ p < e.through
  <2>1. r = e  BY <1>3 DEF ReadThrough
  <2> QED  BY <2>1
<1>4. CASE e.present /\ ~(p < e.through)
  <2>1. r = [e EXCEPT !.through = p, !.first = n, !.resume = s]
    BY <1>4 DEF ReadThrough
  <2>2. s \in {"Unknown", "FirstUnread", "AtEnd"} /\ n \in 0..MaxPosts  BY <1>2
  <2>3. /\ n = 0 => s # "FirstUnread"
        /\ n # 0 => s = "FirstUnread"
    OBVIOUS
  <2>4. \A h \in heard : h \in Nat  BY FollowingAssumption DEF Posts
  <2>5. /\ n = 0 => \A h \in heard : h <= p
        /\ n # 0 => n \in heard /\ p < n /\ \A h \in heard : p < h => n <= h
    BY <1>2
  <2> HIDE DEF n, s, r
  <2>6. r \in Entry /\ r.present = e.present /\ r.through = p /\ r.first = n /\ r.resume = s
    BY <1>1, <2>1, <2>2 DEF Entry
  <2>7. Whole(r)  BY <1>4, <2>6 DEF Whole
  <2>8. r.resume = "AtEnd" => \A h \in heard : h <= p  BY <2>3, <2>5, <2>6
  <2>9. r.resume = "FirstUnread" =>
            /\ r.first \in heard /\ p < r.first
            /\ \A h \in heard : h <= p \/ r.first <= h
    BY <1>1, <2>3, <2>4, <2>5, <2>6
  <2> QED  BY <2>6, <2>7, <2>8, <2>9 DEF r
<1> QED  BY <1>3, <1>4

\* What a snapshot leaves of a cursor: all, or nothing.
Keeps(e, g) ==
    \/ g.through = 0
    \/ e.through = g.through /\ e.first = g.first /\ e.resume = g.resume

\* A mark holds a row unread from its post on.
LEMMA HeldType ==
    ASSUME NEW e \in Entry, attention \in BOOLEAN, marker \in 0..MaxPosts
    PROVE  Held(e) \in Entry /\ Held(e).present = e.present /\ Keeps(e, Held(e))
<1>1. \A b \in BOOLEAN :
        LET f == [e EXCEPT !.unread = b]
        IN  f \in Entry /\ f.present = e.present /\ Keeps(e, f)
  BY DEF Entry, Keeps
<1>2. PICK z \in 0..MaxPosts : z = 0  BY FollowingAssumption
<1> DEFINE h == [e EXCEPT !.unread = TRUE, !.resume = "FirstUnread", !.first = marker,
                          !.through = z]
<1>3. h \in Entry /\ h.present = e.present /\ h.through = z
  BY DEF Entry
<1>4. Keeps(e, h)  BY <1>2, <1>3 DEF Keeps
<1>5. LET f == [e EXCEPT !.unread = TRUE]
      IN  f \in Entry /\ f.present = e.present /\ Keeps(e, f)
  BY <1>1
<1>6. Keeps(e, e)  BY DEF Keeps
<1>7. Held(e) = IF ~attention THEN e
                ELSE IF marker = 0 THEN [e EXCEPT !.unread = TRUE] ELSE h
  BY <1>2 DEF Held
<1> HIDE DEF h
<1> QED  BY <1>3, <1>4, <1>5, <1>6, <1>7

\* A pending acknowledgement holds it read.
LEMMA AcknowledgedType ==
    ASSUME NEW e \in Entry
    PROVE  /\ Acknowledged(e) \in Entry /\ SameCursor(e, Acknowledged(e))
<1>1. \A b \in BOOLEAN :
        LET f == [e EXCEPT !.unread = b] IN f \in Entry /\ SameCursor(e, f)
  BY DEF Entry, SameCursor
<1>2. \A b \in BOOLEAN, m \in 0..MaxPosts :
        LET f == [e EXCEPT !.pending = b, !.ackAt = m] IN f \in Entry /\ SameCursor(e, f)
  BY DEF Entry, SameCursor
<1>3. 0 \in 0..MaxPosts  BY FollowingAssumption
<1>4. LET f == [e EXCEPT !.pending = FALSE, !.ackAt = 0] IN f \in Entry /\ SameCursor(e, f)
  BY <1>2, <1>3
<1>5. LET f == [e EXCEPT !.unread = FALSE] IN f \in Entry /\ SameCursor(e, f)
  BY <1>1
<1>6. SameCursor(e, e)  BY DEF SameCursor
<1> QED  BY <1>4, <1>5, <1>6 DEF Acknowledged

\* A snapshot keeps the cursor, starts it anew or removes the row.
LEMMA AppliedType ==
    ASSUME NEW e \in Entry, Whole(e), attention \in BOOLEAN, marker \in 0..MaxPosts,
           NEW t \in Summaries
    PROVE  LET g == Applied(e, t) IN
           /\ g \in Entry /\ Whole(g)
           /\ t.there => g.present /\ Keeps(e, g)
           /\ ~t.there => g = IF attention THEN e ELSE NoEntry
<1>1. CASE ~t.there
  BY <1>1, NoEntryType DEF Applied
<1>2. CASE t.there
  <2>1. PICK c \in BOOLEAN, m \in 0..MaxPosts, n \in 0..MaxPosts :
            c = t.unread /\ m = t.viewed /\ n = t.last
    BY DEF Summaries
  <2> DEFINE f == [e EXCEPT !.present = TRUE, !.viewed = m, !.last = n, !.unread = c]
  <2>2. /\ f \in Entry /\ f.present
        /\ f.through = e.through /\ f.first = e.first /\ f.resume = e.resume
    BY DEF Entry
  <2>3. f \in Entry /\ f.present /\ Keeps(e, f)  BY <2>2 DEF Keeps
  <2>4. Applied(e, t) = Acknowledged(Held(f))  BY <1>2, <2>1 DEF Applied
  <2> HIDE DEF f
  <2> DEFINE h == Held(f)
  <2>5. h \in Entry /\ h.present /\ Keeps(f, h)  BY <2>3, HeldType
  <2> HIDE DEF h
  <2> DEFINE g == Acknowledged(h)
  <2>6. g \in Entry /\ SameCursor(h, g)  BY <2>5, AcknowledgedType
  <2>7. Applied(e, t) = g  BY <2>4 DEF h
  <2> HIDE DEF g
  <2>8. Keeps(e, g)  BY <2>3, <2>5, <2>6 DEF Keeps, SameCursor
  <2>9. g.present  BY <2>5, <2>6 DEF SameCursor
  <2> QED  BY <1>2, <2>6, <2>7, <2>8, <2>9 DEF Whole
<1> QED  BY <1>1, <1>2

-----------------------------------------------------------------------------
(* The cursor: the replies come in their order, and what was told of lies  *)
(* between the boundary and the place to resume at.                        *)

\* The event of a reply.
Told(e) == e.kind = "posted"

\* A reply under way is one the server has.
EventsReal == \A i \in 1..Len(events) : Told(events[i]) => events[i].post \in 1..posted

\* Replies come in their order.
EventsOrdered ==
    \A i, j \in 1..Len(events) :
        i < j /\ Told(events[i]) /\ Told(events[j]) => events[i].post < events[j].post

\* What is in memory is older than a reply under way, unless a page brought all
\* up to it.
EventsNews ==
    \A i \in 1..Len(events) : Told(events[i]) =>
        (\A h \in heard : h < events[i].post) \/ 1..events[i].post \subseteq heard

\* What is told counts from when the row is there.
NothingTold == ~row.present => told = {}

\* A reply under way does not lie between the boundary and the cursor.
CursorAhead ==
    row.present /\ row.through # 0 /\ row.resume = "FirstUnread" =>
        /\ row.first <= posted
        /\ \A i \in 1..Len(events) : Told(events[i]) =>
               events[i].post <= row.through \/ row.first <= events[i].post

\* The inductive invariant.
CursorInv ==
    /\ TypeOK /\ EventsReal /\ EventsOrdered /\ EventsNews /\ NothingTold /\ CursorAhead
    /\ ResumeSkipsNothing

-----------------------------------------------------------------------------
(* The types.                                                              *)

\* What a step leaves alone keeps its types.
LEMMA TypesKept ==
    /\ ServerTypes /\ UNCHANGED server => ServerTypes'
    /\ RowTypes /\ UNCHANGED <<row, marked>> => RowTypes'
    /\ RefreshTypes /\ UNCHANGED refresh => RefreshTypes'
    /\ CallsTypes /\ UNCHANGED calls => CallsTypes'
    /\ view \in View /\ UNCHANGED view => (view \in View)'
    /\ HistoryTypes /\ UNCHANGED <<posted, heard, history, spent>> => HistoryTypes'
<1>1. ServerTypes /\ UNCHANGED server => ServerTypes'
    BY DEF ServerTypes, server
<1>2. RowTypes /\ UNCHANGED <<row, marked>> => RowTypes'
    BY DEF RowTypes, marked
<1>3. RefreshTypes /\ UNCHANGED refresh => RefreshTypes'
    BY DEF RefreshTypes, refresh
<1>4. CallsTypes /\ UNCHANGED calls => CallsTypes'
    BY DEF CallsTypes, calls
<1>5. HistoryTypes /\ UNCHANGED <<posted, heard, history, spent>> => HistoryTypes'
    BY DEF HistoryTypes, history, spent
<1> QED BY <1>1, <1>2, <1>3, <1>4, <1>5

\* The types hold at the start.
LEMMA TypesInit == Init => TypeOK
<1> SUFFICES ASSUME Init PROVE TypeOK
    OBVIOUS
<1> USE FollowingAssumption
<1>1. ServerTypes
  <2>1. Before \in 0..MaxPosts /\ 0..Before \subseteq 0..MaxPosts
      OBVIOUS
  <2>2. << >> \in Seq(Event)
      OBVIOUS
  <2>3. /\ posted = Before /\ viewed \in 0..Before /\ followed \in BOOLEAN
        /\ aged \in BOOLEAN /\ events = << >> /\ changed = FALSE
      BY DEF Init
  <2> QED BY <2>1, <2>2, <2>3 DEF ServerTypes
<1>2. RowTypes
  <2>1. row = NoEntry /\ marker = 0 /\ attention = FALSE
      BY DEF Init
  <2>2. 0 \in 0..MaxPosts
      OBVIOUS
  <2> QED BY <2>1, <2>2, NoEntryType DEF RowTypes
<1>3. NoThread \in Summaries
    BY DEF NoThread, Summaries
<1>4. RefreshTypes
    BY <1>3 DEF Init, RefreshTypes, NoSnapshot, Snapshot
<1>5. NoRead \in Read
    BY DEF NoRead, Read
<1>6. CallsTypes
    BY <1>5 DEF Init, CallsTypes
<1>7. view \in View
    BY DEF Init, View
<1>8. HistoryTypes
  <2>1. /\ heard = 1..posted /\ told = {} /\ lowered = FALSE /\ failed = FALSE
        /\ acts = 0
      BY DEF Init
  <2>2. 0 \in 0..MaxActs
      OBVIOUS
  <2> QED BY <2>1, <2>2 DEF HistoryTypes
<1> QED BY <1>1, <1>2, <1>4, <1>6, <1>7, <1>8 DEF TypeOK

\* An event that is sent is one of the events under way.
LEMMA EmitsTypes ==
    ASSUME events \in Seq(Event), NEW e \in Event, Emits(e)
    PROVE  events' \in Seq(Event)
BY DEF Emits

\* Starting the timer or a refresh keeps the refreshes' types.
LEMMA ScheduleTypes == RefreshTypes /\ Schedule => RefreshTypes'
BY DEF Schedule, RefreshTypes

\* So does a refresh that starts or is asked for.
LEMMA RefreshThreadsTypes ==
    RefreshTypes /\ RefreshThreads /\ timer' \in BOOLEAN => RefreshTypes'
<1> SUFFICES ASSUME RefreshTypes, RefreshThreads, timer' \in BOOLEAN PROVE RefreshTypes'
    OBVIOUS
<1>1. CASE snapshot.stage # "idle"
    BY <1>1 DEF RefreshThreads, RefreshTypes
<1>2. CASE snapshot.stage = "idle"
  <2>1. NoThread \in Summaries
      BY FollowingAssumption DEF NoThread, Summaries
  <2>2. snapshot' = [NoSnapshot EXCEPT !.stage = "all"] /\ requested' = FALSE
      BY <1>2 DEF RefreshThreads
  <2>3. snapshot' \in Snapshot
      BY <2>1, <2>2 DEF NoSnapshot, Snapshot
  <2> QED BY <2>2, <2>3 DEF RefreshTypes
<1> QED BY <1>1, <1>2

\* An answer to one of the queries.
LEMMA SummaryTypes ==
    ASSUME ServerTypes, NEW c \in BOOLEAN
    PROVE  Summary(c) \in Summaries /\ NoThread \in Summaries
BY FollowingAssumption DEF Summary, Summaries, NoThread, ServerTypes

\* No request to read.
LEMMA NoReadType == NoRead \in Read
<1>1. PICK z \in 0..MaxPosts : z = 0
    BY FollowingAssumption
<1>2. NoRead = [kind |-> "none", upTo |-> z, taken |-> FALSE, marks |-> FALSE, heard |-> FALSE]
    BY <1>1 DEF NoRead
<1> QED BY <1>2 DEF Read

\* A request to read to the end.
LEMMA FullReadType ==
    ASSUME RowTypes, NEW t \in 0..MaxPosts
    PROVE  FullRead(t) \in Read
<1>1. row.present \in BOOLEAN
    BY DEF RowTypes, Entry
<1> QED BY <1>1 DEF FullRead, Read

\* Progress is queued by the timer alone.
LEMMA QueueProgressTypes ==
    ASSUME NEW v \in View, NEW p
    PROVE  QueueProgress(v, p) \in View
<1>1. \A c \in BOOLEAN : [v EXCEPT !.due = c] \in View
    BY DEF View
<1>2. [v EXCEPT !.due = TRUE] \in View /\ [v EXCEPT !.due = FALSE] \in View
    BY <1>1
<1> QED BY <1>2 DEF QueueProgress

\* Acts are bounded.
LEMMA ActTypes ==
    /\ \A n \in Nat : acts \in 0..MaxActs /\ Acts(n) => acts' \in 0..MaxActs
    /\ acts \in 0..MaxActs /\ Act => acts' \in 0..MaxActs
    /\ Failure => acts' \in 0..MaxActs /\ failed' \in BOOLEAN
    /\ Trouble => Failure
<1>1. ASSUME NEW n \in Nat, acts \in 0..MaxActs, Acts(n) PROVE acts' \in 0..MaxActs
    BY <1>1, FollowingAssumption DEF Acts
<1>2. acts \in 0..MaxActs /\ Act => acts' \in 0..MaxActs
    BY <1>1 DEF Act
<1>3. Failure => acts' \in 0..MaxActs /\ failed' \in BOOLEAN
    BY FollowingAssumption DEF Failure
<1>4. Trouble => Failure
    BY DEF Trouble
<1> QED BY <1>1, <1>2, <1>3, <1>4

\* A read to the end that is sent.
LEMMA SendsTypes ==
    ASSUME RowTypes, CallsTypes, HistoryTypes, NEW s \in Slots, NEW t \in 0..MaxPosts,
           SendsRead(s, t)
    PROVE  reads' \in [Slots -> Read] /\ lowered' \in BOOLEAN /\ acts' \in 0..MaxActs
<1>1. FullRead(t) \in Read
    BY FullReadType
<1>2. reads' \in [Slots -> Read]
    BY <1>1 DEF SendsRead, CallsTypes
<1>3. lowered' \in BOOLEAN
    BY DEF SendsRead
<1>4. acts' \in 0..MaxActs
    <2>1. PICK n \in Nat : Acts(n)
        BY DEF SendsRead
    <2> QED BY <2>1, ActTypes DEF HistoryTypes
<1> QED BY <1>2, <1>3, <1>4

\* Every step keeps the types: what each action touches.
LEMMA TypesStep == CursorInv /\ [Next]_vars => TypeOK'
<1> SUFFICES ASSUME CursorInv, [Next]_vars PROVE TypeOK'
    OBVIOUS
<1> USE FollowingAssumption
<1>0. /\ ServerTypes /\ RowTypes /\ RefreshTypes /\ CallsTypes /\ view \in View
      /\ HistoryTypes
    BY DEF CursorInv, TypeOK
<1>a. row \in Entry /\ Whole(row)
    BY <1>0 DEF RowTypes, Whole
<1>b. heard \subseteq Posts
    BY <1>0 DEF ServerTypes, HistoryTypes, Posts
<1>1. CASE SomebodyReplies
    <2>1. RowTypes' /\ RefreshTypes' /\ CallsTypes' /\ (view \in View)'
        BY <1>0, <1>1, TypesKept DEF SomebodyReplies, server, marked, refresh, calls, history,
           spent
    <2>2. ServerTypes'
        <3>1. posted' \in 0..MaxPosts
            BY <1>0, <1>1 DEF SomebodyReplies, ServerTypes
        <3>2. Posted(posted + 1) \in Event
            BY <1>0, <1>1, <3>1 DEF SomebodyReplies, Posted, Event
        <3>3. events' \in Seq(Event)
            BY <1>0, <1>1, <3>2, EmitsTypes DEF SomebodyReplies, ServerTypes
        <3> QED BY <1>0, <1>1, <3>1, <3>3 DEF SomebodyReplies, ServerTypes
    <2>3. HistoryTypes'
        <3>1. heard \subseteq 1..posted'
            BY <1>0, <1>1 DEF SomebodyReplies, HistoryTypes, ServerTypes
        <3> QED BY <1>0, <1>1, <3>1 DEF SomebodyReplies, HistoryTypes, history, spent
    <2> QED BY <2>1, <2>2, <2>3 DEF TypeOK
<1>2. CASE ReadElsewhere
    <2>1. RowTypes' /\ RefreshTypes' /\ CallsTypes' /\ (view \in View)'
        BY <1>0, <1>2, TypesKept DEF ReadElsewhere, server, marked, refresh, calls, history, spent
    <2>2. PICK t \in 0..MaxPosts : viewed' = t /\ lowered' = (lowered \/ t < viewed)
        BY <1>2 DEF ReadElsewhere
    <2>3. ServerTypes'
        BY <1>0, <1>2, <2>2 DEF ReadElsewhere, ServerTypes
    <2>4. lowered' \in BOOLEAN
        BY <2>2
    <2>5. HistoryTypes'
        BY <1>0, <1>2, <2>4, ActTypes DEF ReadElsewhere, HistoryTypes
    <2> QED BY <2>1, <2>3, <2>5 DEF TypeOK
<1>3. CASE OthersMove
    <2>1. RowTypes' /\ RefreshTypes' /\ CallsTypes' /\ (view \in View)'
        BY <1>0, <1>3, TypesKept DEF OthersMove, server, marked, refresh, calls, history, spent
    <2>2. ServerTypes'
        BY <1>0, <1>3 DEF OthersMove, ServerTypes
    <2>3. HistoryTypes'
        BY <1>0, <1>3, ActTypes DEF OthersMove, HistoryTypes, history
    <2> QED BY <2>1, <2>2, <2>3 DEF TypeOK
<1>4. CASE FollowedElsewhere
    <2>1. RowTypes' /\ RefreshTypes' /\ CallsTypes' /\ (view \in View)'
        BY <1>0, <1>4, TypesKept DEF FollowedElsewhere, server, marked, refresh, calls, history,
           spent
    <2>2. ServerTypes'
        <3>1. FollowedAs(~followed) \in Event
            BY <1>0 DEF ServerTypes, FollowedAs, Event
        <3>2. events' \in Seq(Event)
            BY <1>0, <1>4, <3>1, EmitsTypes DEF FollowedElsewhere, ServerTypes
        <3> QED BY <1>0, <1>4, <3>2 DEF FollowedElsewhere, ServerTypes
    <2>3. HistoryTypes'
        BY <1>0, <1>4, ActTypes DEF FollowedElsewhere, HistoryTypes, history
    <2> QED BY <2>1, <2>2, <2>3 DEF TypeOK
<1>5. CASE AllRead
    <2>1. ServerTypes' /\ RowTypes' /\ CallsTypes' /\ (view \in View)' /\ HistoryTypes'
        BY <1>0, <1>5, TypesKept DEF AllRead, server, marked, refresh, calls, history, spent
    <2>2. RefreshTypes'
        <3>1. PICK t \in Summaries : t = IF followed /\ ~aged THEN Summary(FALSE) ELSE NoThread
            BY <1>0, SummaryTypes
        <3>2. snapshot' = [snapshot EXCEPT !.stage = "allRead", !.all = t]
            BY <1>5, <3>1 DEF AllRead
        <3>3. snapshot' \in Snapshot /\ snapshot'.stage # "idle"
            BY <1>0, <3>2 DEF RefreshTypes, Snapshot
        <3> QED BY <1>0, <1>5, <3>3 DEF AllRead, RefreshTypes
    <2> QED BY <2>1, <2>2 DEF TypeOK
<1>6. CASE UnreadRead
    <2>1. ServerTypes' /\ RowTypes' /\ CallsTypes' /\ (view \in View)' /\ HistoryTypes'
        BY <1>0, <1>6, TypesKept DEF UnreadRead, server, marked, refresh, calls, history, spent
    <2>2. RefreshTypes'
        <3>1. PICK t \in Summaries : t = IF followed /\ viewed < posted THEN Summary(TRUE) ELSE NoThread
            BY <1>0, SummaryTypes
        <3>2. snapshot' = [snapshot EXCEPT !.stage = "unreadRead", !.unread = t]
            BY <1>6, <3>1 DEF UnreadRead
        <3>3. snapshot' \in Snapshot /\ snapshot'.stage # "idle"
            BY <1>0, <3>2 DEF RefreshTypes, Snapshot
        <3> QED BY <1>0, <1>6, <3>3 DEF UnreadRead, RefreshTypes
    <2> QED BY <2>1, <2>2 DEF TypeOK
<1>7. ASSUME NEW s \in Slots, ReadTaken(s) PROVE TypeOK'
    <2>1. RowTypes' /\ RefreshTypes' /\ (view \in View)'
        BY <1>0, <1>7, TypesKept DEF ReadTaken, server, marked, refresh, calls, history, spent
    <2>2. ServerTypes'
        <3>1. reads[s].upTo \in 0..MaxPosts
            BY <1>0 DEF CallsTypes, Read
        <3> QED BY <1>0, <1>7, <3>1 DEF ReadTaken, ServerTypes
    <2>3. CallsTypes'
        <3>1. [reads[s] EXCEPT !.taken = TRUE] \in Read
            BY <1>0 DEF CallsTypes, Read
        <3>2. reads' = [reads EXCEPT ![s] = [reads[s] EXCEPT !.taken = TRUE]]
            BY <1>0, <1>7 DEF ReadTaken, CallsTypes
        <3> QED BY <1>0, <1>7, <3>1, <3>2 DEF ReadTaken, CallsTypes
    <2>4. HistoryTypes'
        BY <1>0, <1>7 DEF ReadTaken, HistoryTypes, spent
    <2> QED BY <2>1, <2>2, <2>3, <2>4 DEF TypeOK
<1>8. ASSUME NEW c \in manual, MarkTaken(c) PROVE TypeOK'
    <2>1. RowTypes' /\ RefreshTypes' /\ (view \in View)' /\ HistoryTypes'
        BY <1>0, <1>8, TypesKept DEF MarkTaken, server, marked, refresh, calls, history, spent
    <2>2. ServerTypes'
        <3>1. c.post \in Posts
            BY <1>0 DEF CallsTypes, Mark
        <3>2. c.post - 1 \in 0..MaxPosts
            BY <3>1 DEF Posts
        <3> QED BY <1>0, <1>8, <3>2 DEF MarkTaken, ServerTypes
    <2>3. CallsTypes'
        <3>1. [c EXCEPT !.taken = TRUE] \in Mark
            BY <1>0 DEF CallsTypes, Mark
        <3> QED BY <1>0, <1>8, <3>1 DEF MarkTaken, CallsTypes
    <2> QED BY <2>1, <2>2, <2>3 DEF TypeOK
<1>9. ASSUME NEW c \in follows, FollowTaken(c) PROVE TypeOK'
    <2>1. RowTypes' /\ RefreshTypes' /\ (view \in View)' /\ HistoryTypes'
        BY <1>0, <1>9, TypesKept DEF FollowTaken, server, marked, refresh, calls, history, spent
    <2>2. ServerTypes'
        <3>1. c.on \in BOOLEAN
            BY <1>0 DEF CallsTypes, Follow
        <3>2. FollowedAs(c.on) \in Event
            BY <3>1 DEF FollowedAs, Event
        <3>3. events' \in Seq(Event)
            BY <1>0, <1>9, <3>2, EmitsTypes DEF FollowTaken, ServerTypes
        <3> QED BY <1>0, <1>9, <3>1, <3>3 DEF FollowTaken, ServerTypes
    <2>3. CallsTypes'
        <3>1. [c EXCEPT !.taken = TRUE] \in Follow
            BY <1>0 DEF CallsTypes, Follow
        <3> QED BY <1>0, <1>9, <3>1 DEF FollowTaken, CallsTypes
    <2> QED BY <2>1, <2>2, <2>3 DEF TypeOK
<1>10. CASE HearPosted
    <2>1. CallsTypes' /\ (view \in View)'
        BY <1>0, <1>10, TypesKept DEF HearPosted, server, marked, refresh, calls, history, spent
    <2>2. ServerTypes'
        <3>1. events' \in Seq(Event)
            BY <1>0, <1>10 DEF HearPosted, ServerTypes
        <3> QED BY <1>0, <1>10, <3>1 DEF HearPosted, ServerTypes
    <2>3. RowTypes'
        <3>0. Head(events) \in Event
            BY <1>0, <1>10 DEF HearPosted, ServerTypes
        <3>1. Head(events).post \in 0..MaxPosts
            BY <3>0 DEF Event
        <3>2. row' \in Entry /\ Whole(row')
            BY <1>a, <1>10, <3>1, NoteIncomingType DEF HearPosted
        <3> QED BY <1>0, <1>10, <3>2 DEF HearPosted, RowTypes, Whole, marked
    <2>4. RefreshTypes'
        BY <1>0, <1>10, ScheduleTypes DEF HearPosted
    <2>5. HistoryTypes'
        <3>1. Head(events).post \in 1..posted
            <4>1. 1 \in 1..Len(events) /\ events[1] = Head(events)
                BY <1>0, <1>10 DEF HearPosted, ServerTypes
            <4> QED BY <1>10, <4>1 DEF HearPosted, CursorInv, EventsReal, Told
        <3> QED BY <1>0, <1>10, <3>1 DEF HearPosted, HistoryTypes, spent
    <2> QED BY <2>1, <2>2, <2>3, <2>4, <2>5 DEF TypeOK
<1>11. CASE HearChanged
    <2>1. RowTypes' /\ CallsTypes' /\ (view \in View)' /\ HistoryTypes'
        BY <1>0, <1>11, TypesKept DEF HearChanged, server, marked, refresh, calls, history, spent
    <2>2. ServerTypes'
        <3>0. changed' \in BOOLEAN
            BY <1>11 DEF HearChanged
        <3>1. UNCHANGED <<posted, viewed, followed, aged, events>>
            BY <1>11 DEF HearChanged
        <3>2. /\ posted \in 0..MaxPosts /\ viewed \in 0..MaxPosts /\ followed \in BOOLEAN
              /\ aged \in BOOLEAN /\ events \in Seq(Event)
            BY <1>0 DEF ServerTypes
        <3>3. /\ posted' \in 0..MaxPosts /\ viewed' \in 0..MaxPosts /\ followed' \in BOOLEAN
              /\ aged' \in BOOLEAN /\ events' \in Seq(Event)
            BY <3>1, <3>2
        <3> QED BY <3>0, <3>3 DEF ServerTypes
    <2>3. RefreshTypes'
        BY <1>0, <1>11, ScheduleTypes DEF HearChanged
    <2> QED BY <2>1, <2>2, <2>3 DEF TypeOK
<1>12. CASE HearFollowed
    <2>1. CallsTypes' /\ (view \in View)'
        BY <1>0, <1>12, TypesKept DEF HearFollowed, server, marked, refresh, calls, history, spent
    <2>2. ServerTypes'
        <3>1. events' \in Seq(Event)
            BY <1>0, <1>12 DEF HearFollowed, ServerTypes
        <3> QED BY <1>0, <1>12, <3>1 DEF HearFollowed, ServerTypes
    <2>3. RowTypes'
        BY <1>0, <1>12, NoEntryType DEF HearFollowed, FollowingChanged, RowTypes, Whole, marked
    <2>4. RefreshTypes'
        BY <1>0, <1>12, ScheduleTypes DEF HearFollowed, FollowingChanged
    <2>5. HistoryTypes'
        BY <1>0, <1>12 DEF HearFollowed, FollowingChanged, HistoryTypes, spent
    <2> QED BY <2>1, <2>2, <2>3, <2>4, <2>5 DEF TypeOK
<1>13. CASE Reconnected
    <2>1. RowTypes' /\ CallsTypes' /\ (view \in View)'
        BY <1>0, <1>13, TypesKept DEF Reconnected, server, marked, refresh, calls, history, spent
    <2>2. ServerTypes'
        <3>1. events' = << >> /\ changed' = FALSE /\ UNCHANGED <<posted, viewed, followed, aged>>
            BY <1>13 DEF Reconnected
        <3>2. << >> \in Seq(Event)
            OBVIOUS
        <3>3. /\ posted \in 0..MaxPosts /\ viewed \in 0..MaxPosts /\ followed \in BOOLEAN
              /\ aged \in BOOLEAN
            BY <1>0 DEF ServerTypes
        <3> QED BY <3>1, <3>2, <3>3 DEF ServerTypes
    <2>3. RefreshTypes'
        BY <1>0, <1>13, ScheduleTypes DEF Reconnected
    <2>4. HistoryTypes'
        BY <1>0, <1>13, ActTypes DEF Reconnected, HistoryTypes, history
    <2> QED BY <2>1, <2>2, <2>3, <2>4 DEF TypeOK
<1>14. CASE HistoryMerged
    <2>1. ServerTypes' /\ RowTypes' /\ RefreshTypes' /\ CallsTypes' /\ (view \in View)'
        BY <1>0, <1>14, TypesKept DEF HistoryMerged, server, marked, refresh, calls, history,
           spent
    <2>2. HistoryTypes'
        BY <1>0, <1>14, ActTypes DEF HistoryMerged, HistoryTypes, server, history, spent
    <2> QED BY <2>1, <2>2 DEF TypeOK
<1>15. CASE RefreshTimer
    <2>1. ServerTypes' /\ RowTypes' /\ CallsTypes' /\ (view \in View)' /\ HistoryTypes'
        BY <1>0, <1>15, TypesKept DEF RefreshTimer, server, marked, refresh, calls, history, spent
    <2>2. RefreshTypes'
        BY <1>0, <1>15, RefreshThreadsTypes DEF RefreshTimer
    <2> QED BY <2>1, <2>2 DEF TypeOK
<1>16. ASSUME NEW ok \in BOOLEAN, AllAnswered(ok) PROVE TypeOK'
    <2>1. ServerTypes' /\ RowTypes' /\ CallsTypes' /\ (view \in View)'
        BY <1>0, <1>16, TypesKept DEF AllAnswered, server, marked, refresh, calls, history, spent
    <2>2. RefreshTypes'
        <3>1. snapshot.all \in Summaries /\ NoThread \in Summaries
            BY <1>0, SummaryTypes DEF RefreshTypes, Snapshot
        <3>2. PICK t \in Summaries : t = IF ok THEN snapshot.all ELSE NoThread
            BY <3>1
        <3>3. snapshot' = [stage |-> "unread", all |-> t, unread |-> NoThread]
            BY <1>16, <3>2 DEF AllAnswered
        <3>4. snapshot' \in Snapshot /\ snapshot'.stage # "idle"
            BY <3>1, <3>3 DEF Snapshot
        <3> QED BY <1>0, <1>16, <3>4 DEF AllAnswered, RefreshTypes
    <2>3. HistoryTypes'
        <3>1. failed' \in BOOLEAN /\ acts' \in 0..MaxActs
            BY <1>0, <1>16, ActTypes DEF AllAnswered, HistoryTypes
        <3> QED BY <1>0, <1>16, <3>1 DEF AllAnswered, HistoryTypes, server, history
    <2> QED BY <2>1, <2>2, <2>3 DEF TypeOK
<1>17. ASSUME NEW ok \in BOOLEAN, UnreadAnswered(ok) PROVE TypeOK'
    <2>1. ServerTypes' /\ CallsTypes' /\ (view \in View)'
        BY <1>0, <1>17, TypesKept DEF UnreadAnswered, server, marked, refresh, calls, history,
           spent
    <2>2. RowTypes'
        <3>1. PICK t \in Summaries : row' = Applied(row, t)
            <4>1. snapshot.all \in Summaries /\ snapshot.unread \in Summaries
                BY <1>0 DEF RefreshTypes, Snapshot
            <4> QED BY <1>17, <4>1 DEF UnreadAnswered
        <3>2. row' \in Entry /\ Whole(row')
            BY <1>0, <1>a, <3>1, AppliedType DEF RowTypes
        <3> QED BY <1>0, <1>17, <3>2 DEF UnreadAnswered, RowTypes, Whole, marked
    <2>3. RefreshTypes'
        <3>1. NoSnapshot \in Snapshot
            BY <1>0, SummaryTypes DEF NoSnapshot, Snapshot
        <3> QED BY <1>0, <1>17, <3>1 DEF UnreadAnswered, RefreshTypes
    <2>4. HistoryTypes'
        <3>1. failed' \in BOOLEAN /\ acts' \in 0..MaxActs
            BY <1>0, <1>17, ActTypes DEF UnreadAnswered, HistoryTypes
        <3>2. told' \subseteq told
            BY <1>17 DEF UnreadAnswered
        <3> QED BY <1>0, <1>17, <3>1, <3>2 DEF UnreadAnswered, HistoryTypes, server
    <2> QED BY <2>1, <2>2, <2>3, <2>4 DEF TypeOK
<1>18. ASSUME NEW s \in Slots, NEW p \in Posts, Pass(p, s) PROVE TypeOK'
    <2>1. ServerTypes' /\ RefreshTypes'
        BY <1>0, <1>18, TypesKept DEF Pass, server, marked, refresh, calls, history, spent
    <2>2. RowTypes'
        <3>1. PICK c \in BOOLEAN : c = (\A h \in heard : h <= p)
            OBVIOUS
        <3> DEFINE r == ReadThrough(row, p, c)
        <3>2. r \in Entry /\ Whole(r)
            BY <1>a, <1>b, ReadThroughType
        <3>3. ReadToEnd(r) \in Entry /\ Whole(ReadToEnd(r))
            <4> HIDE DEF r
            <4> QED BY <3>2, ReadToEndType
        <3>4. row' = r \/ row' = ReadToEnd(r)
            BY <1>18, <3>1 DEF Pass
        <3> HIDE DEF r
        <3>5. row' \in Entry /\ Whole(row')
            BY <3>2, <3>3, <3>4
        <3> QED BY <1>0, <1>18, <3>5 DEF Pass, RowTypes, Whole, marked
    <2>r. \/ UNCHANGED <<reads, lowered, acts>>
          \/ \E t \in 0..MaxPosts : SendsRead(s, t)
        BY <1>18 DEF Pass
    <2>t. reads' \in [Slots -> Read] /\ lowered' \in BOOLEAN /\ acts' \in 0..MaxActs
        BY <1>0, <2>r, SendsTypes DEF CallsTypes, HistoryTypes
    <2>3. CallsTypes'
        BY <1>0, <1>18, <2>t DEF Pass, CallsTypes
    <2>4. (view \in View)'
        <3>1. PICK z \in 0..MaxPosts, n \in 0..MaxPosts : z = 0 /\ n = Larger(view.observed, p)
            <4>1. view.observed \in 0..MaxPosts /\ p \in 0..MaxPosts /\ 0 \in 0..MaxPosts
                BY <1>0 DEF View, Posts
            <4>2. Larger(view.observed, p) \in 0..MaxPosts
                BY <4>1, LargerType
            <4> QED BY <4>1, <4>2
        <3> DEFINE v == [view EXCEPT !.gate = z, !.observed = n]
        <3>2. v \in View
            BY <1>0 DEF View
        <3>3. view' = QueueProgress(v, p)
            BY <1>0, <1>18, <3>1 DEF Pass, View
        <3> HIDE DEF v
        <3> QED BY <3>2, <3>3, QueueProgressTypes
    <2>5. HistoryTypes'
        BY <1>0, <1>18, <2>t DEF Pass, HistoryTypes, server
    <2> QED BY <2>1, <2>2, <2>3, <2>4, <2>5 DEF TypeOK
<1>19. ASSUME NEW s \in Slots, Flush(s) PROVE TypeOK'
    <2>1. ServerTypes' /\ RowTypes' /\ RefreshTypes' /\ HistoryTypes'
        BY <1>0, <1>19, TypesKept DEF Flush, server, marked, refresh, calls, history, spent
    <2>2. CallsTypes'
        <3>1. PICK n \in 0..MaxPosts : n = view.observed
            BY <1>0 DEF View
        <3>2. [kind |-> "part", upTo |-> n, taken |-> FALSE, marks |-> FALSE, heard |-> TRUE] \in Read
            BY DEF Read
        <3> QED BY <1>0, <1>19, <3>1, <3>2 DEF Flush, CallsTypes
    <2>3. (view \in View)'
        BY <1>0, <1>19 DEF Flush, View
    <2> QED BY <2>1, <2>2, <2>3 DEF TypeOK
<1>20. ASSUME NEW s \in Slots, FullReplied(s) PROVE TypeOK'
    <2>1. ServerTypes' /\ (view \in View)' /\ HistoryTypes'
        BY <1>0, <1>20, TypesKept DEF FullReplied, server, marked, refresh, calls, history, spent
    <2>2. RowTypes'
        <3>1. (marker' = 0 /\ attention' = FALSE) \/ UNCHANGED marked
            BY <1>20 DEF FullReplied
        <3>2. row' = row /\ 0 \in 0..MaxPosts
            BY <1>20 DEF FullReplied
        <3> QED BY <1>0, <3>1, <3>2 DEF RowTypes, marked
    <2>3. RefreshTypes'
        BY <1>0, <1>20, ScheduleTypes DEF FullReplied
    <2>4. CallsTypes'
        BY <1>0, <1>20, NoReadType DEF FullReplied, CallsTypes
    <2> QED BY <2>1, <2>2, <2>3, <2>4 DEF TypeOK
<1>21. ASSUME NEW s \in Slots, FullFails(s) PROVE TypeOK'
    <2>1. ServerTypes' /\ (view \in View)'
        BY <1>0, <1>21, TypesKept DEF FullFails, server, marked, refresh, calls, history, spent
    <2>2. RowTypes'
        <3>1. row' \in Entry /\ Whole(row')
            BY <1>a, <1>21, NotPendingType DEF FullFails
        <3> QED BY <1>0, <1>21, <3>1 DEF FullFails, RowTypes, Whole, marked
    <2>3. RefreshTypes'
        BY <1>0, <1>21, ScheduleTypes DEF FullFails
    <2>4. CallsTypes'
        BY <1>0, <1>21, NoReadType DEF FullFails, CallsTypes
    <2>5. HistoryTypes'
        BY <1>0, <1>21, ActTypes DEF FullFails, HistoryTypes, server, history
    <2> QED BY <2>1, <2>2, <2>3, <2>4, <2>5 DEF TypeOK
<1>22. ASSUME NEW s \in Slots, NEW atEnd \in BOOLEAN, PartReplied(s, atEnd) PROVE TypeOK'
    <2>1. ServerTypes'
        BY <1>0, <1>22, TypesKept DEF PartReplied, server, marked, refresh, calls, history, spent
    <2>2. RowTypes'
        <3>1. row' = row \/ row' = ReadToEnd(row)
            BY <1>22 DEF PartReplied
        <3>2. row' \in Entry /\ Whole(row')
            BY <1>a, <3>1, ReadToEndType
        <3> QED BY <1>0, <1>22, <3>2 DEF PartReplied, RowTypes, Whole, marked
    <2>3. RefreshTypes'
        <3>1. CASE RefreshThreads
            BY <1>0, <1>22, <3>1, RefreshThreadsTypes DEF PartReplied
        <3>2. CASE UNCHANGED <<requested, snapshot>>
            BY <1>0, <1>22, <3>2 DEF PartReplied, RefreshTypes
        <3> QED BY <1>22, <3>1, <3>2 DEF PartReplied
    <2>r. \/ reads' = [reads EXCEPT ![s] = NoRead] /\ UNCHANGED <<lowered, acts>>
          \/ \E t \in 0..MaxPosts : SendsRead(s, t)
        BY <1>22 DEF PartReplied
    <2>t. reads' \in [Slots -> Read] /\ lowered' \in BOOLEAN /\ acts' \in 0..MaxActs
        BY <1>0, <2>r, NoReadType, SendsTypes DEF CallsTypes, HistoryTypes
    <2>4. CallsTypes'
        BY <1>0, <1>22, <2>t DEF PartReplied, CallsTypes
    <2>5. (view \in View)'
        <3>1. CASE view' = view
            BY <1>0, <3>1
        <3>2. CASE view' # view
          <4>1. PICK n \in 0..MaxPosts, c \in BOOLEAN :
                    /\ n = Larger(view.sent, reads[s].upTo)
                    /\ c = (view.due \/ (~atEnd /\ view.observed > reads[s].upTo))
            <5>1. view.sent \in 0..MaxPosts /\ reads[s].upTo \in 0..MaxPosts /\ view.due \in BOOLEAN
                BY <1>0 DEF View, CallsTypes, Read
            <5> QED BY <5>1, LargerType
          <4>2. view' = [view EXCEPT !.inFlight = FALSE, !.sent = n, !.due = c]
              BY <1>0, <1>22, <3>2, <4>1 DEF PartReplied, View
          <4> QED BY <1>0, <4>2 DEF View
        <3> QED BY <3>1, <3>2
    <2>6. HistoryTypes'
        BY <1>0, <1>22, <2>t DEF PartReplied, HistoryTypes, server
    <2> QED BY <2>1, <2>2, <2>3, <2>4, <2>5, <2>6 DEF TypeOK
<1>23. ASSUME NEW s \in Slots, NEW atEnd \in BOOLEAN, PartFails(s, atEnd) PROVE TypeOK'
    <2>1. ServerTypes' /\ RowTypes' /\ RefreshTypes'
        BY <1>0, <1>23, TypesKept DEF PartFails, server, marked, refresh, calls, history, spent
    <2>2. CallsTypes'
        BY <1>0, <1>23, NoReadType DEF PartFails, CallsTypes
    <2>3. (view \in View)'
        <3>1. CASE view' = view
            BY <1>0, <3>1
        <3>2. CASE view' # view
          <4>1. PICK c \in BOOLEAN : c = (view.due \/ ~atEnd)
              OBVIOUS
          <4>2. view' = [view EXCEPT !.inFlight = FALSE, !.due = c]
              BY <1>0, <1>23, <3>2, <4>1 DEF PartFails, View
          <4> QED BY <1>0, <4>2 DEF View
        <3> QED BY <3>1, <3>2
    <2>4. HistoryTypes'
        BY <1>0, <1>23, ActTypes DEF PartFails, HistoryTypes, server, history
    <2> QED BY <2>1, <2>2, <2>3, <2>4 DEF TypeOK
<1>24. CASE FlushNothing
    <2>1. ServerTypes' /\ RowTypes' /\ RefreshTypes' /\ CallsTypes' /\ HistoryTypes'
        BY <1>0, <1>24, TypesKept DEF FlushNothing, server, marked, refresh, calls, history, spent
    <2>2. (view \in View)'
        BY <1>0, <1>24 DEF FlushNothing, View
    <2> QED BY <2>1, <2>2 DEF TypeOK
<1>25. CASE MarkPostUnread
    <2>1. ServerTypes' /\ RowTypes' /\ RefreshTypes'
        BY <1>0, <1>25, TypesKept DEF MarkPostUnread, server, marked, refresh, calls, history,
           spent
    <2>2. CallsTypes'
        <3>1. PICK p \in heard : manual' = manual \cup {[post |-> p, taken |-> FALSE]}
            BY <1>25 DEF MarkPostUnread
        <3>2. [post |-> p, taken |-> FALSE] \in Mark
            BY <1>b DEF Mark
        <3>3. \A s \in Slots : [reads[s] EXCEPT !.heard = FALSE] \in Read
            BY <1>0 DEF CallsTypes, Read
        <3> QED BY <1>0, <1>25, <3>1, <3>2, <3>3 DEF MarkPostUnread, CallsTypes
    <2>3. (view \in View)'
        <3>1. PICK p \in heard : view' = [view EXCEPT !.gate = p, !.observed = 0, !.sent = 0, !.due = FALSE]
            BY <1>25 DEF MarkPostUnread
        <3>2. PICK z \in 0..MaxPosts : z = 0
            BY FollowingAssumption
        <3>3. p \in 0..MaxPosts
            BY <1>b DEF Posts
        <3>4. view' = [view EXCEPT !.gate = p, !.observed = z, !.sent = z, !.due = FALSE]
            BY <3>1, <3>2
        <3> QED BY <1>0, <3>3, <3>4 DEF View
    <2>4. HistoryTypes'
        BY <1>0, <1>25, ActTypes DEF MarkPostUnread, HistoryTypes, server, history
    <2> QED BY <2>1, <2>2, <2>3, <2>4 DEF TypeOK
<1>26. CASE MarkReplied
    <2>1. ServerTypes' /\ (view \in View)' /\ HistoryTypes'
        BY <1>0, <1>26, TypesKept DEF MarkReplied, server, marked, refresh, calls, history, spent
    <2>2. RowTypes'
        <3>1. PICK c \in manual : marker' = c.post /\ attention' = TRUE /\ row' = MarkedUnread(row, c.post)
            BY <1>26 DEF MarkReplied
        <3>2. c.post \in 0..MaxPosts
            BY <1>0 DEF CallsTypes, Mark, Posts
        <3>3. row' \in Entry /\ row'.present
            BY <1>a, <3>1, <3>2, MarkedUnreadType
        <3> QED BY <3>1, <3>2, <3>3 DEF RowTypes
    <2>3. RefreshTypes'
        <3>1. RefreshThreads /\ timer' = timer
            BY <1>26 DEF MarkReplied
        <3> QED BY <1>0, <3>1, RefreshThreadsTypes DEF RefreshTypes
    <2>4. CallsTypes'
        BY <1>0, <1>26 DEF MarkReplied, CallsTypes
    <2> QED BY <2>1, <2>2, <2>3, <2>4 DEF TypeOK
<1>27. CASE MarkFails
    <2>1. ServerTypes' /\ RowTypes' /\ RefreshTypes'
        BY <1>0, <1>27, TypesKept DEF MarkFails, server, marked, refresh, calls, history, spent
    <2>2. CallsTypes'
        BY <1>0, <1>27 DEF MarkFails, CallsTypes
    <2>3. (view \in View)'
        <3>1. PICK z \in 0..MaxPosts : z = 0
            BY FollowingAssumption
        <3>2. [view EXCEPT !.gate = z] \in View
            BY <1>0 DEF View
        <3> QED BY <1>0, <1>27, <3>1, <3>2 DEF MarkFails
    <2>4. HistoryTypes'
        BY <1>0, <1>27, ActTypes DEF MarkFails, HistoryTypes, server, history
    <2> QED BY <2>1, <2>2, <2>3, <2>4 DEF TypeOK
<1>28. CASE Unfollow
    <2>1. ServerTypes' /\ (view \in View)'
        BY <1>0, <1>28, TypesKept DEF Unfollow, server, marked, refresh, calls, history, spent
    <2>2. RowTypes'
        BY <1>0, <1>28, NoEntryType DEF Unfollow, FollowingChanged, RowTypes, Whole, marked
    <2>3. RefreshTypes'
        BY <1>0, <1>28, ScheduleTypes DEF Unfollow, FollowingChanged
    <2>4. CallsTypes'
        <3>1. [on |-> FALSE, taken |-> FALSE] \in Follow
            BY DEF Follow
        <3> QED BY <1>0, <1>28, <3>1 DEF Unfollow, CallsTypes
    <2>5. HistoryTypes'
        BY <1>0, <1>28, ActTypes DEF Unfollow, FollowingChanged, HistoryTypes, server
    <2> QED BY <2>1, <2>2, <2>3, <2>4, <2>5 DEF TypeOK
<1>29. CASE StartFollowing
    <2>1. ServerTypes' /\ RowTypes' /\ RefreshTypes' /\ (view \in View)'
        BY <1>0, <1>29, TypesKept DEF StartFollowing, server, marked, refresh, calls, history,
           spent
    <2>2. CallsTypes'
        <3>1. [on |-> TRUE, taken |-> FALSE] \in Follow
            BY DEF Follow
        <3> QED BY <1>0, <1>29, <3>1 DEF StartFollowing, CallsTypes
    <2>3. HistoryTypes'
        BY <1>0, <1>29, ActTypes DEF StartFollowing, HistoryTypes, server, history
    <2> QED BY <2>1, <2>2, <2>3 DEF TypeOK
<1>30. CASE FollowReplied
    <2>1. ServerTypes' /\ (view \in View)'
        BY <1>0, <1>30, TypesKept DEF FollowReplied, server, marked, refresh, calls, history,
           spent
    <2>2. RowTypes'
        BY <1>0, <1>30 DEF FollowReplied, FollowingChanged, RowTypes, marked
    <2>3. RefreshTypes'
        BY <1>0, <1>30, ScheduleTypes DEF FollowReplied, FollowingChanged
    <2>4. CallsTypes'
        BY <1>0, <1>30 DEF FollowReplied, CallsTypes
    <2>5. HistoryTypes'
        BY <1>0, <1>30 DEF FollowReplied, FollowingChanged, HistoryTypes, server, spent
    <2> QED BY <2>1, <2>2, <2>3, <2>4, <2>5 DEF TypeOK
<1>31. CASE FollowFails
    <2>1. ServerTypes' /\ RowTypes' /\ RefreshTypes' /\ (view \in View)'
        BY <1>0, <1>31, TypesKept DEF FollowFails, server, marked, refresh, calls, history, spent
    <2>2. CallsTypes'
        BY <1>0, <1>31 DEF FollowFails, CallsTypes
    <2>3. HistoryTypes'
        BY <1>0, <1>31, ActTypes DEF FollowFails, HistoryTypes, server, history
    <2> QED BY <2>1, <2>2, <2>3 DEF TypeOK
<1>32. CASE UNCHANGED vars
    BY <1>0, <1>32, TypesKept DEF vars, TypeOK, server, marked, refresh, calls, history, spent
<1> QED BY <1>1, <1>2, <1>3, <1>4, <1>5, <1>6, <1>7, <1>8, <1>9, <1>10, <1>11, <1>12, <1>13,
           <1>14, <1>15, <1>16, <1>17, <1>18, <1>19, <1>20, <1>21, <1>22, <1>23, <1>24, <1>25,
           <1>26, <1>27, <1>28, <1>29, <1>30, <1>31, <1>32 DEF Next, ServerStep, ClientStep

-----------------------------------------------------------------------------
(* The steps.                                                              *)

\* What the cursor's invariant says of types, in one place.
LEMMA CursorTypes ==
    ASSUME CursorInv
    PROVE  /\ posted \in Nat /\ events \in Seq(Event) /\ Len(events) \in Nat
           /\ heard \subseteq 1..posted /\ told \subseteq heard /\ row \in Entry /\ Whole(row)
           /\ heard \subseteq Posts
           /\ \A i \in 1..Len(events) : events[i] \in Event /\ events[i].post \in Nat
           /\ row.through \in Nat /\ row.first \in Nat
<1>1. ServerTypes /\ RowTypes /\ HistoryTypes
    BY DEF CursorInv, TypeOK
<1>2. posted \in 0..MaxPosts /\ events \in Seq(Event)
    BY <1>1 DEF ServerTypes
<1>3. \A i \in 1..Len(events) : events[i] \in Event
    BY <1>2
<1>4. heard \subseteq 1..posted /\ told \subseteq heard
    BY <1>1 DEF HistoryTypes
<1>5. row \in Entry /\ Whole(row)
    BY <1>1 DEF RowTypes, Whole
<1>6. row.through \in Nat /\ row.first \in Nat
    BY <1>5 DEF Entry
<1>7. \A i \in 1..Len(events) : events[i].post \in Nat
    BY <1>3 DEF Event
<1>8. heard \subseteq Posts
    BY <1>2, <1>4, FollowingAssumption DEF Posts
<1> QED BY <1>2, <1>3, <1>4, <1>5, <1>6, <1>7, <1>8

\* Events that are still under way after a step that told of nothing.
LEMMA EventsKept ==
    ASSUME CursorInv, UNCHANGED <<posted, heard>>, Len(events') \in Nat, NEW d \in 0..1,
           \A i \in 1..Len(events') : Told(events'[i]) =>
               i + d \in 1..Len(events) /\ events'[i] = events[i + d]
    PROVE  EventsReal' /\ EventsOrdered' /\ EventsNews'
<1>0. posted \in Nat /\ Len(events) \in Nat
    BY CursorTypes
<1>1. EventsReal'
    BY <1>0 DEF CursorInv, EventsReal
<1>2. EventsOrdered'
  <2> SUFFICES ASSUME NEW i \in 1..Len(events'), NEW j \in 1..Len(events'), i < j,
                      Told(events'[i]), Told(events'[j])
               PROVE  events'[i].post < events'[j].post
      BY DEF EventsOrdered
  <2>1. /\ i + d \in 1..Len(events) /\ j + d \in 1..Len(events) /\ i + d < j + d
        /\ events'[i] = events[i + d] /\ events'[j] = events[j + d]
      BY <1>0
  <2> QED BY <2>1 DEF CursorInv, EventsOrdered
<1>3. EventsNews'
    BY <1>0 DEF CursorInv, EventsNews
<1> QED BY <1>1, <1>2, <1>3

\* A row that is kept, removed, or given a cursor anew.
LEMMA RowKept ==
    ASSUME CursorInv, posted' = posted, NEW d \in 0..1,
           \A i \in 1..Len(events') : Told(events'[i]) =>
               i + d \in 1..Len(events) /\ events'[i] = events[i + d],
           \/ row' = row /\ told' = told
           \/ row' = NoEntry /\ told' = {}
           \/ row'.present /\ Keeps(row, row') /\ told' = told
    PROVE  NothingTold' /\ CursorAhead' /\ ResumeSkipsNothing'
<1>0. NothingTold /\ CursorAhead /\ ResumeSkipsNothing /\ Whole(row)
    BY CursorTypes DEF CursorInv
<1>1. CASE row' = row /\ told' = told
    BY <1>0, <1>1 DEF NothingTold, CursorAhead, ResumeSkipsNothing
<1>2. CASE row' = NoEntry /\ told' = {}
    BY <1>2 DEF NothingTold, CursorAhead, ResumeSkipsNothing, NoEntry
<1>3. CASE row'.present /\ Keeps(row, row') /\ told' = told
  <2>1. NothingTold'
      BY <1>3 DEF NothingTold
  <2>2. CASE row'.through = 0
      BY <2>1, <2>2 DEF CursorAhead, ResumeSkipsNothing
  <2>3. CASE row'.through # 0
    <3>1. row.through = row'.through /\ row.first = row'.first /\ row.resume = row'.resume
        BY <1>3, <2>3 DEF Keeps
    <3>2. row.present
        BY <1>0, <2>3, <3>1 DEF Whole, NoEntry
    <3>3. CursorAhead'
        BY <1>0, <2>3, <3>1, <3>2 DEF CursorAhead
    <3>4. ResumeSkipsNothing'
        BY <1>0, <1>3, <2>3, <3>1, <3>2 DEF ResumeSkipsNothing
    <3> QED BY <2>1, <3>3, <3>4
  <2> QED BY <2>2, <2>3
<1> QED BY <1>1, <1>2, <1>3

\* Most steps hear of nothing.
LEMMA CursorKept ==
    ASSUME CursorInv, TypeOK', UNCHANGED <<posted, heard>>, NEW d \in 0..1,
           \A i \in 1..Len(events') : Told(events'[i]) =>
               i + d \in 1..Len(events) /\ events'[i] = events[i + d],
           \/ row' = row /\ told' = told
           \/ row' = NoEntry /\ told' = {}
           \/ row'.present /\ Keeps(row, row') /\ told' = told
    PROVE  CursorInv'
<1>1. Len(events') \in Nat
    BY DEF TypeOK, ServerTypes
<1>2. EventsReal' /\ EventsOrdered' /\ EventsNews'
    BY <1>1, EventsKept
<1>3. NothingTold' /\ CursorAhead' /\ ResumeSkipsNothing'
    BY RowKept
<1> QED BY <1>2, <1>3 DEF CursorInv

\* Of these, the ones that leave the events alone too.
LEMMA CursorIdle ==
    ASSUME CursorInv, TypeOK', UNCHANGED <<posted, heard, events>>,
           \/ row' = row /\ told' = told
           \/ row' = NoEntry /\ told' = {}
           \/ row'.present /\ Keeps(row, row') /\ told' = told
    PROVE  CursorInv'
<1>1. Len(events) \in Nat
    BY CursorTypes
<1>2. \A i \in 1..Len(events') : Told(events'[i]) =>
          i + 0 \in 1..Len(events) /\ events'[i] = events[i + 0]
    BY <1>1
<1>3. 0 \in 0..1
    OBVIOUS
<1> QED BY <1>2, <1>3, CursorKept

\* The ones that send an event of the membership.
LEMMA CursorEmits ==
    ASSUME CursorInv, TypeOK', UNCHANGED <<posted, heard, row, told>>, NEW on,
           Emits(FollowedAs(on))
    PROVE  CursorInv'
<1>1. events \in Seq(Event) /\ Len(events) \in Nat /\ events' = Append(events, FollowedAs(on))
    BY CursorTypes DEF Emits
<1>2. /\ Len(events') = Len(events) + 1
      /\ \A i \in 1..Len(events) : events'[i] = events[i]
      /\ events'[Len(events) + 1] = FollowedAs(on)
    BY <1>1
<1>3. ~Told(FollowedAs(on))
    BY DEF Told, FollowedAs
<1>4. \A i \in 1..Len(events') : Told(events'[i]) => i \in 1..Len(events)
    BY <1>1, <1>2, <1>3
<1>5. \A i \in 1..Len(events') : Told(events'[i]) =>
          i + 0 \in 1..Len(events) /\ events'[i] = events[i + 0]
    BY <1>1, <1>2, <1>4
<1>6. 0 \in 0..1
    OBVIOUS
<1> QED BY <1>5, <1>6, CursorKept

\* A new reply is newer than all that is heard of.
LEMMA CursorReply == CursorInv /\ TypeOK' /\ SomebodyReplies => CursorInv'
<1> SUFFICES ASSUME CursorInv, TypeOK', SomebodyReplies PROVE CursorInv'
    OBVIOUS
<1> DEFINE n == Len(events)
<1>0. /\ posted \in Nat /\ events \in Seq(Event) /\ n \in Nat /\ heard \subseteq 1..posted
      /\ told \subseteq heard
    BY CursorTypes
<1>1. /\ posted' = posted + 1 /\ events' = Append(events, Posted(posted + 1))
      /\ heard' = heard /\ row' = row /\ told' = told
    BY DEF SomebodyReplies, Emits, history
<1>2. /\ Len(events') = n + 1 /\ \A i \in 1..n : events'[i] = events[i]
      /\ events'[n + 1] = Posted(posted + 1)
    BY <1>0, <1>1
<1>3. events'[n + 1].post = posted + 1
    BY <1>2 DEF Posted
<1>4. \A i \in 1..Len(events') : i \in 1..n \/ i = n + 1
    BY <1>0, <1>2
<1>5. \A i \in 1..n : Told(events[i]) => events[i].post \in 1..posted
    BY DEF CursorInv, EventsReal
<1> HIDE DEF n
<1>6. EventsReal'
  <2> SUFFICES ASSUME NEW i \in 1..Len(events'), Told(events'[i])
               PROVE  events'[i].post \in 1..posted'
      BY DEF EventsReal
  <2>1. CASE i \in 1..n
      BY <1>0, <1>1, <1>2, <1>5, <2>1
  <2>2. CASE i = n + 1
      BY <1>0, <1>1, <1>3, <2>2
  <2> QED BY <1>4, <2>1, <2>2
<1>7. EventsOrdered'
  <2> SUFFICES ASSUME NEW i \in 1..Len(events'), NEW j \in 1..Len(events'), i < j,
                      Told(events'[i]), Told(events'[j])
               PROVE  events'[i].post < events'[j].post
      BY DEF EventsOrdered
  <2>1. i \in 1..n
      BY <1>0, <1>2, <1>4
  <2>2. CASE j \in 1..n
      BY <1>2, <2>1, <2>2 DEF CursorInv, EventsOrdered, n
  <2>3. CASE j = n + 1
      BY <1>0, <1>2, <1>3, <1>5, <2>1, <2>3
  <2> QED BY <1>4, <2>2, <2>3
<1>8. EventsNews'
  <2> SUFFICES ASSUME NEW i \in 1..Len(events'), Told(events'[i])
               PROVE  (\A h \in heard' : h < events'[i].post) \/ 1..events'[i].post \subseteq heard'
      BY DEF EventsNews
  <2>1. CASE i \in 1..n
      BY <1>1, <1>2, <2>1 DEF CursorInv, EventsNews, n
  <2>2. CASE i = n + 1
      BY <1>0, <1>1, <1>3, <2>2
  <2> QED BY <1>4, <2>1, <2>2
<1>9. NothingTold' /\ ResumeSkipsNothing'
    BY <1>1 DEF CursorInv, NothingTold, ResumeSkipsNothing
<1>10. CursorAhead'
  <2> SUFFICES ASSUME row.present, row.through # 0, row.resume = "FirstUnread"
               PROVE  /\ row.first <= posted'
                      /\ \A i \in 1..Len(events') : Told(events'[i]) =>
                             events'[i].post <= row.through \/ row.first <= events'[i].post
      BY <1>1 DEF CursorAhead
  <2>1. /\ row.first <= posted /\ row.first \in Nat
        /\ \A i \in 1..n : Told(events[i]) =>
               events[i].post <= row.through \/ row.first <= events[i].post
      BY CursorTypes DEF CursorInv, CursorAhead, n
  <2>2. row.first <= posted'
      BY <1>0, <1>1, <2>1
  <2>3. ASSUME NEW i \in 1..Len(events'), Told(events'[i])
        PROVE  events'[i].post <= row.through \/ row.first <= events'[i].post
    <3>1. CASE i \in 1..n
        BY <1>2, <2>1, <2>3, <3>1
    <3>2. CASE i = n + 1
        BY <1>0, <1>3, <2>1, <3>2
    <3> QED BY <1>4, <3>1, <3>2
  <2> QED BY <2>2, <2>3
<1> QED BY <1>6, <1>7, <1>8, <1>9, <1>10 DEF CursorInv

\* A reply that is heard lies at or beyond the cursor, or is read already.
LEMMA CursorHear == CursorInv /\ TypeOK' /\ HearPosted => CursorInv'
<1> SUFFICES ASSUME CursorInv, TypeOK', HearPosted PROVE CursorInv'
    OBVIOUS
<1> DEFINE n == Len(events)
           q == events[1].post
<1>0. /\ posted \in Nat /\ events \in Seq(Event) /\ n \in Nat /\ heard \subseteq 1..posted
      /\ told \subseteq heard /\ row \in Entry /\ Whole(row)
      /\ \A i \in 1..n : events[i].post \in Nat
      /\ row.through \in Nat /\ row.first \in Nat
    BY CursorTypes
<1>1. n >= 1 /\ events[1] = Head(events)
    BY <1>0 DEF HearPosted
<1>2. /\ events' = Tail(events) /\ posted' = posted /\ heard' = heard \cup {q}
      /\ row' = NoteIncoming(row, q)
      /\ told' = IF row.present THEN told \cup {q} ELSE told
    BY <1>1 DEF HearPosted
<1>3. Len(events') = n - 1 /\ \A i \in 1..(n - 1) : events'[i] = events[i + 1]
    BY <1>0, <1>1, <1>2
<1>4. Told(events[1]) /\ q \in 1..posted
  <2>1. Told(events[1])
      BY <1>1 DEF HearPosted, Told
  <2> QED BY <1>0, <1>1, <2>1 DEF CursorInv, EventsReal
<1>5. \A i \in 2..n : Told(events[i]) => q < events[i].post
    BY <1>0, <1>1, <1>4 DEF CursorInv, EventsOrdered
<1>6. \A i \in 1..Len(events') : i + 1 \in 2..n /\ i + 1 \in 1..n /\ events'[i] = events[i + 1]
    BY <1>0, <1>3
<1>7. /\ row'.present = row.present /\ row'.through = row.through
      /\ IF row.present /\ row.resume = "AtEnd" /\ (row.through = 0 \/ q > row.through)
         THEN row'.resume = "FirstUnread" /\ row'.first = q
         ELSE row' = row
  <2>1. posted \in 0..MaxPosts
      BY DEF CursorInv, TypeOK, ServerTypes
  <2>2. q \in 0..MaxPosts
      BY <1>0, <1>4, <2>1, FollowingAssumption
  <2> HIDE DEF q
  <2> QED BY <1>0, <1>2, <2>2, NoteIncomingType
<1>8. \A t \in told : t \in Nat
    BY <1>0
<1>9. \A i \in 1..n : Told(events[i]) =>
          (\A h \in heard : h < events[i].post) \/ 1..events[i].post \subseteq heard
    BY DEF CursorInv, EventsNews
<1>10. EventsReal' /\ EventsOrdered'
  <2>1. EventsReal'
      BY <1>2, <1>6 DEF CursorInv, EventsReal
  <2>2. EventsOrdered'
    <3> SUFFICES ASSUME NEW i \in 1..Len(events'), NEW j \in 1..Len(events'), i < j,
                        Told(events'[i]), Told(events'[j])
                 PROVE  events'[i].post < events'[j].post
        BY DEF EventsOrdered
    <3>1. i + 1 \in 1..n /\ j + 1 \in 1..n /\ i + 1 < j + 1
        BY <1>0, <1>3, <1>6
    <3> QED BY <1>6, <3>1 DEF CursorInv, EventsOrdered
  <2> QED BY <2>1, <2>2
<1> HIDE DEF q, n
<1>11. EventsNews'
  <2> SUFFICES ASSUME NEW i \in 1..Len(events'), Told(events'[i])
               PROVE  (\A h \in heard' : h < events'[i].post) \/ 1..events'[i].post \subseteq heard'
      BY DEF EventsNews
  <2>1. Told(events[i + 1]) /\ events'[i].post = events[i + 1].post /\ i + 1 \in 1..n
        /\ q < events'[i].post
      BY <1>5, <1>6
  <2>2. CASE \A h \in heard : h < events[i + 1].post
      BY <1>2, <2>1, <2>2
  <2>3. CASE 1..events[i + 1].post \subseteq heard
      BY <1>2, <2>1, <2>3
  <2> QED BY <1>9, <2>1, <2>2, <2>3
<1>12. NothingTold'
    BY <1>2, <1>7 DEF CursorInv, NothingTold
<1>13. CASE row.present /\ row.through # 0 /\ row.resume = "AtEnd" /\ q > row.through
  <2>1. row'.resume = "FirstUnread" /\ row'.first = q /\ told' = told \cup {q}
      BY <1>2, <1>7, <1>13
  <2>2. \A t \in told : t <= row.through
      BY <1>13 DEF CursorInv, ResumeSkipsNothing
  <2>3. CursorAhead'
    <3>1. \A i \in 1..Len(events') : Told(events'[i]) => q <= events'[i].post
        BY <1>0, <1>4, <1>5, <1>6
    <3> QED BY <1>0, <1>2, <1>4, <2>1, <3>1 DEF CursorAhead
  <2>4. ResumeSkipsNothing'
      BY <1>0, <1>4, <1>7, <1>8, <1>13, <2>1, <2>2 DEF ResumeSkipsNothing
  <2> QED BY <1>10, <1>11, <1>12, <2>3, <2>4 DEF CursorInv
<1>14. CASE ~(row.present /\ row.through # 0 /\ row.resume = "AtEnd" /\ q > row.through)
  <2>1. row'.through = 0 \/ row' = row
      BY <1>7, <1>14
  <2>2. CASE row'.through = 0
      BY <1>10, <1>11, <1>12, <2>2 DEF CursorInv, CursorAhead, ResumeSkipsNothing
  <2>3. CASE row' = row
    <3>1. CursorAhead'
        BY <1>2, <1>6, <2>3 DEF CursorInv, CursorAhead, n
    <3>2. ResumeSkipsNothing'
      <4> SUFFICES ASSUME row.present, row.through # 0
                   PROVE  /\ row.resume = "AtEnd" => \A t \in told' : t <= row.through
                          /\ row.resume = "FirstUnread" =>
                                /\ row.through < row.first
                                /\ \A t \in told' : t <= row.through \/ row.first <= t
          BY <2>3 DEF ResumeSkipsNothing
      <4>1. told' = told \cup {q}
          BY <1>2
      <4>2. row.resume = "AtEnd" => q <= row.through
          BY <1>0, <1>4, <1>14
      <4>3. row.resume = "FirstUnread" => q <= row.through \/ row.first <= q
          BY <1>0, <1>1, <1>4 DEF CursorInv, CursorAhead, n, q
      <4>4. /\ row.resume = "AtEnd" => \A t \in told : t <= row.through
            /\ row.resume = "FirstUnread" =>
                  /\ row.through < row.first
                  /\ \A t \in told : t <= row.through \/ row.first <= t
          BY DEF CursorInv, ResumeSkipsNothing
      <4> QED BY <4>1, <4>2, <4>3, <4>4
    <3> QED BY <1>10, <1>11, <1>12, <3>1, <3>2 DEF CursorInv
  <2> QED BY <2>1, <2>2, <2>3
<1> QED BY <1>13, <1>14

\* A page of the thread brings all replies the server has.
LEMMA CursorMerge == CursorInv /\ TypeOK' /\ HistoryMerged => CursorInv'
<1> SUFFICES ASSUME CursorInv, TypeOK', HistoryMerged PROVE CursorInv'
    OBVIOUS
<1>0. posted \in Nat /\ Len(events) \in Nat
    BY CursorTypes
<1>1. heard' = 1..posted /\ UNCHANGED <<posted, events, row, told>>
    BY DEF HistoryMerged, server, history
<1>2. EventsReal' /\ EventsOrdered'
    BY <1>1 DEF CursorInv, EventsReal, EventsOrdered
<1>3. EventsNews'
  <2> SUFFICES ASSUME NEW i \in 1..Len(events), Told(events[i])
               PROVE  1..events[i].post \subseteq 1..posted
      BY <1>1 DEF EventsNews
  <2>1. events[i].post \in 1..posted
      BY DEF CursorInv, EventsReal
  <2> QED BY <1>0, <2>1
<1>4. NothingTold' /\ CursorAhead' /\ ResumeSkipsNothing'
    BY <1>1 DEF CursorInv, NothingTold, CursorAhead, ResumeSkipsNothing
<1> QED BY <1>2, <1>3, <1>4 DEF CursorInv

\* A pass sets the boundary at a reply in memory, and the cursor at the next one.
LEMMA CursorPass ==
    ASSUME CursorInv, TypeOK', NEW s \in Slots, NEW p \in Posts, Pass(p, s)
    PROVE  CursorInv'
<1>0. /\ posted \in Nat /\ Len(events) \in Nat /\ heard \subseteq 1..posted
      /\ told \subseteq heard /\ row \in Entry /\ Whole(row) /\ heard \subseteq Posts
      /\ \A i \in 1..Len(events) : events[i].post \in Nat
    BY CursorTypes
<1>1. UNCHANGED <<posted, events, heard, told>> /\ p \in Nat
    BY DEF Pass, server, Posts
<1>2. PICK c \in BOOLEAN : c = (\A h \in heard : h <= p)
    OBVIOUS
<1> DEFINE r == ReadThrough(row, p, c)
<1>3. row' = r \/ row' = ReadToEnd(r)
    BY <1>2 DEF Pass
<1>4. /\ r \in Entry /\ Whole(r) /\ r.present = row.present
      /\ \/ r = row
         \/ /\ r.through = p
            /\ r.resume = "AtEnd" => \A h \in heard : h <= p
            /\ r.resume = "FirstUnread" =>
                  /\ r.first \in heard /\ p < r.first
                  /\ \A h \in heard : h <= p \/ r.first <= h
    BY <1>0, ReadThroughType
<1> HIDE DEF r
<1>5. SameCursor(r, row')
    BY <1>3, <1>4, ReadToEndType DEF SameCursor
<1>6. EventsReal' /\ EventsOrdered' /\ EventsNews'
    BY <1>1 DEF CursorInv, EventsReal, EventsOrdered, EventsNews
<1>7. NothingTold'
    BY <1>1, <1>4, <1>5 DEF CursorInv, NothingTold, SameCursor
<1>8. CASE r = row
  <2>1. CursorAhead' /\ ResumeSkipsNothing'
      BY <1>1, <1>5, <1>8 DEF CursorInv, SameCursor, CursorAhead, ResumeSkipsNothing
  <2> QED BY <1>6, <1>7, <2>1 DEF CursorInv
<1>9. CASE /\ r.through = p
           /\ r.resume = "AtEnd" => \A h \in heard : h <= p
           /\ r.resume = "FirstUnread" =>
                 /\ r.first \in heard /\ p < r.first
                 /\ \A h \in heard : h <= p \/ r.first <= h
  <2>1. ResumeSkipsNothing'
      BY <1>0, <1>1, <1>5, <1>9 DEF SameCursor, ResumeSkipsNothing
  <2>2. CursorAhead'
    <3> SUFFICES ASSUME r.resume = "FirstUnread"
                 PROVE  /\ r.first <= posted
                        /\ \A i \in 1..Len(events) : Told(events[i]) =>
                               events[i].post <= p \/ r.first <= events[i].post
        BY <1>1, <1>5, <1>9 DEF SameCursor, CursorAhead
    <3>1. r.first \in heard /\ r.first \in Nat /\ r.first <= posted
        BY <1>0, <1>9
    <3>2. ASSUME NEW i \in 1..Len(events), Told(events[i])
          PROVE  events[i].post <= p \/ r.first <= events[i].post
      <4>1. events[i].post \in 1..posted
          BY <3>2 DEF CursorInv, EventsReal
      <4>2. CASE \A h \in heard : h < events[i].post
          BY <1>0, <3>1, <4>1, <4>2
      <4>3. CASE 1..events[i].post \subseteq heard
        <5>1. events[i].post \in heard
            BY <1>0, <4>1, <4>3
        <5> QED BY <1>9, <5>1
      <4> QED BY <3>2, <4>2, <4>3 DEF CursorInv, EventsNews
    <3> QED BY <3>1, <3>2
  <2> QED BY <1>6, <1>7, <2>1, <2>2 DEF CursorInv
<1> QED BY <1>4, <1>8, <1>9

\* A row with the cursor it had is kept.
LEMMA SameIsKept ==
    ASSUME Whole(row), Whole(row'), SameCursor(row, row'), told' = told
    PROVE  \/ row' = row /\ told' = told
           \/ row' = NoEntry /\ told' = {}
           \/ row'.present /\ Keeps(row, row') /\ told' = told
BY DEF Whole, SameCursor, Keeps

\* The invariant holds at the start.
LEMMA CursorInit == Init => CursorInv
<1> SUFFICES ASSUME Init PROVE CursorInv
    OBVIOUS
<1>1. TypeOK
    BY TypesInit
<1>2. events = << >> /\ row = NoEntry /\ told = {}
    BY DEF Init
<1>3. EventsReal /\ EventsOrdered /\ EventsNews
    BY <1>2 DEF EventsReal, EventsOrdered, EventsNews
<1>4. NothingTold /\ CursorAhead /\ ResumeSkipsNothing
    BY <1>2 DEF NothingTold, CursorAhead, ResumeSkipsNothing, NoEntry
<1> QED BY <1>1, <1>3, <1>4 DEF CursorInv

\* Every step keeps the cursor's invariant.
LEMMA CursorStep == CursorInv /\ [Next]_vars => CursorInv'
<1> SUFFICES ASSUME CursorInv, [Next]_vars PROVE CursorInv'
    OBVIOUS
<1>0. TypeOK'
    BY TypesStep
<1>a. row \in Entry /\ Whole(row) /\ row' \in Entry /\ Whole(row')
    BY <1>0, CursorTypes DEF TypeOK, RowTypes, Whole
<1>1. CASE SomebodyReplies
    BY <1>0, <1>1, CursorReply
<1>2. CASE ReadElsewhere
    <2>1. UNCHANGED <<posted, heard, events, row, told>>
        BY <1>2 DEF ReadElsewhere, history
    <2> QED BY <1>0, <2>1, CursorIdle
<1>3. CASE OthersMove
    <2>1. UNCHANGED <<posted, heard, events, row, told>>
        BY <1>3 DEF OthersMove, history
    <2> QED BY <1>0, <2>1, CursorIdle
<1>4. CASE FollowedElsewhere
    <2>1. UNCHANGED <<posted, heard, row, told>> /\ Emits(FollowedAs(~followed))
        BY <1>4 DEF FollowedElsewhere, history
    <2> QED BY <1>0, <2>1, CursorEmits
<1>5. CASE AllRead
    <2>1. UNCHANGED <<posted, heard, events, row, told>>
        BY <1>5 DEF AllRead, server, history
    <2> QED BY <1>0, <2>1, CursorIdle
<1>6. CASE UnreadRead
    <2>1. UNCHANGED <<posted, heard, events, row, told>>
        BY <1>6 DEF UnreadRead, server, history
    <2> QED BY <1>0, <2>1, CursorIdle
<1>7. ASSUME NEW s \in Slots, ReadTaken(s) PROVE CursorInv'
    <2>1. UNCHANGED <<posted, heard, events, row, told>>
        BY <1>7 DEF ReadTaken
    <2> QED BY <1>0, <2>1, CursorIdle
<1>8. ASSUME NEW c \in manual, MarkTaken(c) PROVE CursorInv'
    <2>1. UNCHANGED <<posted, heard, events, row, told>>
        BY <1>8 DEF MarkTaken, history
    <2> QED BY <1>0, <2>1, CursorIdle
<1>9. ASSUME NEW c \in follows, FollowTaken(c) PROVE CursorInv'
    <2>1. UNCHANGED <<posted, heard, row, told>> /\ Emits(FollowedAs(c.on))
        BY <1>9 DEF FollowTaken, history
    <2> QED BY <1>0, <2>1, CursorEmits
<1>10. CASE HearPosted
    BY <1>0, <1>10, CursorHear
<1>11. CASE HearChanged
    <2>1. UNCHANGED <<posted, heard, events, row, told>>
        BY <1>11 DEF HearChanged, history
    <2> QED BY <1>0, <2>1, CursorIdle
<1>12. CASE HearFollowed
    <2>1. /\ events' = Tail(events) /\ events # << >> /\ UNCHANGED <<posted, heard>>
          /\ (row' = row /\ told' = told) \/ (row' = NoEntry /\ told' = {})
        BY <1>12 DEF HearFollowed, FollowingChanged
    <2>2. events \in Seq(Event) /\ Len(events) \in Nat
        BY CursorTypes
    <2>3. \A i \in 1..Len(events') : Told(events'[i]) =>
              i + 1 \in 1..Len(events) /\ events'[i] = events[i + 1]
        BY <2>1, <2>2
    <2>4. 1 \in 0..1
        OBVIOUS
    <2> QED BY <1>0, <2>1, <2>3, <2>4, CursorKept
<1>13. CASE Reconnected
    <2>1. events' = << >> /\ UNCHANGED <<posted, heard, row, told>>
        BY <1>13 DEF Reconnected, history
    <2>2. \A i \in 1..Len(events') : Told(events'[i]) =>
              i + 0 \in 1..Len(events) /\ events'[i] = events[i + 0]
        BY <2>1
    <2>3. 0 \in 0..1
        OBVIOUS
    <2> QED BY <1>0, <2>1, <2>2, <2>3, CursorKept
<1>14. CASE HistoryMerged
    BY <1>0, <1>14, CursorMerge
<1>15. CASE RefreshTimer
    <2>1. UNCHANGED <<posted, heard, events, row, told>>
        BY <1>15 DEF RefreshTimer, server, history
    <2> QED BY <1>0, <2>1, CursorIdle
<1>16. ASSUME NEW ok \in BOOLEAN, AllAnswered(ok) PROVE CursorInv'
    <2>1. UNCHANGED <<posted, heard, events, row, told>>
        BY <1>16 DEF AllAnswered, server, history
    <2> QED BY <1>0, <2>1, CursorIdle
<1>17. ASSUME NEW ok \in BOOLEAN, UnreadAnswered(ok) PROVE CursorInv'
    <2>1. UNCHANGED <<posted, heard, events>>
        BY <1>17 DEF UnreadAnswered, server
    <2>2. PICK t \in Summaries :
              /\ row' = Applied(row, t)
              /\ told' = IF row.present /\ ~(t.there \/ attention) THEN {} ELSE told
      <3>1. snapshot.all \in Summaries /\ snapshot.unread \in Summaries
          BY DEF CursorInv, TypeOK, RefreshTypes, Snapshot
      <3> QED BY <1>17, <3>1 DEF UnreadAnswered
    <2>3. attention \in BOOLEAN /\ marker \in 0..MaxPosts
        BY DEF CursorInv, TypeOK, RowTypes
    <2>4. /\ t.there => row'.present /\ Keeps(row, row')
          /\ ~t.there => row' = IF attention THEN row ELSE NoEntry
        BY <1>a, <2>2, <2>3, AppliedType
    <2>5. ~row.present => told = {}
        BY DEF CursorInv, NothingTold
    <2>6. CASE t.there
      <3>1. row'.present /\ Keeps(row, row') /\ told' = told
          BY <2>2, <2>4, <2>6
      <3> QED BY <1>0, <2>1, <3>1, CursorIdle
    <2>7. CASE ~t.there /\ attention
      <3>1. row' = row /\ told' = told
          BY <2>2, <2>4, <2>7
      <3> QED BY <1>0, <2>1, <3>1, CursorIdle
    <2>8. CASE ~t.there /\ ~attention
      <3>1. row' = NoEntry /\ told' = {}
          BY <2>2, <2>4, <2>5, <2>8
      <3> QED BY <1>0, <2>1, <3>1, CursorIdle
    <2> QED BY <2>6, <2>7, <2>8
<1>18. ASSUME NEW s \in Slots, NEW p \in Posts, Pass(p, s) PROVE CursorInv'
    BY <1>0, <1>18, CursorPass
<1>19. ASSUME NEW s \in Slots, Flush(s) PROVE CursorInv'
    <2>1. UNCHANGED <<posted, heard, events, row, told>>
        BY <1>19 DEF Flush, server, history
    <2> QED BY <1>0, <2>1, CursorIdle
<1>20. ASSUME NEW s \in Slots, FullReplied(s) PROVE CursorInv'
    <2>1. UNCHANGED <<posted, heard, events, row, told>>
        BY <1>20 DEF FullReplied, server, history
    <2> QED BY <1>0, <2>1, CursorIdle
<1>21. ASSUME NEW s \in Slots, FullFails(s) PROVE CursorInv'
    <2>1. /\ UNCHANGED <<posted, heard, events>> /\ told' = told
          /\ row' = [row EXCEPT !.pending = FALSE, !.ackAt = 0]
        BY <1>21 DEF FullFails, server, history
    <2>2. SameCursor(row, row')
        BY <1>a, <2>1, NotPendingType
    <2> QED BY <1>0, <1>a, <2>1, <2>2, SameIsKept, CursorIdle
<1>22. ASSUME NEW s \in Slots, NEW atEnd \in BOOLEAN, PartReplied(s, atEnd) PROVE CursorInv'
    <2>1. /\ UNCHANGED <<posted, heard, events>> /\ told' = told
          /\ row' = row \/ row' = ReadToEnd(row)
        BY <1>22 DEF PartReplied, server
    <2>2. SameCursor(row, row')
      <3>1. SameCursor(row, row)
          BY DEF SameCursor
      <3> QED BY <1>a, <2>1, <3>1, ReadToEndType
    <2> QED BY <1>0, <1>a, <2>1, <2>2, SameIsKept, CursorIdle
<1>23. ASSUME NEW s \in Slots, NEW atEnd \in BOOLEAN, PartFails(s, atEnd) PROVE CursorInv'
    <2>1. UNCHANGED <<posted, heard, events, row, told>>
        BY <1>23 DEF PartFails, server, history
    <2> QED BY <1>0, <2>1, CursorIdle
<1>24. CASE FlushNothing
    <2>1. UNCHANGED <<posted, heard, events, row, told>>
        BY <1>24 DEF FlushNothing, server, history
    <2> QED BY <1>0, <2>1, CursorIdle
<1>25. CASE MarkPostUnread
    <2>1. UNCHANGED <<posted, heard, events, row, told>>
        BY <1>25 DEF MarkPostUnread, server, history
    <2> QED BY <1>0, <2>1, CursorIdle
<1>26. CASE MarkReplied
    <2>1. /\ UNCHANGED <<posted, heard, events>> /\ told' = told
          /\ \E c \in manual : row' = MarkedUnread(row, c.post)
        BY <1>26 DEF MarkReplied, server, history
    <2>2. \A c \in manual : c.post \in 0..MaxPosts
      <3>1. manual \subseteq Mark
          BY DEF CursorInv, TypeOK, CallsTypes
      <3> QED BY <3>1, FollowingAssumption DEF Mark, Posts
    <2>3. row'.present /\ row'.through = 0
        BY <1>a, <2>1, <2>2, MarkedUnreadType
    <2>4. Keeps(row, row')
        BY <2>3 DEF Keeps
    <2> QED BY <1>0, <2>1, <2>3, <2>4, CursorIdle
<1>27. CASE MarkFails
    <2>1. UNCHANGED <<posted, heard, events, row, told>>
        BY <1>27 DEF MarkFails, server, history
    <2> QED BY <1>0, <2>1, CursorIdle
<1>28. CASE Unfollow
    <2>1. /\ UNCHANGED <<posted, heard, events>>
          /\ (row' = row /\ told' = told) \/ (row' = NoEntry /\ told' = {})
        BY <1>28 DEF Unfollow, FollowingChanged, server
    <2> QED BY <1>0, <2>1, CursorIdle
<1>29. CASE StartFollowing
    <2>1. UNCHANGED <<posted, heard, events, row, told>>
        BY <1>29 DEF StartFollowing, server, history
    <2> QED BY <1>0, <2>1, CursorIdle
<1>30. CASE FollowReplied
    <2>1. /\ UNCHANGED <<posted, heard, events>>
          /\ (row' = row /\ told' = told) \/ (row' = NoEntry /\ told' = {})
        BY <1>30 DEF FollowReplied, FollowingChanged, server
    <2> QED BY <1>0, <2>1, CursorIdle
<1>31. CASE FollowFails
    <2>1. UNCHANGED <<posted, heard, events, row, told>>
        BY <1>31 DEF FollowFails, server, history
    <2> QED BY <1>0, <2>1, CursorIdle
<1>32. CASE UNCHANGED vars
    <2>1. UNCHANGED <<posted, heard, events, row, told>>
        BY <1>32 DEF vars, server, history
    <2> QED BY <1>0, <2>1, CursorIdle
<1> QED BY <1>1, <1>2, <1>3, <1>4, <1>5, <1>6, <1>7, <1>8, <1>9, <1>10, <1>11, <1>12, <1>13,
           <1>14, <1>15, <1>16, <1>17, <1>18, <1>19, <1>20, <1>21, <1>22, <1>23, <1>24, <1>25,
           <1>26, <1>27, <1>28, <1>29, <1>30, <1>31, <1>32 DEF Next, ServerStep, ClientStep

-----------------------------------------------------------------------------
(* The theorems.                                                           *)

\* The cursor's invariant holds in every state.
LEMMA CursorHolds == Spec => []CursorInv
BY CursorInit, CursorStep, PTL DEF Spec

\* FollowingModel's members and the calls under way have their types; a row that
\* is not there keeps no cursor, and a refresh that is asked for during another
\* one waits for it.
THEOREM FollowingTyped == Spec => []TypeOK
<1>1. CursorInv => TypeOK
    BY DEF CursorInv
<1> QED BY <1>1, CursorHolds, PTL

\* Whatever is read, marked, lost or asked for again, and in what order it is
\* answered: the place to resume a thread at has no reply before it that an event
\* told of and that is not read.
THEOREM NoReplySkipped == Spec => []ResumeSkipsNothing
<1>1. CursorInv => ResumeSkipsNothing
    BY DEF CursorInv
<1> QED BY <1>1, CursorHolds, PTL

-----------------------------------------------------------------------------
(* The row tells what the server has.  While something is under way that   *)
(* makes the model refresh, nothing is asked of the row; a snapshot that   *)
(* nothing is under way behind is what the server has; and so is the row   *)
(* once it is applied, because what this client did itself and holds on to *)
(* is true by then: an acknowledgement that stands was taken by the        *)
(* server, unless its boundary has moved back since, and attention that    *)
(* stands is a mark that was not read again.                               *)

\* Something will ask for another refresh.
Coming ==
    \/ timer \/ requested \/ events # << >> \/ changed
    \/ (\E s \in Slots : reads[s] # NoRead) \/ manual # {} \/ follows # {}

\* A read to the end is under way, or one that the server takes up to n.
Reading       == \E s \in Slots : reads[s].kind = "full"
ReadComing(n) == \E s \in Slots :
                     reads[s].kind = "full" /\ ~reads[s].taken /\ n <= reads[s].upTo

\* A read to the end is sent for a row, whose mark it answers for.
ReadsMark == \A s \in Slots : reads[s].kind = "full" => reads[s].marks

\* A mark is shown as unread until it is read again, and that read is under way.
MarkShown ==
    row.present /\ attention /\ (~row.unread \/ row.pending) => Reading

\* What is acknowledged here the server takes, unless the boundary went back since or
\* the read that was sent does not go as far.
AckTaken ==
    row.pending /\ ~lowered =>
        row.ackAt <= viewed \/ ReadComing(row.ackAt) \/ \E c \in manual : c.taken

\* A snapshot that nothing is under way behind is what the server has.
SnapshotTrue ==
    /\ snapshot.stage \in {"allRead", "unread", "unreadRead"} =>
           snapshot.all = IF followed /\ ~aged THEN Summary(FALSE) ELSE NoThread
    /\ snapshot.stage = "unreadRead" =>
           snapshot.unread = IF followed /\ viewed < posted THEN Summary(TRUE) ELSE NoThread

RowTrue ==
    /\ followed /\ (viewed < posted \/ ~aged) => row.present
    /\ row.present => followed \/ attention
    /\ row.present /\ row.unread => (followed /\ viewed < posted) \/ attention
    /\ row.present /\ ~row.unread =>
          /\ ~attention
          /\ followed /\ viewed < posted => row.pending /\ posted <= row.ackAt /\ lowered

ClientInv == MarkShown /\ AckTaken
SettledInv == ~Coming => SnapshotTrue /\ (snapshot.stage = "idle" => RowTrue)

RowInv == CursorInv /\ (~failed => ReadsMark /\ ClientInv /\ SettledInv)

\* The steps of a run in which nothing fails.
ReadsTaken   == \E s \in Slots : ReadTaken(s)
MarksTaken   == \E c \in manual : MarkTaken(c)
FollowsTaken == \E c \in follows : FollowTaken(c)
Passes       == \E s \in Slots : \E p \in Posts : Pass(p, s)
Flushes      == \E s \in Slots : Flush(s)
FullsReplied == \E s \in Slots : FullReplied(s)
PartsReplied == \E s \in Slots : \E atEnd \in BOOLEAN : PartReplied(s, atEnd)

Works ==
    \/ SomebodyReplies \/ ReadElsewhere \/ OthersMove \/ FollowedElsewhere
    \/ AllRead \/ UnreadRead \/ ReadsTaken \/ MarksTaken \/ FollowsTaken
    \/ HearPosted \/ HearChanged \/ HearFollowed \/ HistoryMerged
    \/ RefreshTimer \/ AllAnswered(TRUE) \/ UnreadAnswered(TRUE)
    \/ Passes \/ Flushes \/ FullsReplied \/ PartsReplied \/ FlushNothing
    \/ MarkPostUnread \/ MarkReplied \/ Unfollow \/ StartFollowing \/ FollowReplied
    \/ UNCHANGED vars

\* A run in which nothing failed so far takes only these.
LEMMA NothingFailed ==
    ASSUME CursorInv, [Next]_vars, ~failed'
    PROVE  ~failed /\ Works
<1>1. failed \in BOOLEAN
    BY DEF CursorInv, TypeOK, HistoryTypes
<1>2. Works \/ Reconnected \/ AllAnswered(FALSE) \/ UnreadAnswered(FALSE)
      \/ (\E s \in Slots : FullFails(s)) \/ MarkFails \/ FollowFails
      \/ (\E s \in Slots : \E atEnd \in BOOLEAN : PartFails(s, atEnd))
    BY DEF Next, ServerStep, ClientStep, Works, ReadsTaken, MarksTaken, FollowsTaken, Passes,
           Flushes, FullsReplied, PartsReplied
<1>3. ~(\/ Reconnected \/ AllAnswered(FALSE) \/ UnreadAnswered(FALSE)
        \/ (\E s \in Slots : FullFails(s)) \/ MarkFails \/ FollowFails
        \/ (\E s \in Slots : \E atEnd \in BOOLEAN : PartFails(s, atEnd)))
    BY DEF Reconnected, AllAnswered, UnreadAnswered, FullFails, MarkFails, FollowFails,
           PartFails, Trouble, Failure
<1>5. Works
    BY <1>2, <1>3
<1>6. failed' = failed
    BY <1>5 DEF Works, SomebodyReplies, ReadElsewhere, OthersMove, FollowedElsewhere, HistoryMerged,
           AllRead, UnreadRead, ReadsTaken, ReadTaken, MarksTaken, MarkTaken, FollowsTaken,
           FollowTaken, HearPosted, HearChanged, HearFollowed, RefreshTimer, AllAnswered,
           UnreadAnswered, Passes, Pass, Flushes, Flush, FullsReplied, FullReplied,
           PartsReplied, PartReplied, FlushNothing, MarkPostUnread, MarkReplied, Unfollow,
           StartFollowing, FollowReplied, vars, spent
<1> QED BY <1>5, <1>6

\* Which of them change what.
Touches ==
    /\ UNCHANGED posted \/ SomebodyReplies
    /\ UNCHANGED viewed \/ ReadsTaken \/ MarksTaken \/ ReadElsewhere
    /\ \/ UNCHANGED row
       \/ HearPosted \/ HearFollowed \/ UnreadAnswered(TRUE) \/ Passes \/ PartsReplied
       \/ MarkReplied \/ Unfollow \/ FollowReplied
    /\ UNCHANGED attention \/ FullsReplied \/ MarkReplied
    /\ \/ UNCHANGED snapshot
       \/ AllRead \/ UnreadRead \/ RefreshTimer \/ AllAnswered(TRUE) \/ UnreadAnswered(TRUE)
       \/ PartsReplied \/ MarkReplied
    /\ \/ UNCHANGED reads
       \/ ReadsTaken \/ Passes \/ Flushes \/ FullsReplied \/ PartsReplied \/ MarkPostUnread
    /\ UNCHANGED manual \/ MarksTaken \/ MarkPostUnread \/ MarkReplied
    /\ \/ UNCHANGED view
       \/ Passes \/ Flushes \/ FlushNothing \/ PartsReplied \/ MarkPostUnread
    /\ UNCHANGED lowered \/ ReadsTaken \/ ReadElsewhere \/ Passes \/ PartsReplied

\* A step touches what it names.
LEMMA Footprints == Works => Touches
<1> SUFFICES ASSUME Works PROVE Touches
    OBVIOUS
<1> USE DEF server, marked, refresh, calls, history, spent, Touches
<1>1. CASE SomebodyReplies
    BY <1>1 DEF SomebodyReplies
<1>2. CASE ReadElsewhere
    BY <1>2 DEF ReadElsewhere
<1>3. CASE OthersMove
    BY <1>3 DEF OthersMove
<1>4. CASE FollowedElsewhere
    BY <1>4 DEF FollowedElsewhere
<1>5. CASE AllRead
    BY <1>5 DEF AllRead
<1>6. CASE UnreadRead
    BY <1>6 DEF UnreadRead
<1>7. CASE ReadsTaken
    BY <1>7 DEF ReadsTaken, ReadTaken
<1>8. CASE MarksTaken
    BY <1>8 DEF MarksTaken, MarkTaken
<1>9. CASE FollowsTaken
    BY <1>9 DEF FollowsTaken, FollowTaken
<1>10. CASE HearPosted
    BY <1>10 DEF HearPosted, Schedule
<1>11. CASE HearChanged
    BY <1>11 DEF HearChanged, Schedule
<1>12. CASE HearFollowed
    BY <1>12 DEF HearFollowed, FollowingChanged, Schedule
<1>13. CASE RefreshTimer
    BY <1>13 DEF RefreshTimer
<1>14. CASE AllAnswered(TRUE)
    BY <1>14 DEF AllAnswered
<1>15. CASE UnreadAnswered(TRUE)
    BY <1>15 DEF UnreadAnswered
<1>16. CASE Passes
    BY <1>16 DEF Passes, Pass
<1>17. CASE Flushes
    BY <1>17 DEF Flushes, Flush
<1>18. CASE FullsReplied
    BY <1>18 DEF FullsReplied, FullReplied, Schedule
<1>19. CASE PartsReplied
    BY <1>19 DEF PartsReplied, PartReplied
<1>20. CASE FlushNothing
    BY <1>20 DEF FlushNothing
<1>21. CASE MarkPostUnread
    BY <1>21 DEF MarkPostUnread
<1>22. CASE MarkReplied
    BY <1>22 DEF MarkReplied
<1>23. CASE Unfollow
    BY <1>23 DEF Unfollow, FollowingChanged, Schedule
<1>24. CASE StartFollowing
    BY <1>24 DEF StartFollowing
<1>25. CASE FollowReplied
    BY <1>25 DEF FollowReplied, FollowingChanged, Schedule
<1>26. CASE UNCHANGED vars
    BY <1>26 DEF vars
<1>27. CASE HistoryMerged
    BY <1>27 DEF HistoryMerged
<1> QED BY <1>1, <1>2, <1>3, <1>4, <1>5, <1>6, <1>7, <1>8, <1>9, <1>10, <1>11, <1>12,
           <1>13, <1>14, <1>15, <1>16, <1>17, <1>18, <1>19, <1>20, <1>21, <1>22, <1>23,
           <1>24, <1>25, <1>26, <1>27
       DEF Works

\* An event that is sent is heard of; so is anything else that asks for a refresh.
LEMMA SignsCome ==
    ASSUME CursorInv
    PROVE  /\ Schedule => Coming'
           /\ changed' => Coming'
           /\ \A e \in Event : Emits(e) => Coming'
<1>1. Schedule => Coming'
    BY DEF Schedule, Coming
<1>2. changed' => Coming'
    BY DEF Coming
<1>3. ASSUME NEW e \in Event, Emits(e) PROVE Coming'
    <2>1. events' = Append(events, e) /\ events \in Seq(Event)
        BY <1>3 DEF Emits, CursorInv, TypeOK, ServerTypes
    <2>2. events' # << >>
        BY <2>1
    <2> QED BY <2>2 DEF Coming
<1> QED BY <1>1, <1>2, <1>3

\* The server changes only with a sign of it,
LEMMA ServerSigns ==
    ASSUME CursorInv, Works
    PROVE  UNCHANGED <<posted, viewed, followed, aged>> \/ Coming'
<1> DEFINE Same == UNCHANGED <<posted, viewed, followed, aged>>
<1>0. SUFFICES Same \/ Coming'
    OBVIOUS
<1>t. FollowedAs(TRUE) \in Event /\ FollowedAs(FALSE) \in Event
      /\ followed \in BOOLEAN /\ posted \in 0..MaxPosts /\ follows \subseteq Follow
    BY FollowingAssumption DEF FollowedAs, Event, CursorInv, TypeOK, ServerTypes, CallsTypes
<1>1. CASE SomebodyReplies
    <2>1. Posted(posted + 1) \in Event
        BY <1>1, <1>t, FollowingAssumption DEF SomebodyReplies, Posted, Event
    <2> QED BY <1>1, <2>1, SignsCome DEF SomebodyReplies
<1>2. CASE ReadElsewhere \/ OthersMove \/ ReadsTaken \/ MarksTaken
    <2>1. changed'
        BY <1>2 DEF ReadElsewhere, OthersMove, ReadsTaken, ReadTaken, MarksTaken, MarkTaken
    <2> QED BY <2>1, SignsCome
<1>3. CASE FollowedElsewhere
    BY <1>3, <1>t, SignsCome DEF FollowedElsewhere
<1>4. CASE FollowsTaken
    <2>1. PICK c \in follows : Emits(FollowedAs(c.on))
        BY <1>4 DEF FollowsTaken, FollowTaken
    <2>2. c.on \in BOOLEAN
        BY <1>t DEF Follow
    <2> QED BY <1>t, <2>1, <2>2, SignsCome
<1>5. CASE ~(\/ SomebodyReplies \/ ReadElsewhere \/ OthersMove \/ FollowedElsewhere
             \/ ReadsTaken \/ MarksTaken \/ FollowsTaken)
    BY <1>5 DEF Works, AllRead, UnreadRead, HearPosted, HearChanged, HearFollowed, HistoryMerged,
           RefreshTimer, AllAnswered, UnreadAnswered, Passes, Pass, Flushes, Flush,
           FullsReplied, FullReplied, PartsReplied, PartReplied, FlushNothing, MarkPostUnread,
           MarkReplied, Unfollow, StartFollowing, FollowReplied, vars, server
<1> QED BY <1>1, <1>2, <1>3, <1>4, <1>5

\* and the signs end only in a refresh that starts.
LEMMA SignsEnd ==
    ASSUME CursorInv, Works, Coming
    PROVE  Coming' \/ snapshot' = [NoSnapshot EXCEPT !.stage = "all"]
<1> DEFINE Goal == Coming' \/ snapshot' = [NoSnapshot EXCEPT !.stage = "all"]
<1> SUFFICES Goal
    OBVIOUS
<1>0. /\ reads \in [Slots -> Read] /\ requested \in BOOLEAN
      /\ requested => snapshot.stage # "idle"
      /\ UNCHANGED <<posted, viewed, followed, aged>> \/ Coming'
    BY ServerSigns DEF CursorInv, TypeOK, CallsTypes, RefreshTypes
<1>a. RefreshThreads => Goal
    BY DEF RefreshThreads, Coming
<1>b. Schedule => Goal
    BY SignsCome
<1>c. UNCHANGED <<events, changed, timer, requested, reads, manual, follows>> => Goal
    BY DEF Coming
<1> USE DEF server, marked, refresh, calls, history, spent
<1>1. CASE UNCHANGED <<timer, requested>> /\ ~UNCHANGED <<posted, viewed, followed, aged>>
    BY <1>0, <1>1
<1>2. CASE AllRead \/ UnreadRead \/ AllAnswered(TRUE) \/ FlushNothing \/ HistoryMerged
    BY <1>2, <1>c DEF AllRead, UnreadRead, AllAnswered, FlushNothing, HistoryMerged
<1>3. CASE UnreadAnswered(TRUE)
    BY <1>3 DEF UnreadAnswered, Coming
<1>4. CASE HearPosted \/ HearChanged \/ HearFollowed \/ FullsReplied \/ Unfollow \/ FollowReplied
    BY <1>4, <1>b DEF HearPosted, HearChanged, HearFollowed, FullsReplied, FullReplied, Unfollow,
           FollowReplied, FollowingChanged
<1>5. CASE RefreshTimer
    BY <1>5, <1>a DEF RefreshTimer
<1>6. CASE MarkReplied
    BY <1>6, <1>a DEF MarkReplied
<1>7. CASE PartsReplied
    BY <1>7 DEF PartsReplied, PartReplied, Coming
<1>8. CASE Passes
    <2>1. PICK s \in Slots, p \in Posts : Pass(p, s)
        BY <1>8 DEF Passes
    <2>2. UNCHANGED reads \/ \E t : reads' = [reads EXCEPT ![s] = FullRead(t)]
        BY <2>1 DEF Pass, SendsRead
    <2>3. CASE UNCHANGED reads
        BY <1>c, <2>1, <2>3 DEF Pass
    <2>4. CASE \E t : reads' = [reads EXCEPT ![s] = FullRead(t)]
        <3>1. reads'[s] # NoRead
            BY <1>0, <2>4 DEF FullRead, NoRead
        <3> QED BY <3>1 DEF Coming
    <2> QED BY <2>2, <2>3, <2>4
<1>9. CASE Flushes
    <2>1. PICK s \in Slots : Flush(s)
        BY <1>9 DEF Flushes
    <2>2. reads'[s] # NoRead
        BY <1>0, <2>1 DEF Flush, NoRead
    <2> QED BY <2>2 DEF Coming
<1>10. CASE MarkPostUnread
    <2>1. manual' # {}
        BY <1>10 DEF MarkPostUnread
    <2> QED BY <2>1 DEF Coming
<1>11. CASE StartFollowing
    <2>1. follows' # {}
        BY <1>11 DEF StartFollowing
    <2> QED BY <2>1 DEF Coming
<1>12. CASE UNCHANGED vars
    BY <1>12, <1>c DEF vars
<1>13. CASE SomebodyReplies \/ ReadElsewhere \/ OthersMove \/ FollowedElsewhere
            \/ ReadsTaken \/ MarksTaken \/ FollowsTaken
    <2>1. CASE SomebodyReplies \/ FollowedElsewhere \/ FollowsTaken
        <3>1. \E e : Emits(e)
            BY <2>1 DEF SomebodyReplies, FollowedElsewhere, FollowsTaken, FollowTaken
        <3>2. events' # << >>
            <4>1. PICK e : events' = Append(events, e)
                BY <3>1 DEF Emits
            <4>2. events \in Seq(Event)
                BY DEF CursorInv, TypeOK, ServerTypes
            <4> QED BY <4>1, <4>2
        <3> QED BY <3>2 DEF Coming
    <2>2. CASE ReadElsewhere \/ OthersMove \/ ReadsTaken \/ MarksTaken
        BY <2>2, SignsCome DEF ReadElsewhere, OthersMove, ReadsTaken, ReadTaken,
               MarksTaken, MarkTaken
    <2> QED BY <1>13, <2>1, <2>2
<1> QED BY <1>2, <1>3, <1>4, <1>5, <1>6, <1>7, <1>8, <1>9, <1>10, <1>11, <1>12, <1>13 DEF Works

-----------------------------------------------------------------------------
(* What a snapshot, a read and a mark leave of the row.                    *)

\* Attention holds the row unread.
LEMMA HeldTells ==
    ASSUME NEW e \in Entry, attention \in BOOLEAN
    PROVE  LET h == Held(e) IN
           /\ h.present = e.present /\ h.last = e.last
           /\ h.pending = e.pending /\ h.ackAt = e.ackAt
           /\ h.through \in {e.through, 0}
           /\ h.unread <=> e.unread \/ attention
BY DEF Held, Entry

\* A pending acknowledgement holds it read up to its place.
LEMMA AcknowledgedTells ==
    ASSUME NEW e \in Entry
    PROVE  LET g == Acknowledged(e) IN
           /\ g.present = e.present /\ g.last = e.last /\ g.through = e.through
           /\ g.unread => e.unread
           /\ ~g.unread => ~e.unread \/ (g.pending /\ e.last <= g.ackAt)
           /\ g.pending => e.pending /\ g.ackAt = e.ackAt
BY DEF Acknowledged, Entry

\* A snapshot that has the thread makes the row what the server tells, but for what
\* this client holds on to.
LEMMA AppliedTells ==
    ASSUME NEW e \in Entry, attention \in BOOLEAN, marker \in 0..MaxPosts,
           NEW t \in Summaries, t.there
    PROVE  LET g == Applied(e, t) IN
           /\ g.present /\ g.last = t.last /\ g.through \in {e.through, 0}
           /\ g.unread => t.unread \/ attention
           /\ ~g.unread => \/ ~t.unread /\ ~attention
                           \/ g.pending /\ t.last <= g.ackAt
           /\ g.pending => e.pending /\ g.ackAt = e.ackAt
<1> DEFINE f == [e EXCEPT !.present = TRUE, !.viewed = t.viewed, !.last = t.last,
                          !.unread = t.unread]
           h == Held(f)
           g == Acknowledged(h)
<1>1. /\ f \in Entry /\ f.present /\ f.last = t.last /\ f.unread = t.unread
      /\ f.pending = e.pending /\ f.ackAt = e.ackAt /\ f.through = e.through
    BY DEF Entry, Summaries
<1>2. Applied(e, t) = g
    BY DEF Applied
<1>3. t.unread \in BOOLEAN
    BY DEF Summaries
<1> HIDE DEF f
<1>4. /\ h \in Entry /\ h.present /\ h.last = t.last
      /\ h.pending = e.pending /\ h.ackAt = e.ackAt /\ h.through \in {e.through, 0}
      /\ h.unread <=> t.unread \/ attention
    BY <1>1, HeldType, HeldTells
<1> HIDE DEF h
<1>5. /\ g.present = h.present /\ g.last = h.last /\ g.through = h.through
      /\ g.unread => h.unread
      /\ ~g.unread => ~h.unread \/ (g.pending /\ h.last <= g.ackAt)
      /\ g.pending => h.pending /\ g.ackAt = h.ackAt
    BY <1>4, AcknowledgedTells
<1> HIDE DEF g
<1> QED BY <1>2, <1>3, <1>4, <1>5

\* A reply that is heard of changes only the cursor.
LEMMA NoteTells ==
    ASSUME NEW e \in Entry, NEW p
    PROVE  LET g == NoteIncoming(e, p) IN
           /\ g.present = e.present /\ g.unread = e.unread /\ g.last = e.last
           /\ g.pending = e.pending /\ g.ackAt = e.ackAt /\ g.through = e.through
BY DEF NoteIncoming, Entry

\* A mark makes the row unread and ends the acknowledgement.
LEMMA MarkedTells ==
    ASSUME NEW e \in Entry, NEW p
    PROVE  LET g == MarkedUnread(e, p) IN
           /\ g.present /\ g.unread /\ ~g.pending /\ g.through = 0
           /\ g.last = Larger(e.last, p)
BY DEF MarkedUnread, Entry

\* Reading on moves only the cursor.
LEMMA ReadThroughTells ==
    ASSUME NEW e \in Entry, NEW p, NEW atEnd
    PROVE  LET g == ReadThrough(e, p, atEnd) IN
           /\ g.present = e.present /\ g.unread = e.unread /\ g.last = e.last
           /\ g.pending = e.pending /\ g.ackAt = e.ackAt /\ g.through \in {e.through, p}
<1> DEFINE s == IF NextCached(p) # 0 THEN "FirstUnread" ELSE IF atEnd THEN "AtEnd" ELSE "Unknown"
           n == NextCached(p)
<1>1. ReadThrough(e, p, atEnd) =
          IF ~e.present \/ p < e.through THEN e
          ELSE [e EXCEPT !.through = p, !.first = n, !.resume = s]
    BY DEF ReadThrough
<1> HIDE DEF s, n
<1> QED BY <1>1 DEF Entry

\* A read to the end acknowledges the row where it was read.
LEMMA ReadToEndTells ==
    ASSUME NEW e \in Entry, e.present
    PROVE  LET g == ReadToEnd(e) IN
           /\ g.present /\ ~g.unread /\ g.pending /\ g.last = e.last /\ g.through = e.through
           /\ g.ackAt \in {e.through, e.last}
BY DEF ReadToEnd, Entry

\* The row keeps what it tells; it may be read on.
SameRow ==
    /\ row'.present = row.present /\ row'.unread = row.unread /\ row'.last = row.last
    /\ row'.pending = row.pending /\ row'.ackAt = row.ackAt
    /\ row'.through \in {row.through} \cup heard
    /\ lowered => lowered'

\* The row is read to the end, and the read is sent.
ReadEnds(s) ==
    /\ row.present /\ row'.present /\ ~row'.unread /\ row'.pending /\ row'.last = row.last
    /\ row'.through \in {row.through} \cup heard /\ row'.ackAt \in {row'.through, row.last}
    /\ \E t \in 0..MaxPosts : SendsRead(s, t)

\* A step that is no snapshot's and no mark's keeps what the row tells, removes the
\* row and asks for a refresh, or reads it to the end.
LEMMA RowMoves ==
    ASSUME CursorInv, Works
    PROVE  \/ SameRow
           \/ row' = NoEntry /\ Schedule
           \/ \E s \in Slots : ReadEnds(s)
           \/ MarkReplied \/ UnreadAnswered(TRUE)
<1> DEFINE Goal ==
        \/ SameRow
        \/ row' = NoEntry /\ Schedule
        \/ \E s \in Slots : ReadEnds(s)
        \/ MarkReplied \/ UnreadAnswered(TRUE)
<1>0. row \in Entry /\ Whole(row)
    BY DEF CursorInv, TypeOK, RowTypes, Whole
<1>a. Touches
    BY Footprints
<1>b. UNCHANGED row /\ (lowered => lowered') => SameRow
    BY DEF SameRow
<1> SUFFICES Goal
    OBVIOUS
<1>1. CASE HearPosted
    <2>1. PICK p : p = Head(events).post
        OBVIOUS
    <2>2. row' = NoteIncoming(row, p) /\ lowered' = lowered
        BY <1>1, <2>1 DEF HearPosted
    <2> QED BY <1>0, <2>2, NoteTells DEF SameRow
<1>2. CASE HearFollowed
    BY <1>2, <1>b DEF HearFollowed, FollowingChanged
<1>3. CASE Unfollow
    BY <1>3, <1>b DEF Unfollow, FollowingChanged
<1>4. CASE FollowReplied
    <2>1. UNCHANGED <<row, lowered>>
        BY <1>4 DEF FollowReplied, FollowingChanged
    <2> QED BY <1>b, <2>1
<1>5. CASE Passes
    <2>1. PICK s \in Slots, p \in Posts : Pass(p, s)
        BY <1>5 DEF Passes
    <2>2. PICK atEnd : atEnd = \A h \in heard : h <= p
        OBVIOUS
    <2>3. PICK read : read = ReadThrough(row, p, atEnd)
        OBVIOUS
    <2>4. /\ p \in heard
          /\ \/ row' = read /\ UNCHANGED lowered
             \/ row.present /\ row' = ReadToEnd(read) /\ \E t \in 0..MaxPosts : SendsRead(s, t)
        BY <2>1, <2>2, <2>3 DEF Pass
    <2>5. /\ read.present = row.present /\ read.unread = row.unread /\ read.last = row.last
          /\ read.pending = row.pending /\ read.ackAt = row.ackAt
          /\ read.through \in {row.through, p}
        BY <1>0, <2>3, ReadThroughTells
    <2>6. read \in Entry
        <3>1. heard \subseteq Posts
            BY FollowingAssumption DEF CursorInv, TypeOK, HistoryTypes, ServerTypes, Posts
        <3>2. atEnd \in BOOLEAN
            BY <2>2
        <3> QED BY <1>0, <2>3, <3>1, <3>2, ReadThroughType
    <2>7. CASE row' = read /\ UNCHANGED lowered
        BY <2>4, <2>5, <2>7 DEF SameRow
    <2>8. CASE row.present /\ row' = ReadToEnd(read) /\ \E t \in 0..MaxPosts : SendsRead(s, t)
        <3>1. /\ row'.present /\ ~row'.unread /\ row'.pending /\ row'.last = read.last
              /\ row'.through = read.through /\ row'.ackAt \in {read.through, read.last}
            BY <2>5, <2>6, <2>8, ReadToEndTells
        <3>2. ReadEnds(s)
            BY <2>4, <2>5, <2>8, <3>1 DEF ReadEnds
        <3> QED BY <3>2
    <2> QED BY <2>4, <2>7, <2>8
<1>6. CASE PartsReplied
    <2>1. PICK s \in Slots, atEnd \in BOOLEAN : PartReplied(s, atEnd)
        BY <1>6 DEF PartsReplied
    <2>2. \/ UNCHANGED <<row, lowered>>
          \/ row.present /\ row' = ReadToEnd(row) /\ \E t \in 0..MaxPosts : SendsRead(s, t)
        BY <2>1 DEF PartReplied
    <2>3. CASE row.present /\ row' = ReadToEnd(row) /\ \E t \in 0..MaxPosts : SendsRead(s, t)
        <3>1. /\ row'.present /\ ~row'.unread /\ row'.pending /\ row'.last = row.last
              /\ row'.through = row.through /\ row'.ackAt \in {row.through, row.last}
            BY <1>0, <2>3, ReadToEndTells
        <3>2. ReadEnds(s)
            BY <2>3, <3>1 DEF ReadEnds
        <3> QED BY <3>2
    <2> QED BY <1>b, <2>2, <2>3
<1>7. CASE UNCHANGED row /\ ~Passes /\ ~PartsReplied
    <2>1. \/ UNCHANGED lowered \/ ReadsTaken \/ ReadElsewhere
        BY <1>a, <1>7 DEF Touches
    <2>2. lowered => lowered'
        BY <2>1 DEF ReadsTaken, ReadTaken, ReadElsewhere
    <2> QED BY <1>b, <1>7, <2>2
<1> QED BY <1>a, <1>1, <1>2, <1>3, <1>4, <1>5, <1>6, <1>7 DEF Touches

\* A read to the end stays under way, to the same place, until it is answered.
LEMMA ReadsKept ==
    ASSUME CursorInv, Works, NEW s \in Slots, reads[s].kind = "full"
    PROVE  \/ FullReplied(s)
           \/ /\ reads'[s].kind = "full" /\ reads'[s].upTo = reads[s].upTo
              /\ reads'[s].taken = reads[s].taken \/ ReadTaken(s)
<1> DEFINE Goal == \/ FullReplied(s)
                   \/ /\ reads'[s].kind = "full" /\ reads'[s].upTo = reads[s].upTo
                      /\ reads'[s].taken = reads[s].taken \/ ReadTaken(s)
<1>0. reads \in [Slots -> Read] /\ reads[s] # NoRead
    BY DEF CursorInv, TypeOK, CallsTypes, NoRead
<1>a. Touches
    BY Footprints
<1>b. \A t : t # s => [reads EXCEPT ![t] = NoRead][s] = reads[s]
    BY <1>0
<1> SUFFICES Goal
    OBVIOUS
<1>1. CASE UNCHANGED reads
    BY <1>1
<1>2. CASE ReadsTaken
    <2>1. PICK t \in Slots : ReadTaken(t)
        BY <1>2 DEF ReadsTaken
    <2>2. reads' = [reads EXCEPT ![t].taken = TRUE]
        BY <2>1 DEF ReadTaken
    <2> QED BY <1>0, <2>1, <2>2 DEF Read
<1>3. CASE Passes
    <2>1. PICK t \in Slots, p \in Posts : Pass(p, t)
        BY <1>3 DEF Passes
    <2>2. /\ reads[t] = NoRead
          /\ UNCHANGED reads \/ \E n : reads' = [reads EXCEPT ![t] = FullRead(n)]
        BY <2>1 DEF Pass, SendsRead
    <2> QED BY <1>0, <2>2
<1>4. CASE Flushes
    <2>1. PICK t \in Slots : Flush(t)
        BY <1>4 DEF Flushes
    <2>2. reads[t] = NoRead /\ t # s
        BY <1>0, <2>1 DEF Flush
    <2>3. reads'[s] = reads[s]
        BY <1>0, <2>1, <2>2 DEF Flush
    <2> QED BY <2>3
<1>5. CASE FullsReplied
    <2>1. PICK t \in Slots : FullReplied(t)
        BY <1>5 DEF FullsReplied
    <2>2. reads' = [reads EXCEPT ![t] = NoRead]
        BY <2>1 DEF FullReplied
    <2> QED BY <1>0, <2>1, <2>2
<1>6. CASE PartsReplied
    <2>1. PICK t \in Slots, atEnd \in BOOLEAN : PartReplied(t, atEnd)
        BY <1>6 DEF PartsReplied
    <2>2. /\ reads[t].kind = "part"
          /\ \/ reads' = [reads EXCEPT ![t] = NoRead]
             \/ \E n : reads' = [reads EXCEPT ![t] = FullRead(n)]
        BY <2>1 DEF PartReplied, SendsRead
    <2> QED BY <1>0, <2>2
<1>7. CASE MarkPostUnread
    <2>1. reads'[s] = [reads[s] EXCEPT !.heard = FALSE]
        BY <1>7 DEF MarkPostUnread
    <2> QED BY <1>0, <2>1 DEF Read
<1> QED BY <1>a, <1>1, <1>2, <1>3, <1>4, <1>5, <1>6, <1>7 DEF Touches

\* A read to the end is sent only for a row that is there.
LEMMA ReadsMarkStep ==
    ASSUME CursorInv, Works, ReadsMark
    PROVE  ReadsMark'
<1> DEFINE Fine(r) == r.kind = "full" => r.marks
<1>0. reads \in [Slots -> Read]
    BY DEF CursorInv, TypeOK, CallsTypes
<1>a. Touches
    BY Footprints
<1>b. Fine(NoRead)
    BY DEF NoRead
<1>c. row.present => \A t : Fine(FullRead(t))
    BY DEF FullRead
<1> SUFFICES ASSUME NEW s \in Slots PROVE Fine(reads'[s])
    BY DEF ReadsMark
<1>d. Fine(reads[s])
    BY DEF ReadsMark
<1>1. CASE UNCHANGED reads
    BY <1>d, <1>1
<1>2. CASE ReadsTaken \/ MarkPostUnread
    <2>1. reads'[s].kind = reads[s].kind /\ reads'[s].marks = reads[s].marks
        <3>1. CASE ReadsTaken
            <4>1. PICK t \in Slots : reads' = [reads EXCEPT ![t].taken = TRUE]
                BY <3>1 DEF ReadsTaken, ReadTaken
            <4> QED BY <1>0, <4>1 DEF Read
        <3>2. CASE MarkPostUnread
            <4>1. reads'[s] = [reads[s] EXCEPT !.heard = FALSE]
                BY <3>2 DEF MarkPostUnread
            <4> QED BY <1>0, <4>1 DEF Read
        <3> QED BY <1>2, <3>1, <3>2
    <2> QED BY <1>d, <2>1
<1>3. CASE Flushes
    <2>1. PICK t \in Slots : Flush(t)
        BY <1>3 DEF Flushes
    <2>2. PICK r : /\ r = [kind |-> "part", upTo |-> view.observed, taken |-> FALSE,
                           marks |-> FALSE, heard |-> TRUE]
                   /\ reads' = [reads EXCEPT ![t] = r]
        BY <2>1 DEF Flush
    <2>3. Fine(r)
        BY <2>2
    <2>4. reads'[s] = reads[s] \/ reads'[s] = r
        BY <1>0, <2>2
    <2> HIDE DEF Fine
    <2> QED BY <1>d, <2>3, <2>4
<1>4. CASE Passes \/ FullsReplied \/ PartsReplied
    <2>1. PICK t \in Slots :
              \/ UNCHANGED reads
              \/ reads' = [reads EXCEPT ![t] = NoRead]
              \/ row.present /\ \E n : reads' = [reads EXCEPT ![t] = FullRead(n)]
        BY <1>4 DEF Passes, Pass, FullsReplied, FullReplied, PartsReplied, PartReplied, SendsRead
    <2>2. \/ reads'[s] \in {reads[s], NoRead}
          \/ row.present /\ \E n : reads'[s] = FullRead(n)
        BY <1>0, <2>1
    <2> HIDE DEF Fine
    <2> QED BY <1>b, <1>c, <1>d, <2>2
<1> QED BY <1>a, <1>1, <1>2, <1>3, <1>4 DEF Touches

\* A mark is shown as unread until the read that follows it is answered,
LEMMA MarkShownStep ==
    ASSUME CursorInv, Works, ReadsMark, MarkShown
    PROVE  MarkShown'
<1>0. /\ row \in Entry /\ Whole(row) /\ attention \in BOOLEAN /\ marker \in 0..MaxPosts
      /\ reads \in [Slots -> Read] /\ snapshot \in Snapshot
    BY DEF CursorInv, TypeOK, RowTypes, CallsTypes, RefreshTypes, Whole
<1>a. Touches
    BY Footprints
<1>b. ASSUME Reading, attention' PROVE Reading' \/ MarkReplied
    <2>1. PICK s \in Slots : reads[s].kind = "full"
        BY <1>b DEF Reading
    <2>2. CASE FullReplied(s)
        <3>1. attention' = FALSE
            BY <2>1, <2>2 DEF FullReplied, ReadsMark
        <3> QED BY <1>b, <3>1
    <2>3. CASE reads'[s].kind = "full"
        BY <2>3 DEF Reading
    <2> QED BY <2>1, <2>2, <2>3, ReadsKept
<1>c. attention' => attention \/ MarkReplied
    <2>1. FullsReplied => attention' = attention \/ attention' = FALSE
        BY DEF FullsReplied, FullReplied, marked
    <2> QED BY <1>a, <2>1 DEF Touches
<1> SUFFICES ASSUME row'.present, attention', ~row'.unread \/ row'.pending
             PROVE  Reading'
    BY DEF MarkShown
<1>1. ~MarkReplied
    <2>1. MarkReplied => \E c : row' = MarkedUnread(row, c.post)
        BY DEF MarkReplied
    <2>2. MarkReplied => row'.unread /\ ~row'.pending
        BY <1>0, <2>1, MarkedTells
    <2> QED BY <2>2
<1>2. CASE SameRow
    BY <1>1, <1>2, <1>b, <1>c DEF SameRow, MarkShown
<1>3. CASE row' = NoEntry
    BY <1>3 DEF NoEntry
<1>4. CASE \E s \in Slots : ReadEnds(s)
    <2>1. PICK s \in Slots : \E t : reads'[s] = FullRead(t)
        BY <1>0, <1>4 DEF ReadEnds, SendsRead
    <2> QED BY <2>1 DEF Reading, FullRead
<1>5. CASE UnreadAnswered(TRUE)
    <2>1. PICK t \in {snapshot.all, snapshot.unread} : row' = Applied(row, t)
        BY <1>5 DEF UnreadAnswered
    <2>2. t \in Summaries
        BY <1>0, <2>1 DEF Snapshot
    <2>3. attention
        BY <1>1, <1>c
    <2>4. CASE t.there
        <3>1. row.pending
            BY <1>0, <2>1, <2>2, <2>3, <2>4, AppliedTells
        <3>2. row.present
            BY <1>0, <3>1 DEF Whole, NoEntry
        <3> QED BY <1>1, <1>b, <2>3, <3>1, <3>2 DEF MarkShown
    <2>5. CASE ~t.there
        <3>1. row' = row
            BY <2>1, <2>3, <2>5 DEF Applied
        <3> QED BY <1>1, <1>b, <2>3, <3>1 DEF MarkShown
    <2> QED BY <2>4, <2>5
<1> QED BY RowMoves, <1>1, <1>2, <1>3, <1>4, <1>5

\* and what is acknowledged is on its way to the server, or taken by it.
LEMMA AckStep ==
    ASSUME CursorInv, Works, AckTaken
    PROVE  AckTaken'
<1> DEFINE Comes(n) ==
        \/ n <= viewed'
        \/ \E s \in Slots : reads'[s].kind = "full" /\ ~reads'[s].taken /\ n <= reads'[s].upTo
        \/ \E c \in manual' : c.taken
<1>0. /\ row \in Entry /\ Whole(row) /\ attention \in BOOLEAN /\ marker \in 0..MaxPosts
      /\ reads \in [Slots -> Read] /\ snapshot \in Snapshot /\ manual \subseteq Mark
      /\ posted \in Nat /\ viewed \in Nat /\ row.ackAt \in Nat
      /\ lowered \in BOOLEAN
    BY FollowingAssumption DEF CursorInv, TypeOK, RowTypes, CallsTypes, RefreshTypes, ServerTypes,
           HistoryTypes, Whole, Entry
<1>r. \A s \in Slots : reads[s].upTo \in Nat
    BY <1>0, FollowingAssumption DEF Read
<1>a. Touches
    BY Footprints
<1> SUFFICES ASSUME row'.pending, ~lowered' PROVE Comes(row'.ackAt)
    BY DEF AckTaken, ReadComing
<1>m. ~MarkReplied
    <2>1. MarkReplied => \E c : row' = MarkedUnread(row, c.post)
        BY DEF MarkReplied
    <2>2. MarkReplied => ~row'.pending
        BY <1>0, <2>1, MarkedTells
    <2> QED BY <2>2
\* The boundary goes on, or a mark moved it.
<1>v. viewed <= viewed' \/ (\E c \in manual' : c.taken)
    <2>1. CASE UNCHANGED viewed
        BY <1>0, <2>1
    <2>2. CASE ReadsTaken
        <3>1. PICK s \in Slots : ReadTaken(s)
            BY <2>2 DEF ReadsTaken
        <3>2. viewed' = reads[s].upTo /\ ~(reads[s].upTo < viewed)
            BY <3>1 DEF ReadTaken
        <3> QED BY <1>0, <1>r, <3>2
    <2>3. CASE MarksTaken
        <3>1. PICK c \in manual : MarkTaken(c)
            BY <2>3 DEF MarksTaken
        <3>2. PICK d : d = [c EXCEPT !.taken = TRUE]
            OBVIOUS
        <3>3. d \in manual' /\ d.taken
            BY <1>0, <3>1, <3>2 DEF MarkTaken, Mark
        <3> QED BY <3>3
    <2>4. CASE ReadElsewhere
        <3>1. PICK t \in 0..MaxPosts : viewed' = t /\ ~(t < viewed)
            BY <2>4 DEF ReadElsewhere
        <3> QED BY <1>0, <3>1
    <2> QED BY <1>a, <2>1, <2>2, <2>3, <2>4 DEF Touches
<1>k. ASSUME row.pending, ~lowered PROVE Comes(row.ackAt)
    <2>0. viewed' \in Int
        <3>1. ReadsTaken => viewed' \in Int
            BY <1>r DEF ReadsTaken, ReadTaken
        <3>2. \A c \in manual : c.post - 1 \in Int
            BY <1>0, FollowingAssumption DEF Mark, Posts
        <3>3. MarksTaken => viewed' \in Int
            BY <3>2 DEF MarksTaken, MarkTaken
        <3>4. ReadElsewhere => viewed' \in Int
            BY DEF ReadElsewhere
        <3> QED BY <1>0, <1>a, <3>1, <3>3, <3>4 DEF Touches
    <2>1. CASE row.ackAt <= viewed
        BY <1>0, <1>v, <2>0, <2>1
    <2>2. CASE ReadComing(row.ackAt)
        <3>1. PICK s \in Slots : /\ reads[s].kind = "full" /\ ~reads[s].taken
                                 /\ row.ackAt <= reads[s].upTo
            BY <2>2 DEF ReadComing
        <3>2. ~FullReplied(s)
            BY <3>1 DEF FullReplied
        <3>3. /\ reads'[s].kind = "full" /\ reads'[s].upTo = reads[s].upTo
              /\ reads'[s].taken = reads[s].taken \/ ReadTaken(s)
            BY <3>1, <3>2, ReadsKept
        <3>4. CASE reads'[s].taken = reads[s].taken
            BY <3>1, <3>3, <3>4
        <3>5. CASE ReadTaken(s)
            BY <3>1, <3>5 DEF ReadTaken
        <3> QED BY <3>3, <3>4, <3>5
    <2>3. ASSUME NEW c \in manual, c.taken PROVE \E d \in manual' : d.taken
        <3>1. CASE UNCHANGED manual
            BY <2>3, <3>1
        <3>2. CASE MarksTaken
            <4>1. PICK d \in manual : MarkTaken(d)
                BY <3>2 DEF MarksTaken
            <4>2. c # d /\ c \in manual'
                BY <2>3, <4>1 DEF MarkTaken
            <4> QED BY <2>3, <4>2
        <3>3. CASE MarkPostUnread
            <4>1. c \in manual'
                BY <3>3 DEF MarkPostUnread
            <4> QED BY <2>3, <4>1
        <3> QED BY <1>a, <1>m, <3>1, <3>2, <3>3 DEF Touches
    <2> QED BY <1>k, <2>1, <2>2, <2>3 DEF AckTaken
<1>1. CASE SameRow
    <2>1. row.pending /\ ~lowered /\ row'.ackAt = row.ackAt
        BY <1>1 DEF SameRow
    <2> HIDE DEF Comes
    <2> QED BY <1>k, <2>1
<1>2. CASE row' = NoEntry
    BY <1>2 DEF NoEntry
<1>3. CASE \E s \in Slots : ReadEnds(s)
    <2>1. PICK s \in Slots, t \in 0..MaxPosts : ReadEnds(s) /\ SendsRead(s, t)
        BY <1>3 DEF ReadEnds
    <2>2. reads'[s] = FullRead(t) /\ ~(t < row'.ackAt)
        BY <1>0, <2>1 DEF SendsRead
    <2>3. row'.ackAt \in Nat
        <3>1. heard \subseteq Nat /\ row.through \in Nat /\ row.last \in Nat
            BY <1>0 DEF CursorInv, TypeOK, HistoryTypes, Entry
        <3> QED BY <2>1, <3>1 DEF ReadEnds
    <2>4. row'.ackAt <= t
        BY <2>2, <2>3
    <2> QED BY <2>2, <2>4 DEF FullRead
<1>4. CASE UnreadAnswered(TRUE)
    <2>1. PICK t \in {snapshot.all, snapshot.unread} : row' = Applied(row, t)
        BY <1>4 DEF UnreadAnswered
    <2>2. t \in Summaries
        BY <1>0, <2>1 DEF Snapshot
    <2>3. row.pending /\ row'.ackAt = row.ackAt
        <3>1. CASE t.there
            BY <1>0, <2>1, <2>2, <3>1, AppliedTells
        <3>2. CASE ~t.there
            BY <2>1, <3>2 DEF Applied, NoEntry
        <3> QED BY <3>1, <3>2
    <2>4. ~lowered
        BY <1>4 DEF UnreadAnswered
    <2> HIDE DEF Comes
    <2> QED BY <1>k, <2>3, <2>4
<1> QED BY RowMoves, <1>m, <1>1, <1>2, <1>3, <1>4

\* A step with nothing under way before and after it keeps what is settled: only a
\* query that is read or answered moves the refresh on, and only its last answer
\* or reading on touches the row.
LEMMA SettledStep ==
    ASSUME CursorInv, Works, ClientInv, ClientInv', TypeOK', SettledInv
    PROVE  SettledInv'
<1>0. /\ row \in Entry /\ Whole(row) /\ attention \in BOOLEAN /\ marker \in 0..MaxPosts
      /\ reads \in [Slots -> Read] /\ snapshot \in Snapshot /\ lowered \in BOOLEAN
      /\ posted \in Nat /\ viewed \in Nat /\ row.ackAt \in Nat
      /\ followed \in BOOLEAN /\ aged \in BOOLEAN
    BY FollowingAssumption DEF CursorInv, TypeOK, RowTypes, CallsTypes, RefreshTypes, ServerTypes,
           HistoryTypes, Whole, Entry
<1>a. Touches
    BY Footprints
<1> SUFFICES ASSUME ~Coming' PROVE SnapshotTrue' /\ (snapshot'.stage = "idle" => RowTrue')
    BY DEF SettledInv
<1>1. UNCHANGED <<posted, viewed, followed, aged>>
    BY ServerSigns
<1>2. CASE Coming
    <2>1. snapshot' = [NoSnapshot EXCEPT !.stage = "all"]
        BY <1>2, SignsEnd
    <2>2. snapshot'.stage = "all"
        BY <2>1 DEF NoSnapshot
    <2> QED BY <2>2 DEF SnapshotTrue
<1>3. CASE ~Coming
    <2>0. /\ SnapshotTrue /\ (snapshot.stage = "idle" => RowTrue)
          /\ \A s \in Slots : reads[s] = NoRead /\ reads[s].kind = "none"
          /\ manual = {}
        BY <1>3 DEF SettledInv, Coming, NoRead
    <2>c. \A s \in Slots : reads'[s] = NoRead /\ reads'[s].kind # "full"
        BY DEF Coming, NoRead
    <2>n. ~(\/ RefreshTimer \/ ReadsTaken \/ MarksTaken \/ FullsReplied \/ PartsReplied
            \/ MarkReplied \/ ReadElsewhere)
        <3>1. ~RefreshTimer
            BY <1>3 DEF Coming, RefreshTimer
        <3>2. ~ReadsTaken /\ ~FullsReplied /\ ~PartsReplied
            BY <2>0 DEF ReadsTaken, ReadTaken, FullsReplied, FullReplied, PartsReplied,
               PartReplied
        <3>3. ~MarksTaken /\ ~MarkReplied
            BY <2>0 DEF MarksTaken, MarkReplied
        <3>4. ~ReadElsewhere
            BY DEF ReadElsewhere, Coming
        <3> QED BY <3>1, <3>2, <3>3, <3>4
    <2>m. row'.present /\ ~row'.unread => ~attention'
        BY <2>c DEF ClientInv, MarkShown, Reading
    <2>s. \A b : UNCHANGED Summary(b)
        BY <1>1 DEF Summary
    <2>r. SameRow \/ UnreadAnswered(TRUE)
        <3>1. ~Schedule
            BY SignsCome
        <3>2. ASSUME NEW s \in Slots, ReadEnds(s) PROVE FALSE
            <4>1. PICK t : reads'[s] = FullRead(t)
                BY <1>0, <3>2 DEF ReadEnds, SendsRead
            <4> QED BY <2>c, <4>1 DEF FullRead
        <3> QED BY <2>n, <3>1, <3>2, RowMoves
    <2>t. UNCHANGED attention
        BY <1>a, <2>n DEF Touches
    <2>1. CASE UnreadAnswered(TRUE)
        <3>1. /\ snapshot.stage = "unreadRead" /\ snapshot' = NoSnapshot /\ UNCHANGED lowered
              /\ row' = Applied(row, IF snapshot.unread.there THEN snapshot.unread ELSE snapshot.all)
            BY <2>1 DEF UnreadAnswered
        <3>2. /\ snapshot.all = IF followed /\ ~aged THEN Summary(FALSE) ELSE NoThread
              /\ snapshot.unread = IF followed /\ viewed < posted THEN Summary(TRUE) ELSE NoThread
            BY <2>0, <3>1 DEF SnapshotTrue
        <3>3. PICK t : t = IF snapshot.unread.there THEN snapshot.unread ELSE snapshot.all
            OBVIOUS
        <3>4. /\ t \in Summaries
              /\ t.there <=> followed /\ (viewed < posted \/ ~aged)
              /\ t.there => t.last = posted /\ (t.unread <=> viewed < posted)
            <4>1. t \in Summaries
                BY <1>0, <3>3 DEF Snapshot
            <4>2. /\ \A b : Summary(b).there /\ Summary(b).last = posted /\ Summary(b).unread = b
                  /\ ~NoThread.there
                BY DEF Summary, NoThread
            <4>3. CASE followed /\ viewed < posted
                <5>1. t = Summary(TRUE)
                    BY <3>2, <3>3, <4>2, <4>3
                <5> QED BY <4>1, <4>2, <4>3, <5>1
            <4>4. CASE followed /\ ~(viewed < posted) /\ ~aged
                <5>1. t = Summary(FALSE)
                    BY <3>2, <3>3, <4>2, <4>4
                <5> QED BY <4>1, <4>2, <4>4, <5>1
            <4>5. CASE ~(followed /\ (viewed < posted \/ ~aged))
                <5>1. t = NoThread
                    BY <3>2, <3>3, <4>2, <4>5
                <5> QED BY <1>0, <4>1, <4>2, <4>5, <5>1
            <4> QED BY <4>3, <4>4, <4>5
        <3>5. row' = Applied(row, t)
            BY <3>1, <3>3
        <3>6. SnapshotTrue'
            <4>1. snapshot'.stage = "idle"
                BY <3>1 DEF NoSnapshot
            <4> QED BY <4>1 DEF SnapshotTrue
        <3>7. CASE t.there
            <4>1. /\ row'.present
                  /\ row'.unread => t.unread \/ attention
                  /\ ~row'.unread => \/ ~t.unread /\ ~attention
                                     \/ row'.pending /\ t.last <= row'.ackAt
                  /\ row'.pending => row.pending /\ row'.ackAt = row.ackAt
                BY <1>0, <3>4, <3>5, <3>7, AppliedTells
            <4>2. row'.unread => viewed < posted \/ attention
                BY <3>4, <3>7, <4>1
            <4>3. ~row'.unread /\ viewed < posted => row'.pending /\ posted <= row'.ackAt
                BY <3>4, <3>7, <4>1
            <4>4. ~row'.unread /\ viewed < posted => lowered
                <5>1. row.pending /\ ~lowered => row.ackAt <= viewed
                    BY <2>0 DEF ClientInv, AckTaken, ReadComing
                <5>2. ~row'.unread /\ viewed < posted => row.pending /\ posted <= row.ackAt
                    BY <4>1, <4>3
                <5> QED BY <1>0, <5>1, <5>2
            <4> QED BY <1>1, <2>m, <2>t, <3>1, <3>4, <3>6, <3>7, <4>1, <4>2, <4>3, <4>4 DEF RowTrue
        <3>8. CASE ~t.there
            <4>1. row' = row \/ row' = NoEntry
                BY <3>5, <3>8 DEF Applied
            <4>2. row'.present => attention
                BY <3>5, <3>8 DEF Applied, NoEntry
            <4>3. ~(followed /\ (viewed < posted \/ ~aged))
                BY <3>4, <3>8
            <4> QED BY <1>1, <2>m, <2>t, <3>6, <4>2, <4>3 DEF RowTrue
        <3> QED BY <3>7, <3>8
    <2>2. ASSUME SameRow, snapshot.stage = "idle" PROVE RowTrue'
        <3>1. RowTrue
            BY <2>0, <2>2
        <3>2. lowered => lowered'
            BY <2>2 DEF SameRow
        <3> QED BY <1>1, <2>2, <2>t, <3>1, <3>2 DEF SameRow, RowTrue
    <2>3. CASE UNCHANGED snapshot /\ SameRow
        <3>1. SnapshotTrue'
            BY <1>1, <2>0, <2>3, <2>s DEF SnapshotTrue
        <3> QED BY <2>2, <2>3, <3>1
    <2>4. CASE AllRead
        <3>1. PICK t : t = IF followed /\ ~aged THEN Summary(FALSE) ELSE NoThread
            OBVIOUS
        <3>2. snapshot' = [snapshot EXCEPT !.stage = "allRead", !.all = t]
            BY <2>4, <3>1 DEF AllRead
        <3>3. snapshot'.stage = "allRead" /\ snapshot'.all = t
            BY <1>0, <3>2 DEF Snapshot
        <3> QED BY <1>1, <2>s, <3>1, <3>3 DEF SnapshotTrue
    <2>5. CASE UnreadRead
        <3>1. PICK t : t = IF followed /\ viewed < posted THEN Summary(TRUE) ELSE NoThread
            OBVIOUS
        <3>2. snapshot.stage = "unread" /\ snapshot' = [snapshot EXCEPT !.stage = "unreadRead", !.unread = t]
            BY <2>5, <3>1 DEF UnreadRead
        <3>3. snapshot'.stage = "unreadRead" /\ snapshot'.unread = t /\ snapshot'.all = snapshot.all
            BY <1>0, <3>2 DEF Snapshot
        <3> QED BY <1>1, <2>0, <2>s, <3>1, <3>2, <3>3 DEF SnapshotTrue
    <2>6. CASE AllAnswered(TRUE)
        <3>1. snapshot.stage = "allRead" /\ snapshot'.stage = "unread" /\ snapshot'.all = snapshot.all
            BY <2>6 DEF AllAnswered
        <3> QED BY <1>1, <2>0, <2>s, <3>1 DEF SnapshotTrue
    <2> QED BY <1>a, <2>n, <2>r, <2>1, <2>3, <2>4, <2>5, <2>6 DEF Touches
<1> QED BY <1>2, <1>3

\* It holds at the start,
LEMMA RowInit == Init => RowInv
<1> SUFFICES ASSUME Init PROVE RowInv
    OBVIOUS
<1>1. CursorInv
    BY CursorInit
<1>2. /\ posted \in Nat /\ viewed \in 0..posted /\ timer /\ manual = {}
      /\ row = NoEntry /\ snapshot = NoSnapshot /\ attention = FALSE
      /\ view = [gate |-> 0, observed |-> 0, sent |-> 0, due |-> FALSE, inFlight |-> FALSE]
      /\ \A s \in Slots : reads[s] = NoRead
    BY FollowingAssumption DEF Init
<1>3. ReadsMark
    BY <1>2 DEF ReadsMark, NoRead
<1>4. MarkShown /\ AckTaken
    BY <1>2 DEF MarkShown, AckTaken, NoEntry
<1>5. SettledInv
    BY <1>2 DEF SettledInv, Coming
<1> QED BY <1>1, <1>3, <1>4, <1>5 DEF RowInv, ClientInv

\* and every step keeps it.
LEMMA RowStep == RowInv /\ [Next]_vars => RowInv'
<1> SUFFICES ASSUME RowInv, [Next]_vars PROVE RowInv'
    OBVIOUS
<1>1. CursorInv /\ CursorInv'
    BY CursorStep DEF RowInv
<1>2. TypeOK'
    BY <1>1 DEF CursorInv
<1> SUFFICES ASSUME ~failed' PROVE (ReadsMark /\ ClientInv /\ SettledInv)'
    BY <1>1 DEF RowInv
<1>3. ~failed /\ Works
    BY <1>1, NothingFailed
<1>4. ReadsMark /\ ClientInv /\ SettledInv
    BY <1>3 DEF RowInv
<1>5. ReadsMark'
    BY <1>1, <1>3, <1>4, ReadsMarkStep
<1>6. ClientInv'
    BY <1>1, <1>3, <1>4, <1>5, MarkShownStep, AckStep DEF ClientInv
<1>7. SettledInv'
    BY <1>1, <1>2, <1>3, <1>4, <1>6, SettledStep
<1> QED BY <1>5, <1>6, <1>7

\* FollowingModel's row tells what the server has of the thread once all is answered
\* and nothing failed: whoever follows, reads or marks it, on which device and by
\* which clock, and in whatever order the queries, the reads and the marks are taken
\* and answered.  Two exceptions are part of it: a thread that is read and beyond the
\* first page may have no row, and a pending acknowledgement may show as read replies
\* it covers when the server has less read since, or when the read that was sent named
\* a time before them.
THEOREM RowTells == Spec => []RowTellsServer
<1>1. RowInv => RowTellsServer
    <2> SUFFICES ASSUME RowInv, Quiet PROVE RowTrue
        BY DEF RowTellsServer, RowTrue
    <2>1. ~failed /\ snapshot.stage = "idle" /\ ~requested
        BY DEF Quiet, RowInv, CursorInv, TypeOK, RefreshTypes
    <2>2. ~Coming
        BY <2>1 DEF Quiet, Coming
    <2> QED BY <2>1, <2>2 DEF RowInv, SettledInv
<1> QED BY <1>1, RowInit, RowStep, PTL DEF Spec
=============================================================================
