--------------------------- MODULE RealtimeProofs ---------------------------
(***************************************************************************)
(* The realtime connection and its polling fallback, for every bound on    *)
(* the events, the disruptions and the logins: something is always under   *)
(* way, the events are handled once and in order, no gap is silent, and no *)
(* post is announced by two polls.                                         *)
(***************************************************************************)
EXTENDS RealtimeFallback, TLAPS

\* The part of the type invariant that the argument needs.
Shape ==
    /\ token \in BOOLEAN
    /\ endpoint \in {"none", "asked", "known"}
    /\ conn \in States /\ socket \in Sockets
    /\ timers \subseteq Timers /\ flags \subseteq Flags

DriveInv == Shape /\ Underway

USE DEF States, Sockets, Timers, Flags

\* It holds at the start.
LEMMA InitDriven == Init => DriveInv
  BY DEF Init, DriveInv, Shape, Underway

\* Losing the socket leaves a reconnect or a new attempt under way.
LEMMA DroppedDriven ==
    ASSUME Shape, Underway, NEW ts \in SUBSET timers, NEW fl \in SUBSET Flags,
           "suppress" \in fl => ~token,
           socket # "unconnected",
           UNCHANGED <<token, endpoint>>, Dropped(ts, fl)
    PROVE  DriveInv'
<1> USE DEF Dropped, DriveInv, Shape, Underway, OpenSocket, ScheduleReconnect
<1>1. CASE token /\ "suppress" \notin fl /\ "immediate" \in fl
  BY <1>1
<1>2. CASE token /\ "suppress" \notin fl /\ "immediate" \notin fl
  BY <1>2
<1>3. CASE ~token \/ "suppress" \in fl
  BY <1>3
<1> QED
  BY <1>1, <1>2, <1>3

\* Every step leaves something under way.
LEMMA StepDriven == DriveInv /\ [Next]_vars => DriveInv'
<1> SUFFICES ASSUME DriveInv, [Next]_vars PROVE DriveInv'
  OBVIOUS
<1> USE DEF DriveInv, Shape, Underway, stream, position, bounds
<1>1. CASE Open
  BY <1>1 DEF Open
<1>2. CASE ConfigReply
  BY <1>2 DEF ConfigReply, OpenSocket
<1>3. CASE Close
  BY <1>3 DEF Close
<1>4. CASE SocketClosed
  BY <1>4, DroppedDriven DEF SocketClosed
<1>5. CASE ConnectionLost
  BY <1>5, DroppedDriven DEF ConnectionLost
<1>6. CASE RouteDies
  BY <1>6 DEF RouteDies, client
<1>7. CASE ReconnectTimer
  BY <1>7 DEF ReconnectTimer, OpenSocket
<1>8. CASE ConnectionAttemptTimer
  <2> DEFINE ts == timers \ {"attempt"}
  <2>1. CASE ~token \/ "suppress" \in flags \/ conn = "Connected"
    BY <1>8, <2>1 DEF ConnectionAttemptTimer
  <2>2. CASE /\ token /\ "suppress" \notin flags /\ conn # "Connected"
             /\ socket = "unconnected"
    BY <1>8, <2>2 DEF ConnectionAttemptTimer, ScheduleReconnect
  <2>3. CASE /\ token /\ "suppress" \notin flags /\ conn # "Connected"
             /\ socket # "unconnected"
    <3>1. Dropped(ts, flags) /\ UNCHANGED <<token, endpoint>>
      BY <1>8, <2>3 DEF ConnectionAttemptTimer
    <3> QED
      BY <2>3, <3>1, DroppedDriven
  <2> QED
    BY <2>1, <2>2, <2>3
<1>9. CASE HeartbeatTimer
  BY <1>9 DEF HeartbeatTimer
<1>10. CASE HeartbeatReplyTimer
  <2> DEFINE ts == timers \ {"reply"}
  <2>1. CASE socket = "connected"
    <3>1. Dropped(ts, flags) /\ UNCHANGED <<token, endpoint>>
      BY <1>10, <2>1 DEF HeartbeatReplyTimer
    <3> QED
      BY <2>1, <3>1, DroppedDriven
  <2>2. CASE socket # "connected"
    BY <1>10, <2>2 DEF HeartbeatReplyTimer
  <2> QED
    BY <2>1, <2>2
<1>11. CASE ReconnectNow
  <2> DEFINE ts == timers \ {"reconnect", "attempt"}
             fl == flags \cup {"immediate"}
  <2>1. CASE socket = "unconnected"
    BY <1>11, <2>1 DEF ReconnectNow, OpenSocket
  <2>2. CASE socket # "unconnected"
    <3>1. /\ Dropped(ts, fl) /\ UNCHANGED <<token, endpoint>>
          /\ "suppress" \notin fl
      BY <1>11, <2>2 DEF ReconnectNow
    <3> QED
      BY <2>2, <3>1, DroppedDriven
  <2> QED
    BY <2>1, <2>2
<1>12. CASE NetworkChanged
  BY <1>12 DEF NetworkChanged
<1>13. CASE Publish
  BY <1>13 DEF Publish, client
<1>14. CASE SocketConnected
  BY <1>14 DEF SocketConnected
<1>15. CASE FrameDropped
  BY <1>15 DEF FrameDropped, client
<1>16. CASE Pong
  BY <1>16 DEF Pong
<1>17. ASSUME NEW ok \in BOOLEAN, AuthReply(ok)
       PROVE  DriveInv'
  <2> DEFINE fl == flags \ {"auth"}
  <2>1. CASE ok
    BY <1>17, <2>1 DEF AuthReply
  <2>2. CASE ~ok
    <3>1. Dropped(timers, fl) /\ UNCHANGED <<token, endpoint>> /\ socket = "connected"
      BY <1>17, <2>2 DEF AuthReply
    <3> QED
      BY <3>1, DroppedDriven
  <2> QED
    BY <2>1, <2>2
<1>18. ASSUME NEW hasId \in HelloIds, ReceiveHello(hasId)
       PROVE  DriveInv'
  <2> DEFINE id == IF hasId THEN live ELSE 0
             fl == HelloFlags(id)
  <2>1. /\ socket = "connected" /\ UNCHANGED <<token, endpoint>>
        /\ fl \in SUBSET Flags /\ ("suppress" \in fl => ~token)
    BY <1>18 DEF ReceiveHello, HelloFlags
  <2>2. Accept(fl, connId = 0 /\ next = 0) \/ Mismatch(fl)
    BY <1>18 DEF ReceiveHello
  <2>3. CASE Accept(fl, connId = 0 /\ next = 0)
    <3> HIDE DEF fl
    <3> QED
      BY <2>1, <2>3 DEF Accept
  <2>4. CASE Mismatch(fl)
    <3> HIDE DEF fl
    <3> QED
      BY <2>1, <2>4, DroppedDriven DEF Mismatch
  <2> QED
    BY <2>2, <2>3, <2>4
<1>19. CASE ReceiveEvent
  <2>1. /\ socket = "connected" /\ UNCHANGED <<token, endpoint>>
        /\ Accept(flags, FALSE) \/ Mismatch(flags)
    BY <1>19 DEF ReceiveEvent
  <2>2. CASE Accept(flags, FALSE)
    BY <2>1, <2>2 DEF Accept
  <2>3. CASE Mismatch(flags)
    BY <2>1, <2>3, DroppedDriven DEF Mismatch
  <2> QED
    BY <2>1, <2>2, <2>3
<1>20. CASE UNCHANGED vars
  BY <1>20 DEF vars, client
<1> QED
  BY <1>1, <1>2, <1>3, <1>4, <1>5, <1>6, <1>7, <1>8, <1>9, <1>10, <1>11, <1>12,
     <1>13, <1>14, <1>15, <1>16, <1>17, <1>18, <1>19, <1>20 DEF Next

\* The connector never waits for nothing: Spec => []AlwaysDriven.
THEOREM NeverStranded == Spec => []AlwaysDriven
<1>1. DriveInv => AlwaysDriven
  BY DEF DriveInv, Shape, Underway, AlwaysDriven
<1> QED
  BY <1>1, InitDriven, StepDriven, PTL DEF Spec

-----------------------------------------------------------------------------
\* The types of the place in the stream.
Numbers ==
    /\ from \in Seq(Nat) /\ dispatched \in Seq(Nat)
    /\ next \in Nat /\ wire \in Nat /\ connId \in Nat /\ live \in Nat
    /\ published \in Nat

OrderInv == Numbers /\ Places /\ DispatchedInOrder

\* The order of events holds at the start,
LEMMA InitOrdered == Init => OrderInv
  BY DEF Init, OrderInv, Numbers, Places, Behind, DispatchedInOrder

\* Losing a socket does not change the place in the stream.
LEMMA DroppedOrdered ==
    ASSUME OrderInv, NEW ts, NEW fl, Dropped(ts, fl),
           UNCHANGED <<from, dispatched, next, connId, published>>, wire' \in Nat
    PROVE  OrderInv'
<1>1. live' = 0
  BY DEF Dropped
<1> QED
  BY <1>1 DEF OrderInv, Numbers, Places, Behind, DispatchedInOrder

\* A step that leaves the place in the stream, and does not connect a socket.
LEMMA SamePlace ==
    ASSUME OrderInv, socket' = "connected" => socket = "connected",
           UNCHANGED <<from, dispatched, next, connId, published, live, wire>>
    PROVE  OrderInv'
  BY DEF OrderInv, Numbers, Places, Behind, DispatchedInOrder

\* An event that is in sequence comes after every one handled before it.
LEMMA EventOrdered == OrderInv /\ ReceiveEvent => OrderInv'
<1> SUFFICES ASSUME OrderInv, ReceiveEvent PROVE OrderInv'
  OBVIOUS
<1> DEFINE e == from[live] + wire
<1>1. /\ socket = "connected" /\ live # 0 /\ live \in DOMAIN from
      /\ wire \in 1..(published - from[live]) /\ wire' = wire + 1
      /\ UNCHANGED <<connId, published, from>>
  BY DEF ReceiveEvent, OrderInv, Numbers, Places
<1>2. from[live] \in Nat /\ e \in Nat /\ e <= published /\ published \in Nat
  BY <1>1 DEF OrderInv, Numbers
<1>3. CASE wire = next
  <2>1. /\ dispatched' = Append(dispatched, e) /\ next' = wire + 1
        /\ UNCHANGED <<socket, live>>
    BY <1>3 DEF ReceiveEvent, Accept
  <2>2. /\ \A i \in DOMAIN dispatched : dispatched[i] < e
        /\ connId # 0 => connId = live
    BY <1>1, <1>3 DEF OrderInv, Places, Behind, Numbers
  <2>3. e = from[live] + wire
    OBVIOUS
  <2> HIDE DEF e
  <2>4. /\ dispatched' \in Seq(Nat) /\ Len(dispatched') = Len(dispatched) + 1
        /\ \A i \in DOMAIN dispatched : dispatched'[i] = dispatched[i]
        /\ dispatched'[Len(dispatched')] = e
        /\ DOMAIN dispatched' = DOMAIN dispatched \cup {Len(dispatched')}
        /\ \A i \in DOMAIN dispatched : i \in Nat /\ i < Len(dispatched')
    <3>1. dispatched \in Seq(Nat)
      BY DEF OrderInv, Numbers
    <3>2. dispatched' = Append(dispatched, e) /\ e \in Nat
      BY <2>1, <1>2
    <3>3. /\ dispatched' \in Seq(Nat) /\ Len(dispatched') = Len(dispatched) + 1
          /\ \A i \in 1..Len(dispatched) : dispatched'[i] = dispatched[i]
          /\ dispatched'[Len(dispatched) + 1] = e
      BY <3>1, <3>2
    <3>4. /\ Len(dispatched) \in Nat /\ DOMAIN dispatched = 1..Len(dispatched)
          /\ DOMAIN dispatched' = 1..Len(dispatched')
      BY <3>1, <3>3
    <3> QED
      BY <3>3, <3>4
  <2>5. \A i \in DOMAIN dispatched' : dispatched'[i] \in Nat /\ dispatched'[i] <= e
    <3>1. \A i \in DOMAIN dispatched : dispatched[i] \in Nat
      BY DEF OrderInv, Numbers
    <3>2. \A i \in DOMAIN dispatched :
             dispatched'[i] \in Nat /\ dispatched'[i] < e
      BY <3>1, <2>2, <2>4
    <3> QED
      BY <3>2, <2>4, <1>2
  <2>6. DispatchedInOrder'
    <3>1. \A i, j \in DOMAIN dispatched' : i < j => i \in DOMAIN dispatched
      BY <2>4
    <3> QED
      BY <3>1, <2>2, <2>4 DEF OrderInv, DispatchedInOrder
  <2>7. Numbers'
    BY <2>1, <2>4, <1>1, <1>2 DEF OrderInv, Numbers
  <2>8. Places'
    <3>1. next \in Nat /\ wire \in Nat
      BY DEF OrderInv, Numbers
    <3>2. \A i \in DOMAIN dispatched' : dispatched'[i] < from[live] + (wire + 1)
      BY <2>3, <2>5, <1>2, <3>1
    <3>3. Behind(from[live] + next)'
      BY <3>2, <2>1, <1>1 DEF Behind
    <3>4. Behind(published + 1)'
      <4>1. \A i \in DOMAIN dispatched' : dispatched'[i] < published + 1
        BY <2>5, <1>2
      <4> QED
        BY <4>1, <1>1 DEF Behind
    <3>5. live' # 0 /\ live' \in DOMAIN from' /\ wire' > 0 /\ next' >= 1
      BY <2>1, <1>1, <3>1
    <3> QED
      BY <3>3, <3>4, <3>5, <2>1, <2>2, <1>1, <1>2 DEF Places
  <2> QED
    BY <2>6, <2>7, <2>8 DEF OrderInv
<1>4. CASE wire # next
  <2>1. Dropped(timers, flags) /\ UNCHANGED <<next, dispatched>>
    BY <1>4 DEF ReceiveEvent, Mismatch
  <2> QED
    BY <2>1, <1>1, DroppedOrdered
<1> QED
  BY <1>3, <1>4

\* A hello starts the stream after every event handled before it.
LEMMA HelloOrdered ==
    ASSUME OrderInv, NEW hasId \in HelloIds, hasId \in BOOLEAN, ReceiveHello(hasId)
    PROVE  OrderInv'
<1> USE DEF OrderInv, Numbers, Places, Behind
<1> DEFINE id == IF hasId THEN live ELSE 0
           fl == HelloFlags(id)
<1>1. /\ socket = "connected" /\ live # 0 /\ live \in DOMAIN from /\ wire = 0
      /\ wire' = 1 /\ connId' = (IF id # 0 THEN id ELSE connId)
      /\ UNCHANGED <<published, from, dispatched>>
      /\ Behind(from[live] + 1)
  BY DEF ReceiveHello
<1>2. from[live] \in Nat /\ id \in Nat
  BY <1>1
<1>3. CASE HelloSequence(id) = 0
  <2>1. next' = 1 /\ UNCHANGED <<socket, live>>
    BY <1>1, <1>3 DEF ReceiveHello, Accept
  <2>2. connId' # 0 => connId' = live
    BY <1>1, <1>2, <1>3 DEF HelloSequence
  <2>3. DispatchedInOrder'
    BY <1>1 DEF DispatchedInOrder
  <2> QED
    BY <1>1, <1>2, <2>1, <2>2, <2>3
<1>4. CASE HelloSequence(id) # 0
  <2>1. Dropped(timers, fl) /\ UNCHANGED next
    BY <1>4 DEF ReceiveHello, Mismatch
  <2>2. live' = 0
    BY <2>1 DEF Dropped
  <2>3. CASE id = 0 \/ connId = id
    BY <2>3, <1>1, <2>1, DroppedOrdered
  <2>4. CASE id # 0 /\ connId # id
    <3>1. connId = 0 /\ connId' = live /\ next >= 1
      BY <2>4, <1>1, <1>4 DEF HelloSequence
    <3>2. Behind(from[live] + next)
      BY <3>1, <1>1, <1>2
    <3>3. DispatchedInOrder'
      BY <1>1 DEF DispatchedInOrder
    <3> QED
      BY <3>1, <3>2, <3>3, <2>1, <2>2, <1>1
  <2> QED
    BY <2>3, <2>4
<1> QED
  BY <1>3, <1>4

\* Connecting resumes the known stream at its place, or begins one after every
\* event published so far.
LEMMA ConnectOrdered == OrderInv /\ SocketConnected => OrderInv'
<1> SUFFICES ASSUME OrderInv, SocketConnected PROVE OrderInv'
  OBVIOUS
<1> USE DEF OrderInv, Numbers, Places, Behind
<1>1. UNCHANGED <<published, connId, next, dispatched>>
  BY DEF SocketConnected, position
<1>2. DispatchedInOrder'
  BY <1>1 DEF DispatchedInOrder
<1>3. CASE connId # 0 /\ live' = connId /\ wire' = next /\ UNCHANGED from
  BY <1>1, <1>2, <1>3
<1>4. CASE from' = Append(from, published) /\ live' = Len(from) + 1 /\ wire' = 0
  <2>1. /\ from' \in Seq(Nat) /\ Len(from') = Len(from) + 1
        /\ from'[live'] = published
        /\ \A s \in DOMAIN from : s \in DOMAIN from' /\ from'[s] = from[s]
    BY <1>4
  <2> QED
    BY <1>1, <1>2, <1>4, <2>1
<1> QED
  BY <1>3, <1>4 DEF SocketConnected

\* and in every step.
LEMMA StepOrdered == DriveInv /\ OrderInv /\ [Next]_vars => OrderInv'
<1> SUFFICES ASSUME DriveInv, OrderInv, [Next]_vars PROVE OrderInv'
  OBVIOUS
<1> USE DEF stream, position, bounds
<1>1. CASE Open
  <2>1. socket # "connected"
    BY <1>1 DEF Open, DriveInv, Underway
  <2> QED
    BY <1>1, <2>1 DEF Open, OrderInv, Numbers, Places, Behind, DispatchedInOrder
<1>2. CASE Close
  BY <1>2 DEF Close, OrderInv, Numbers, Places, Behind, DispatchedInOrder
<1>3. CASE SocketClosed \/ ConnectionLost
  BY <1>3, DroppedOrdered DEF SocketClosed, ConnectionLost, OrderInv, Numbers
<1>4. CASE ConfigReply \/ ReconnectTimer
  BY <1>4, SamePlace DEF ConfigReply, ReconnectTimer, OpenSocket
<1>5. CASE RouteDies \/ HeartbeatTimer \/ NetworkChanged \/ Pong
  BY <1>5, SamePlace DEF RouteDies, HeartbeatTimer, NetworkChanged, Pong, client
<1>6. CASE ConnectionAttemptTimer
  <2>1. UNCHANGED <<stream, position>>
    BY <1>6 DEF ConnectionAttemptTimer
  <2>2. (\E ts, fl : Dropped(ts, fl)) \/ UNCHANGED <<socket, live>>
    BY <1>6 DEF ConnectionAttemptTimer
  <2> QED
    BY <2>1, <2>2, DroppedOrdered, SamePlace DEF OrderInv, Numbers
<1>7. CASE HeartbeatReplyTimer
  <2>1. UNCHANGED <<stream, position>>
    BY <1>7 DEF HeartbeatReplyTimer
  <2>2. (\E ts, fl : Dropped(ts, fl)) \/ UNCHANGED <<socket, live>>
    BY <1>7 DEF HeartbeatReplyTimer
  <2> QED
    BY <2>1, <2>2, DroppedOrdered, SamePlace DEF OrderInv, Numbers
<1>8. CASE ReconnectNow
  <2>1. UNCHANGED <<stream, position>>
    BY <1>8 DEF ReconnectNow
  <2>2. \/ \E ts, fl : Dropped(ts, fl)
        \/ UNCHANGED live /\ socket' # "connected"
    BY <1>8 DEF ReconnectNow, OpenSocket
  <2> QED
    BY <2>1, <2>2, DroppedOrdered, SamePlace DEF OrderInv, Numbers
<1>9. CASE Publish
  BY <1>9 DEF Publish, client, OrderInv, Numbers, Places, Behind, DispatchedInOrder
<1>10. CASE SocketConnected
  BY <1>10, ConnectOrdered
<1>11. CASE FrameDropped
  BY <1>11 DEF FrameDropped, client, OrderInv, Numbers, Places, Behind,
               DispatchedInOrder
<1>12. ASSUME NEW ok \in BOOLEAN, AuthReply(ok)
       PROVE  OrderInv'
  <2>1. UNCHANGED <<stream, position>>
    BY <1>12 DEF AuthReply
  <2>2. (\E ts, fl : Dropped(ts, fl)) \/ UNCHANGED <<socket, live>>
    BY <1>12 DEF AuthReply
  <2> QED
    BY <2>1, <2>2, DroppedOrdered, SamePlace DEF OrderInv, Numbers
<1>13. ASSUME NEW hasId \in HelloIds, ReceiveHello(hasId)
       PROVE  OrderInv'
  BY <1>13, HelloOrdered, ConnectionAssumption
<1>14. CASE ReceiveEvent
  BY <1>14, EventOrdered
<1>15. CASE UNCHANGED vars
  BY <1>15, SamePlace DEF vars, client
<1> QED
  BY <1>1, <1>2, <1>3, <1>4, <1>5, <1>6, <1>7, <1>8, <1>9, <1>10, <1>11, <1>12,
     <1>13, <1>14, <1>15 DEF Next

\* However the stream is cut, resumed or replaced, and whether or not a hello has
\* an id, the events reach the handlers once and in order:
\* Spec => []DispatchedInOrder.
THEOREM HandledInOrder == Spec => []DispatchedInOrder
<1>1. OrderInv => DispatchedInOrder
  BY DEF OrderInv
<1> QED
  BY <1>1, InitDriven, StepDriven, InitOrdered, StepOrdered, PTL DEF Spec

-----------------------------------------------------------------------------
(* No silent gap, on servers that name every stream they begin.            *)

\* The client's place is in the stream whose hello it accepted last, and losing
\* that stream's socket is remembered until the outcome of the resume is known.
Remembered ==
    /\ accepted = connId
    /\ connId = 0 => next = 0
    /\ "immediate" \notin flags
    /\ socket = "connected" /\ "connectNotified" \in flags => conn = "Connected"
    /\ socket = "connected" /\ live # 0 => (connId = live <=> wire > 0)
    /\ connId # 0 /\ "hasReconnect" \notin flags =>
           socket = "connected" /\ live = connId /\ conn = "Connected"

\* Streams and refreshes begin no later than now.
Past ==
    /\ synced \in Nat /\ synced <= published
    /\ \A i \in DOMAIN from : from[i] <= published

GapInv == Remembered /\ Past /\ NoSilentGap

Session == DriveInv /\ OrderInv

\* What was handled or refreshed stays so while the place does not move.
LEMMA SameGap ==
    ASSUME NoSilentGap, UNCHANGED <<from, accepted, dispatched, synced, next>>
    PROVE  NoSilentGap'
  BY DEF NoSilentGap, Position, Handled

\* A socket that is lost hides nothing.
LEMMA DroppedGap ==
    ASSUME Session, GapInv, NEW ts \in SUBSET timers, NEW fl \in SUBSET Flags,
           "hasReconnect" \in flags => "hasReconnect" \in fl,
           "immediate" \in fl => conn # "Connected",
           "suppress" \in fl => ~token,
           Dropped(ts, fl),
           UNCHANGED <<published, from, accepted, dispatched, synced, next, connId>>
    PROVE  GapInv'
<1> USE DEF Session, DriveInv, Shape, Underway
<1>1. NoSilentGap' /\ Past'
  BY SameGap DEF GapInv, Past
<1>2. connId # 0 /\ "hasReconnect" \notin fl =>
        /\ socket = "connected" /\ conn = "Connected"
        /\ token /\ "reconnect" \notin timers
  BY DEF GapInv, Remembered
<1>3. /\ live' = 0 /\ socket' # "connected" /\ "immediate" \notin flags'
      /\ connId # 0 => "hasReconnect" \in flags'
  <2> DEFINE left == ts \ {"heartbeat", "reply", "attempt"}
             kept == fl \ {"connectNotified", "immediate", "suppress"}
  <2>1. CASE OpenSocket(endpoint = "known", left) /\ flags' = kept /\ "immediate" \in fl
    BY <1>2, <2>1 DEF Dropped, OpenSocket
  <2>2. CASE ScheduleReconnect(left, kept) /\ socket' = "unconnected"
    BY <1>2, <2>2 DEF Dropped, ScheduleReconnect
  <2>3. CASE (~token \/ "suppress" \in fl) /\ socket' = "unconnected" /\ flags' = kept
    BY <1>2, <2>3 DEF Dropped
  <2> QED
    BY <2>1, <2>2, <2>3 DEF Dropped
<1> QED
  BY <1>1, <1>3 DEF GapInv, Remembered

\* A step that keeps the place, and what it may forget of the connection.
LEMMA QuietGap ==
    ASSUME Session, GapInv,
           UNCHANGED <<from, accepted, dispatched, synced, next, connId, wire>>,
           published' \in Nat, published <= published',
           live' = live, socket' = "connected" => socket = "connected",
           "hasReconnect" \in flags => "hasReconnect" \in flags',
           "immediate" \notin flags',
           \/ UNCHANGED <<socket, conn>>
              /\ ("connectNotified" \in flags' => "connectNotified" \in flags)
           \/ socket' = "connected" /\ conn' = "Connected"
           \/ conn # "Connected" /\ socket' # "connected"
           \/ socket # "connected" /\ socket' # "connected"
    PROVE  GapInv'
<1>1. NoSilentGap'
  BY SameGap DEF GapInv
<1>2. Past'
  BY DEF GapInv, Past, Session, OrderInv, Numbers
<1>3. Remembered'
  BY DEF GapInv, Remembered
<1> QED
  BY <1>1, <1>2, <1>3 DEF GapInv

\* What accepting a frame does to the flags and to the place.
LEMMA AcceptedGap ==
    ASSUME Session, GapInv, NEW fl \in SUBSET Flags, NEW first \in BOOLEAN, Accept(fl, first),
           socket = "connected", live # 0,
           "connectNotified" \in fl => "connectNotified" \in flags,
           "immediate" \notin fl,
           wire' > 0, connId' = live, accepted' = live, UNCHANGED <<published, from>>
    PROVE  /\ Remembered' /\ Past' /\ next' = wire + 1
           /\ {"hasReconnect", "resumeFailed"} \subseteq fl \/ first => synced' = published
           /\ synced <= synced'
  BY DEF GapInv, Remembered, Past, Accept, Session, OrderInv, Numbers, DriveInv, Shape

\* A hello of the stream the client knows resumes it; one of another makes it refresh.
LEMMA HelloGap == ASSUME Session, GapInv, ReceiveHello(TRUE) PROVE GapInv'
<1> DEFINE first == connId = 0 /\ next = 0
           fl    == HelloFlags(live)
<1>1. /\ socket = "connected" /\ live # 0 /\ wire = 0 /\ wire' = 1 /\ connId' = live
      /\ UNCHANGED <<published, from, dispatched>>
  BY DEF ReceiveHello
<1>2. connId # live
  BY <1>1 DEF GapInv, Remembered
<1>3. HelloSequence(live) = 0
  BY <1>1, <1>2 DEF HelloSequence, GapInv, Remembered
<1>4. Accept(fl, first) /\ accepted' = live
  BY <1>1, <1>3 DEF ReceiveHello
<1>5. /\ fl \in SUBSET Flags /\ "immediate" \notin fl
      /\ "connectNotified" \in fl => "connectNotified" \in flags
  BY DEF HelloFlags, GapInv, Remembered, Session, DriveInv, Shape
<1>6. /\ Remembered' /\ Past' /\ next' = wire + 1
      /\ {"hasReconnect", "resumeFailed"} \subseteq fl \/ first => synced' = published
  <2> HIDE DEF fl, first
  <2>1. first \in BOOLEAN
    BY DEF first
  <2> QED
    BY <1>1, <1>4, <1>5, <2>1, AcceptedGap
<1>7. {"hasReconnect", "resumeFailed"} \subseteq fl \/ first
  <2>1. CASE connId = 0
    BY <2>1 DEF GapInv, Remembered
  <2>2. CASE connId # 0
    BY <1>1, <1>2, <2>2 DEF GapInv, Remembered, HelloFlags
  <2> QED
    BY <2>1, <2>2
<1>8. Position' <= published /\ Position' \in Nat
  <2>1. live \in DOMAIN from /\ from[live] \in Nat /\ from[live] <= published
    BY <1>1 DEF GapInv, Past, Session, OrderInv, Numbers, Places
  <2> QED
    BY <1>1, <1>4, <1>6, <2>1 DEF Position
<1>9. NoSilentGap'
  BY <1>1, <1>6, <1>7, <1>8 DEF NoSilentGap, Session, OrderInv, Numbers
<1> QED
  BY <1>6, <1>9 DEF GapInv

\* An event that follows on is handled; a place beyond it is refused.
LEMMA EventGap == ASSUME Session, GapInv, ReceiveEvent PROVE GapInv'
<1> DEFINE e == from[live] + wire
<1>1. /\ socket = "connected" /\ live # 0 /\ live \in DOMAIN from
      /\ wire > 0 /\ wire \in Nat /\ wire' = wire + 1
      /\ from[live] \in Nat /\ published \in Nat
      /\ UNCHANGED <<connId, published, from, accepted>>
  BY DEF ReceiveEvent, Session, OrderInv, Numbers, Places
<1>2. connId = live /\ accepted = live /\ "immediate" \notin flags /\ flags \in SUBSET Flags
  BY <1>1 DEF GapInv, Remembered, Session, DriveInv, Shape
<1>3. CASE wire = next
  <2>1. Accept(flags, FALSE) /\ dispatched' = Append(dispatched, e)
    BY <1>3 DEF ReceiveEvent
  <2>2. Remembered' /\ Past' /\ next' = wire + 1 /\ synced <= synced'
    <3>1. wire' > 0 /\ connId' = live /\ accepted' = live /\ FALSE \in BOOLEAN
      BY <1>1, <1>2
    <3> QED
      BY <1>1, <1>2, <2>1, <3>1, AcceptedGap
  <2>3. Handled' = Handled \cup {e}
    <3>1. dispatched \in Seq(Nat) /\ e \in Nat
      BY <1>1 DEF Session, OrderInv, Numbers
    <3> HIDE DEF e
    <3>2. /\ DOMAIN dispatched' = DOMAIN dispatched \cup {Len(dispatched) + 1}
          /\ \A i \in DOMAIN dispatched : dispatched'[i] = dispatched[i]
          /\ dispatched'[Len(dispatched) + 1] = e
      BY <2>1, <3>1
    <3> QED
      BY <3>2 DEF Handled
  <2>4. Position' = e /\ Position = e - 1
    BY <1>1, <1>2, <1>3, <2>2 DEF Position
  <2>5. ASSUME NEW n \in 1..Position' PROVE n \in Handled' \/ n <= synced'
    <3>1. CASE n = e
      BY <2>3, <3>1
    <3>2. CASE n # e
      <4>1. n \in 1..Position
        BY <1>1, <2>4, <3>2
      <4>2. n \in Handled \/ n <= synced
        BY <4>1 DEF GapInv, NoSilentGap
      <4> QED
        BY <2>2, <2>3, <4>2 DEF GapInv, Past
    <3> QED
      BY <3>1, <3>2
  <2> QED
    BY <2>2, <2>5 DEF GapInv, NoSilentGap
<1>4. CASE wire # next
  <2>1. /\ Dropped(timers, flags)
        /\ UNCHANGED <<published, from, accepted, dispatched, synced, next, connId>>
    BY <1>1, <1>4 DEF ReceiveEvent, Mismatch
  <2>2. "suppress" \in flags => ~token
    BY DEF Session, DriveInv, Underway
  <2> QED
    BY <1>2, <2>1, <2>2, DroppedGap
<1> QED
  BY <1>3, <1>4

\* A socket that is connected has shown nothing yet.
LEMMA ConnectGap == ASSUME Session, GapInv, SocketConnected PROVE GapInv'
<1>1. /\ UNCHANGED <<published, connId, next, dispatched, accepted, synced, conn>>
      /\ socket # "connected" /\ socket' = "connected"
      /\ "connectNotified" \notin flags' /\ "immediate" \notin flags'
      /\ "hasReconnect" \in flags => "hasReconnect" \in flags'
  BY DEF SocketConnected, position, GapInv, Remembered
<1>2. connId # 0 => "hasReconnect" \in flags'
  BY <1>1 DEF GapInv, Remembered
<1>3. CASE connId # 0 /\ live' = connId /\ wire' = next /\ UNCHANGED from
  <2>1. next > 0
    BY <1>3 DEF Session, OrderInv, Places, Numbers
  <2>2. NoSilentGap' /\ Past'
    BY <1>1, <1>3, SameGap DEF GapInv, Past
  <2> QED
    BY <1>1, <1>2, <1>3, <2>1, <2>2 DEF GapInv, Remembered
<1>4. CASE from' = Append(from, published) /\ live' = Len(from) + 1 /\ wire' = 0
  <2>1. /\ from \in Seq(Nat) /\ published \in Nat /\ connId \in Nat
        /\ connId # 0 => connId \in DOMAIN from
    BY DEF Session, OrderInv, Numbers, Places
  <2>2. /\ DOMAIN from' = DOMAIN from \cup {live'} /\ from'[live'] = published
        /\ \A s \in DOMAIN from : from'[s] = from[s]
        /\ live' \notin DOMAIN from /\ live' # 0
    BY <1>4, <2>1
  <2>3. Past'
    BY <1>1, <2>1, <2>2 DEF GapInv, Past
  <2>4. connId # live'
    BY <2>1, <2>2
  <2>5. Remembered'
    BY <1>1, <1>2, <1>4, <2>4 DEF GapInv, Remembered
  <2>6. Position' = Position
    BY <1>1, <2>1, <2>2 DEF Position, GapInv, Remembered
  <2>7. NoSilentGap'
    BY <1>1, <2>6 DEF GapInv, NoSilentGap, Handled
  <2> QED
    BY <2>3, <2>5, <2>7 DEF GapInv
<1> QED
  BY <1>3, <1>4 DEF SocketConnected

\* The client never moves past an event it neither handled nor covered by a
\* refresh, however its streams are cut, resumed, replaced or thinned out, on a
\* server whose hellos carry the id of the stream (with ids on some hellos only,
\* a place could be taken into another stream).
THEOREM NoGapIsSilent ==
    ASSUME FALSE \notin HelloIds
    PROVE  Spec => []NoSilentGap
<1>1. Init => GapInv
  BY DEF Init, GapInv, Remembered, Past, NoSilentGap, Position, Handled
<1>2. Session /\ GapInv /\ [Next]_vars => GapInv'
  <2> SUFFICES ASSUME Session, GapInv, [Next]_vars PROVE GapInv'
    OBVIOUS
  <2> USE DEF stream, position, bounds
  <2>a. /\ "suppress" \in flags => ~token
        /\ "immediate" \notin flags
        /\ timers \subseteq Timers /\ flags \subseteq Flags /\ published \in Nat
    BY DEF Session, DriveInv, Shape, Underway, GapInv, Remembered, OrderInv, Numbers
  <2>b. ASSUME NEW ts \in SUBSET timers, Dropped(ts, flags), UNCHANGED <<stream, position>>
        PROVE  GapInv'
    BY <2>a, <2>b, DroppedGap
  <2>1. CASE Open
    <3>1. ~token /\ connId' = 0 /\ next' = 0 /\ accepted' = 0 /\ flags' = {}
          /\ UNCHANGED <<socket, published, from, synced, dispatched>>
      BY <2>1 DEF Open
    <3>2. socket # "connected"
      BY <3>1 DEF Session, DriveInv, Underway
    <3> QED
      BY <3>1, <3>2 DEF GapInv, Remembered, Past, NoSilentGap, Position, Session, OrderInv,
         Numbers
  <2>2. CASE Close
    <3>1. /\ connId' = 0 /\ next' = 0 /\ accepted' = 0 /\ flags' \in {{}, {"suppress"}}
          /\ UNCHANGED <<published, from, synced, dispatched>>
          /\ socket' # "connected"
      BY <2>2 DEF Close
    <3> QED
      BY <3>1 DEF GapInv, Remembered, Past, NoSilentGap, Position, Session, OrderInv, Numbers
  <2>3. CASE SocketClosed \/ ConnectionLost
    BY <2>3, <2>b DEF SocketClosed, ConnectionLost
  <2>4. CASE ConfigReply
    BY <2>4, <2>a, QuietGap DEF ConfigReply, OpenSocket
  <2>5. CASE ReconnectTimer
    BY <2>5, <2>a, QuietGap DEF ReconnectTimer, OpenSocket
  <2>6. CASE RouteDies \/ HeartbeatTimer \/ NetworkChanged \/ Pong
    BY <2>6, <2>a, QuietGap DEF RouteDies, HeartbeatTimer, NetworkChanged, Pong, client
  <2>7. CASE ConnectionAttemptTimer
    <3> DEFINE ts == timers \ {"attempt"}
    <3>1. UNCHANGED <<stream, position>>
      BY <2>7 DEF ConnectionAttemptTimer
    <3>2. CASE UNCHANGED <<conn, socket, flags, dead, live, signal>>
      BY <2>a, <3>1, <3>2, QuietGap
    <3>3. CASE socket = "unconnected" /\ ScheduleReconnect(ts \ {"heartbeat", "reply"}, flags)
               /\ UNCHANGED <<socket, live>>
      BY <2>a, <3>1, <3>3, QuietGap DEF ScheduleReconnect
    <3>4. CASE Dropped(ts, flags)
      BY <3>1, <3>4, <2>b
    <3> QED
      BY <2>7, <3>2, <3>3, <3>4 DEF ConnectionAttemptTimer
  <2>8. CASE HeartbeatReplyTimer
    <3>1. UNCHANGED <<stream, position>>
      BY <2>8 DEF HeartbeatReplyTimer
    <3>2. CASE UNCHANGED <<conn, socket, flags, dead, live, signal>>
      BY <2>a, <3>1, <3>2, QuietGap
    <3>3. CASE Dropped(timers \ {"reply"}, flags)
      BY <3>1, <3>3, <2>b
    <3> QED
      BY <2>8, <3>2, <3>3 DEF HeartbeatReplyTimer
  <2>9. CASE ReconnectNow
    <3> DEFINE ts == timers \ {"reconnect", "attempt"}
               fl == flags \cup {"immediate"}
    <3>1. UNCHANGED <<stream, position>> /\ conn # "Connected" /\ "suppress" \notin flags
      BY <2>9 DEF ReconnectNow
    <3>2. CASE socket = "unconnected" /\ OpenSocket(endpoint = "known", ts)
               /\ flags' = flags \ {"immediate"} /\ UNCHANGED live
      BY <2>a, <3>1, <3>2, QuietGap DEF OpenSocket
    <3>3. CASE Dropped(ts, fl)
      <4>1. ts \in SUBSET timers /\ fl \in SUBSET Flags
        BY <2>a
      <4> HIDE DEF ts, fl
      <4>2. ("hasReconnect" \in flags => "hasReconnect" \in fl) /\ "suppress" \notin fl
        BY <3>1 DEF fl
      <4> QED
        BY <3>1, <3>3, <4>1, <4>2, DroppedGap
    <3> QED
      BY <2>9, <3>2, <3>3 DEF ReconnectNow
  <2>10. CASE Publish
    BY <2>10, <2>a, QuietGap DEF Publish, client
  <2>11. CASE SocketConnected
    BY <2>11, ConnectGap
  <2>12. CASE FrameDropped
    <3>1. /\ UNCHANGED <<client, published, from, live, dispatched, accepted, synced>>
          /\ wire > 0 /\ wire' = wire + 1 /\ wire \in Nat
      BY <2>12 DEF FrameDropped, Session, OrderInv, Numbers
    <3> QED
      BY <3>1, SameGap DEF client, GapInv, Remembered, Past
  <2>13. ASSUME NEW ok \in BOOLEAN, AuthReply(ok) PROVE GapInv'
    <3> DEFINE fl == flags \ {"auth"}
    <3>1. UNCHANGED <<stream, position>> /\ socket = "connected"
      BY <2>13 DEF AuthReply
    <3>2. CASE UNCHANGED <<socket, dead, live>> /\ flags' = fl \cup {"connectNotified"}
               /\ \/ "connectNotified" \in flags /\ UNCHANGED conn
                  \/ conn' = "Connected"
      BY <2>a, <3>1, <3>2, QuietGap
    <3>3. CASE Dropped(timers, fl)
      <4>1. fl \in SUBSET Flags /\ "immediate" \notin fl
            /\ ("hasReconnect" \in flags => "hasReconnect" \in fl)
            /\ ("suppress" \in fl => ~token)
        BY <2>a
      <4> HIDE DEF fl
      <4> QED
        BY <3>1, <3>3, <4>1, DroppedGap
    <3> QED
      BY <2>13, <3>2, <3>3 DEF AuthReply
  <2>14. ASSUME NEW hasId \in HelloIds, ReceiveHello(hasId) PROVE GapInv'
    <3>1. hasId = TRUE
      BY ConnectionAssumption DEF ConnectionAssumption
    <3> QED
      BY <2>14, <3>1, HelloGap
  <2>15. CASE ReceiveEvent
    BY <2>15, EventGap
  <2>16. CASE UNCHANGED vars
    BY <2>16, <2>a, QuietGap DEF vars, client
  <2> QED
    BY <2>1, <2>2, <2>3, <2>4, <2>5, <2>6, <2>7, <2>8, <2>9, <2>10, <2>11, <2>12,
       <2>13, <2>14, <2>15, <2>16 DEF Next
<1>3. GapInv => NoSilentGap
  BY DEF GapInv
<1> QED
  BY <1>1, <1>2, <1>3, InitDriven, StepDriven, InitOrdered, StepOrdered, PTL DEF Spec, Session

-----------------------------------------------------------------------------
(* The polling fallback.                                                   *)

\* What a poll announced is known, to the poll under way too.
PollInv ==
    /\ polled \in [Posts -> Nat] /\ PolledOnce
    /\ polls = << >> \/ polls = <<Head(polls)>>
    /\ \A e \in Posts : polled[e] > 0 =>
          e \in known /\ (polls # << >> => e \in Head(polls).known)

\* A poll that starts knows what every earlier one announced.
LEMMA PollNowOnce ==
    ASSUME PollInv, known \subseteq known', PollNow \/ UNCHANGED polls, UNCHANGED polled
    PROVE  PollInv'
<1>1. CASE UNCHANGED polls
  BY <1>1 DEF PollInv, PolledOnce
<1>2. CASE polls' = << [known |-> known, least |-> published] >>
  <2>1. PICK poll : poll = [known |-> known, least |-> published]
    OBVIOUS
  <2>2. polls' = <<poll>> /\ poll.known = known
    BY <1>2, <2>1
  <2>3. Head(polls') = poll /\ polls' = <<Head(polls')>>
    BY <2>2
  <2> QED
    BY <2>2, <2>3 DEF PollInv, PolledOnce
<1> QED
  BY <1>1, <1>2 DEF PollNow

\* The answer to a poll announces only what no earlier poll did.
LEMMA PollReplyOnce ==
    ASSUME PollInv, NEW upTo, polls # << >>, Delivered(Head(polls), upTo), polls' = Tail(polls)
    PROVE  PollInv'
<1> DEFINE poll == Head(polls)
           page == {e \in Posts : Newest(poll.known) < e /\ e <= upTo}
<1>1. polls' = << >>
  BY DEF PollInv
<1>2. /\ known' = known \cup page
      /\ polled' = [e \in Posts |-> IF e \in page \ poll.known THEN polled[e] + 1 ELSE polled[e]]
  BY DEF Delivered
<1> HIDE DEF page
<1>3. \A e \in Posts : polled[e] \in Nat /\ polled[e] <= 1
                       /\ (polled[e] > 0 => e \in known /\ e \in poll.known)
  BY DEF PollInv, PolledOnce
<1>4. ASSUME NEW e \in Posts
      PROVE  polled'[e] \in Nat /\ polled'[e] <= 1 /\ (polled'[e] > 0 => e \in known')
  <2>1. CASE e \in page \ poll.known
    BY <1>2, <1>3, <2>1
  <2>2. CASE e \notin page \ poll.known
    BY <1>2, <1>3, <2>2
  <2> QED
    BY <2>1, <2>2
<1>5. polled' \in [Posts -> Nat]
  BY <1>2, <1>4
<1> QED
  BY <1>1, <1>4, <1>5 DEF PollInv, PolledOnce

\* However the connection flaps while a poll is in flight, and however late its
\* answer, no post is announced by two polls.
THEOREM PollsOnce == FallbackSpec => []PolledOnce
<1>1. FallbackInit => PollInv
  BY DEF FallbackInit, PollInv, PolledOnce
<1>2. PollInv /\ [FallbackNext]_fallbackVars => PollInv'
  <2> SUFFICES ASSUME PollInv, [FallbackNext]_fallbackVars PROVE PollInv'
    OBVIOUS
  <2>1. CASE Connection
    BY <2>1, PollNowOnce DEF Connection, Follow
  <2>2. CASE OpenChannel
    BY <2>2, PollNowOnce DEF OpenChannel, content
  <2>3. CASE PollTimer
    BY <2>3, PollNowOnce DEF PollTimer
  <2>4. ASSUME NEW ok \in BOOLEAN, NEW upTo \in 0..MaxEvents, PollReply(ok, upTo)
        PROVE  PollInv'
    <3>1. CASE Delivered(Head(polls), upTo)
      BY <2>4, <3>1, PollReplyOnce DEF PollReply
    <3>2. CASE UNCHANGED <<known, polled>>
      BY <2>4, <3>2 DEF PollReply, PollInv, PolledOnce
    <3> QED
      BY <2>4, <3>1, <3>2 DEF PollReply
  <2>5. ASSUME NEW ok \in BOOLEAN, HistoryReply(ok) PROVE PollInv'
    BY <2>5, PollNowOnce DEF HistoryReply
  <2>6. CASE UNCHANGED fallbackVars
    BY <2>6, PollNowOnce DEF fallbackVars, fallback, content
  <2> QED
    BY <2>1, <2>2, <2>3, <2>4, <2>5, <2>6 DEF FallbackNext
<1>3. PollInv => PolledOnce
  BY DEF PollInv
<1> QED
  BY <1>1, <1>2, <1>3, PTL DEF FallbackSpec

=============================================================================
