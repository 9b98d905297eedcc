------------------------- MODULE RealtimeConnection -------------------------
(***************************************************************************)
(* WebSocketConnector: the realtime connection, its reconnect loop and the *)
(* reliable resume of a Mattermost event stream, with the two signals that *)
(* Backend turns into an HTTP refresh (onConnect, reliableResumeFailed).   *)
(*                                                                         *)
(* The server is external.  It numbers the frames of a stream from 0: the  *)
(* frame 0 is the hello, the frame k is the k-th event published after the *)
(* stream began.  A client that presents a stream and its next sequence    *)
(* number is resumed there without a hello, or is given a new stream.      *)
(*                                                                         *)
(* QWebSocket is external too: abort() runs the disconnected handler before*)
(* it returns, close() runs it later.                                      *)
(***************************************************************************)
EXTENDS Naturals, Sequences, FiniteSets

CONSTANTS
    HelloIds,     \* whether a hello carries a connection_id: its possible values
    MaxEvents,    \* bound: events the server publishes
    MaxLosses,    \* bound: disruptions (lost sockets, dead routes, refusals ...)
    MaxLogins     \* bound: sessions opened in the life of the process

ASSUME ConnectionAssumption ==
    /\ HelloIds \subseteq BOOLEAN
    /\ MaxEvents \in Nat /\ MaxLosses \in Nat /\ MaxLogins \in Nat

VARIABLES
    token,        \* a session token is set
    endpoint,     \* the WebSocket endpoint: "none", "asked" of the server, "known"
    conn,         \* connectionState
    socket,       \* the state of the QWebSocket
    timers,       \* the active timers
    flags,        \* the boolean members that are set
    connId,       \* connectionId, 0 when it is empty
    next,         \* serverSequence: the sequence number expected next
    (* The server and the network, external. *)
    published,    \* the number of events published so far
    from,         \* the streams: from[i] events were published before stream i
    live,         \* the stream served on the current socket, 0 when there is none
    wire,         \* the sequence number of its next frame to arrive
    dead,         \* nothing gets through on the current socket any more
    losses, logins,
    (* What the rest of the program has been told. *)
    signal,       \* the last of onConnect ("up") and onDisconnect ("down")
    dispatched,   \* the events given to the event handlers, in order
    accepted,     \* the stream of the last hello that was accepted
    synced        \* the events the last HTTP history refresh covers

client   == <<token, endpoint, conn, socket, timers, flags, connId, next>>
position == <<connId, next, accepted, dispatched, synced>>
bounds   == <<losses, logins>>
vars     == <<client, published, from, live, wire, dead, bounds, signal,
              dispatched, accepted, synced>>

States   == {"Disconnected", "Connecting", "Connected", "WaitingForReconnect"}
Sockets  == {"unconnected", "opening", "connected", "closing"}
Timers   == {"reconnect", "attempt", "heartbeat", "reply"}
\* auth: an authentication challenge is unanswered.  waitingForPong is the
\* activity of the reply timer, and helloReceived is never read.
Flags    == {"auth", "hasReconnect", "resumeFailed", "connectNotified",
             "immediate", "suppress"}

TypeOK ==
    /\ token \in BOOLEAN /\ dead \in BOOLEAN
    /\ endpoint \in {"none", "asked", "known"}
    /\ conn \in States /\ socket \in Sockets
    /\ timers \subseteq Timers /\ flags \subseteq Flags
    /\ next \in Nat /\ published \in 0..MaxEvents
    /\ from \in Seq(Nat)
    /\ {connId, live, accepted} \subseteq 0..Len(from)
    /\ wire \in Nat /\ losses \in 0..MaxLosses /\ logins \in 0..MaxLogins
    /\ signal \in {"none", "up", "down"}
    /\ dispatched \in Seq(Nat) /\ synced \in Nat

Init ==
    /\ token = FALSE /\ endpoint = "none"
    /\ conn = "Disconnected" /\ socket = "unconnected"
    /\ timers = {} /\ flags = {} /\ connId = 0 /\ next = 0
    /\ published = 0 /\ from = << >> /\ live = 0 /\ wire = 0 /\ dead = FALSE
    /\ losses = 0 /\ logins = 0
    /\ signal = "none" /\ dispatched = << >> /\ accepted = 0 /\ synced = 0

-----------------------------------------------------------------------------
(* Opening the socket, and losing it. *)

\* One disruption is used up.
Disrupt == losses < MaxLosses /\ losses' = losses + 1

\* Mutant of OpenSocket: no attempt timer is started.
UntimedOpenSocket(known, ts) ==
    IF known
    THEN /\ conn' = "Connecting" /\ socket' = "opening" /\ dead' = FALSE
         /\ timers' = ts
    ELSE /\ socket' = "unconnected" /\ timers' = ts
         /\ UNCHANGED <<conn, dead>>

\* openSocket: it does nothing before the endpoint is known.  ts is the set of
\* timers its caller leaves active.
OpenSocket(known, ts) ==
    IF known
    THEN /\ conn' = "Connecting" /\ socket' = "opening" /\ dead' = FALSE
         /\ timers' = ts \cup {"attempt"}
    ELSE /\ socket' = "unconnected" /\ timers' = ts
         /\ UNCHANGED <<conn, dead>>

\* scheduleReconnect, of an unconnected socket: it leaves a running reconnect
\* timer alone.
ScheduleReconnect(ts, fl) ==
    IF "reconnect" \in ts
    THEN /\ timers' = ts /\ flags' = fl /\ UNCHANGED conn
    ELSE /\ timers' = ts \cup {"reconnect"}
         /\ flags' = fl \cup {"hasReconnect"}
         /\ conn' = "WaitingForReconnect"

\* The disconnected handler, with the timers and the flags its cause leaves.
\* The error handler that may run with it schedules the same reconnect.
Dropped(ts, fl) ==
    LET left == ts \ {"heartbeat", "reply", "attempt"}
        kept == fl \ {"connectNotified", "immediate", "suppress"}
    IN  /\ signal' = "down" /\ live' = 0
        /\ \/ /\ token /\ "suppress" \notin fl /\ "immediate" \in fl
              /\ OpenSocket(endpoint = "known", left)
              /\ flags' = kept
           \/ /\ token /\ "suppress" \notin fl /\ "immediate" \notin fl
              /\ ScheduleReconnect(left, kept)
              /\ socket' = "unconnected" /\ UNCHANGED dead
           \/ /\ ~token \/ "suppress" \in fl
              /\ conn' = "Disconnected" /\ socket' = "unconnected"
              /\ timers' = left /\ flags' = kept /\ UNCHANGED dead

\* What no reconnect step touches.
stream == <<published, from, wire, logins>>

-----------------------------------------------------------------------------
(* The session. *)

\* A login: open() forgets the previous stream and asks for the endpoint.
Open ==
    /\ ~token /\ logins < MaxLogins
    /\ logins' = logins + 1
    /\ token' = TRUE /\ endpoint' = "asked" /\ conn' = "Connecting"
    /\ timers' = {} /\ flags' = {} /\ connId' = 0 /\ next' = 0
    /\ signal' = "none" /\ accepted' = 0
    /\ UNCHANGED <<socket, published, from, live, wire, dead, losses,
                   dispatched, synced>>

\* The reply to the config request of the current generation, or its error: the
\* endpoint is then derived from the login URL.  The socket of an earlier
\* session is closed by now.
ConfigReply ==
    /\ token /\ endpoint = "asked" /\ socket = "unconnected"
    /\ endpoint' = "known"
    /\ OpenSocket(TRUE, timers)
    /\ UNCHANGED <<token, flags, live, losses, signal, stream, position>>

\* close() and reset(): a config request under way becomes one of an earlier
\* generation, and the close of a socket must not look like a lost connection.
Close ==
    /\ token
    /\ token' = FALSE /\ conn' = "Disconnected" /\ timers' = {}
    /\ endpoint' = IF endpoint = "asked" THEN "none" ELSE endpoint
    /\ connId' = 0 /\ next' = 0 /\ accepted' = 0
    /\ IF socket = "unconnected"
       THEN flags' = {} /\ UNCHANGED socket
       ELSE flags' = {"suppress"} /\ socket' = "closing"
    /\ UNCHANGED <<published, from, live, wire, dead, bounds, signal,
                   dispatched, synced>>

\* The socket that close() was called on is closed.
SocketClosed ==
    /\ socket = "closing"
    /\ Dropped(timers, flags)
    /\ UNCHANGED <<token, endpoint, losses, stream, position>>

-----------------------------------------------------------------------------
(* The timers, the network and the user. *)

\* The socket is lost: refused, closed by the peer or reset.
ConnectionLost ==
    /\ socket \in {"opening", "connected"} /\ Disrupt
    /\ Dropped(timers, flags)
    /\ UNCHANGED <<token, endpoint, stream, position>>

\* The route under the socket dies without a sign.
RouteDies ==
    /\ socket \in {"opening", "connected"} /\ ~dead /\ Disrupt
    /\ dead' = TRUE
    /\ UNCHANGED <<client, live, signal, stream, position>>

ReconnectTimer ==
    /\ "reconnect" \in timers
    /\ IF token /\ "suppress" \notin flags /\ socket = "unconnected"
       THEN OpenSocket(endpoint = "known", timers \ {"reconnect"})
       ELSE /\ timers' = timers \ {"reconnect"}
            /\ UNCHANGED <<conn, socket, dead>>
    /\ UNCHANGED <<token, endpoint, flags, live, losses, signal, stream, position>>

\* An attempt that takes too long is aborted.  On a route that is alive, being
\* that slow is a disruption.
ConnectionAttemptTimer ==
    /\ "attempt" \in timers
    /\ IF dead THEN UNCHANGED losses ELSE Disrupt
    /\ LET ts == timers \ {"attempt"} IN
       \/ /\ ~token \/ "suppress" \in flags \/ conn = "Connected"
          /\ timers' = ts
          /\ UNCHANGED <<conn, socket, flags, dead, live, signal>>
       \/ /\ token /\ "suppress" \notin flags /\ conn # "Connected"
          /\ IF socket = "unconnected"
             THEN /\ ScheduleReconnect(ts \ {"heartbeat", "reply"}, flags)
                  /\ UNCHANGED <<socket, dead, live, signal>>
             ELSE Dropped(ts, flags)
    /\ UNCHANGED <<token, endpoint, stream, position>>

\* sendPing, by the heartbeat timer: one ping at a time.
HeartbeatTimer ==
    /\ "heartbeat" \in timers
    /\ socket = "connected" /\ "reply" \notin timers
    /\ timers' = timers \cup {"reply"}
    /\ UNCHANGED <<token, endpoint, conn, socket, flags, dead, live, losses,
                   signal, stream, position>>

\* No pong in time: the socket is aborted.
HeartbeatReplyTimer ==
    /\ "reply" \in timers
    /\ IF dead THEN UNCHANGED losses ELSE Disrupt
    /\ IF socket = "connected"
       THEN Dropped(timers \ {"reply"}, flags)
       ELSE /\ timers' = timers \ {"reply"}
            /\ UNCHANGED <<conn, socket, flags, dead, live, signal>>
    /\ UNCHANGED <<token, endpoint, stream, position>>

\* reconnectNow, by the user or a network change while waiting: an attempt under
\* way is aborted and its disconnected handler starts the next one at once.
ReconnectNow ==
    /\ token /\ "suppress" \notin flags /\ conn # "Connected"
    /\ LET ts == timers \ {"reconnect", "attempt"} IN
       \/ /\ socket = "unconnected"
          /\ OpenSocket(endpoint = "known", ts)
          /\ flags' = flags \ {"immediate"}
          /\ UNCHANGED <<live, losses, signal>>
       \/ /\ socket # "unconnected" /\ Disrupt
          /\ Dropped(ts, flags \cup {"immediate"})
    /\ UNCHANGED <<token, endpoint, stream, position>>

\* A network change while connected: a fresh ping probes the new route, and the
\* answer to an older one no longer counts.
NetworkChanged ==
    /\ conn = "Connected" /\ socket = "connected"
    /\ timers' = timers \cup {"reply"}
    /\ UNCHANGED <<token, endpoint, conn, socket, flags, dead, live, losses,
                   signal, stream, position>>

-----------------------------------------------------------------------------
(* The stream. *)

Publish ==
    /\ published < MaxEvents
    /\ published' = published + 1
    /\ UNCHANGED <<client, from, live, wire, dead, bounds, signal, dispatched,
                   accepted, synced>>

\* Mutant of SocketConnected: the heartbeat is not started.
SilentSocketConnected ==
    /\ socket = "opening" /\ ~dead
    /\ socket' = "connected"
    /\ timers' = timers \ {"reconnect"}
    /\ flags' = (flags \ {"connectNotified", "resumeFailed"}) \cup {"auth"}
    /\ \/ /\ connId # 0
          /\ live' = connId /\ wire' = next
          /\ UNCHANGED <<from, losses>>
       \/ /\ from' = Append(from, published)
          /\ live' = Len(from) + 1 /\ wire' = 0
          /\ IF connId # 0 THEN Disrupt ELSE UNCHANGED losses
    /\ UNCHANGED <<token, endpoint, conn, dead, published, logins, signal, position>>

\* The connected handler: it authenticates and pings.  The server resumes the
\* stream the URL names at the sequence number the URL names, or begins a new
\* one; giving up a stream it knew is a disruption.
SocketConnected ==
    /\ socket = "opening" /\ ~dead
    /\ socket' = "connected"
    /\ timers' = (timers \ {"reconnect"}) \cup {"heartbeat", "reply"}
    /\ flags' = (flags \ {"connectNotified", "resumeFailed"}) \cup {"auth"}
    /\ \/ /\ connId # 0
          /\ live' = connId /\ wire' = next
          /\ UNCHANGED <<from, losses>>
       \/ /\ from' = Append(from, published)
          /\ live' = Len(from) + 1 /\ wire' = 0
          /\ IF connId # 0 THEN Disrupt ELSE UNCHANGED losses
    /\ UNCHANGED <<token, endpoint, conn, dead, published, logins, signal, position>>

\* The server drops a frame of a socket that reads too slowly.
FrameDropped ==
    /\ live # 0 /\ wire > 0 /\ wire <= published - from[live] /\ Disrupt
    /\ wire' = wire + 1
    /\ UNCHANGED <<client, published, from, live, dead, logins, signal,
                   dispatched, accepted, synced>>

Pong ==
    /\ socket = "connected" /\ ~dead /\ "reply" \in timers
    /\ timers' = timers \ {"reply"}
    /\ UNCHANGED <<token, endpoint, conn, socket, flags, dead, live, losses,
                   signal, stream, position>>

\* The answer to the authentication challenge.  It may be the first sign of the
\* connection: listeners are told, and the outcome of the resume stays open.
AuthReply(ok) ==
    /\ socket = "connected" /\ ~dead /\ "auth" \in flags
    /\ \/ /\ ok
          /\ flags' = (flags \ {"auth"}) \cup {"connectNotified"}
          /\ IF "connectNotified" \in flags
             THEN UNCHANGED <<conn, timers, signal>>
             ELSE /\ conn' = "Connected" /\ timers' = timers \ {"attempt"}
                  /\ signal' = "up"
          /\ UNCHANGED <<socket, dead, live, losses>>
       \/ /\ ~ok /\ Disrupt
          /\ Dropped(timers, flags \ {"auth"})
    /\ UNCHANGED <<token, endpoint, stream, position>>

\* Mutant of Accept: only a hello advances the sequence number.
HelloOnlyAccept(fl, first) ==
    LET failed == {"hasReconnect", "resumeFailed"} \subseteq fl IN
    /\ next' = IF wire = 0 THEN 1 ELSE next
    /\ flags' = (fl \ {"hasReconnect", "resumeFailed"}) \cup {"connectNotified"}
    /\ synced' = IF failed \/ first THEN published ELSE synced
    /\ IF "connectNotified" \in fl
       THEN UNCHANGED <<conn, timers, signal>>
       ELSE /\ conn' = "Connected" /\ timers' = timers \ {"attempt"}
            /\ signal' = "up"
    /\ UNCHANGED <<socket, dead, live>>

\* Mutant of Accept: a resume that fails after the authentication reply is not
\* reported.
EarlyAccept(fl, first) ==
    LET failed == {"hasReconnect", "resumeFailed"} \subseteq fl
                  /\ "connectNotified" \notin fl IN
    /\ next' = wire + 1
    /\ flags' = (fl \ {"hasReconnect", "resumeFailed"}) \cup {"connectNotified"}
    /\ synced' = IF failed \/ first THEN published ELSE synced
    /\ IF "connectNotified" \in fl
       THEN UNCHANGED <<conn, timers, signal>>
       ELSE /\ conn' = "Connected" /\ timers' = timers \ {"attempt"}
            /\ signal' = "up"
    /\ UNCHANGED <<socket, dead, live>>

\* A frame with the expected sequence number: the first one of a connection
\* announces it, and the first one after a reconnect settles how the resume
\* went.  A failed resume makes Backend refresh the history over HTTP; the first
\* hello of a session needs no refresh, nothing was received before it.
Accept(fl, first) ==
    LET failed == {"hasReconnect", "resumeFailed"} \subseteq fl IN
    /\ next' = wire + 1
    /\ flags' = (fl \ {"hasReconnect", "resumeFailed"}) \cup {"connectNotified"}
    /\ synced' = IF failed \/ first THEN published ELSE synced
    /\ IF "connectNotified" \in fl
       THEN UNCHANGED <<conn, timers, signal>>
       ELSE /\ conn' = "Connected" /\ timers' = timers \ {"attempt"}
            /\ signal' = "up"
    /\ UNCHANGED <<socket, dead, live>>

\* A frame out of sequence: abort, and reconnect from the expected one.
Mismatch(fl) ==
    /\ Dropped(timers, fl)
    /\ UNCHANGED <<next, synced>>

\* The flags after a hello: on a reconnect, a different or missing id means that
\* the stream could not be resumed.
HelloFlags(id) ==
    IF "hasReconnect" \notin flags THEN flags
    ELSE IF connId = 0 \/ id = 0 \/ connId # id THEN flags \cup {"resumeFailed"}
    ELSE flags \ {"resumeFailed"}

\* Mutant of HelloSequence: a new stream does not restart the numbering.
StaleHelloSequence(id) == next

\* The sequence number a hello must have.
HelloSequence(id) == IF connId # 0 /\ id # 0 /\ connId # id THEN 0 ELSE next

\* onNewPacket, of a hello.
ReceiveHello(hasId) ==
    LET id == IF hasId THEN live ELSE 0 IN
    /\ socket = "connected" /\ ~dead /\ live # 0 /\ wire = 0
    /\ wire' = 1
    /\ connId' = IF id # 0 THEN id ELSE connId
    /\ IF HelloSequence(id) = 0
       THEN /\ Accept(HelloFlags(id), connId = 0 /\ next = 0)
            /\ accepted' = live
       ELSE Mismatch(HelloFlags(id)) /\ UNCHANGED accepted
    /\ UNCHANGED <<token, endpoint, published, from, bounds, dispatched>>

\* onNewPacket, of an event: only one with the expected number is handled.
ReceiveEvent ==
    /\ socket = "connected" /\ ~dead /\ live # 0
    /\ wire \in 1..(published - from[live])
    /\ wire' = wire + 1
    /\ IF wire = next
       THEN /\ Accept(flags, FALSE)
            /\ dispatched' = Append(dispatched, from[live] + wire)
       ELSE Mismatch(flags) /\ UNCHANGED dispatched
    /\ UNCHANGED <<token, endpoint, connId, published, from, bounds, accepted>>

-----------------------------------------------------------------------------
Next ==
    \/ Open \/ ConfigReply \/ Close \/ SocketClosed
    \/ ConnectionLost \/ RouteDies
    \/ ReconnectTimer \/ ConnectionAttemptTimer
    \/ HeartbeatTimer \/ HeartbeatReplyTimer
    \/ ReconnectNow \/ NetworkChanged
    \/ Publish \/ SocketConnected \/ FrameDropped \/ Pong
    \/ \E ok \in BOOLEAN : AuthReply(ok)
    \/ \E hasId \in HelloIds : ReceiveHello(hasId)
    \/ ReceiveEvent

Spec == Init /\ [][Next]_vars

\* The timers of the client expire, and on a route that is alive what was sent
\* arrives.  Nothing is assumed of the user, of the events or of the disruptions.
Fairness ==
    /\ WF_vars(ReconnectTimer) /\ WF_vars(HeartbeatTimer)
    /\ WF_vars(dead /\ ConnectionAttemptTimer)
    /\ WF_vars(dead /\ HeartbeatReplyTimer)
    /\ WF_vars(ConfigReply) /\ WF_vars(SocketClosed) /\ WF_vars(SocketConnected)
    /\ WF_vars(AuthReply(TRUE)) /\ WF_vars(Pong)
    /\ WF_vars(\E hasId \in HelloIds : ReceiveHello(hasId))
    /\ WF_vars(ReceiveEvent)

FairSpec == Spec /\ Fairness

=============================================================================
