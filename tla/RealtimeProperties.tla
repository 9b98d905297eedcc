------------------------- MODULE RealtimeProperties -------------------------
(***************************************************************************)
(* What the realtime connection owes to the rest of the program.           *)
(***************************************************************************)
EXTENDS RealtimeConnection

Handled == {dispatched[i] : i \in DOMAIN dispatched}

\* The last event the client's place in the accepted stream stands behind.
Position == IF accepted = 0 THEN 0 ELSE from[accepted] + next - 1

\* However often the stream is resumed, replaced or cut, no event reaches the
\* handlers twice or after a later one (onNewPacket's sequence check and the
\* sequence_number of socketUrl).
DispatchedInOrder ==
    \A i, j \in DOMAIN dispatched : i < j => dispatched[i] < dispatched[j]

\* An event the client has moved past was handled, or the history was refreshed
\* over HTTP after it was published: a resume that fails, also one that fails
\* after the authentication reply has announced the connection, is never silent.
NoSilentGap == \A e \in 1..Position : e \in Handled \/ e <= synced

\* Whatever state the connector shows, something is under way that will change
\* it: a config request, a reconnect timer, an attempt timer, or the heartbeat of
\* a connected socket.  Logged out, nothing is.
AlwaysDriven ==
    /\ conn = "WaitingForReconnect" =>
           token /\ ("reconnect" \in timers \/ endpoint = "asked")
    /\ conn = "Connecting" =>
           token /\ (endpoint = "asked" \/ timers \cap {"attempt", "reconnect"} # {})
    /\ conn = "Connected" => token /\ socket = "connected" /\ "heartbeat" \in timers
    /\ conn = "Disconnected" => ~token /\ timers = {}

\* The inductive form of AlwaysDriven: what is under way, by the state of the
\* socket.
Underway ==
    /\ socket \in {"opening", "connected"} => token /\ endpoint = "known"
    /\ socket = "opening" => conn = "Connecting" /\ "attempt" \in timers
    /\ socket = "connected" =>
           /\ conn \in {"Connecting", "Connected"}
           /\ "heartbeat" \in timers /\ "reconnect" \notin timers
           /\ conn = "Connecting" => "attempt" \in timers
    /\ socket = "closing" => ~token \/ endpoint = "asked"
    /\ socket \in {"unconnected", "closing"} /\ token /\ endpoint = "known" =>
           /\ conn \in {"Connecting", "WaitingForReconnect"}
           /\ "reconnect" \in timers
    /\ socket \in {"unconnected", "closing"} => conn # "Connected"
    /\ token <=> conn # "Disconnected"
    /\ token => endpoint # "none"
    /\ ~token => timers = {}
    /\ "suppress" \in flags => ~token

\* The inductive form of DispatchedInOrder: every handled event is before the
\* place of the known stream, and before the next frame on the socket.
Behind(place) == \A i \in DOMAIN dispatched : dispatched[i] < place

Places ==
    /\ Behind(published + 1) /\ published \in Nat
    /\ connId # 0 => /\ connId \in DOMAIN from /\ next >= 1
                     /\ Behind(from[connId] + next)
    /\ live # 0 /\ socket = "connected" =>
           /\ live \in DOMAIN from
           /\ wire = 0 => Behind(from[live] + 1)
           /\ wire > 0 => Behind(from[live] + next) /\ (connId # 0 => live = connId)

\* Once the network stops failing, the session ends up connected, on a socket
\* that is alive: the heartbeat finds out every dead one.
Reconnects == <>[](~token \/ (conn = "Connected" /\ ~dead))

\* The server dropped the last frames of the stream, and none came after them
\* that would show it.
TailDropped ==
    live # 0 /\ next < wire /\ wire > published - from[live]

\* Every event of a session that has begun to receive is handled or covered by a
\* refresh, unless the user logs out or only a later frame can show its loss.
EventsArrive ==
    \A e \in 1..MaxEvents :
        (token /\ accepted # 0 /\ published >= e)
            ~> (e \in Handled \/ e <= synced \/ TailDropped \/ ~token)

=============================================================================
