-------------------------- MODULE RealtimeFallback --------------------------
(***************************************************************************)
(* RealtimeFallbackService beside the realtime connection: while the       *)
(* WebSocket is down it polls the current channel over HTTP.  Every event  *)
(* of the stream is a root post of that channel.                           *)
(***************************************************************************)
EXTENDS RealtimeProperties

VARIABLES
    polling,   \* the poll timer runs
    deaf,      \* Backend::reset() has cut the signals of Backend
    channel,   \* Backend's currentChannel: "none", "open", or "freed" by a logout
    known,     \* the posts of the channel in memory (postIdToPost)
    polls,     \* the poll requests in flight, oldest first
    history,   \* a request of retrieveChannelPosts is in flight
    polled     \* polled[e]: how often a poll announced the post e as new

content      == <<known, polls, history, polled>>
service      == <<polling, deaf, channel>>
fallback     == <<service, content>>
fallbackVars == <<vars, fallback>>

Posts == 1..MaxEvents

\* A poll: the posts known when it starts, and those the server has by then.
Polls == [known : SUBSET Posts, least : 0..MaxEvents]

FallbackTypeOK ==
    /\ polling \in BOOLEAN /\ deaf \in BOOLEAN
    /\ channel \in {"none", "open", "freed"}
    /\ known \subseteq Posts
    /\ polls \in Seq(Polls) /\ Len(polls) <= 1
    /\ history \in BOOLEAN
    /\ polled \in [Posts -> Nat]

FallbackInit ==
    /\ Init
    /\ polling = FALSE /\ deaf = FALSE /\ channel = "none"
    /\ known = {} /\ polls = << >> /\ history = FALSE
    /\ polled = [e \in Posts |-> 0]

\* The newest of a set of posts: the cursor of a poll.
Newest(posts) == CHOOSE n \in posts \cup {0} : \A e \in posts : e <= n

\* Mutant of PollNow: a request in flight does not hold back the next one.
EagerPollNow ==
    polls' = IF channel # "none"
             THEN Append(polls, [known |-> known, least |-> published])
             ELSE polls

\* pollNow: one request at a time, and none before a channel is opened.  What a
\* freed channel would yield is undefined: here the request is sent.
PollNow ==
    polls' = IF polls = << >> /\ channel # "none"
             THEN << [known |-> known, least |-> published] >>
             ELSE polls

\* The slots of onDisconnect (startPolling) and onConnect (stopPolling).
Follow(told) ==
    \/ /\ told = "down" /\ ~polling
       /\ polling' = TRUE /\ PollNow
    \/ /\ told = "up" /\ polling' = FALSE /\ UNCHANGED polls
    \/ /\ told = "none" \/ (told = "down" /\ polling)
       /\ UNCHANGED <<polling, polls>>

\* A step of the connection: its events become known and a refresh of the history
\* asks for the channel's newest page.  A logout resets Backend and its Storage.
Connection ==
    /\ Next
    /\ known' = known \cup (Handled' \ Handled)
    /\ Follow(IF deaf \/ signal' = signal THEN "none" ELSE signal')
    /\ history' = (history \/ synced' # synced)
    /\ IF token /\ ~token'
       THEN /\ deaf' = TRUE
            /\ channel' = IF channel = "open" THEN "freed" ELSE channel
       ELSE UNCHANGED <<deaf, channel>>
    /\ UNCHANGED polled

\* setCurrentChannel.
OpenChannel ==
    /\ token /\ channel = "none" /\ channel' = "open"
    /\ UNCHANGED <<vars, polling, deaf, content>>

\* Mutant of PollTimer: it fires once.
OneShotPollTimer ==
    /\ polling /\ polling' = FALSE
    /\ PollNow
    /\ UNCHANGED <<vars, deaf, channel, known, history, polled>>

PollTimer ==
    /\ polling
    /\ PollNow
    /\ UNCHANGED <<vars, service, known, history, polled>>

\* The posts up to upTo that are newer than the cursor arrive: they are merged,
\* and those the poll did not know when it started are announced.
Delivered(poll, upTo) ==
    LET page == {e \in Posts : Newest(poll.known) < e /\ e <= upTo} IN
    /\ known' = known \cup page
    /\ polled' = [e \in Posts |-> IF e \in page \ poll.known THEN polled[e] + 1
                                  ELSE polled[e]]

\* The answer to a poll: also one that arrives after the connection is back.
PollReply(ok, upTo) ==
    /\ polls # << >> /\ upTo \in Head(polls).least..published
    /\ polls' = Tail(polls)
    /\ \/ ok /\ Delivered(Head(polls), upTo) /\ UNCHANGED losses
       \/ ~ok /\ Disrupt /\ UNCHANGED <<known, polled>>
    /\ UNCHANGED <<client, published, from, live, wire, dead, logins, signal,
                   dispatched, accepted, synced, history, service>>

\* The page retrieveChannelPosts asked for; a failed request is not repeated.
HistoryReply(ok) ==
    /\ history /\ history' = FALSE
    /\ \/ ok /\ known' = known \cup {e \in Posts : e <= published} /\ UNCHANGED losses
       \/ ~ok /\ Disrupt /\ UNCHANGED known
    /\ UNCHANGED <<client, published, from, live, wire, dead, logins, signal,
                   dispatched, accepted, synced, polls, polled, service>>

FallbackNext ==
    \/ Connection
    \/ OpenChannel \/ PollTimer
    \/ \E ok \in BOOLEAN, upTo \in 0..MaxEvents : PollReply(ok, upTo)
    \/ \E ok \in BOOLEAN : HistoryReply(ok)

FallbackSpec == FallbackInit /\ [][FallbackNext]_fallbackVars

\* HTTP works, but nothing is assumed of the WebSocket.
PollingSpec ==
    /\ FallbackSpec
    /\ WF_fallbackVars(OpenChannel) /\ WF_fallbackVars(PollTimer)
    /\ WF_fallbackVars(\E upTo \in 0..MaxEvents : PollReply(TRUE, upTo))

-----------------------------------------------------------------------------
\* However the connection flaps while a poll is in flight, polling announces a
\* post at most once (the comment in pollNow says so of one polling cycle).
PolledOnce == \A e \in Posts : polled[e] <= 1

\* A post published while the connection is down reaches the channel without it:
\* the connection need never come back.
OfflinePostsArrive ==
    \A e \in Posts :
        (signal = "down" /\ token /\ e > Newest(known) /\ published >= e)
            ~> (e \in known \/ signal # "down" \/ ~token)

\* A poll is about a channel of the session ("this service polls the active
\* channel", the comment of RealtimeFallbackService).
\* Does not hold after a logout.
PollsOpenChannel ==
    [][polls' # polls /\ polls' # << >> => channel = "open"]_fallbackVars

=============================================================================
