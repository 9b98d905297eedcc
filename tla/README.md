# matterleast: TLA+ models, checks and proofs

matterleast is a Qt desktop client for Mattermost. Almost everything in it runs
on one GUI thread, so nothing here is about data races between threads. What
makes the program hard is that every service is a set of callbacks (HTTP
replies, WebSocket frames, timers, the keychain, the user) that run in any
order, carry state captured long before, call one another synchronously, and
may be cut off by a reset, a lost network or the end of the process.

This directory models the parts of the client where that order decides whether
a message, a draft or an event is lost, repeated or replaced, an old copy of a
post wins over a newer one, or something unread is taken for read. Paths below are
relative to the repository's root, and `backend/` stands for
`sources/backend/`.

- [Inventory](#inventory)
- [What is hard](#what-is-hard)
- [Modules and the code they stand for](#modules-and-the-code-they-stand-for)
- [Runs, bounds and what they show](#runs-bounds-and-what-they-show)
- [Fairness](#fairness)
- [Proofs](#proofs)
- [Disagreements found](#disagreements-found)
- [Observations that are not claims](#observations-that-are-not-claims)
- [Not modelled](#not-modelled)
- [Plan](#plan)

## Inventory

| Component | State it keeps | Operations | Talks to |
|---|---|---|---|
| Session outbox (`backend/PendingPostService`) | ordered rows with state, generation, attempts, counted newer posts, upload ids, retry window; confirmed server ids | enqueue, retry, cancel, start of a conversation, attempt, retry and deadline timers, replies, posts from events and history | post creation, uploads, Storage, drafts |
| Attachment uploads (`backend/AttachmentUploadService`) | one record per upload with a generation | stage, start, retry, release, reply | outbox, composer, HTTP |
| Post creation (`backend/PostCreateService`) | none of its own | createPostDetailed, ingestCreatedPost | HTTP, Storage |
| Outbox file (`PendingPostService`, `DraftService`, `LocalContentKeyStore`) | the encrypted outbox file, the recovery backlog, the persist-retry flag | persist, persistBestEffort, loadStore | draft file, keychain |
| Draft synchronisation (`backend/DraftService`) | draft entries with dirty, deleted, remotePresent and syncRequested, the state of a sync of all teams | updateDraft, flushDraft, removeDraft, syncEntry, syncAllTeams, remote events | HTTP, WebSocket events, composer |
| Realtime connection (`backend/WebSocketConnector`) | connection state, four timers, resume id and sequence number, reconnect flags | open, close, config reply, socket handlers, reconnectNow, network change, hello and events | Backend's signals, server |
| Realtime fallback (`backend/RealtimeFallbackService`) | the poll timer, one request | startPolling, stopPolling, pollNow | Backend's signals, HTTP |
| HTTP transport (`backend/HTTPConnector`) | queues, replies in flight, replayed replies, generation, the network manager | get, post, put, del, finished, reset, restartAllTransports | everything that makes a request |
| Post repository (`backend/PostRepository*`, `WebSocketEventHandler`) | observation sequence, resident watermarks, coalesced GETs, held direct posts, calls of `loadPost` | page, thread and post loads, post events, navigation and edit answers, eviction | post sources, HTTP, post cache |
| Post cache (`backend/PostCacheService`, `PostCacheStore`) | the SQLite table, the worker thread's commands, its invalidation watermarks | store, remove, load, prune | repository |
| Sidebar state (`backend/SidebarService*`, `ChannelActivityTracker`) | boundary and unread flags of a channel, read checkpoints and their tags, the two snapshots, categories | checkpoints, views, marks as unread, events, refreshes | chat log, HTTP |
| Chat log (`sources/chat-area/ChatLogWidget`, `ManualUnreadVisibilityGate`) | what was seen and reported, the gate of a marked post | read cursor pass, progress timer, marks as unread, rewinds | sidebar, following, post source |
| Following (`backend/ThreadFollowService`, `FollowingModel`) | rows of followed threads with their resume cursor, manual unread markers, pending acknowledgements, refresh flags | follow, refresh of two queries, read to the end, read progress, mark | HTTP, events, chat log |
| Timeline sources (`sources/chat-area/*PostSource*`) | row maps, request gates, demand generations | requestRange, page placement, remap | repository, list widget |
| Navigation (`sources/navigation`) | one request generation, tabs | open channel, post or thread | repository, chat area |
| Views, dialogs, rendering, plugins, AI, update, login, spelling ... | widget state | | |

`PROJECT.json` lists every component with its sources and whether it is
modelled.

How the core parts interact: the composer hands a message to the **outbox**,
which saves it to the **outbox file**, waits for its **uploads** and creates the
post over the **HTTP transport**. The server answers, and also announces the
post over the **realtime connection**; either one confirms the row. While the
WebSocket is down the **fallback** polls instead. When it comes back Backend
restarts every HTTP transport, refreshes the history, and the **drafts** of all
teams are read again. On a restart of the process the rows that are left become
recovered drafts.

What is shown comes from the **post repository**: it takes posts from events, from
the answers of GETs and from the **post cache**, whose worker is the one other thread
that matters here. The **chat log** shows them and observes what is read; it reports
that to the **sidebar** for a channel and to **following** for a thread. Both also
hear of it from the server, by events and by snapshots they ask for again.

## What is hard

- *Callbacks out of date.* Every timer and reply of the outbox captures a
  generation and must be ignored when the row has moved on. A generation bump
  that arms nothing strands the row and the conversation behind it.
- *Unknown outcomes.* A create can be accepted and its reply lost, accepted after
  the client gave up, or announced by the server before its reply. The queue has
  to stay first-in first-out through all of these.
- *Re-entrance.* `abort()` runs handlers before it returns. A response handler
  may reset or destroy the connector whose loop is running; a restarted upload
  re-enters the outbox in the middle of `retry`.
- *Resume.* A WebSocket session is resumed at a sequence number the client names,
  or replaced; the authentication reply announces the connection before the
  hello tells which.
- *Crashes.* A message moves between two files, each replaced atomically but not
  together, with a key the keychain delivers later.
- *Answers older than events.* A GET shows the server as it was when it was served.
  Posts are edited and deleted meanwhile, callers share one GET, the cache stores what
  it brought after the row was removed.
- *Two ways to learn the same.* A read or a mark is known from what this client did, from
  the reply, from the event of it and from a snapshot, in any order; and the server's
  `set_unread` means "I have read up to here" or "show me this again".
- *Concurrent writers.* Another client of the same user edits the same draft while
  uploads, syncs and events of this one are under way.

`PROJECT.json` lists each hazard at its line, with the properties that cover it,
or the reason why none does yet.

## Modules and the code they stand for

Operators that a comment calls a *mutant*, and those defined just before the
operator they vary (`AnyIsHead`, `ExpiredLate`, `LiveOnly`, `FlaggedTimer`,
`EagerPollNow`, `AdmitAll` ...), are plausible mistakes in the code. No
specification uses them; substituting one for its neighbour makes the property
named in `PROJECT.json` fail, which is how each property is known to be able to.

### Outbox, OutboxProperties, OrderedDelivery, MCOutbox

`Outbox` models `PendingPostService` with the uploads it owns and the request it
makes.

| Model | Code |
|---|---|
| `row[p]` | a `PendingPost`: state, generation, attempts, ids counted as newer, edge of the conversation at send, uploaded files, start of the retry window |
| `Enqueue`, `EnqueueRefused` | `enqueue`, with the outbox file written or not |
| `Start(c)`, `Attempt(p, g)` | `tryStartConversation` and `attempt`, run by zero-delay timers |
| `RetryTimer`, `Deadline` | `scheduleRetry`, `scheduleRetryDeadline` |
| `CreateSucceeds`, `CreateFails` | the callback of `createPostDetailed`, with its three failure classes |
| `UploadReplies` | the reply in `AttachmentUploadService`, then `handleAttachmentUploadChanged` |
| `Realtime`, `HistoryMerged` | `handleAuthoritativePost` as called by an event and by a merge of history |
| `Retry`, `Cancel`, `Stage` | the user |
| `ServerAccepts`, `ServerAcceptsLate`, `ForeignPosted` | the server, external |

Timers and replies are pairs of a post and the generation they captured, so that
stale ones stay in the model until they run. The abstract specification
`OrderedDelivery` says what the outbox promises: only the head of a conversation
is ever offered to the server, and a message stops waiting only when it landed or
was withdrawn. `OutboxProperties` gives the refinement mapping (`Ordered`).

### OutboxStore, MCOutboxStore

The outbox file and the draft file across crashes: `persist`,
`persistBestEffort` with its flag and timer, the destructor, `loadStore`, and the
operations of `DraftService` recovery needs. A start is one of `StartEmpty` (no
file, or one that cannot be read), `StartLocked` (the draft key is not there yet)
and `StartRecovering` (the records become drafts up to the first write that
fails). `Crash` may happen between any two steps.

### RealtimeConnection, RealtimeProperties, MCRealtime

`WebSocketConnector`: the socket, the four timers (`reconnect`, `attempt`,
`heartbeat`, `reply`) and the boolean members as sets, the resume id and the
next sequence number. `Dropped` is the disconnected handler, which `abort()` runs
synchronously; `ReceiveHello` and `ReceiveEvent` are `onNewPacket`. `synced` is
the last event covered by a history refresh, which Backend makes on `onConnect` of
a reconnection and on `reliableResumeFailed`. The server numbers the frames of a
stream and may drop frames of a slow reader.

### RealtimeFallback, MCFallback

Extends the connection with `RealtimeFallbackService` and what `Backend` wires it
to: polling starts with the down signal and stops with the up signal, a logout
cuts the signals (`deaf`) and frees the channel (`channel = "freed"`). A step of the
connection is a conjunct of `Connection`, so the two modules really compose.

### HttpTransport, MCHttp

Several `HTTPConnector`s. The frames on the C++ stack are variables: `snapshot`
is the list `restartAllTransports` walks, `loop` and `aborts` the loop of
`restartTransport`, `calling` the response handler that runs now. Between two
rounds of the loop a handler may make requests, reset or destroy a connector.
`crashed` records the use of a deleted object. Generations count from 1 in the
model and from 0 in the code, so that 0 can mean "never requested".

### DraftSync, MCDrafts

One ordinary draft of one conversation, the POSTs and GETs under way, the server's
copy, events, another client, failed calls, an unsupported server and restarts.
The program's conversations meet only in the sync of all teams, so the other teams'
replies are modelled without the draft (`gets`, `pending`, `hadError`, `seen`). A POST waits
for no earlier one and they use several connections, so the server takes them in any order
(`ServerTakes`). A failed call or a restart loses the answer only: the request may still
reach the server, or not (`PostGone`). `old` is a history variable: a request made before the
user typed last.

### PostRepository, MCPosts

The posts of one channel: on the server, in memory, in the cache's table, and on
their way between these.

| Model | Code |
|---|---|
| `seq`, `observed[p]` | `observationSequence`, `residentObservations` (a reply also raises its root) |
| `resident[p]` | the body in `BackendChannel`: the changes it shows and the way it came |
| `Hear` | the handlers of posted, edited, deleted and reaction events, `deliverPost`, `addPost` |
| `held`, `DirectAdded`, `DirectGivenUp`, `DirectResolved` | posts of a direct channel that is not known yet |
| `Send`, `LoadPage`, `LoadPost`, `Answer`, `Ingest`, `Admitted` | `coalescedGet`, the page and post loads, `ingest` with its check of the number |
| `Navigate`, `Patch`, `Arrive` | answers numbered on arrival: navigation and edits |
| `queue`, `Work`, `fence`, `results` | `PostCacheWorker` and what it hands back |
| `LoadCachedTail`, `IngestCached`, `TakeResult` | the cache read at the start of a channel and by `loadPost` |
| `Evict`, `Prune`, `Restart` | residency sweep, cache maintenance, the end of the process |

`heard` is the history the properties speak of: the changes of a post whose events
were handled. Leases, horizons of admission and the choice of what to evict or to
prune are nondeterministic: each may happen at any time.

### ReadState, MCRead

One channel: `ChannelActivityTracker` and the checkpoints of `SidebarService`, a
`ChatLogWidget` with its gate, the snapshot (memberships, then summaries, with the
retry), and the server's boundary. Posts are numbered, so that a number is a post,
its time and a count. `PassReads` and `PassBlocked` are the read cursor pass, `Flush`
the progress timer, `CheckpointReplied` the completion in the service and then in the
widget, `Hear` the three events, `Untag` the minute after which a checkpoint's tag
is dropped (taken to be later than its answer and its event, as the code does).
The operators `SetMembership`, `Synchronize`, `RecordPost`, `RecordViewed` and
`SetUnread` are the tracker's functions on its entry.

### Following, MCFollowing

One thread: its row, resume cursor, marker and acknowledgement in `FollowingModel`,
the two queries of a refresh with the timer and the flag that coalesce them,
`ThreadFollowService`'s requests, and the view of the thread. `Applied` is
`applyThreadSnapshot` (`Held` for a manual mark, `Acknowledged` for a read that the
snapshot may not know), `ReadThrough` is `observeReadThrough`, `NoteIncoming` is
`noteIncomingForResume`. Requests are taken in any order. A read to the end names a time of
the client's clock, which may be any (`FullRead(t)`), and a read or a mark on another device
sets the boundary anywhere (`ReadElsewhere`). The first query brings one page of followed
threads only: `aged` says that this thread is older than those, which another thread may
bring about (`OthersMove`). Assumed: all replies are by others, the thread stays open in one
view, and its team is known. `failed` remembers that a request failed or the connection was
lost. Where the viewport is, is left open.

## Runs, bounds and what they show

Each run finishes exhaustively. Only `Posts_fence` uses symmetry (of the callers of
`loadPost`); it checks invariants only. Deadlock checking is off everywhere,
because every model stops when its bounds are used up and the user does nothing.

| Run | Checks | Bounds |
|---|---|---|
| `Outbox_one` | `TypeOK`, `NoStrandedPost`, `CutOffHolds`, `UploadFailureSurfaces`, `OneLiveRequest`, `DeadlineArmed` | one message with an upload in a thread, two foreign posts, two attempts, manual retries, the channel may vanish |
| `Outbox_settles` | `DeliveryInOrder`, `NoSilentLoss`, `ImplementsOrderedDelivery`, `Settles` | two messages without files, two attempts, manual retries below the fourth generation, the posted event of the first message, no pages of history |
| `Store_durable` | `TypeOK`, `Durable`, `StaleFileIsRetried`, `RecoveryKeepsDraft` | three messages, three starts, two timers, every write may fail |
| `Store_recovered` | finding: `BecomesDraft` | two messages, two starts, working disk |
| `Realtime_resume` | `DispatchedInOrder`, `NoSilentGap`, `AlwaysDriven`, `Reconnects`, `EventsArrive` | three events, three disruptions, two logins |
| `Fallback_polls` | `PolledOnce`, `OfflinePostsArrive` | two posts, two disruptions |
| `Http_restart` | `AnsweredOnce`, `WrittenOnce`, `NoStaleAnswer`, `AllAnswered` | two connectors, two GETs, a write, one dead route, one restart besides, two resets |
| `Drafts_sync` | `NothingTypedIsLost`, `TombstoneHolds`, `FlushSettles`, `Converges` | two texts, two teams, two POSTs (taken in any order) and one event under way, two user acts, one trouble |
| `Drafts_discard` | finding: `DiscardReachesServer` | the same |
| `Posts_fence` | `TypeOK`, `FenceHolds`, `RowsOutliveNoRemoval`, `NoLoadForgotten` | one post, a page that contains it, two calls of `loadPost`, two changes, two requests, one trouble |
| `Read_checkpoints` | `TypeOK`, `FullReadStands`, `MentionsStayRead`, `NothingUnreadHides`, `OnlyMarksRewind` | an own post and one that mentions the user, one mark or trouble (a mark may also fail), one refresh, a view under way, two events |
| `Following_row` | `RowTellsServer`, `ResumeSkipsNothing` | two replies, one of them there at the start; two acts: a click on the bell, a read or mark elsewhere, other threads, a page, a clock that is off, or one failure, which is the last act; a mark here counts for two; a read under way, two events |

Why the bounds are enough:

- Order between messages is a relation of two rows, so two messages of one
  conversation show every way one can overtake the other. With two attempts there
  are a first try, a retry and a last failure; both runs have two. With
  `MaxIntervening = 1` the cut-off is reached by the late event of a first message that was
  cancelled, with 2 in
  `Outbox_one` it is reached only by the second of two, which shows counting. One tick is
  enough for the window to be open and then over. Two conversations share only the clock
  and are not combined. Uploads are in `Outbox_one`: two queued messages, files and retries
  together are beyond five minutes. That a failed upload shows on a message that is
  blocked or queued behind another is covered by `UploadFailureShows`, that a row behind one
  whose upload restarts is not forgotten by `NothingStranded`.
- `Settles` is checked with the retry timer, the second attempt and the manual retry of rows
  that are alive, of one message before or behind another. It is the only property of the
  outbox without a theorem.
- In the realtime model three disruptions allow a lost socket, a failed resume
  and a third failure while recovering from these; three events allow one before,
  one during and one after a gap.
- A restart of transports needs two connectors for the snapshot to name one that a
  handler destroys, and a write next to GETs for the two kinds of abort.
- In the repository a number is compared with one other number of the same post,
  and a root's with its reply's, so one post with its page shows each race of an
  answer with an event; two changes are a creation and an edit, a reaction or a
  deletion. (With a root, a reply and the thread's page, but one request, the same
  invariants were found to hold on 943,000 states.) The theorems are about any
  number of posts, pages, changes and requests.
- A partial read needs two posts. In `Read_checkpoints` one mark, here or elsewhere, or one
  trouble shows each race with a view, a checkpoint, a snapshot and an event. In
  `Following_row` two acts show a mark on another device after a read to the end whose clock
  was off, or before a click on the bell, and each act before a failure. What is
  beyond these runs is covered by the theorems, which state all properties of both models: a
  mark here together with an independent failure, two reads of a thread in flight, and three
  replies. With two of them, one there at the start, no told reply can lie between the
  boundary and the place to resume at: that clause of `ResumeSkipsNothing` rests on
  `NoReplySkipped`.
- A second trouble in `Drafts_sync` would add histories of two independent
  failures; the interesting ones, a failure between an edit and its answer, need
  one.

`MaxTime`, `LastInput`, `MaxGen`, `Losable`, `Evictable`, `Told`, `Paged`, `MaxTimers`,
`MaxStarts`, `MaxEvents`, `MaxLosses`, `MaxLogins`, `MaxRoutes`, `MaxRestarts`,
`MaxResets`, `MaxPosts`, `MaxActs`, `MaxChanges`, `MaxRequests`, `MaxRefreshes`,
`MaxViews`, `Slots` and `MaxTroubles` are bounds of the models, not
of the program; each is a guard of the action it bounds. `MaxAttempts`,
`MaxIntervening` and `RetryWindow` are constants of the program with smaller
values.

Type invariants that no run lists (of the connection, the fallback, the transport,
the drafts and the followed thread) are stated in their modules. Those of the transport and of the followed
thread are part of the inductive invariants proved; of those of the connection and of the
drafts the proofs use what they need (`Shape`).

`HelloIds = {TRUE}` and `ReadResults = {TRUE}` restrict the environment: see the
[observations](#observations-that-are-not-claims).

## Fairness

- `Outbox`: time passes, expired timers run (Qt's event loop), and every request
  gets some reply (Qt reports a dead connection as an error). Nothing is assumed
  of the user, the server or the peers.
- `OutboxStore`: the keychain answers and timers run. Nobody has to send or quit.
- `RealtimeConnection`: timers run, the config request ends, a socket on a live
  route connects and delivers. Disruptions are bounded, which is the usual
  "eventually the network is good". The authentication reply is among what
  arrives: the attempt timer aborts a session without it, for ever if need be.
- `RealtimeFallback`: HTTP works; nothing at all of the WebSocket.
- `HttpTransport`: a frame on the stack goes on, a reply on a live route arrives,
  and after a dead route Backend restarts the transports, which it does on each
  reconnection.
- `PostRepository`, `ReadState`, `Following`: none; their properties are about safety.
- `DraftSync`: calls and events arrive, a request nobody waits for reaches the server or is
  gone, and a sync of all teams is started again and again, as each reconnection does. It
  is the only thing that retries a failed upload.

## Proofs

Checked by TLAPS for every value of the constants. The constants' assumptions are
the named `ASSUME`s of the modules (`OutboxAssumption`, `StoreAssumption`,
`ConnectionAssumption`, `TransportAssumption`, `RepositoryAssumption`,
`ReadAssumption`, `FollowingAssumption`, `DraftAssumption`); the passing runs evaluate
them. Three theorems have a hypothesis more, named in the table: each is a restriction
without which TLC finds the property violated, and the
[observations](#observations-that-are-not-claims) say how.

| Theorem | Statement | Module |
|---|---|---|
| `TypeCorrect` | `Spec => []TypeOK` of the outbox | `OutboxProofs` |
| `OrderHolds`, `FifoDelivery`, `NothingLost` | `[]OrderInv`, hence `[]DeliveryInOrder` and `[]NoSilentLoss` | `OutboxProofs` |
| `Refinement` | `Spec => ImplementsOrderedDelivery` | `OutboxProofs` |
| `LiveHolds`, `NothingStranded`, `OneCreate`, `DeadlineStaysArmed`, `UploadFailureShows`, `CutOffStays` | `[]LiveInv`, hence `[]` of `NoStrandedPost`, `OneLiveRequest`, `DeadlineArmed`, `UploadFailureSurfaces`, `CutOffHolds` | `OutboxProofs` |
| `StoreTypeCorrect`, `NothingLostOnDisk` | `[]TypeOK`; `[]Durable` if the outbox file can be read | `OutboxStoreProofs` |
| `StaleFilesAreRetried`, `OrdinaryDraftsStay` | `StaleFileIsRetried`, `RecoveryKeepsDraft`, whatever can be read or written | `OutboxStoreProofs` |
| `NeverStranded`, `HandledInOrder` | `[]AlwaysDriven`, `[]DispatchedInOrder` | `RealtimeProofs` |
| `NoGapIsSilent` | `[]NoSilentGap` if every hello carries the id of its stream | `RealtimeProofs` |
| `PollsOnce` | `[]PolledOnce` of the fallback with its connection | `RealtimeProofs` |
| `BooksBalance`, `CalledAtMostOnce`, `SentAtMostOnce`, `AnswersAreCurrent` | `[]IInv`, hence `[]AnsweredOnce`, `[]WrittenOnce`, `NoStaleAnswer` | `HttpProofs` |
| `RepositoryTyped`, `AnswersRespectEvents`, `RowsStayRemoved`, `LoadsAreCarried` | `[]TypeOK`, `[]FenceHolds`, `[]RowsOutliveNoRemoval`, `[]NoLoadForgotten` | `PostRepositoryProofs` |
| `ReadTyped`, `OnlyMarks`, `FullReadsStand` | `[]TypeOK`, `OnlyMarksRewind`, `[]FullReadStands` | `ReadStateProofs` |
| `MentionsStay`, `NothingHides` | `[]MentionsStayRead`, `[]NothingUnreadHides` | `ReadStateProofs` |
| `FollowingTyped`, `NoReplySkipped`, `RowTells` | `[]TypeOK`, `[]ResumeSkipsNothing`, `[]RowTellsServer` | `FollowingProofs` |
| `NothingTypedLost` | `[]NothingTypedIsLost` if no text is typed twice | `DraftSyncProofs` |
| `TombstonesHold` | `TombstoneHolds` | `DraftSyncProofs` |

*Outbox.* `DeliveryInOrder` speaks of accepted messages only and says nothing of
a request that is still to be accepted. `OrderInv` adds that a message is offered
(on the wire or accepted) only after every earlier message of its conversation
has left the outbox, that stamps do not exceed the server's clock, and that an
accepted request's message has a stamp. The step proof has one lemma per kind of
step: those that move no message (`OrderQuiet`), an enqueue, an attempt, an
acceptance, a removal. The refinement uses the same invariant: each action is
one abstract step or leaves what the abstract specification sees unchanged.

`NoStrandedPost` says that each pending message has what moves it on, and is far from
inductive: the callback must also be the right one for the row's state, generation and
place. `LiveInv` gives each message's row (`RowOK`) what its state stands for: a create of
its generation and all its files for `Sending`, its retry timer and the head's place for
`RetryWait`, an attempt for `Queued`, an earlier message for `Blocked`, an upload that is
carried for `Uploading` (`Placed`, `FilesComing`); a deadline of its window unless its
create outlived it (`Timed`); and a count of newer posts that lets no head start again
(`Counting`). A start that is due may mend most of this, which is why each part names it
(`begun`). Since a message's generation only grows and a callback fires for its own
generation only, a step disturbs the row it is about and those a start would look at;
`Untouched` says what all others rest on. Over the requests, `Requested` says that the
create of a pending message is its only one. Five properties are read off this one
invariant.

*Store.* `Durable` alone is not inductive: a persist writes the rows in memory, so the
proof needs that an unsettled message that is not in the draft file is also in `order` or
in the backlog while the process runs (`InMemory`), and that recovered drafts in memory
include the unsettled ones on disk once they are loaded (`Loaded`). The theorem assumes
`FALSE \notin ReadResults`; without it it is false. The two step properties need only that
the flag which holds further timers back never stands without a timer (`RetryArmed`), and
that the outbox file names accepted messages only (`OnlyAccepted`): then a start drops no
other ordinary draft.

*Realtime.* `AlwaysDriven` names the connection state; the invariant `Underway`
says by the state of the *socket* which timer or request is pending. For the order
of events, `Places` relates every handled event to the place the client has reached
in the stream it knows and to the next frame on the socket. Its hardest case is a
hello of a new stream while frames of the old one had been handled. For gaps, `GapInv` adds
what the connector remembers between two sockets (`Remembered`): an id and a place
belong together, the flag that a reconnection is due survives until the refresh
was asked for, and no session counts as connected without its hello. So the place the
client names is in the stream it names, and it leaves that stream only by a refresh.

*Fallback.* `PollInv`: one poll is under way at most, and what was announced by a poll is
known to the program and to the poll under way, whatever the connection did since it
began.

*Transport.* `IInv` is the book-keeping of a request: waiting in one queue,
carried by one reply of the current generation, or answered. During a restart
a replayed GET is both queued and carried by its old reply; `Frames` says that
such replies are exactly those the loop has still to abort. After a use of a
deleted object nothing more is claimed. In the code a handler that returns into a
deleted reply would be one more case of undefined behaviour; the model counts it
among the steps that go on, so the theorems are about more behaviours, not fewer.

*Repository.* `FenceHolds` speaks of bodies in memory; what it rests on is that an answer
that was served shows all that was heard of before its GET was numbered (`ServedFresh`),
that the log gives each post's changes in order and what was heard is a prefix of them
(`LogOrder`, `HeardInOrder`). An answer is admitted only when the post's watermark is not
newer than its number, and then nothing of the post was heard since it was sent. `RowsInv`
holds the rows in a GET, in the worker's queue and in the table to the same, or requires a
removal that is newer to stand before them in the queue or in the worker's fence.
`LoadsInv` says of each of a call's two halves that it is done or carried by something
that still comes.

*Reading.* `TagInv` says that an event of an own checkpoint still under way finds its tag,
and `OnlyMarksRewind` follows from it. For `FullReadStands`, `ReadInv` says where the
server is behind the last full read (`Repaid`): a request to view is under way, or the
checkpoint under way knows it was overtaken and will repeat the view when it is answered;
and a checkpoint that does not know asks for a boundary beyond that read (`CallAhead`).

The mentions and the flags of unread rest on the word of the server: every answer and
event under way told the truth when it was made, and posts only come (`WordInv`). For
mentions that is enough with one flag more, because a merge copies `mentions` and
`serverMentioned` into one another (`MentionInv`). For `NothingUnreadHides`, `HideInv`
says of what the server counts as unread that news of it is under way with no view behind
it, or it was heard live, or the entry stays unread under the merge to come (`Owed`,
`Stays`); that a view under way to the program covers everything or has news behind it
(`ViewedLast`); that the event of an own post is followed by the event of its view
(`Paired`); and in which order a snapshot's two answers are read (`Snapshot`).

*Following.* `ResumeSkipsNothing` speaks of replies that were told of. `CursorInv` adds
those under way: they come in their order, each is newer than all that is in memory
unless a page brought everything up to it (`EventsNews`), and none lies between the
boundary and the cursor (`CursorAhead`). So a reply that is heard at the end becomes
the cursor, one heard elsewhere is beyond it, and a pass that takes the next reply in
memory skips none that is under way. Snapshots keep the cursor or start it anew
(`Keeps`).

`RowTellsServer` speaks of rest, so its invariant must say what is true before. As long as
something will ask for another refresh (`Coming`) nothing is asked of the row, and each
step that changes the server leaves such a sign (`ServerSigns`), which ends only in a
refresh that starts (`SignsEnd`). From then on the answers are what the server has
(`SnapshotTrue`), and so is the row once they are applied (`RowTrue`), except for what the
client holds on to: attention that a mark drew is shown as unread until the read of it is
answered (`MarkShown`), and an acknowledgement that is pending is one the server took or
will take, unless its boundary went back since or the client's clock was behind when it was
made (`AckTaken`, `lowered`). Both hold in every state of a run without failures, at rest or
not, and make the row true at rest. A row shown read is false at rest in one case only: an
acknowledgement is still pending, covers every reply, and is `lowered`. A boundary that
moved back with no acknowledgement pending is shown. A thread that is read and older than
the first page has no row to speak of.

*Drafts.* `NothingTypedIsLost` looks at one state; what protects a text is scattered over
everything under way. `DraftInv` is `Shape` (one entry, one server copy) and `Owing`: a text the user will type is
nowhere yet, and the one he typed last is safe (`Safe`). It waits in the entry or the server
has it; every request that was not made before it was typed carries it (`Recent`, `old`); and
nothing that would confirm it (an answer, an event) is under way before the server has it.
So a request taken late, in whatever order, is harmless until the server has the text. One
made before the text was typed and taken after the server saved it replaces it; that is
what the code does, and the property ends there. `Yields` and `Moves` say once what a handler may do to
the entry and to what is under way, and every action is shown to be of that kind.
`TombstoneHolds` follows from `Yields` alone.

Every safety invariant and every action property that a passing run checks is proved. Only
model-checked: the liveness properties (`Settles`, `Reconnects`, `EventsArrive`,
`OfflinePostsArrive`, `AllAnswered`, `FlushSettles`, `Converges`), as temporal reasoning
under fairness needs `ENABLED`, which is out of the prover's reach; and the two
disagreements, which are counterexamples. `LiveInv`, `Underway` and `IInv` say what such a
proof would start from: that what is owed always has something scheduled.

### What the proofs changed

- `CutOffHolds` said too little about one state. The proof of `Counting` stopped at a row
  that is not the head, waits for its upload and counted the posts of others meanwhile:
  when the row before it goes, it is a head past the cut-off and stays `Uploading` until
  the upload ends, whose end starts the conversation and fails it
  (`PendingPostService::tryStartConversation`). Two messages with the upload in the second
  show it. The property now names that state.
- `MentionsStayRead` and `NothingUnreadHides` asked for more rest than they need. They are
  stated without the guards the proofs did not use: the first now speaks of every
  state, the second no longer waits for checkpoints, marks and memberships.
- The restart of `DraftSync` names how many requests the server had taken, and the
  state a message gets in `Enqueue` is one choice in the order the code makes it,
  instead of cases that overlap.

## Disagreements found

1. **Recovered messages never become drafts** (`Store_recovered`,
   `backend/PendingPostService.cpp:1119`). Recovery runs before the keychain can have
   delivered the draft key, so the first record cannot be saved and the whole file
   becomes a backlog that nothing looks at again.
2. **A discarded draft stays on the server** (`Drafts_discard`,
   `backend/DraftService.cpp:379`). The outstanding flush is forgotten at the next
   keystroke, so a later discard deletes nothing.

Each is described with the quoted text in `PROJECT.json`.

## Observations that are not claims

Behaviour met while modelling that no run claims anything about.

- *Outbox.* Once a confirmed id is forgotten (after the retry window), the late echo of
  an own post counts against later rows like a foreign one, where
  `docs/post-sources/presentation-chain.md:371` says own posts do not
  (`PendingPostService.cpp:683-694`). A message blocked behind a failed head is moved on by
  nothing but its own deadline (`tryStartConversation` stops at the failed row), so it waits
  out its ten minutes and then fails too: `Settles` holds because the clock runs.
- *Store.* If an existing outbox file cannot be opened or parsed, `loadStore` returns
  with an empty backlog and the next `persist` replaces the file. With
  `ReadResults = {TRUE, FALSE}` TLC violates `Durable`. A start that recovers
  only a part, or cannot remove the file, leaves the recovered records in it
  until the next snapshot; `StaleFileIsRetried` does not speak of that case.
- *Realtime.* A hello without a `connection_id` leaves the sequence number as it was, and
  the connector then aborts on the next frame, again and again
  (`WebSocketConnector.cpp:754-780`); the run assumes hellos have one, and of the proofs
  `NoGapIsSilent` does. With ids on some hellos only, a gap can be silent: after a first
  hello without an id, a reconnection whose hello has one is a mismatch that takes the id
  but keeps the place of the old stream, and a later resume enters the new stream there.
  The server dropping the last frame of a stream shows only on a later frame
  (`TailDropped`). `open()` clears the suppress flag while an old close is pending, which
  costs one spurious reconnect.
- *Fallback.* A post handled by the WebSocket and by a poll that is still in flight can be
  announced twice (`PolledOnce` counts polls only). The poll cursor is the newest
  known post and does not fill holes. A failed history refresh is not repeated.
- *Fallback after a logout.* `Backend::reset` (`Backend.cpp:415`) cuts the signals the
  service lives by, so that it goes on polling a channel that was freed:
  `PollsOpenChannel` does not hold, and TLC finds the behaviour.
- *Transport.* `abort()` runs response handlers inside the loop over the replies
  (`HTTPConnector.cpp:176`, `:502`); a handler may reset or destroy the connector, as a
  comment allows, and the loop goes on with deleted replies: `NoDeletedUse` does not hold.
- *Posts.* Answers of a navigation and of an edit are numbered on arrival
  (`PostRepositoryNavigation.cpp:31`, `PostCreateService.cpp:385`), so that what the
  server read before a deletion counts as newer than it: `StaleAnswersRejected` does not
  hold. A held direct post that is drained after its edit or deletion was dropped shows
  its first form. An edit does not fence the cache worker (only removals do), so the row
  may go back until the next read. A reaction heard while a validating GET is under way
  rejects the whole answer, and an edit that was missed stays missed.
- *Read checkpoints.* The reply of a checkpoint that is answered after another device's
  full view was heard rewrites the channel as unread (`SidebarService.cpp:500`, `:607`):
  `LateRepliesUndoNothing` does not hold. The event of a checkpoint heard after its reply
  and after a newer full read sets the local boundary back until the view's own event.
- *Drafts.* An event is taken for the echo of an own upload if its text is the entry's
  (`DraftService.cpp:695`). A user who types *a*, *b* and *a* again, each flushed, has the
  event of the first *a* confirm the third; the entry then counts as saved and the event
  of *b* replaces it (until the third upload is answered by its own event). With `Typing =
  <<a, b, a>>` TLC violates `NothingTypedIsLost` with no failure at all; the theorem
  therefore assumes texts that differ (`Distinct`). A reply to a team's GET that was read
  before an upload which was answered meanwhile removes the saved draft locally until the
  next sync. Nothing orders the uploads of one draft (`DraftService.cpp:540`): one made
  before the user typed on may be taken after the server saved the newer text; its event
  then replaces the saved text in the entry too, and what the user typed last is gone.
  `NothingTypedIsLost` leaves that case out. A client clock ahead of the server's can delay remote changes. A 404 on any
  draft call disables the synchronisation for the session.
- *Reading.* A posted event handled late or twice marks a read post unread again.
  Live posts never raise `total_msg_count`, so a full view records a stale total.
  `markPostUnread` of the chat log starts a new generation but leaves
  `readProgressInFlight_` set, so that after a mark during a checkpoint this view reports
  no progress any more (`ChatLogWidget.cpp:1300`). A membership read before a mark and
  answered after it hides the mark locally; summaries older than the newest live post
  hide a just-marked channel (the `outran` exception of `NothingUnreadHides`). A full view
  takes `lastPost`, which lags behind rows loaded with history; a delayed one covers posts
  never seen; a failed one is not repeated. `SidebarService::clear` keeps the pending
  checkpoints and tags.
- *Following.* A read to the end names the client's time, so a reply that was posted but
  not yet heard is read unseen. A stale snapshot that says "read" retires the pending
  acknowledgement and a still older one then shows the thread unread. The success of a
  read clears a newer manual mark. A failed query counts as an empty list and removes the
  rows, with no retry. A report of progress that the server takes after a read to the end
  un-reads the thread. The success of a read emits `followingChanged(true)`, which brings
  the bell back after an unfollow. A mark on another device while an acknowledgement is
  pending stays hidden until a reply comes, and so does what a read to the end missed because
  the client's clock was behind (the exception of `RowTellsServer`). A followed thread that is
  read and not among the first 25 of its team has no row (`ThreadFollowService.cpp:454`).
  Replies that come with a page of history leave the cursor at the end until the next
  pass.
- *Login.* At this commit no second login happens in one process; two logins in the
  realtime run exercise `open` and `close` as an interface.

## Not modelled

Within the modelled parts: encryption, JSON and back-off delays; references to
messages in message text; upload progress; priorities of queued requests
(`processQueues` starts everything that waits), cookies, connectors constructed
after the start, nested event loops; recovered drafts in `DraftSync` (they are in
`OutboxStore`) and changes of identity. Assumptions about the server in
`DraftSync`: it
shares one clock with the client. Each text is typed once there, so "the same text
again" is not told apart from an old copy.

In `PostRepository`: collections (flagged, search, mentions), reply counts, the tables of
tail windows and recent channels, the pruning of watermarks after an hour. In
`ReadState`: collapsed threads, muting, several channels of one snapshot. In `Following`:
rows of conversations, synthetic root mentions, the bell's own query. The models of reading
leave the geometry of the viewport open.

Whole components that are not modelled, with the reason, are in `PROJECT.json`:
views and rendering (pixels), dialogs (one request, one reply), event parsing and
storage (data), update, AI, plugins and spelling (processes and foreign
code), and the deprecated timeline.

## Plan

Done: the outbox and its file, the realtime connection and its fallback, the HTTP
transport, the drafts, the post repository with its cache, the read state of a channel
and of a followed thread.

Next modules, in this order:

1. `PostPaging`: the request gate, demand generations and remaps of the channel source.
   Property: every demand is answered with the rows it asked for or asked again.
2. `Navigation`: one generation decides which destination may still be published.

Compositions: `PostRepository` with `RealtimeConnection` (events missed across a failed
resume), `ReadState` with `PostRepository` (rows a view counts as seen).

Proofs: with every safety property of a run proved, the next ones come with the next
modules. Worth stating beside them: that the repository's rows in memory implement a
register per post that a stale answer never writes, and that the entry of `ReadState`
implements a boundary that only marks move back.
