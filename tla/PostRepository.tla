--------------------------- MODULE PostRepository ---------------------------
(***************************************************************************)
(* PostRepository and PostCacheService: the posts of one channel in memory *)
(* (BackendChannel), in the database of the cache worker, and on the       *)
(* server.                                                                 *)
(*                                                                         *)
(* A post is learned from a WebSocket event, from a GET that was sent some *)
(* time before it is answered, from the database, and from a few requests  *)
(* that tell the repository of themselves only when they are answered.     *)
(* Observation sequences order them: a GET takes its number when it is     *)
(* sent, an event when it is heard, and a post keeps the newest number it  *)
(* was changed under.  The worker, a thread of its own, takes commands in  *)
(* order and keeps the newest number a row was removed under.              *)
(*                                                                         *)
(* The server numbers the changes of a post 1, 2, ...: the first creates   *)
(* it.  A body is the set of changes it shows and the way it came.         *)
(***************************************************************************)
EXTENDS Naturals, Sequences, FiniteSets

CONSTANTS
    Posts, NoPost,
    Root,          \* the root of a reply, NoPost for a root post
    CreatedAt,     \* create_at: the order the server gets them in
    Pages,         \* the requests for pages of the channel and of its threads
    Covers,        \* the posts a page asks for
    Loads,         \* the calls of loadPost
    MaxChanges,    \* bound: changes on the server
    MaxRequests,   \* bound: GETs, fetches and reads of the cache
    MaxTroubles    \* bound: events missed, requests failed, restarts

Paths == Posts \cup Pages

ASSUME RepositoryAssumption ==
    /\ NoPost \notin Posts /\ Posts \cap Pages = {}
    /\ Root \in [Posts -> Posts \cup {NoPost}]
    /\ CreatedAt \in [Posts -> Nat]
    /\ Covers \in [Pages -> SUBSET Posts]
    /\ MaxChanges \in Nat /\ MaxRequests \in Nat /\ MaxTroubles \in Nat

VARIABLES
    (* The server, external. *)
    server,      \* server[p]: how many changes the post has had
    gone,        \* the posts it has deleted
    log,         \* the events it has sent, oldest first
    (* The repository and the event handler. *)
    pos,         \* how many events were heard or missed
    seq,         \* observationSequence
    observed,    \* residentObservations
    resident,    \* postIdToPost: the bodies in memory
    known,       \* the channel is in Storage
    resolving,   \* the channel is in resolvingDirectChannels
    held,        \* pendingDirectPosts
    gets,        \* inFlightGets: at most one request for a path
    fetches,     \* requests that are numbered when they are answered
    loads,       \* the state of each call of loadPost
    results,     \* answers of the worker that the repository has yet to take
    (* The cache worker and its database. *)
    queue,       \* its commands, oldest first
    fence,       \* invalidationWatermarks
    disk,        \* the table of posts
    (* History, and the bounds. *)
    heard,       \* heard[p]: the changes heard of in events
    requests, troubles

external   == <<server, gone, log>>
channel    == <<known, resolving, held>>
memory     == <<seq, observed, resident>>
worker     == <<fence, disk>>
vars       == <<external, pos, memory, channel, gets, fetches, loads,
                results, queue, worker, heard, requests, troubles>>

-----------------------------------------------------------------------------
(* Bodies.  One "by" an event shows what the event told; by a "request",   *)
(* what a GET numbered when it was sent brought; by "arrival", what was    *)
(* numbered when it arrived; from the "cache" or "held", what had waited.  *)

Body   == [seen : SUBSET Nat, by : {"none", "event", "request", "arrival", "cache", "held"}]
NoBody == [seen |-> {}, by |-> "none"]
Shows(changes, way) == [seen |-> changes, by |-> way]

NoRows     == [p \in Posts |-> NoBody]
Rows(ps, way) ==
    [p \in Posts |-> IF p \in ps /\ server[p] > 0 /\ p \notin gone
                     THEN Shows(1..server[p], way) ELSE NoBody]
One(p, body) == [NoRows EXCEPT ![p] = body]
Filled(rows) == {p \in Posts : rows[p] # NoBody}
AsCached(rows) ==
    [p \in Posts |-> IF rows[p] = NoBody THEN NoBody ELSE Shows(rows[p].seen, "cache")]

Asked(path) == IF path \in Posts THEN {path} ELSE Covers[path]

Larger(m, n) == IF m < n THEN n ELSE m

\* noteResidentObservation: a reply changes the thread data of its root, which
\* is taken to be as new.
WithRoots(ps) == ps \cup ({Root[p] : p \in ps} \ {NoPost})

\* Commands of the worker and the answers to its reads.
Store(rows, s)    == [op |-> "store", rows |-> rows, seq |-> s]
Remove(p, s)      == [op |-> "remove", post |-> p, seq |-> s]
\* A read yields the rows of one of some sets of posts: a cached tail may begin
\* at any post.
Read(pss, s, cs)  == [op |-> "read", posts |-> pss, seq |-> s, load |-> cs]

\* A store is carried out or not: it needs rows, a channel that was opened
\* lately enough (shouldCacheChannelOnDisk, isChannelEligible), and a database.
MayStore(rows, s) == {<< >>} \cup (IF rows = NoRows THEN {} ELSE {<< Store(rows, s) >>})

NoGet    == [seq |-> 0, served |-> FALSE, rows |-> NoRows]
NoFetch  == [stage |-> "none", edit |-> FALSE, body |-> NoBody]
Unloaded == [post |-> NoPost, cacheDone |-> FALSE, httpDone |-> FALSE, outcome |-> "none"]

Init ==
    /\ server \in [Posts -> {0, 1}] /\ gone = {} /\ log = << >>
    /\ \A p, q \in Posts : CreatedAt[p] < CreatedAt[q] => server[q] <= server[p]
    /\ pos = 0 /\ seq = 0
    /\ observed = [p \in Posts |-> 0]
    /\ resident = NoRows
    /\ known \in BOOLEAN /\ resolving = FALSE /\ held = << >>
    /\ gets = [x \in Paths |-> NoGet]
    /\ fetches = [p \in Posts |-> NoFetch]
    /\ loads = [c \in Loads |-> Unloaded]
    /\ results = << >> /\ queue = << >>
    /\ fence = [p \in Posts |-> 0]
    /\ disk \in {NoRows, Rows(Posts, "request")}
    /\ heard = [p \in Posts |-> {}]
    /\ requests = 0 /\ troubles = 0

-----------------------------------------------------------------------------
(* The server.                                                             *)

Change(kind, p) ==
    /\ Len(log) < MaxChanges
    /\ server' = [server EXCEPT ![p] = @ + 1]
    /\ log' = Append(log, [kind |-> kind, post |-> p, n |-> server[p] + 1])

Publish(p) ==
    /\ server[p] = 0
    /\ \A q \in Posts : CreatedAt[q] < CreatedAt[p] => server[q] > 0
    /\ Root[p] \notin gone
    /\ Change("posted", p)
    /\ UNCHANGED gone

EditOrReact(p) ==
    /\ server[p] > 0 /\ p \notin gone
    /\ \E kind \in {"edited", "reaction"} : Change(kind, p)
    /\ UNCHANGED gone

\* A root whose replies are deleted with it is left out.
Delete(p) ==
    /\ server[p] > 0 /\ p \notin gone
    /\ \A q \in Posts : Root[q] = p => server[q] = 0 \/ q \in gone
    /\ Change("deleted", p)
    /\ gone' = gone \cup {p}

ServerStep ==
    /\ \E p \in Posts : Publish(p) \/ EditOrReact(p) \/ Delete(p)
    /\ UNCHANGED <<pos, memory, channel, gets, fetches, loads, results, queue,
                   worker, heard, requests, troubles>>

-----------------------------------------------------------------------------
(* Events.                                                                 *)

Observe(ps, s) == [p \in Posts |-> IF p \in ps THEN Larger(observed[p], s) ELSE observed[p]]

\* cachePostObject
CachePostObject(p, body) ==
    /\ seq' = seq + 1
    /\ observed' = Observe(WithRoots({p}), seq + 1)
    /\ \E stored \in MayStore(One(p, body), seq + 1) : queue' = queue \o stored

\* Mutant of InvalidateCachedPost: the number is read but not taken.
PeekInvalidateCachedPost(p) ==
    /\ seq' = seq
    /\ observed' = Observe({p}, seq + 1)
    /\ queue' = Append(queue, Remove(p, seq + 1))

\* invalidateCachedPost
InvalidateCachedPost(p) ==
    /\ seq' = seq + 1
    /\ observed' = Observe({p}, seq + 1)
    /\ queue' = Append(queue, Remove(p, seq + 1))

\* BackendChannel::addPost: a body in memory stays what it is.
AddPost(bodies, p, body) ==
    IF bodies[p] = NoBody THEN [bodies EXCEPT ![p] = body] ELSE bodies

\* deliverPost: a channel that was not opened lately takes no body, but for
\* the replies to an open thread.  When that is so is left open.
Delivered(bodies, p, body) == {bodies, AddPost(bodies, p, body)}

HearPosted(p, n) ==
    /\ CachePostObject(p, Shows(1..n, "event"))
    /\ resident' \in IF known THEN Delivered(resident, p, Shows(1..n, "event"))
                     ELSE {resident}
    /\ held' = IF ~known /\ resolving /\ (\A i \in 1..Len(held) : held[i] # p)
               THEN Append(held, p) ELSE held

HearEdited(p, n) ==
    /\ CachePostObject(p, Shows(1..n, "event"))
    /\ resident' = IF known /\ resident[p] # NoBody
                   THEN [resident EXCEPT ![p] = Shows(1..n, "event")] ELSE resident
    /\ UNCHANGED held

\* A reaction, or the deletion mark, is added to the body in memory.
HearChanged(p, n) ==
    /\ InvalidateCachedPost(p)
    /\ resident' = IF known /\ resident[p] # NoBody
                   THEN [resident EXCEPT ![p].seen = @ \cup {n}] ELSE resident
    /\ UNCHANGED held

Hear ==
    /\ pos < Len(log)
    /\ pos' = pos + 1
    /\ LET e == log[pos + 1] IN
       /\ heard' = [heard EXCEPT ![e.post] = @ \cup {e.n}]
       /\ CASE e.kind = "posted" -> HearPosted(e.post, e.n)
            [] e.kind = "edited" -> HearEdited(e.post, e.n)
            [] OTHER             -> HearChanged(e.post, e.n)
    /\ UNCHANGED <<external, known, resolving, gets, fetches, loads, results,
                   worker, requests, troubles>>

\* An event is lost with the WebSocket.
Miss ==
    /\ pos < Len(log) /\ troubles < MaxTroubles
    /\ pos' = pos + 1 /\ troubles' = troubles + 1
    /\ UNCHANGED <<external, memory, channel, gets, fetches, loads, results, queue,
                   worker, heard, requests>>

(* A direct channel that the client does not know yet. *)

DirectAdded ==
    /\ ~known /\ ~resolving
    /\ resolving' = TRUE
    /\ UNCHANGED <<external, pos, memory, known, held, gets, fetches, loads,
                   results, queue, worker, heard, requests, troubles>>

\* Storage publishes the channel, by an answer or by other means, and
\* drainPendingDirectPosts delivers what was held, in its first form.
ChannelAppears(arrived) ==
    /\ known' = TRUE /\ resolving' = FALSE /\ held' = << >>
    /\ \E ps \in SUBSET {held[i] : i \in 1..Len(held)} :
         resident' = [p \in Posts |->
                        IF arrived[p] # NoBody THEN arrived[p]
                        ELSE IF p \in ps THEN AddPost(resident, p, Shows({1}, "held"))[p]
                        ELSE resident[p]]

DirectResolved ==
    /\ ~known
    /\ ChannelAppears(NoRows)
    /\ UNCHANGED <<external, pos, seq, observed, gets, fetches, loads, results,
                   queue, worker, heard, requests, troubles>>

\* 15 seconds without an answer.
DirectGivenUp ==
    /\ ~known /\ resolving
    /\ resolving' = FALSE /\ held' = << >>
    /\ UNCHANGED <<external, pos, memory, known, gets, fetches, loads, results,
                   queue, worker, heard, requests, troubles>>

-----------------------------------------------------------------------------
(* GETs.                                                                   *)

\* Mutant of Admitted: what was heard since the request was sent is no matter.
AdmitAll(rows, s) == Filled(rows)

\* ingest: the posts of an answer that nothing newer is known of.
Admitted(rows, s) == {p \in Filled(rows) : observed[p] <= s}

Ingest(rows, s) ==
    LET ps == Admitted(rows, s) IN
    /\ observed' = Observe(WithRoots(ps), s)
    /\ resident' = [p \in Posts |-> IF p \in ps THEN rows[p] ELSE resident[p]]

\* coalescedGet: a request that is under way is joined, with its number.
Send(path, s) ==
    IF gets[path].seq # 0 THEN UNCHANGED gets /\ seq' = s
    ELSE /\ gets' = [gets EXCEPT ![path] = [seq |-> s + 1, served |-> FALSE, rows |-> NoRows]]
         /\ seq' = s + 1

LoadPage(page) ==
    /\ known /\ requests < MaxRequests
    /\ Send(page, seq)
    /\ requests' = requests + 1
    /\ UNCHANGED <<external, pos, observed, resident, channel, fetches, loads, results,
                   queue, worker, heard, troubles>>

\* loadPost: the database and the server are both asked.
LoadPost(c, p) ==
    /\ loads[c] = Unloaded /\ requests < MaxRequests
    /\ loads' = [loads EXCEPT ![c].post = p]
    /\ queue' = Append(queue, Read({{p}}, seq + 1, {c}))
    /\ Send(p, seq + 1)
    /\ requests' = requests + 1
    /\ UNCHANGED <<external, pos, observed, resident, channel, fetches, results,
                   worker, heard, troubles>>

\* The server reads its state for an answer.
Serve(path) ==
    /\ gets[path].seq # 0 /\ ~gets[path].served
    /\ gets' = [gets EXCEPT ![path].served = TRUE, ![path].rows = Rows(Asked(path), "request")]
    /\ UNCHANGED <<external, pos, memory, channel, fetches, loads, results, queue,
                   worker, heard, requests, troubles>>

\* deliverSuccess and deliverFailureIfDone
Settled(load, found) ==
    [load EXCEPT !.outcome =
        IF @ # "none" THEN @
        ELSE IF found THEN "found"
        ELSE IF load.cacheDone /\ load.httpDone THEN "failed" ELSE "none"]

\* Mutant of HttpDone: a call that joined is forgotten by the answer.
HttpDoneForOne(path, found) ==
    [c \in Loads |->
        IF loads[c].post = path /\ ~loads[c].httpDone
           /\ \A d \in Loads \ {c} : loads[d].post = path => loads[d].httpDone
        THEN Settled([loads[c] EXCEPT !.httpDone = TRUE], found) ELSE loads[c]]

\* The calls of loadPost that wait for an answer are all called.
HttpDone(path, found) ==
    [c \in Loads |->
        IF loads[c].post = path /\ ~loads[c].httpDone
        THEN Settled([loads[c] EXCEPT !.httpDone = TRUE], found) ELSE loads[c]]

\* The callbacks of loadPost, loadChannelPage, loadChannelCursor and loadThread.
Answer(path) ==
    /\ gets[path].served
    /\ gets' = [gets EXCEPT ![path] = NoGet]
    /\ LET g == gets[path] IN
       /\ IF known THEN Ingest(g.rows, g.seq) ELSE UNCHANGED <<observed, resident>>
       /\ \E stored \in MayStore(g.rows, g.seq) : queue' = queue \o stored
       /\ loads' = HttpDone(path, path \in Filled(g.rows) /\ known
                                  /\ resident'[path] # NoBody)
    /\ UNCHANGED <<external, pos, seq, channel, fetches, results, worker, heard,
                   requests, troubles>>

Fail(path) ==
    /\ gets[path].seq # 0 /\ troubles < MaxTroubles
    /\ gets' = [gets EXCEPT ![path] = NoGet]
    /\ loads' = HttpDone(path, FALSE)
    /\ troubles' = troubles + 1
    /\ UNCHANGED <<external, pos, memory, channel, fetches, results, queue, worker,
                   heard, requests>>

(* Requests that are numbered when they are answered: the post a link      *)
(* leads to, and the answer to the edit of an own post.                    *)

Navigate(p) ==
    /\ fetches[p] = NoFetch /\ requests < MaxRequests
    /\ fetches' = [fetches EXCEPT ![p].stage = "asked"]
    /\ requests' = requests + 1
    /\ UNCHANGED <<external, pos, memory, channel, gets, loads, results, queue, worker,
                   heard, troubles>>

ServeFetch(p) ==
    /\ fetches[p].stage = "asked" /\ server[p] > 0 /\ p \notin gone
    /\ fetches' = [fetches EXCEPT ![p].stage = "served",
                                  ![p].body = Shows(1..server[p], "arrival")]
    /\ UNCHANGED <<external, pos, memory, channel, gets, loads, results, queue, worker,
                   heard, requests, troubles>>

\* PATCH: the server edits the post, and answers with it.
Patch(p) ==
    /\ fetches[p] = NoFetch /\ requests < MaxRequests
    /\ server[p] > 0 /\ p \notin gone
    /\ Change("edited", p)
    /\ fetches' = [fetches EXCEPT ![p] = [stage |-> "served", edit |-> TRUE,
                                         body |-> Shows(1..(server[p] + 1), "arrival")]]
    /\ requests' = requests + 1
    /\ UNCHANGED <<gone, pos, memory, channel, gets, loads, results, queue, worker,
                   heard, troubles>>

\* The post is there but its channel is not: it is asked for too.
NeedChannel(p) ==
    /\ fetches[p].stage = "served" /\ ~fetches[p].edit /\ ~known
    /\ fetches' = [fetches EXCEPT ![p].stage = "channel"]
    /\ UNCHANGED <<external, pos, memory, channel, gets, loads, results, queue, worker,
                   heard, requests, troubles>>

\* cachePostObject and then ingest or editPost under the new number: nothing
\* can be newer.  finishWithChannel comes with the channel.
Arrive(p) ==
    /\ \/ fetches[p].stage = "channel"
       \/ fetches[p].stage = "served" /\ (fetches[p].edit \/ known)
    /\ fetches' = [fetches EXCEPT ![p] = NoFetch]
    /\ CachePostObject(p, fetches[p].body)
    /\ IF known \/ fetches[p].edit
       THEN /\ resident' = IF known THEN [resident EXCEPT ![p] = fetches[p].body] ELSE resident
            /\ UNCHANGED channel
       ELSE ChannelAppears(One(p, fetches[p].body))
    /\ UNCHANGED <<external, pos, gets, loads, results, worker, heard, requests,
                   troubles>>

FetchFails(p) ==
    /\ fetches[p].stage # "none" /\ troubles < MaxTroubles
    /\ fetches' = [fetches EXCEPT ![p] = NoFetch]
    /\ troubles' = troubles + 1
    /\ UNCHANGED <<external, pos, memory, channel, gets, loads, results, queue, worker,
                   heard, requests>>

-----------------------------------------------------------------------------
(* The cache.                                                              *)

LoadCachedTail ==
    /\ known /\ requests < MaxRequests
    /\ seq' = seq + 1
    /\ queue' = Append(queue, Read({{q \in Posts : CreatedAt[q] >= CreatedAt[p]} : p \in Posts}, seq + 1, {}))
    /\ requests' = requests + 1
    /\ UNCHANGED <<external, pos, observed, resident, channel, gets, fetches, loads,
                   results, worker, heard, troubles>>

\* Mutant of Unfenced: a removed row may be written again by an older answer.
EveryRow(rows, s) == Filled(rows)

\* PostCacheWorker::storePosts: the rows no removal is newer than.
Unfenced(rows, s) == {p \in Filled(rows) : fence[p] < s}

Work ==
    /\ queue # << >>
    /\ queue' = Tail(queue)
    /\ LET c == Head(queue) IN
       \/ /\ c.op = "store"
          /\ disk' = [p \in Posts |-> IF p \in Unfenced(c.rows, c.seq) THEN c.rows[p] ELSE disk[p]]
          /\ UNCHANGED <<fence, results>>
       \/ /\ c.op = "remove"
          /\ fence' = [fence EXCEPT ![c.post] = Larger(@, c.seq)]
          /\ disk' = [disk EXCEPT ![c.post] = NoBody]
          /\ UNCHANGED results
       \/ /\ c.op = "read"
          /\ \E ps \in c.posts :
               results' = Append(results, [seq |-> c.seq, load |-> c.load,
                                           rows |-> [p \in Posts |-> IF p \in ps THEN disk[p]
                                                                     ELSE NoBody]])
          /\ UNCHANGED worker
    /\ UNCHANGED <<external, pos, memory, channel, gets, fetches, loads, heard, requests,
                   troubles>>

\* Maintenance: the limits of the database.
Prune(p) ==
    /\ disk[p] # NoBody /\ troubles < MaxTroubles
    /\ disk' = [disk EXCEPT ![p] = NoBody]
    /\ troubles' = troubles + 1
    /\ UNCHANGED <<external, pos, memory, channel, gets, fetches, loads, results, queue,
                   fence, heard, requests>>

\* ingestCached: what is in memory, or was heard of since the read, stays.
IngestCached(rows, s) ==
    [p \in Posts |-> IF resident[p] = NoBody /\ observed[p] <= s
                     THEN AsCached(rows)[p] ELSE resident[p]]

TakeResult ==
    /\ results # << >>
    /\ results' = Tail(results)
    /\ LET r == Head(results) IN
       /\ resident' = IF known THEN IngestCached(r.rows, r.seq) ELSE resident
       /\ loads' = [c \in Loads |->
                      IF c \in r.load
                      THEN Settled([loads[c] EXCEPT !.cacheDone = TRUE],
                                   /\ known /\ loads[c].post \in Filled(r.rows)
                                   /\ resident'[loads[c].post] # NoBody)
                      ELSE loads[c]]
    /\ UNCHANGED <<external, pos, seq, observed, channel, gets, fetches, queue, worker,
                   heard, requests, troubles>>

-----------------------------------------------------------------------------
(* Residency.                                                              *)

\* sweepResidentBodies: a body without a lease, by its age or by pressure.
\* canEvictPostBody keeps the root of a reply.
Evict(p) ==
    /\ resident[p] # NoBody
    /\ \A q \in Posts : Root[q] = p => resident[q] = NoBody
    /\ resident' = [resident EXCEPT ![p] = NoBody]
    /\ UNCHANGED <<external, pos, seq, observed, channel, gets, fetches, loads, results, queue,
                   worker, heard, requests, troubles>>

\* The process ends and starts again.  A normal exit works the queue off first.
Restart ==
    /\ troubles < MaxTroubles /\ troubles' = troubles + 1
    /\ pos' = Len(log) /\ heard' = [p \in Posts |-> {}]
    /\ seq' = 0 /\ observed' = [p \in Posts |-> 0] /\ resident' = NoRows
    /\ resolving' = FALSE /\ held' = << >>
    /\ gets' = [x \in Paths |-> NoGet] /\ fetches' = [p \in Posts |-> NoFetch]
    /\ loads' = [c \in Loads |-> Unloaded]
    /\ results' = << >> /\ queue' = << >> /\ fence' = [p \in Posts |-> 0]
    /\ UNCHANGED <<external, known, disk, requests>>

Next ==
    \/ ServerStep \/ Hear \/ Miss
    \/ DirectAdded \/ DirectResolved \/ DirectGivenUp
    \/ \E page \in Pages : LoadPage(page)
    \/ \E c \in Loads, p \in Posts : LoadPost(c, p)
    \/ \E path \in Paths : Serve(path) \/ Answer(path) \/ Fail(path)
    \/ \E p \in Posts : Navigate(p) \/ ServeFetch(p) \/ Patch(p) \/ NeedChannel(p)
                        \/ Arrive(p) \/ FetchFails(p)
    \/ LoadCachedTail \/ Work \/ TakeResult
    \/ \E p \in Posts : Prune(p) \/ Evict(p)
    \/ Restart

Spec == Init /\ [][Next]_vars

-----------------------------------------------------------------------------
Event == [kind : {"posted", "edited", "reaction", "deleted"}, post : Posts, n : Nat]
Fetch == [stage : {"none", "asked", "served", "channel"}, edit : BOOLEAN, body : Body]
Load  == [post : Posts \cup {NoPost}, cacheDone : BOOLEAN, httpDone : BOOLEAN,
          outcome : {"none", "found", "failed"}]

\* What the worker is told, and what it answers.
Command ==
    [op : {"store"}, rows : [Posts -> Body], seq : Nat]
        \cup [op : {"remove"}, post : Posts, seq : Nat]
        \cup [op : {"read"}, posts : SUBSET SUBSET Posts, seq : Nat, load : SUBSET Loads]
Result == [seq : Nat, load : SUBSET Loads, rows : [Posts -> Body]]

\* Types, and: no GET and no watermark in memory has a number that
\* observationSequence has not reached, so that what comes next is newer.
TypeOK ==
    /\ server \in [Posts -> Nat] /\ gone \subseteq Posts
    /\ log \in Seq(Event)
    /\ pos \in 0..Len(log) /\ seq \in Nat
    /\ observed \in [Posts -> 0..seq] /\ resident \in [Posts -> Body]
    /\ known \in BOOLEAN /\ resolving \in BOOLEAN
    /\ held \in Seq(Posts)
    /\ gets \in [Paths -> [seq : 0..seq, served : BOOLEAN, rows : [Posts -> Body]]]
    /\ fetches \in [Posts -> Fetch]
    /\ loads \in [Loads -> Load]
    /\ results \in Seq(Result) /\ queue \in Seq(Command)
    /\ fence \in [Posts -> Nat] /\ disk \in [Posts -> Body]
    /\ heard \in [Posts -> SUBSET Nat]
    /\ requests \in Nat /\ troubles \in Nat

\* A body in memory that an event or a numbered request brought shows every
\* change the client has heard of, whatever was answered meanwhile.
FenceHolds ==
    \A p \in Posts : resident[p].by \in {"event", "request"} => heard[p] \subseteq resident[p].seen

\* The changes heard of in events that name a post without showing it.
Invalidations(p) ==
    {log[i].n : i \in {j \in 1..pos : log[j].post = p /\ log[j].kind \in {"reaction", "deleted"}}}
        \cap heard[p]

\* A row shows every such change, unless its removal is still in the queue.
RowsOutliveNoRemoval ==
    \A p \in Posts :
        /\ disk[p].by \in {"event", "request"}
        /\ \A i \in 1..Len(queue) : queue[i].op = "remove" => queue[i].post # p
        => Invalidations(p) \subseteq disk[p].seen

\* A call of loadPost that has no outcome has something coming: the answer of
\* the worker, or one to the GET of its post.
NoLoadForgotten ==
    \A c \in Loads : loads[c].post # NoPost /\ loads[c].outcome = "none" =>
        \/ ~loads[c].cacheDone
           /\ \/ \E i \in 1..Len(queue) : queue[i].op = "read" /\ c \in queue[i].load
              \/ \E i \in 1..Len(results) : c \in results[i].load
        \/ ~loads[c].httpDone /\ gets[loads[c].post].seq # 0

\* Every body from an answer shows what was heard while it was under way.
\* Does not hold for the answers that are numbered on arrival.
StaleAnswersRejected ==
    \A p \in Posts :
        resident[p].by \in {"event", "request", "arrival"} => heard[p] \subseteq resident[p].seen

=============================================================================
