------------------------ MODULE PostRepositoryProofs ------------------------
(***************************************************************************)
(* Proofs about PostRepository, for any posts, pages, calls and bounds.    *)
(***************************************************************************)
EXTENDS PostRepository, TLAPS

-----------------------------------------------------------------------------
(* Type correctness. *)

\* The bodies the model makes are bodies.
LEMMA BodyTyped ==
    /\ NoBody \in Body /\ NoRows \in [Posts -> Body]
    /\ \A c \in SUBSET Nat, w \in {"none", "event", "request", "arrival", "cache", "held"} :
          Shows(c, w) \in Body
    /\ \A p \in Posts, b \in Body : One(p, b) \in [Posts -> Body]
    /\ \A rows \in [Posts -> Body] : AsCached(rows) \in [Posts -> Body]
<1>1. NoBody \in Body
    BY DEF NoBody, Body
<1>2. NoRows \in [Posts -> Body]
    BY <1>1 DEF NoRows
<1>3. \A c \in SUBSET Nat, w \in {"none", "event", "request", "arrival", "cache", "held"} :
          Shows(c, w) \in Body
    BY DEF Shows, Body
<1>4. \A p \in Posts, b \in Body : One(p, b) \in [Posts -> Body]
    BY <1>2 DEF One
<1>5. \A rows \in [Posts -> Body] : AsCached(rows) \in [Posts -> Body]
  <2> SUFFICES ASSUME NEW rows \in [Posts -> Body], NEW p \in Posts
               PROVE  rows[p] # NoBody => Shows(rows[p].seen, "cache") \in Body
      BY <1>1 DEF AsCached
  <2>1. rows[p].seen \in SUBSET Nat
      BY DEF Body
  <2> QED BY <1>3, <2>1
<1> QED BY <1>1, <1>2, <1>3, <1>4, <1>5

\* What the server answers with is typed.
LEMMA RowsTyped ==
    ASSUME server \in [Posts -> Nat], NEW ps,
           NEW w \in {"none", "event", "request", "arrival", "cache", "held"}
    PROVE  Rows(ps, w) \in [Posts -> Body]
<1>1. \A p \in Posts : Shows(1..server[p], w) \in Body
  <2> SUFFICES ASSUME NEW p \in Posts PROVE 1..server[p] \in SUBSET Nat
      BY BodyTyped
  <2> QED OBVIOUS
<1> QED BY <1>1, BodyTyped DEF Rows

\* A watermark moves up, and never past what was given out.
LEMMA ObserveTyped ==
    ASSUME NEW s \in Nat, NEW t \in Nat, NEW ps, seq \in Nat,
           observed \in [Posts -> 0..seq], seq <= t, s <= t
    PROVE  /\ Observe(ps, s) \in [Posts -> 0..t]
           /\ \A p \in Posts : /\ observed[p] <= Observe(ps, s)[p]
                               /\ p \in ps => s <= Observe(ps, s)[p]
                               /\ p \notin ps => Observe(ps, s)[p] = observed[p]
<1>1. \A p \in Posts : observed[p] \in 0..seq
    OBVIOUS
<1>2. \A p \in Posts : Larger(observed[p], s) \in 0..t
                       /\ observed[p] <= Larger(observed[p], s) /\ s <= Larger(observed[p], s)
    BY <1>1 DEF Larger
<1> QED BY <1>1, <1>2 DEF Observe

\* Commands are commands, and the queue of them grows by commands.
LEMMA CommandTyped ==
    ASSUME NEW s \in Nat
    PROVE  /\ \A p \in Posts : Remove(p, s) \in Command
           /\ \A pss \in SUBSET SUBSET Posts, cs \in SUBSET Loads : Read(pss, s, cs) \in Command
           /\ \A rows \in [Posts -> Body] : Store(rows, s) \in Command
           /\ \A rows \in [Posts -> Body] : \A q \in Seq(Command) : \A more \in MayStore(rows, s) :
                 q \o more \in Seq(Command)
<1>1. \A p \in Posts : Remove(p, s) \in Command
    BY DEF Remove, Command
<1>2. \A pss \in SUBSET SUBSET Posts, cs \in SUBSET Loads : Read(pss, s, cs) \in Command
    BY DEF Read, Command
<1>3. \A rows \in [Posts -> Body] : Store(rows, s) \in Command
    BY DEF Store, Command
<1>4. ASSUME NEW rows \in [Posts -> Body], NEW q \in Seq(Command), NEW more \in MayStore(rows, s)
      PROVE  q \o more \in Seq(Command)
  <2>1. more = << >> \/ more = << Store(rows, s) >>
      BY DEF MayStore
  <2>2. Store(rows, s) \in Command
      BY <1>3
  <2>3. << Store(rows, s) >> \in Seq(Command)
      BY <2>2
  <2>4. << >> \in Seq(Command)
      OBVIOUS
  <2>5. more \in Seq(Command)
      BY <2>1, <2>3, <2>4
  <2> QED BY <2>5
<1> QED BY <1>1, <1>2, <1>3, <1>4

\* A new process is of the right types.
LEMMA InitTyped == Init => TypeOK
<1> SUFFICES ASSUME Init PROVE TypeOK
    OBVIOUS
<1>1. server \in [Posts -> Nat] /\ gone \subseteq Posts
    BY DEF Init
<1>2. disk \in [Posts -> Body] /\ resident \in [Posts -> Body]
    BY <1>1, BodyTyped, RowsTyped DEF Init
<1>3. gets \in [Paths -> [seq : 0..seq, served : BOOLEAN, rows : [Posts -> Body]]]
    BY BodyTyped DEF Init, NoGet
<1>4. fetches \in [Posts -> Fetch]
    BY BodyTyped DEF Init, NoFetch, Fetch
<1>5. loads \in [Loads -> Load]
    BY DEF Init, Unloaded, Load
<1>6. /\ pos \in 0..Len(log) /\ seq \in Nat
      /\ observed \in [Posts -> 0..seq] /\ fence \in [Posts -> Nat]
    BY DEF Init
<1>7. /\ log \in Seq(Event)
      /\ held \in Seq(Posts) /\ results \in Seq(Result) /\ queue \in Seq(Command)
    BY DEF Init
<1>8. /\ known \in BOOLEAN /\ resolving \in BOOLEAN
      /\ heard \in [Posts -> SUBSET Nat] /\ requests \in Nat /\ troubles \in Nat
    BY DEF Init
<1> QED BY <1>1, <1>2, <1>3, <1>4, <1>5, <1>6, <1>7, <1>8 DEF TypeOK

\* The server changes a post.
LEMMA ChangeTyped ==
    ASSUME TypeOK, NEW p \in Posts,
           NEW kind \in {"posted", "edited", "reaction", "deleted"}, Change(kind, p)
    PROVE  /\ server' \in [Posts -> Nat]
           /\ log' \in Seq(Event)
           /\ pos \in 0..Len(log')
<1>1. server[p] + 1 \in Nat
    BY DEF TypeOK
<1>2. [kind |-> kind, post |-> p, n |-> server[p] + 1]
         \in Event
    BY <1>1 DEF Event
<1>3. Len(log') = Len(log) + 1
    BY <1>2 DEF Change, TypeOK
<1> QED BY <1>1, <1>2, <1>3 DEF Change, TypeOK

\* The part of the state that only single actions change.
LEMMA SettledTyped ==
    ASSUME NEW load \in Load,
           NEW found \in BOOLEAN
    PROVE  /\ Settled(load, found) \in Load
           /\ Settled(load, found).post = load.post
           /\ Settled(load, found).cacheDone = load.cacheDone
           /\ Settled(load, found).httpDone = load.httpDone
BY DEF Settled, Load

\* An answer leaves the calls of loadPost what they are.
LEMMA HttpDoneTyped ==
    ASSUME NEW path, NEW found \in BOOLEAN, loads \in [Loads -> Load]
    PROVE  HttpDone(path, found) \in [Loads -> Load]
<1> SUFFICES ASSUME NEW c \in Loads
             PROVE  Settled([loads[c] EXCEPT !.httpDone = TRUE], found) \in Load
    BY DEF HttpDone
<1>1. [loads[c] EXCEPT !.httpDone = TRUE] \in Load
    BY DEF Load
<1> QED BY <1>1, SettledTyped

\* A post that is cached under a new number.
LEMMA CachePostObjectTyped ==
    ASSUME TypeOK, NEW p \in Posts, NEW body \in Body, CachePostObject(p, body)
    PROVE  /\ seq' = seq + 1 /\ seq' \in Nat
           /\ observed' \in [Posts -> 0..seq'] /\ queue' \in Seq(Command)
           /\ observed'[p] = seq + 1
           /\ \A q \in Posts : observed[q] <= observed'[q]
<1>1. seq \in Nat /\ observed \in [Posts -> 0..seq] /\ queue \in Seq(Command)
    BY DEF TypeOK
<1>2. seq' = seq + 1 /\ seq' \in Nat /\ observed' = Observe(WithRoots({p}), seq + 1)
    BY <1>1 DEF CachePostObject
<1>3. /\ observed' \in [Posts -> 0..(seq + 1)]
      /\ \A q \in Posts : /\ observed[q] <= observed'[q]
                          /\ q \in WithRoots({p}) => seq + 1 <= observed'[q]
    BY <1>1, <1>2, ObserveTyped, seq <= seq + 1, seq + 1 <= seq + 1, seq + 1 \in Nat
<1>4. p \in WithRoots({p})
    BY DEF WithRoots
<1>5. One(p, body) \in [Posts -> Body]
    BY BodyTyped
<1>6. queue' \in Seq(Command)
    BY <1>1, <1>5, seq + 1 \in Nat, CommandTyped DEF CachePostObject
<1>7. observed'[p] = seq + 1
    BY <1>1, <1>3, <1>4
<1> QED BY <1>2, <1>3, <1>6, <1>7

\* A post that is invalidated under a new number.
LEMMA InvalidateTyped ==
    ASSUME TypeOK, NEW p \in Posts, InvalidateCachedPost(p)
    PROVE  /\ seq' = seq + 1 /\ seq' \in Nat
           /\ observed' \in [Posts -> 0..seq'] /\ queue' \in Seq(Command)
           /\ observed'[p] = seq + 1
           /\ \A q \in Posts : observed[q] <= observed'[q]
<1>1. seq \in Nat /\ observed \in [Posts -> 0..seq] /\ queue \in Seq(Command)
    BY DEF TypeOK
<1>2. seq' = seq + 1 /\ seq' \in Nat /\ observed' = Observe({p}, seq + 1)
    BY <1>1 DEF InvalidateCachedPost
<1>3. /\ observed' \in [Posts -> 0..(seq + 1)]
      /\ \A q \in Posts : /\ observed[q] <= observed'[q]
                          /\ q \in {p} => seq + 1 <= observed'[q]
    BY <1>1, <1>2, ObserveTyped, seq <= seq + 1, seq + 1 <= seq + 1, seq + 1 \in Nat
<1>4. Remove(p, seq + 1) \in Command
    BY <1>1, seq + 1 \in Nat, CommandTyped
<1>5. queue' \in Seq(Command)
    BY <1>1, <1>4 DEF InvalidateCachedPost
<1>6. observed'[p] = seq + 1
    BY <1>1, <1>3
<1> QED BY <1>2, <1>3, <1>5, <1>6

\* The body of a post is added unless there is one.
LEMMA AddPostTyped ==
    ASSUME NEW bodies \in [Posts -> Body], NEW p \in Posts, NEW body \in Body
    PROVE  /\ AddPost(bodies, p, body) \in [Posts -> Body]
           /\ \A r \in Delivered(bodies, p, body) : r \in [Posts -> Body]
BY DEF AddPost, Delivered

\* An event that is heard.
LEMMA HearTyped == TypeOK /\ Hear => TypeOK'
<1> SUFFICES ASSUME TypeOK, Hear PROVE TypeOK'
    OBVIOUS
<1> DEFINE e == log[pos + 1]
<1>1. /\ e.post \in Posts /\ e.n \in Nat /\ e.kind \in {"posted", "edited", "reaction", "deleted"}
      /\ pos' \in 0..Len(log)
  <2>1. log \in Seq(Event) /\ pos \in 0..Len(log)
      BY DEF TypeOK
  <2>2. pos + 1 \in 1..Len(log) /\ pos' = pos + 1
      BY <2>1 DEF Hear
  <2>3. e \in Event
      BY <2>1, <2>2
  <2> QED BY <2>2, <2>3 DEF Event
<1>2. heard' \in [Posts -> SUBSET Nat]
    BY <1>1 DEF Hear, TypeOK
<1>3. Shows(1..e.n, "event") \in Body
    BY <1>1, BodyTyped
<1>4. /\ seq' \in Nat /\ seq' = seq + 1 /\ observed' \in [Posts -> 0..seq']
      /\ queue' \in Seq(Command) /\ resident' \in [Posts -> Body] /\ held' \in Seq(Posts)
  <2>1. CASE e.kind = "posted"
    <3>1. HearPosted(e.post, e.n)
        BY <2>1 DEF Hear
    <3>2. resident' \in [Posts -> Body]
        BY <1>1, <1>3, <3>1, AddPostTyped DEF HearPosted, TypeOK
    <3>3. held' \in Seq(Posts)
        BY <1>1, <3>1 DEF HearPosted, TypeOK
    <3> QED BY <1>1, <1>3, <3>1, <3>2, <3>3, CachePostObjectTyped DEF HearPosted
  <2>2. CASE e.kind = "edited"
    <3>1. HearEdited(e.post, e.n)
        BY <2>2 DEF Hear
    <3>2. resident' \in [Posts -> Body] /\ held' \in Seq(Posts)
        BY <1>1, <1>3, <3>1 DEF HearEdited, TypeOK
    <3> QED BY <1>1, <1>3, <3>1, <3>2, CachePostObjectTyped DEF HearEdited
  <2>3. CASE e.kind \in {"reaction", "deleted"}
    <3>1. HearChanged(e.post, e.n)
        BY <2>3 DEF Hear
    <3>2. [resident[e.post] EXCEPT !.seen = @ \cup {e.n}] \in Body
      <4>1. resident[e.post] \in Body
          BY <1>1 DEF TypeOK
      <4> QED BY <1>1, <4>1 DEF Body
    <3>3. resident' \in [Posts -> Body] /\ held' \in Seq(Posts)
        BY <1>1, <3>1, <3>2 DEF HearChanged, TypeOK
    <3> QED BY <1>1, <3>1, <3>3, InvalidateTyped DEF HearChanged
  <2> QED BY <1>1, <2>1, <2>2, <2>3
<1>5. gets' \in [Paths -> [seq : 0..seq', served : BOOLEAN, rows : [Posts -> Body]]]
      /\ fence' \in [Posts -> Nat]
  <2>1. 0..seq \subseteq 0..seq'
      BY <1>4 DEF TypeOK
  <2> QED BY <2>1 DEF Hear, TypeOK, worker
<1> QED BY <1>1, <1>2, <1>4, <1>5 DEF Hear, TypeOK, external, worker

\* A channel that appears.
LEMMA ChannelAppearsTyped ==
    ASSUME NEW arrived \in [Posts -> Body], resident \in [Posts -> Body],
           ChannelAppears(arrived)
    PROVE  /\ resident' \in [Posts -> Body] /\ known' \in BOOLEAN
           /\ resolving' \in BOOLEAN /\ held' \in Seq(Posts)
<1>1. Shows({1}, "held") \in Body
    BY BodyTyped
<1>2. PICK ps \in SUBSET {held[i] : i \in 1..Len(held)} :
         resident' = [p \in Posts |->
                        IF arrived[p] # NoBody THEN arrived[p]
                        ELSE IF p \in ps THEN AddPost(resident, p, Shows({1}, "held"))[p]
                        ELSE resident[p]]
    BY DEF ChannelAppears
<1>3. \A p \in Posts : AddPost(resident, p, Shows({1}, "held")) \in [Posts -> Body]
    BY <1>1, AddPostTyped
<1>4. resident' \in [Posts -> Body]
    BY <1>2, <1>3
<1>5. known' = TRUE /\ resolving' = FALSE /\ held' = << >>
    BY DEF ChannelAppears
<1>6. held' \in Seq(Posts)
    BY <1>5
<1> QED BY <1>4, <1>5, <1>6

\* The numbers that are in use stay below the last that was given out.
LEMMA NumbersStay ==
    ASSUME TypeOK, seq' \in Nat, seq <= seq'
    PROVE  /\ gets \in [Paths -> [seq : 0..seq', served : BOOLEAN, rows : [Posts -> Body]]]
           /\ fence \in [Posts -> Nat] /\ observed \in [Posts -> 0..seq']
<1>1. 0..seq \subseteq 0..seq'
    BY DEF TypeOK
<1> QED BY <1>1 DEF TypeOK

\* A GET that is sent, or joined.
LEMMA SendTyped ==
    ASSUME NEW path \in Paths, NEW s \in Nat,
           gets \in [Paths -> [seq : 0..s, served : BOOLEAN, rows : [Posts -> Body]]],
           Send(path, s)
    PROVE  /\ seq' \in Nat /\ s <= seq'
           /\ gets' \in [Paths -> [seq : 0..seq', served : BOOLEAN, rows : [Posts -> Body]]]
<1>1. seq' \in Nat /\ s <= seq' /\ 0..s \subseteq 0..seq'
    BY DEF Send
<1>2. CASE gets[path].seq # 0
    BY <1>1, <1>2 DEF Send
<1>3. CASE gets[path].seq = 0
  <2>1. [seq |-> s + 1, served |-> FALSE, rows |-> NoRows]
            \in [seq : 0..seq', served : BOOLEAN, rows : [Posts -> Body]]
      BY <1>1, <1>3, BodyTyped DEF Send
  <2> QED BY <1>1, <1>3, <2>1 DEF Send
<1> QED BY <1>1, <1>2, <1>3

\* The steps of the server, and the loss of an event.
LEMMA ServerTyped == TypeOK /\ (ServerStep \/ Miss) => TypeOK'
<1>1. ASSUME TypeOK, ServerStep PROVE TypeOK'
  <2>1. PICK p \in Posts : Publish(p) \/ EditOrReact(p) \/ Delete(p)
      BY <1>1 DEF ServerStep
  <2>2. \E kind \in {"posted", "edited", "reaction", "deleted"} : Change(kind, p)
      BY <2>1 DEF Publish, EditOrReact, Delete
  <2>3. /\ server' \in [Posts -> Nat] /\ log' \in Seq(Event) /\ pos \in 0..Len(log')
      BY <1>1, <2>2, ChangeTyped
  <2>4. gone' \subseteq Posts
      BY <1>1, <2>1 DEF Publish, EditOrReact, Delete, TypeOK
  <2> QED BY <1>1, <2>3, <2>4 DEF ServerStep, TypeOK, memory, channel, worker
<1>2. ASSUME TypeOK, Miss PROVE TypeOK'
    BY <1>2 DEF Miss, TypeOK, external, memory, channel, worker
<1> QED BY <1>1, <1>2

\* The steps of a direct channel that is not known yet.
LEMMA DirectTyped == TypeOK /\ (DirectAdded \/ DirectResolved \/ DirectGivenUp) => TypeOK'
<1>1. ASSUME TypeOK, DirectAdded PROVE TypeOK'
    BY <1>1 DEF DirectAdded, TypeOK, external, memory, worker
<1>2. ASSUME TypeOK, DirectResolved PROVE TypeOK'
  <2>1. resident \in [Posts -> Body]
      BY <1>2 DEF TypeOK
  <2>2. /\ resident' \in [Posts -> Body] /\ known' \in BOOLEAN
        /\ resolving' \in BOOLEAN /\ held' \in Seq(Posts)
      BY <1>2, <2>1, BodyTyped, ChannelAppearsTyped DEF DirectResolved
  <2> QED BY <1>2, <2>2 DEF DirectResolved, TypeOK, external, worker
<1>3. ASSUME TypeOK, DirectGivenUp PROVE TypeOK'
  <2>1. held' = << >> /\ resolving' = FALSE
      BY <1>3 DEF DirectGivenUp
  <2>2. held' \in Seq(Posts) /\ resolving' \in BOOLEAN
    <3>1. << >> \in Seq(Posts)
        OBVIOUS
    <3> QED BY <2>1, <3>1
  <2>3. UNCHANGED <<server, gone, log, pos, seq, observed, resident, known, gets, fetches,
                    loads, results, queue, fence, disk, heard, requests, troubles>>
      BY <1>3 DEF DirectGivenUp, external, memory, worker
  <2> QED BY <2>2, <2>3, <1>3 DEF TypeOK
<1> QED BY <1>1, <1>2, <1>3

\* The steps that send a GET.
LEMMA LoadTyped ==
    ASSUME TypeOK
    PROVE  /\ \A page \in Pages : LoadPage(page) => TypeOK'
           /\ \A c \in Loads, p \in Posts : LoadPost(c, p) => TypeOK'
           /\ LoadCachedTail => TypeOK'
<1> USE DEF Paths
<1>1. ASSUME NEW page \in Pages, LoadPage(page) PROVE TypeOK'
  <2>1. /\ seq' \in Nat /\ seq <= seq'
        /\ gets' \in [Paths -> [seq : 0..seq', served : BOOLEAN, rows : [Posts -> Body]]]
      BY <1>1, SendTyped DEF LoadPage, TypeOK
  <2>2. /\ fence \in [Posts -> Nat] /\ observed \in [Posts -> 0..seq']
      BY <2>1, NumbersStay
  <2> QED BY <1>1, <2>1, <2>2 DEF LoadPage, TypeOK, external, channel, worker
<1>2. ASSUME NEW c \in Loads, NEW p \in Posts, LoadPost(c, p) PROVE TypeOK'
  <2>1. seq \in Nat /\ queue \in Seq(Command) /\ loads \in [Loads -> Load]
      BY DEF TypeOK
  <2>2. gets \in [Paths -> [seq : 0..(seq + 1), served : BOOLEAN, rows : [Posts -> Body]]]
    <3>1. 0..seq \subseteq 0..(seq + 1)
        BY <2>1
    <3> QED BY <3>1 DEF TypeOK
  <2>3. /\ seq' \in Nat /\ seq + 1 <= seq'
        /\ gets' \in [Paths -> [seq : 0..seq', served : BOOLEAN, rows : [Posts -> Body]]]
    <3>1. Send(p, seq + 1) /\ p \in Paths /\ seq + 1 \in Nat
        BY <1>2, <2>1 DEF LoadPost
    <3> HIDE DEF Paths
    <3> QED BY <2>2, <3>1, SendTyped
  <2>4. /\ fence \in [Posts -> Nat] /\ observed \in [Posts -> 0..seq']
      BY <2>1, <2>3, NumbersStay
  <2>5. queue' \in Seq(Command)
    <3>1. Read({{p}}, seq + 1, {c}) \in Command
        BY <2>1, CommandTyped, {{p}} \in SUBSET SUBSET Posts, {c} \in SUBSET Loads,
           seq + 1 \in Nat
    <3> QED BY <1>2, <2>1, <3>1 DEF LoadPost
  <2>6. loads' \in [Loads -> Load]
      BY <1>2, <2>1 DEF LoadPost, Load
  <2>7. /\ requests' \in Nat
        /\ UNCHANGED <<server, gone, log, pos, observed, resident, known, resolving, held,
                       fetches, results, fence, disk, heard, troubles>>
      BY <1>2 DEF LoadPost, external, channel, worker, TypeOK
  <2> HIDE DEF Paths
  <2> QED BY <2>3, <2>4, <2>5, <2>6, <2>7 DEF TypeOK
<1>3. ASSUME LoadCachedTail PROVE TypeOK'
  <2> DEFINE tails == {{q \in Posts : CreatedAt[q] >= CreatedAt[p]} : p \in Posts}
  <2>1. seq \in Nat /\ queue \in Seq(Command)
      BY DEF TypeOK
  <2>2. seq' = seq + 1
      BY <1>3 DEF LoadCachedTail
  <2>3. Read(tails, seq + 1, {}) \in Command
    <3>1. tails \in SUBSET SUBSET Posts
        OBVIOUS
    <3> QED BY <2>1, <3>1, CommandTyped, {} \in SUBSET Loads, seq + 1 \in Nat
  <2>4. queue' \in Seq(Command)
      BY <1>3, <2>1, <2>3 DEF LoadCachedTail
  <2>5. /\ gets \in [Paths -> [seq : 0..seq', served : BOOLEAN, rows : [Posts -> Body]]]
        /\ fence \in [Posts -> Nat] /\ observed \in [Posts -> 0..seq']
      BY <2>1, <2>2, NumbersStay
  <2> QED BY <1>3, <2>1, <2>2, <2>4, <2>5 DEF LoadCachedTail, TypeOK, external, channel, worker
<1> QED BY <1>1, <1>2, <1>3

\* The numbers of an answer that is taken in.
LEMMA IngestTyped ==
    ASSUME TypeOK, NEW rows \in [Posts -> Body], NEW s \in 0..seq, Ingest(rows, s)
    PROVE  /\ observed' \in [Posts -> 0..seq] /\ resident' \in [Posts -> Body]
           /\ \A q \in Posts : observed[q] <= observed'[q]
<1>1. seq \in Nat /\ observed \in [Posts -> 0..seq] /\ resident \in [Posts -> Body]
    BY DEF TypeOK
<1>2. /\ s \in Nat /\ s <= seq /\ seq <= seq
      /\ observed' = Observe(WithRoots(Admitted(rows, s)), s)
    BY <1>1 DEF Ingest
<1>3. observed' \in [Posts -> 0..seq] /\ \A q \in Posts : observed[q] <= observed'[q]
    BY <1>1, <1>2, ObserveTyped
<1>4. resident' \in [Posts -> Body]
    BY <1>1 DEF Ingest
<1> QED BY <1>3, <1>4

\* The steps that answer a GET.
LEMMA AnswerTyped ==
    ASSUME TypeOK, NEW path \in Paths
    PROVE  (Serve(path) \/ Answer(path) \/ Fail(path)) => TypeOK'
<1> DEFINE Get == [seq : 0..seq, served : BOOLEAN, rows : [Posts -> Body]]
<1>1. /\ seq \in Nat /\ gets \in [Paths -> Get] /\ loads \in [Loads -> Load]
      /\ queue \in Seq(Command) /\ server \in [Posts -> Nat]
      /\ observed \in [Posts -> 0..seq] /\ resident \in [Posts -> Body]
      /\ requests \in Nat /\ troubles \in Nat
    BY DEF TypeOK
<1>2. NoGet \in Get
    BY <1>1, BodyTyped DEF NoGet
<1>3. /\ gets[path] \in Get /\ gets[path].seq \in 0..seq /\ gets[path].seq \in Nat
      /\ gets[path].rows \in [Posts -> Body]
    BY <1>1
<1>4. ASSUME Serve(path) PROVE TypeOK'
  <2>1. Rows(Asked(path), "request") \in [Posts -> Body]
      BY <1>1, RowsTyped
  <2>2. [gets[path] EXCEPT !.served = TRUE, !.rows = Rows(Asked(path), "request")] \in Get
      BY <1>3, <2>1
  <2>3. gets' \in [Paths -> Get]
      BY <1>1, <1>4, <2>2 DEF Serve
  <2>4. UNCHANGED <<server, gone, log, pos, seq, observed, resident, known, resolving, held, fetches,
                    loads, results, queue, fence, disk, heard, requests, troubles>>
      BY <1>4 DEF Serve, external, memory, channel, worker
  <2> QED BY <2>3, <2>4 DEF TypeOK
<1>5. ASSUME Answer(path) PROVE TypeOK'
  <2> DEFINE g == gets[path]
  <2>1. gets' \in [Paths -> Get]
      BY <1>1, <1>2, <1>5 DEF Answer
  <2>2. observed' \in [Posts -> 0..seq] /\ resident' \in [Posts -> Body]
    <3>1. CASE known
        BY <1>3, <1>5, <3>1, IngestTyped DEF Answer
    <3>2. CASE ~known
        BY <1>1, <1>5, <3>2 DEF Answer
    <3> QED BY <3>1, <3>2
  <2>3. queue' \in Seq(Command)
      BY <1>1, <1>3, <1>5, CommandTyped DEF Answer
  <2>4. loads' \in [Loads -> Load]
    <3> DEFINE found == path \in Filled(g.rows) /\ known /\ resident'[path] # NoBody
    <3>1. loads' = HttpDone(path, found) /\ found \in BOOLEAN
        BY <1>5 DEF Answer
    <3> HIDE DEF found
    <3> QED BY <1>1, <3>1, HttpDoneTyped
  <2>5. UNCHANGED <<server, gone, log, pos, seq, known, resolving, held, fetches,
                    results, fence, disk, heard, requests, troubles>>
      BY <1>5 DEF Answer, external, channel, worker
  <2> QED BY <2>1, <2>2, <2>3, <2>4, <2>5 DEF TypeOK
<1>6. ASSUME Fail(path) PROVE TypeOK'
  <2>1. gets' \in [Paths -> Get]
      BY <1>1, <1>2, <1>6 DEF Fail
  <2>2. loads' \in [Loads -> Load]
      BY <1>1, <1>6, HttpDoneTyped DEF Fail
  <2>3. /\ troubles' \in Nat
        /\ UNCHANGED <<server, gone, log, pos, seq, observed, resident, known, resolving, held,
                       fetches, results, queue, fence, disk, heard, requests>>
      BY <1>1, <1>6 DEF Fail, external, memory, channel, worker
  <2> QED BY <2>1, <2>2, <2>3 DEF TypeOK
<1> QED BY <1>4, <1>5, <1>6

\* The steps of the requests that are numbered when they are answered.
LEMMA FetchTyped ==
    ASSUME TypeOK, NEW p \in Posts
    PROVE  (\/ Navigate(p) \/ ServeFetch(p) \/ Patch(p) \/ NeedChannel(p) \/ Arrive(p)
            \/ FetchFails(p)) => TypeOK'
<1>1. /\ fetches \in [Posts -> Fetch] /\ server \in [Posts -> Nat] /\ resident \in [Posts -> Body]
      /\ requests \in Nat /\ troubles \in Nat /\ seq \in Nat
    BY DEF TypeOK
<1>2. NoFetch \in Fetch
    BY BodyTyped DEF NoFetch, Fetch
<1>3. fetches[p] \in Fetch /\ fetches[p].body \in Body
    BY <1>1 DEF Fetch
<1>4. /\ Shows(1..server[p], "arrival") \in Body /\ Shows(1..(server[p] + 1), "arrival") \in Body
  <2>1. 1..server[p] \in SUBSET Nat /\ 1..(server[p] + 1) \in SUBSET Nat
      BY <1>1
  <2> QED BY <2>1, BodyTyped
<1>5. ASSUME Navigate(p) \/ ServeFetch(p) \/ NeedChannel(p) \/ FetchFails(p) PROVE TypeOK'
  <2>1. fetches' \in [Posts -> Fetch]
    <3>1. CASE Navigate(p)
        BY <1>1, <1>3, <3>1 DEF Navigate, Fetch
    <3>2. CASE ServeFetch(p)
        BY <1>1, <1>3, <1>4, <3>2 DEF ServeFetch, Fetch
    <3>3. CASE NeedChannel(p)
        BY <1>1, <1>3, <3>3 DEF NeedChannel, Fetch
    <3>4. CASE FetchFails(p)
        BY <1>1, <1>2, <3>4 DEF FetchFails
    <3> QED BY <1>5, <3>1, <3>2, <3>3, <3>4
  <2>2. /\ requests' \in Nat /\ troubles' \in Nat
        /\ UNCHANGED <<server, gone, log, pos, seq, observed, resident, known, resolving, held,
                       gets, loads, results, queue, fence, disk, heard>>
      BY <1>1, <1>5 DEF Navigate, ServeFetch, NeedChannel, FetchFails, external, memory,
                        channel, worker
  <2> QED BY <2>1, <2>2 DEF TypeOK
<1>6. ASSUME Patch(p) PROVE TypeOK'
  <2>1. Change("edited", p) /\ "edited" \in {"posted", "edited", "reaction", "deleted"}
      BY <1>6 DEF Patch
  <2>2. /\ server' \in [Posts -> Nat] /\ log' \in Seq(Event) /\ pos \in 0..Len(log')
      BY <2>1, ChangeTyped
  <2>3. fetches' \in [Posts -> Fetch]
      BY <1>1, <1>4, <1>6 DEF Patch, Fetch
  <2>4. /\ requests' \in Nat
        /\ UNCHANGED <<gone, pos, seq, observed, resident, known, resolving, held,
                       gets, loads, results, queue, fence, disk, heard, troubles>>
      BY <1>1, <1>6 DEF Patch, memory, channel, worker
  <2> QED BY <2>2, <2>3, <2>4 DEF TypeOK
<1>7. ASSUME Arrive(p) PROVE TypeOK'
  <2>1. CachePostObject(p, fetches[p].body)
      BY <1>7 DEF Arrive
  <2>2. /\ seq' = seq + 1 /\ seq' \in Nat
        /\ observed' \in [Posts -> 0..seq'] /\ queue' \in Seq(Command)
      BY <1>3, <2>1, CachePostObjectTyped
  <2>3. /\ gets \in [Paths -> [seq : 0..seq', served : BOOLEAN, rows : [Posts -> Body]]]
        /\ fence \in [Posts -> Nat]
      BY <1>1, <2>2, NumbersStay
  <2>4. fetches' \in [Posts -> Fetch]
      BY <1>1, <1>2, <1>7 DEF Arrive
  <2>5. /\ resident' \in [Posts -> Body] /\ known' \in BOOLEAN
        /\ resolving' \in BOOLEAN /\ held' \in Seq(Posts)
    <3>1. CASE known \/ fetches[p].edit
        BY <1>1, <1>3, <1>7, <3>1 DEF Arrive, channel, TypeOK
    <3>2. CASE ~(known \/ fetches[p].edit)
      <4>1. One(p, fetches[p].body) \in [Posts -> Body] /\ ChannelAppears(One(p, fetches[p].body))
          BY <1>3, <1>7, <3>2, BodyTyped DEF Arrive
      <4> QED BY <1>1, <4>1, ChannelAppearsTyped
    <3> QED BY <3>1, <3>2
  <2>6. UNCHANGED <<server, gone, log, pos, gets, loads, results, fence, disk, heard,
                    requests, troubles>>
      BY <1>7 DEF Arrive, external, worker
  <2> QED BY <2>2, <2>3, <2>4, <2>5, <2>6 DEF TypeOK
<1> QED BY <1>5, <1>6, <1>7

\* The worker's steps, and those of memory.
LEMMA WorkTyped ==
    ASSUME TypeOK
    PROVE  /\ (Work \/ TakeResult \/ Restart) => TypeOK'
           /\ \A p \in Posts : Prune(p) \/ Evict(p) => TypeOK'
<1>1. /\ queue \in Seq(Command) /\ results \in Seq(Result) /\ disk \in [Posts -> Body]
      /\ seq \in Nat /\ fence \in [Posts -> Nat] /\ resident \in [Posts -> Body]
      /\ loads \in [Loads -> Load] /\ troubles \in Nat
    BY DEF TypeOK
<1>2. ASSUME Work PROVE TypeOK'
  <2> DEFINE c == Head(queue)
  <2>1. c \in Command /\ queue' \in Seq(Command)
      BY <1>1, <1>2 DEF Work
  <2>2. fence' \in [Posts -> Nat] /\ disk' \in [Posts -> Body] /\ results' \in Seq(Result)
    <3>1. CASE c.op = "store"
      <4>1. c.rows \in [Posts -> Body]
          BY <2>1, <3>1 DEF Command
      <4> QED BY <1>1, <1>2, <3>1, <4>1 DEF Work
    <3>2. CASE c.op = "remove"
      <4>1. c.post \in Posts /\ c.seq \in Nat
          BY <2>1, <3>2 DEF Command
      <4>2. Larger(fence[c.post], c.seq) \in Nat
          BY <1>1, <4>1 DEF Larger
      <4>3. fence' \in [Posts -> Nat]
          BY <1>1, <1>2, <3>2, <4>1, <4>2 DEF Work
      <4>4. disk' \in [Posts -> Body] /\ results' = results
          BY <1>1, <1>2, <3>2, <4>1, BodyTyped DEF Work
      <4> QED BY <1>1, <4>3, <4>4
    <3>3. CASE c.op = "read"
      <4>1. c.seq \in Nat /\ c.load \in SUBSET Loads
          BY <2>1, <3>3 DEF Command
      <4>2. PICK ps \in c.posts :
               results' = Append(results, [seq |-> c.seq, load |-> c.load,
                                           rows |-> [p \in Posts |-> IF p \in ps THEN disk[p]
                                                                     ELSE NoBody]])
          BY <1>2, <3>3 DEF Work
      <4>3. [p \in Posts |-> IF p \in ps THEN disk[p] ELSE NoBody] \in [Posts -> Body]
          BY <1>1, BodyTyped
      <4>4. results' \in Seq(Result)
          BY <1>1, <4>1, <4>2, <4>3 DEF Result
      <4>5. UNCHANGED <<fence, disk>>
          BY <1>2, <3>3 DEF Work, worker
      <4> QED BY <1>1, <4>4, <4>5
    <3> QED BY <2>1, <3>1, <3>2, <3>3 DEF Command
  <2>3. UNCHANGED <<server, gone, log, pos, seq, observed, resident, known, resolving, held,
                    gets, fetches, loads, heard, requests, troubles>>
      BY <1>2 DEF Work, external, memory, channel
  <2> QED BY <2>1, <2>2, <2>3 DEF TypeOK
<1>3. ASSUME TakeResult PROVE TypeOK'
  <2> DEFINE r == Head(results)
  <2>1. r \in Result /\ results' \in Seq(Result)
      BY <1>1, <1>3 DEF TakeResult
  <2>2. r.rows \in [Posts -> Body] /\ AsCached(r.rows) \in [Posts -> Body]
      BY <2>1, BodyTyped DEF Result
  <2>3. resident' \in [Posts -> Body]
      BY <1>1, <1>3, <2>2 DEF TakeResult, IngestCached
  <2>4. loads' \in [Loads -> Load]
    <3> DEFINE found(c) == /\ known /\ loads[c].post \in Filled(r.rows)
                           /\ resident'[loads[c].post] # NoBody
    <3>1. loads' = [c \in Loads |->
                      IF c \in r.load
                      THEN Settled([loads[c] EXCEPT !.cacheDone = TRUE], found(c))
                      ELSE loads[c]]
        BY <1>3 DEF TakeResult
    <3>2. \A c \in Loads : found(c) \in BOOLEAN
        OBVIOUS
    <3> HIDE DEF found
    <3>3. \A c \in Loads : [loads[c] EXCEPT !.cacheDone = TRUE] \in Load
        BY <1>1 DEF Load
    <3>4. \A c \in Loads : Settled([loads[c] EXCEPT !.cacheDone = TRUE], found(c)) \in Load
        BY <3>2, <3>3, SettledTyped
    <3> QED BY <1>1, <3>1, <3>4
  <2>5. UNCHANGED <<server, gone, log, pos, seq, observed, known, resolving, held, gets, fetches,
                    queue, fence, disk, heard, requests, troubles>>
      BY <1>3 DEF TakeResult, external, channel, worker
  <2> QED BY <2>1, <2>3, <2>4, <2>5 DEF TypeOK
<1>4. ASSUME Restart PROVE TypeOK'
  <2>1. /\ pos' \in 0..Len(log) /\ heard' \in [Posts -> SUBSET Nat]
        /\ seq' = 0 /\ observed' \in [Posts -> 0..0] /\ fence' \in [Posts -> Nat]
        /\ troubles' \in Nat /\ resolving' \in BOOLEAN
    <3>1. Len(log) \in Nat
      <4>1. log \in Seq(Event)
          BY DEF TypeOK
      <4> QED BY <4>1
    <3>2. pos' = Len(log) /\ pos' \in 0..Len(log)
        BY <1>4, <3>1 DEF Restart
    <3>3. heard' \in [Posts -> SUBSET Nat]
        BY <1>4 DEF Restart
    <3>4. seq' = 0 /\ observed' \in [Posts -> 0..0] /\ fence' \in [Posts -> Nat]
        BY <1>4 DEF Restart
    <3>5. troubles' = troubles + 1 /\ resolving' = FALSE
        BY <1>4 DEF Restart
    <3>6. troubles' \in Nat
        BY <1>1, <3>5
    <3>7. resolving' \in BOOLEAN
        BY <3>5
    <3> QED BY <3>2, <3>3, <3>4, <3>6, <3>7
  <2>2. << >> \in Seq(Posts) /\ << >> \in Seq(Result) /\ << >> \in Seq(Command)
      OBVIOUS
  <2>3. held' \in Seq(Posts) /\ results' \in Seq(Result) /\ queue' \in Seq(Command)
      BY <1>4, <2>2 DEF Restart
  <2>4. resident' \in [Posts -> Body]
      BY <1>4, BodyTyped DEF Restart
  <2>5. NoGet \in [seq : 0..0, served : BOOLEAN, rows : [Posts -> Body]]
      BY BodyTyped DEF NoGet
  <2>6. gets' \in [Paths -> [seq : 0..0, served : BOOLEAN, rows : [Posts -> Body]]]
      BY <1>4, <2>5 DEF Restart
  <2>7. NoFetch \in Fetch /\ Unloaded \in Load
      BY BodyTyped DEF NoFetch, Fetch, Unloaded, Load
  <2>8. fetches' \in [Posts -> Fetch] /\ loads' \in [Loads -> Load]
      BY <1>4, <2>7 DEF Restart
  <2>9. UNCHANGED <<server, gone, log, known, disk, requests>>
      BY <1>4 DEF Restart, external
  <2> QED BY <2>1, <2>3, <2>4, <2>6, <2>8, <2>9 DEF TypeOK
<1>5. ASSUME NEW p \in Posts, Prune(p) \/ Evict(p) PROVE TypeOK'
  <2>1. /\ disk' \in [Posts -> Body] /\ resident' \in [Posts -> Body] /\ troubles' \in Nat
    <3>1. CASE Prune(p)
        BY <1>1, <3>1, BodyTyped DEF Prune, memory
    <3>2. CASE Evict(p)
        BY <1>1, <3>2, BodyTyped DEF Evict, worker
    <3> QED BY <1>5, <3>1, <3>2
  <2>2. UNCHANGED <<server, gone, log, pos, seq, observed, known, resolving, held, gets,
                    fetches, loads, results, queue, fence, heard, requests>>
      BY <1>5 DEF Prune, Evict, external, memory, channel, worker
  <2> QED BY <2>1, <2>2 DEF TypeOK
<1> QED BY <1>2, <1>3, <1>4, <1>5

\* Every step keeps the types.
LEMMA StepTyped == TypeOK /\ [Next]_vars => TypeOK'
<1>1. ASSUME TypeOK, Next PROVE TypeOK'
    BY <1>1, ServerTyped, HearTyped, DirectTyped, LoadTyped, AnswerTyped, FetchTyped, WorkTyped
       DEF Next
<1>2. ASSUME TypeOK, UNCHANGED vars PROVE TypeOK'
    BY <1>2 DEF vars, TypeOK, external, memory, channel, worker
<1> QED BY <1>1, <1>2

\* The variables of the repository and the worker keep their types, and no
\* number is in use that was not given out.
THEOREM RepositoryTyped == Spec => []TypeOK
<1>1. Init => TypeOK
    BY InitTyped
<1>2. TypeOK /\ [Next]_vars => TypeOK'
    BY StepTyped
<1> QED BY <1>1, <1>2, PTL DEF Spec

-----------------------------------------------------------------------------
(* The fence: FenceHolds is not inductive.  What it rests on is named here.*)

\* The changes of a post are logged in their order, each once.
LogOrder ==
    /\ \A i \in 1..Len(log) : /\ log[i].n >= 1 /\ log[i].n <= server[log[i].post]
                              /\ log[i].kind = "posted" => log[i].n = 1
    /\ \A i, j \in 1..Len(log) : i < j /\ log[i].post = log[j].post => log[i].n < log[j].n

\* What was heard of is older than what is still to be heard.
HeardInOrder ==
    \A p \in Posts : \A m \in heard[p] :
        /\ m \in 1..server[p]
        /\ \A i \in 1..Len(log) : i > pos /\ log[i].post = p => m < log[i].n

\* A served answer shows what was heard before, unless the watermark is newer.
ServedFresh ==
    \A path \in Paths : \A p \in Posts :
        gets[path].served /\ gets[path].rows[p] # NoBody =>
            /\ gets[path].rows[p].by = "request" /\ 1 \in gets[path].rows[p].seen
            /\ observed[p] <= gets[path].seq => heard[p] \subseteq gets[path].rows[p].seen

\* A body shows that the post was created.
FirstSeen ==
    \A p \in Posts : resident[p].by \in {"event", "request"} => 1 \in resident[p].seen

\* Answers that are numbered on arrival are marked so.
FetchesMarked == \A p \in Posts : fetches[p].body.by \in {"none", "arrival"}

\* A channel that is not known has no bodies.
KnownFirst == ~known => \A p \in Posts : resident[p] = NoBody

FenceInv ==
    /\ TypeOK /\ LogOrder /\ HeardInOrder /\ KnownFirst
    /\ ServedFresh /\ FirstSeen /\ FetchesMarked /\ FenceHolds

\* The start of a process.
LEMMA FenceInit == Init => FenceInv
<1> SUFFICES ASSUME Init PROVE FenceInv
    OBVIOUS
<1>1. TypeOK
    BY InitTyped
<1>2. log = << >> /\ heard = [p \in Posts |-> {}] /\ resident = NoRows
      /\ gets = [x \in Paths |-> NoGet] /\ fetches = [p \in Posts |-> NoFetch]
    BY DEF Init
<1>3. LogOrder /\ HeardInOrder
    BY <1>2 DEF LogOrder, HeardInOrder
<1>4. ServedFresh
    BY <1>2 DEF ServedFresh, NoGet
<1>5. FirstSeen /\ FetchesMarked /\ FenceHolds /\ KnownFirst
    BY <1>2 DEF FirstSeen, KnownFirst, FetchesMarked, FenceHolds, NoRows, NoFetch, NoBody
<1> QED BY <1>1, <1>3, <1>4, <1>5 DEF FenceInv

\* A change on the server is newer than all before it.
LEMMA ChangeOrdered ==
    ASSUME FenceInv, NEW p \in Posts,
           NEW kind \in {"posted", "edited", "reaction", "deleted"}, Change(kind, p),
           kind = "posted" => server[p] = 0, UNCHANGED <<pos, heard>>
    PROVE  LogOrder' /\ HeardInOrder'
<1>1. /\ log \in Seq(Event) /\ server \in [Posts -> Nat] /\ heard \in [Posts -> SUBSET Nat]
      /\ pos \in 0..Len(log) /\ Len(log) \in Nat
    BY DEF FenceInv, TypeOK
<1> DEFINE new == [kind |-> kind, post |-> p, n |-> server[p] + 1]
<1>2. /\ server' = [server EXCEPT ![p] = @ + 1] /\ log' = Append(log, new)
      /\ Len(log') = Len(log) + 1
      /\ \A i \in 1..Len(log) : log'[i] = log[i]
      /\ log'[Len(log) + 1] = new
    BY <1>1 DEF Change
<1>3. \A i \in 1..Len(log) : log[i] \in Event /\ log[i].post \in Posts /\ log[i].n \in Nat
  <2>1. \A i \in 1..Len(log) : log[i] \in Event
      BY <1>1
  <2> QED BY <2>1 DEF Event
<1>4. \A q \in Posts : server[q] \in Nat /\ server[q] <= server'[q]
    BY <1>1, <1>2
<1>5. server'[p] = server[p] + 1
    BY <1>1, <1>2
<1>6. ASSUME NEW i \in 1..Len(log')
      PROVE  /\ log'[i].n >= 1 /\ log'[i].n <= server'[log'[i].post]
             /\ log'[i].kind = "posted" => log'[i].n = 1
  <2>1. CASE i = Len(log) + 1
      BY <1>2, <1>4, <1>5, <2>1
  <2>2. CASE i \in 1..Len(log)
    <3>1. /\ log[i].n >= 1 /\ log[i].n <= server[log[i].post]
          /\ log[i].kind = "posted" => log[i].n = 1
        BY <2>2 DEF FenceInv, LogOrder
    <3>2. server[log[i].post] <= server'[log[i].post] /\ server'[log[i].post] \in Nat
        BY <1>1, <1>2, <1>3, <1>4, <2>2
    <3> QED BY <1>2, <1>3, <1>4, <2>2, <3>1, <3>2
  <2> QED BY <1>1, <1>2, <2>1, <2>2
<1>7. ASSUME NEW i \in 1..Len(log'), NEW j \in 1..Len(log'), i < j, log'[i].post = log'[j].post
      PROVE  log'[i].n < log'[j].n
  <2>1. i \in 1..Len(log) /\ log'[i] = log[i]
      BY <1>1, <1>2, <1>7
  <2>2. CASE j \in 1..Len(log)
      BY <1>2, <1>7, <2>1, <2>2 DEF FenceInv, LogOrder
  <2>3. CASE j = Len(log) + 1
    <3>1. log[i].post = p /\ log[i].n <= server[p]
        BY <1>2, <1>7, <2>1, <2>3 DEF FenceInv, LogOrder
    <3> QED BY <1>2, <1>3, <1>4, <2>1, <2>3, <3>1
  <2> QED BY <1>1, <1>2, <2>2, <2>3
<1>8. LogOrder'
    BY <1>6, <1>7 DEF LogOrder
<1>9. ASSUME NEW q \in Posts, NEW m \in heard'[q]
      PROVE  /\ m \in 1..server'[q]
             /\ \A i \in 1..Len(log') : i > pos' /\ log'[i].post = q => m < log'[i].n
  <2>1. /\ m \in heard[q] /\ m \in 1..server[q]
        /\ \A i \in 1..Len(log) : i > pos /\ log[i].post = q => m < log[i].n
      BY <1>9 DEF FenceInv, HeardInOrder
  <2>2. m \in 1..server'[q]
      BY <1>1, <1>2, <1>4, <2>1
  <2>3. ASSUME NEW i \in 1..Len(log'), i > pos', log'[i].post = q
        PROVE  m < log'[i].n
    <3>1. CASE i \in 1..Len(log)
        BY <1>2, <2>1, <2>3, <3>1
    <3>2. CASE i = Len(log) + 1
        BY <1>2, <1>4, <2>1, <2>3, <3>2
    <3> QED BY <1>1, <1>2, <3>1, <3>2
  <2> QED BY <2>2, <2>3
<1> QED BY <1>8, <1>9 DEF HeardInOrder

\* Nothing is heard and nothing happens on the server: bodies that come from
\* elsewhere than events and numbered answers, and watermarks that move up.
LEMMA FenceKept ==
    ASSUME FenceInv, TypeOK', UNCHANGED <<server, log, heard>>, pos <= pos',
           \A path \in Paths : gets'[path] = gets[path] \/ ~gets'[path].served,
           \A p \in Posts : observed[p] <= observed'[p],
           \A p \in Posts : resident'[p] = resident[p]
                            \/ resident'[p].by \notin {"event", "request"},
           known => known',
           known' \/ \A p \in Posts : resident'[p] \in {resident[p], NoBody},
           \A p \in Posts : fetches'[p].body.by \in {"none", "arrival"}
    PROVE  FenceInv'
<1>1. LogOrder'
    BY DEF FenceInv, LogOrder
<1>2. HeardInOrder'
  <2> SUFFICES ASSUME NEW p \in Posts, NEW m \in heard[p]
               PROVE  /\ m \in 1..server[p]
                      /\ \A i \in 1..Len(log) : i > pos' /\ log[i].post = p => m < log[i].n
      BY DEF HeardInOrder
  <2>1. pos \in Nat /\ pos' \in Nat /\ \A i \in 1..Len(log) : i \in Nat
      BY DEF FenceInv, TypeOK
  <2> QED BY <2>1 DEF FenceInv, HeardInOrder
<1>3. ServedFresh'
  <2> SUFFICES ASSUME NEW path \in Paths, NEW p \in Posts,
                      gets'[path].served, gets'[path].rows[p] # NoBody
               PROVE  /\ gets'[path].rows[p].by = "request" /\ 1 \in gets'[path].rows[p].seen
                      /\ observed'[p] <= gets'[path].seq => heard[p] \subseteq gets'[path].rows[p].seen
      BY DEF ServedFresh
  <2>1. gets'[path] = gets[path]
      OBVIOUS
  <2>2. observed[p] \in Nat /\ observed'[p] \in Nat /\ gets[path].seq \in Nat
    <3>1. seq \in Nat /\ seq' \in Nat
        BY DEF FenceInv, TypeOK
    <3>2. observed \in [Posts -> 0..seq] /\ observed' \in [Posts -> 0..seq']
        BY DEF FenceInv, TypeOK
    <3>3. gets[path] \in [seq : 0..seq, served : BOOLEAN, rows : [Posts -> Body]]
        BY DEF FenceInv, TypeOK
    <3> QED BY <3>1, <3>2, <3>3
  <2>3. observed'[p] <= gets[path].seq => observed[p] <= gets[path].seq
      BY <2>2
  <2> QED BY <2>1, <2>3 DEF FenceInv, ServedFresh
<1>4. FirstSeen' /\ FenceHolds' /\ FetchesMarked'
    BY DEF FenceInv, FirstSeen, FenceHolds, FetchesMarked
<1>5. KnownFirst'
    BY DEF FenceInv, KnownFirst
<1> QED BY <1>1, <1>2, <1>3, <1>4, <1>5 DEF FenceInv

\* Bodies that come from the cache, or were held, are marked so.
LEMMA OtherBodies ==
    /\ NoBody.by = "none"
    /\ \A c, w : Shows(c, w).by = w
    /\ \A p \in Posts : NoRows[p] = NoBody
    /\ \A rows : \A p \in Posts : AsCached(rows)[p].by \in {"none", "cache"}
    /\ \A arrived : resident \in [Posts -> Body] /\ ChannelAppears(arrived) =>
          \A p \in Posts : \/ resident'[p] = resident[p]
                           \/ resident'[p] = arrived[p]
                           \/ resident'[p].by = "held"
<1>1. NoBody.by = "none" /\ (\A c, w : Shows(c, w).by = w) /\ \A p \in Posts : NoRows[p] = NoBody
    BY DEF NoBody, Shows, NoRows
<1>2. \A rows : \A p \in Posts : AsCached(rows)[p].by \in {"none", "cache"}
    BY <1>1 DEF AsCached
<1>3. ASSUME NEW arrived, resident \in [Posts -> Body], ChannelAppears(arrived), NEW p \in Posts
      PROVE  \/ resident'[p] = resident[p]
             \/ resident'[p] = arrived[p]
             \/ resident'[p].by = "held"
  <2>1. PICK ps \in SUBSET {held[i] : i \in 1..Len(held)} :
           resident' = [q \in Posts |->
                          IF arrived[q] # NoBody THEN arrived[q]
                          ELSE IF q \in ps THEN AddPost(resident, q, Shows({1}, "held"))[q]
                          ELSE resident[q]]
      BY <1>3 DEF ChannelAppears
  <2>2. \/ resident'[p] = arrived[p] \/ resident'[p] = resident[p]
        \/ resident'[p] = AddPost(resident, p, Shows({1}, "held"))[p]
      BY <2>1
  <2>3. AddPost(resident, p, Shows({1}, "held"))[p] \in {resident[p], Shows({1}, "held")}
      BY <1>3 DEF AddPost
  <2>4. Shows({1}, "held").by = "held"
      BY <1>1
  <2> QED BY <2>2, <2>3, <2>4
<1> QED BY <1>1, <1>2, <1>3

\* An event that is heard.
LEMMA FenceHear == FenceInv /\ Hear => FenceInv'
<1> SUFFICES ASSUME FenceInv, Hear PROVE FenceInv'
    OBVIOUS
<1> DEFINE e == log[pos + 1]
<1>1. TypeOK /\ TypeOK'
    BY HearTyped DEF FenceInv
<1>2. /\ pos + 1 \in 1..Len(log) /\ pos' = pos + 1 /\ pos \in Nat /\ Len(log) \in Nat
      /\ e.post \in Posts /\ e.n \in Nat /\ e.n >= 1
      /\ e.kind \in {"posted", "edited", "reaction", "deleted"}
  <2>1. log \in Seq(Event) /\ pos \in 0..Len(log)
      BY <1>1 DEF TypeOK
  <2>2. pos + 1 \in 1..Len(log) /\ pos' = pos + 1
      BY <2>1 DEF Hear
  <2>3. e \in Event
      BY <2>1, <2>2
  <2>4. e.n >= 1
      BY <2>2 DEF FenceInv, LogOrder
  <2> QED BY <2>1, <2>2, <2>3, <2>4 DEF Event
<1>3. /\ heard' = [heard EXCEPT ![e.post] = @ \cup {e.n}]
      /\ UNCHANGED <<server, gone, log, gets, fetches>>
    BY DEF Hear, external
<1>4. heard \in [Posts -> SUBSET Nat] /\ resident \in [Posts -> Body] /\ resident' \in [Posts -> Body]
      /\ heard' \in [Posts -> SUBSET Nat]
    BY <1>1 DEF TypeOK
<1>5. /\ observed'[e.post] = seq + 1
      /\ \A q \in Posts : observed[q] <= observed'[q]
  <2>1. CASE e.kind \in {"posted", "edited"}
    <3>1. CachePostObject(e.post, Shows(1..e.n, "event"))
        BY <1>2, <2>1 DEF Hear, HearPosted, HearEdited
    <3>2. Shows(1..e.n, "event") \in Body
        BY <1>2, BodyTyped
    <3> QED BY <1>1, <1>2, <3>1, <3>2, CachePostObjectTyped
  <2>2. CASE e.kind \in {"reaction", "deleted"}
    <3>1. InvalidateCachedPost(e.post)
        BY <1>2, <2>2 DEF Hear, HearChanged
    <3> QED BY <1>1, <1>2, <3>1, InvalidateTyped
  <2> QED BY <1>2, <2>1, <2>2
<1>6. LogOrder'
    BY <1>3 DEF FenceInv, LogOrder
<1>7. HeardInOrder'
  <2> SUFFICES ASSUME NEW p \in Posts, NEW m \in heard'[p]
               PROVE  /\ m \in 1..server[p]
                      /\ \A i \in 1..Len(log) : i > pos' /\ log[i].post = p => m < log[i].n
      BY <1>3 DEF HeardInOrder
  <2>1. CASE m \in heard[p]
    <3>1. \A i \in 1..Len(log) : i > pos' => i > pos
        BY <1>2
    <3> QED BY <2>1, <3>1 DEF FenceInv, HeardInOrder
  <2>2. CASE m \notin heard[p]
    <3>1. p = e.post /\ m = e.n
        BY <1>3, <1>4, <2>2
    <3>2. m \in 1..server[p]
      <4>1. server[p] \in Nat /\ e.n <= server[p]
          BY <1>1, <1>2, <3>1 DEF FenceInv, LogOrder, TypeOK
      <4> QED BY <1>2, <3>1, <4>1
    <3>3. \A i \in 1..Len(log) : i > pos' /\ log[i].post = p => m < log[i].n
      <4> SUFFICES ASSUME NEW i \in 1..Len(log), i > pos', log[i].post = p PROVE m < log[i].n
          OBVIOUS
      <4>1. pos + 1 < i
          BY <1>2
      <4> QED BY <1>2, <3>1, <4>1 DEF FenceInv, LogOrder
    <3> QED BY <3>2, <3>3
  <2> QED BY <2>1, <2>2
<1>8. ServedFresh'
  <2> SUFFICES ASSUME NEW path \in Paths, NEW p \in Posts,
                      gets[path].served, gets[path].rows[p] # NoBody
               PROVE  /\ gets[path].rows[p].by = "request" /\ 1 \in gets[path].rows[p].seen
                      /\ observed'[p] <= gets[path].seq => heard'[p] \subseteq gets[path].rows[p].seen
      BY <1>3 DEF ServedFresh
  <2>1. /\ gets[path].rows[p].by = "request" /\ 1 \in gets[path].rows[p].seen
        /\ observed[p] <= gets[path].seq => heard[p] \subseteq gets[path].rows[p].seen
      BY DEF FenceInv, ServedFresh
  <2>2. seq \in Nat /\ gets[path].seq \in Nat /\ gets[path].seq <= seq
        /\ observed[p] \in Nat /\ observed'[p] \in Nat
    <3>1. seq \in Nat /\ seq' \in Nat
        BY <1>1 DEF TypeOK
    <3>2. observed \in [Posts -> 0..seq] /\ observed' \in [Posts -> 0..seq']
        BY <1>1 DEF TypeOK
    <3>3. gets[path] \in [seq : 0..seq, served : BOOLEAN, rows : [Posts -> Body]]
        BY <1>1 DEF TypeOK
    <3> QED BY <3>1, <3>2, <3>3
  <2>3. CASE p = e.post
      BY <1>5, <2>1, <2>2, <2>3
  <2>4. CASE p # e.post
    <3>1. heard'[p] = heard[p]
        BY <1>3, <1>4, <2>4
    <3> QED BY <1>5, <2>1, <2>2, <3>1
  <2> QED BY <2>3, <2>4
<1>9. ASSUME NEW p \in Posts, resident'[p].by \in {"event", "request"}
      PROVE  1 \in resident'[p].seen /\ heard'[p] \subseteq resident'[p].seen
  <2>1. resident[p].by \in {"event", "request"} =>
           1 \in resident[p].seen /\ heard[p] \subseteq resident[p].seen
      BY DEF FenceInv, FirstSeen, FenceHolds
  <2>2. CASE p # e.post
    <3>1. heard'[p] = heard[p]
        BY <1>3, <1>4, <2>2
    <3>2. resident'[p] = resident[p]
        BY <1>2, <1>4, <2>2 DEF Hear, HearPosted, HearEdited, HearChanged, Delivered, AddPost
    <3> QED BY <1>9, <2>1, <3>1, <3>2
  <2>3. CASE p = e.post
    <3>1. heard'[p] = heard[p] \cup {e.n}
        BY <1>3, <1>4, <2>3
    <3>2. heard[p] \subseteq 1..e.n
      <4>1. \A m \in heard[p] : m \in Nat /\ m >= 1 /\ m < e.n
        <5>1. server[p] \in Nat
            BY <1>1 DEF TypeOK
        <5> QED BY <1>2, <2>3, <5>1 DEF FenceInv, HeardInOrder
      <4> QED BY <1>2, <4>1
    <3>3. Shows(1..e.n, "event").seen = 1..e.n /\ 1 \in 1..e.n /\ e.n \in 1..e.n
        BY <1>2 DEF Shows
    <3>4. CASE e.kind = "posted"
      <4>1. e.n = 1
          BY <1>2, <3>4 DEF FenceInv, LogOrder
      <4>2. resident'[p] \in {resident[p], Shows(1..e.n, "event")}
          BY <1>2, <1>4, <2>3, <3>4 DEF Hear, HearPosted, Delivered, AddPost
      <4> QED BY <1>9, <2>1, <3>1, <3>2, <3>3, <4>1, <4>2
    <3>5. CASE e.kind = "edited"
      <4>1. resident'[p] \in {resident[p], Shows(1..e.n, "event")}
          BY <1>2, <1>4, <2>3, <3>5 DEF Hear, HearEdited
      <4>2. resident[p] # NoBody => resident'[p] = Shows(1..e.n, "event")
          BY <1>2, <1>4, <2>3, <3>5 DEF Hear, HearEdited, FenceInv, KnownFirst
      <4>3. resident'[p] = Shows(1..e.n, "event")
          BY <1>9, <4>1, <4>2, OtherBodies
      <4> QED BY <3>1, <3>2, <3>3, <4>3
    <3>6. CASE e.kind \in {"reaction", "deleted"}
      <4>1. resident' = IF known /\ resident[p] # NoBody
                        THEN [resident EXCEPT ![p].seen = @ \cup {e.n}] ELSE resident
          BY <2>3, <3>6 DEF Hear, HearChanged
      <4>2. resident[p] # NoBody
          BY <1>9, <4>1, OtherBodies
      <4>3. resident[p] \in Body /\ resident'[p] = [resident[p] EXCEPT !.seen = @ \cup {e.n}]
          BY <1>4, <4>1, <4>2 DEF FenceInv, KnownFirst
      <4>4. /\ resident'[p].by = resident[p].by
            /\ resident'[p].seen = resident[p].seen \cup {e.n}
          BY <4>3 DEF Body
      <4> QED BY <1>9, <2>1, <3>1, <4>4
    <3> QED BY <1>2, <3>4, <3>5, <3>6
  <2> QED BY <2>2, <2>3
<1>10. FirstSeen' /\ FenceHolds' /\ FetchesMarked'
    BY <1>3, <1>9 DEF FenceInv, FirstSeen, FenceHolds, FetchesMarked
<1>11. KnownFirst'
  <2>1. known' = known
      BY DEF Hear
  <2>2. ~known => resident' = resident
      BY <1>2 DEF Hear, HearPosted, HearEdited, HearChanged
  <2> QED BY <2>1, <2>2 DEF FenceInv, KnownFirst
<1> QED BY <1>1, <1>6, <1>7, <1>8, <1>10, <1>11 DEF FenceInv

\* A post changes on the server.
LEMMA FenceServer == FenceInv /\ ServerStep => FenceInv'
<1> SUFFICES ASSUME FenceInv, ServerStep PROVE FenceInv'
    OBVIOUS
<1>1. TypeOK'
    BY ServerTyped DEF FenceInv
<1>2. PICK p \in Posts : Publish(p) \/ EditOrReact(p) \/ Delete(p)
    BY DEF ServerStep
<1>3. PICK kind \in {"posted", "edited", "reaction", "deleted"} :
         Change(kind, p) /\ (kind = "posted" => server[p] = 0)
    BY <1>2 DEF Publish, EditOrReact, Delete
<1>4. UNCHANGED <<pos, seq, observed, resident, known, gets, fetches, heard>>
    BY DEF ServerStep, memory, channel
<1>5. LogOrder' /\ HeardInOrder'
    BY <1>3, <1>4, ChangeOrdered
<1>6. ServedFresh' /\ FirstSeen' /\ FetchesMarked' /\ FenceHolds' /\ KnownFirst'
    BY <1>4 DEF FenceInv, ServedFresh, FirstSeen, FetchesMarked, FenceHolds, KnownFirst
<1> QED BY <1>1, <1>5, <1>6 DEF FenceInv

\* The edit of an own post.
LEMMA FencePatch ==
    ASSUME FenceInv, NEW p \in Posts, Patch(p)
    PROVE  FenceInv'
<1>1. TypeOK'
    BY FetchTyped DEF FenceInv
<1>2. Change("edited", p) /\ UNCHANGED <<pos, seq, observed, resident, known, gets, heard>>
    BY DEF Patch, memory, channel
<1>3. LogOrder' /\ HeardInOrder'
    BY <1>2, ChangeOrdered
<1>4. ServedFresh' /\ FirstSeen' /\ FenceHolds' /\ KnownFirst'
    BY <1>2 DEF FenceInv, ServedFresh, FirstSeen, FenceHolds, KnownFirst
<1>5. FetchesMarked'
  <2>1. fetches \in [Posts -> Fetch]
      BY DEF FenceInv, TypeOK
  <2> QED BY <2>1 DEF FenceInv, FetchesMarked, Patch, Shows
<1> QED BY <1>1, <1>3, <1>4, <1>5 DEF FenceInv

\* The server reads its state for an answer.
LEMMA FenceServe ==
    ASSUME FenceInv, NEW path \in Paths, Serve(path)
    PROVE  FenceInv'
<1>1. TypeOK'
    BY AnswerTyped DEF FenceInv
<1>2. UNCHANGED <<server, log, pos, seq, observed, resident, known, fetches, heard>>
    BY DEF Serve, external, memory, channel
<1>3. LogOrder' /\ HeardInOrder' /\ FirstSeen' /\ FetchesMarked' /\ FenceHolds' /\ KnownFirst'
    BY <1>2 DEF FenceInv, LogOrder, HeardInOrder, FirstSeen, FetchesMarked, FenceHolds, KnownFirst
<1>4. ServedFresh'
  <2> SUFFICES ASSUME NEW x \in Paths, NEW p \in Posts,
                      gets'[x].served, gets'[x].rows[p] # NoBody
               PROVE  /\ gets'[x].rows[p].by = "request" /\ 1 \in gets'[x].rows[p].seen
                      /\ observed[p] <= gets'[x].seq => heard[p] \subseteq gets'[x].rows[p].seen
      BY <1>2 DEF ServedFresh
  <2>1. /\ gets \in [Paths -> [seq : 0..seq, served : BOOLEAN, rows : [Posts -> Body]]]
        /\ server \in [Posts -> Nat]
      BY DEF FenceInv, TypeOK
  <2>2. CASE x # path
    <3>1. gets'[x] = gets[x]
        BY <2>1, <2>2 DEF Serve
    <3> QED BY <3>1 DEF FenceInv, ServedFresh
  <2>3. CASE x = path
    <3>1. gets'[x].rows = Rows(Asked(path), "request")
        BY <2>1, <2>3 DEF Serve
    <3>2. server[p] > 0 /\ gets'[x].rows[p] = Shows(1..server[p], "request")
        BY <3>1 DEF Rows
    <3>3. gets'[x].rows[p].by = "request" /\ gets'[x].rows[p].seen = 1..server[p]
        BY <3>2 DEF Shows
    <3>4. heard[p] \subseteq 1..server[p]
        BY DEF FenceInv, HeardInOrder
    <3> QED BY <2>1, <3>2, <3>3, <3>4
  <2> QED BY <2>2, <2>3
<1> QED BY <1>1, <1>3, <1>4 DEF FenceInv

\* An answer is taken in.
LEMMA FenceAnswer ==
    ASSUME FenceInv, NEW path \in Paths, Answer(path)
    PROVE  FenceInv'
<1> DEFINE g == gets[path]
<1>1. TypeOK /\ TypeOK'
    BY AnswerTyped DEF FenceInv
<1>2. UNCHANGED <<server, log, pos, seq, known, fetches, heard>>
    BY DEF Answer, external, channel
<1>3. /\ gets \in [Paths -> [seq : 0..seq, served : BOOLEAN, rows : [Posts -> Body]]]
      /\ observed \in [Posts -> 0..seq] /\ resident \in [Posts -> Body] /\ seq \in Nat
    BY <1>1 DEF TypeOK
<1>4. g.served /\ \A x \in Paths : gets'[x] = gets[x] \/ ~gets'[x].served
    BY <1>3 DEF Answer, NoGet
<1>5. \A p \in Posts : observed[p] <= observed'[p]
  <2>1. CASE known
    <3>1. g.rows \in [Posts -> Body] /\ g.seq \in 0..seq
        BY <1>3
    <3> QED BY <1>1, <2>1, <3>1, IngestTyped DEF Answer
  <2>2. CASE ~known
      BY <1>3, <2>2 DEF Answer
  <2> QED BY <2>1, <2>2
<1>6. ASSUME NEW p \in Posts
      PROVE  \/ resident'[p] = resident[p]
             \/ known /\ g.rows[p] # NoBody /\ resident'[p] = g.rows[p] /\ observed[p] <= g.seq
    BY <1>3 DEF Answer, Ingest, Admitted, Filled
<1>7. LogOrder' /\ HeardInOrder' /\ FetchesMarked' /\ KnownFirst'
    BY <1>2, <1>6 DEF FenceInv, LogOrder, HeardInOrder, FetchesMarked, KnownFirst
<1>8. ServedFresh'
  <2> SUFFICES ASSUME NEW x \in Paths, NEW p \in Posts,
                      gets'[x].served, gets'[x].rows[p] # NoBody
               PROVE  /\ gets'[x].rows[p].by = "request" /\ 1 \in gets'[x].rows[p].seen
                      /\ observed'[p] <= gets'[x].seq => heard[p] \subseteq gets'[x].rows[p].seen
      BY <1>2 DEF ServedFresh
  <2>1. gets'[x] = gets[x]
      BY <1>4
  <2>2. observed[p] \in Nat /\ observed'[p] \in Nat /\ gets[x].seq \in Nat
    <3>1. observed' \in [Posts -> 0..seq]
        BY <1>1, <1>2 DEF TypeOK
    <3> QED BY <1>3, <3>1
  <2> QED BY <1>5, <2>1, <2>2 DEF FenceInv, ServedFresh
<1>9. FirstSeen' /\ FenceHolds'
  <2> SUFFICES ASSUME NEW p \in Posts, resident'[p].by \in {"event", "request"}
               PROVE  1 \in resident'[p].seen /\ heard[p] \subseteq resident'[p].seen
      BY <1>2 DEF FirstSeen, FenceHolds
  <2> QED BY <1>4, <1>6 DEF FenceInv, FirstSeen, FenceHolds, ServedFresh
<1> QED BY <1>1, <1>7, <1>8, <1>9 DEF FenceInv

\* A new process has heard of nothing.
LEMMA FenceRestart == FenceInv /\ Restart => FenceInv'
<1> SUFFICES ASSUME FenceInv, Restart PROVE FenceInv'
    OBVIOUS
<1>1. TypeOK'
    BY WorkTyped DEF FenceInv
<1>2. /\ UNCHANGED <<server, log>> /\ heard' = [p \in Posts |-> {}] /\ resident' = NoRows
      /\ gets' = [x \in Paths |-> NoGet] /\ fetches' = [p \in Posts |-> NoFetch]
    BY DEF Restart, external
<1>3. LogOrder' /\ HeardInOrder'
    BY <1>2 DEF FenceInv, LogOrder, HeardInOrder
<1>4. ServedFresh'
    BY <1>2 DEF ServedFresh, NoGet
<1>5. FirstSeen' /\ FetchesMarked' /\ FenceHolds' /\ KnownFirst'
    BY <1>2 DEF FirstSeen, FetchesMarked, FenceHolds, KnownFirst, NoRows, NoFetch, NoBody
<1> QED BY <1>1, <1>3, <1>4, <1>5 DEF FenceInv

\* The steps that leave memory and requests alone.
LEMMA FenceIdle ==
    ASSUME FenceInv,
           \/ Miss \/ DirectAdded \/ DirectGivenUp \/ LoadCachedTail \/ Work
           \/ \E p \in Posts : Prune(p)
    PROVE  FenceInv'
<1>1. TypeOK'
    BY ServerTyped, DirectTyped, LoadTyped, WorkTyped DEF FenceInv
<1>2. /\ UNCHANGED <<server, log, observed, resident, known, gets, fetches, heard>>
      /\ pos' = pos \/ pos' = pos + 1
    BY DEF Miss, DirectAdded, DirectGivenUp, LoadCachedTail, Work, Prune, external, memory,
           channel
<1>3. pos <= pos'
    BY <1>2 DEF FenceInv, TypeOK
<1>4. \A p \in Posts : observed[p] <= observed'[p]
  <2>1. observed \in [Posts -> 0..seq] /\ seq \in Nat
      BY DEF FenceInv, TypeOK
  <2> QED BY <1>2, <2>1
<1>5. \A p \in Posts : fetches'[p].body.by \in {"none", "arrival"}
    BY <1>2 DEF FenceInv, FetchesMarked
<1> QED BY <1>1, <1>2, <1>3, <1>4, <1>5, FenceKept

\* The steps that send a GET or lose it.
LEMMA FenceRequest ==
    ASSUME FenceInv,
           \/ \E page \in Pages : LoadPage(page)
           \/ \E c \in Loads, p \in Posts : LoadPost(c, p)
           \/ \E path \in Paths : Fail(path)
    PROVE  FenceInv'
<1>1. TypeOK'
    BY LoadTyped, AnswerTyped DEF FenceInv
<1>2. UNCHANGED <<server, log, pos, observed, resident, known, fetches, heard>>
    BY DEF LoadPage, LoadPost, Fail, external, memory, channel
<1>3. \A x \in Paths : gets'[x] = gets[x] \/ ~gets'[x].served
  <2>1. gets \in [Paths -> [seq : 0..seq, served : BOOLEAN, rows : [Posts -> Body]]]
      BY DEF FenceInv, TypeOK
  <2>2. ASSUME NEW path \in Paths, NEW s, Send(path, s)
        PROVE  \A x \in Paths : gets'[x] = gets[x] \/ ~gets'[x].served
      BY <2>1, <2>2 DEF Send
  <2>3. ASSUME NEW path \in Paths, Fail(path)
        PROVE  \A x \in Paths : gets'[x] = gets[x] \/ ~gets'[x].served
      BY <2>1, <2>3 DEF Fail, NoGet
  <2> QED BY <2>2, <2>3 DEF LoadPage, LoadPost, Paths
<1>4. pos <= pos' /\ \A p \in Posts : observed[p] <= observed'[p]
  <2>1. observed \in [Posts -> 0..seq] /\ seq \in Nat /\ pos \in Nat
      BY DEF FenceInv, TypeOK
  <2> QED BY <1>2, <2>1
<1>5. \A p \in Posts : fetches'[p].body.by \in {"none", "arrival"}
    BY <1>2 DEF FenceInv, FetchesMarked
<1> QED BY <1>1, <1>2, <1>3, <1>4, <1>5, FenceKept

\* The steps of a request that is numbered on arrival.
LEMMA FenceFetch ==
    ASSUME FenceInv, NEW p \in Posts,
           Navigate(p) \/ ServeFetch(p) \/ NeedChannel(p) \/ FetchFails(p)
    PROVE  FenceInv'
<1>1. TypeOK'
    BY FetchTyped DEF FenceInv
<1>2. UNCHANGED <<server, log, pos, observed, resident, known, gets, heard>>
    BY DEF Navigate, ServeFetch, NeedChannel, FetchFails, external, memory, channel
<1>3. pos <= pos' /\ \A q \in Posts : observed[q] <= observed'[q]
  <2>1. observed \in [Posts -> 0..seq] /\ seq \in Nat /\ pos \in Nat
      BY DEF FenceInv, TypeOK
  <2> QED BY <1>2, <2>1
<1>4. \A q \in Posts : fetches'[q].body.by \in {"none", "arrival"}
  <2>1. fetches \in [Posts -> Fetch] /\ \A q \in Posts : fetches[q] \in Fetch
      BY DEF FenceInv, TypeOK
  <2>2. CASE Navigate(p) \/ NeedChannel(p)
      BY <2>1, <2>2 DEF FenceInv, FetchesMarked, Navigate, NeedChannel, Fetch
  <2>3. CASE ServeFetch(p)
      BY <2>1, <2>3 DEF FenceInv, FetchesMarked, ServeFetch, Fetch, Shows
  <2>4. CASE FetchFails(p)
      BY <2>1, <2>4 DEF FenceInv, FetchesMarked, FetchFails, NoFetch, NoBody
  <2> QED BY <2>2, <2>3, <2>4
<1> QED BY <1>1, <1>2, <1>3, <1>4, FenceKept

\* The channel appears, or an answer numbered on arrival arrives.
LEMMA FenceAppears ==
    ASSUME FenceInv, DirectResolved \/ \E p \in Posts : Arrive(p)
    PROVE  FenceInv'
<1>1. TypeOK'
    BY DirectTyped, FetchTyped DEF FenceInv
<1>2. UNCHANGED <<server, log, pos, gets, heard>>
    BY DEF DirectResolved, Arrive, external
<1>3. /\ resident \in [Posts -> Body] /\ fetches \in [Posts -> Fetch]
      /\ seq \in Nat /\ observed \in [Posts -> 0..seq] /\ pos \in Nat
    BY DEF FenceInv, TypeOK
<1>4. CASE DirectResolved
  <2>1. ChannelAppears(NoRows) /\ UNCHANGED <<observed, fetches>>
      BY <1>4 DEF DirectResolved
  <2>2. known' = TRUE
      BY <2>1 DEF ChannelAppears
  <2>3. \A q \in Posts : resident'[q] = resident[q] \/ resident'[q].by \notin {"event", "request"}
      BY <1>3, <2>1, OtherBodies
  <2>4. \A q \in Posts : observed[q] <= observed'[q]
      BY <1>3, <2>1
  <2>5. \A q \in Posts : fetches'[q].body.by \in {"none", "arrival"}
      BY <2>1 DEF FenceInv, FetchesMarked
  <2>6. pos <= pos'
      BY <1>2, <1>3
  <2> QED BY <1>1, <1>2, <2>2, <2>3, <2>4, <2>5, <2>6, FenceKept
<1>5. ASSUME NEW p \in Posts, Arrive(p) PROVE FenceInv'
  <2> DEFINE body == fetches[p].body
  <2>1. body \in Body /\ body.by \in {"none", "arrival"}
      BY <1>3 DEF Fetch, FenceInv, FetchesMarked
  <2>2. \A q \in Posts : observed[q] <= observed'[q]
      BY <1>5, <2>1, CachePostObjectTyped DEF Arrive, FenceInv
  <2>3. \A q \in Posts : fetches'[q].body.by \in {"none", "arrival"}
      BY <1>3, <1>5 DEF Arrive, FenceInv, FetchesMarked, NoFetch, NoBody
  <2>4. /\ known => known'
        /\ known' \/ \A q \in Posts : resident'[q] \in {resident[q], NoBody}
        /\ \A q \in Posts : resident'[q] = resident[q] \/ resident'[q].by \notin {"event", "request"}
    <3>1. CASE known
        BY <1>3, <1>5, <2>1, <3>1 DEF Arrive, channel
    <3>2. CASE ~known /\ fetches[p].edit
        BY <1>3, <1>5, <3>2 DEF Arrive, channel
    <3>3. CASE ~known /\ ~fetches[p].edit
      <4>1. ChannelAppears(One(p, body))
          BY <1>5, <3>3 DEF Arrive
      <4>2. known' = TRUE
          BY <4>1 DEF ChannelAppears
      <4>3. \A q \in Posts : One(p, body)[q].by \notin {"event", "request"}
          BY <2>1, OtherBodies DEF One, NoRows
      <4> QED BY <1>3, <4>1, <4>2, <4>3, OtherBodies
    <3> QED BY <3>1, <3>2, <3>3
  <2>5. pos <= pos'
      BY <1>2, <1>3
  <2> QED BY <1>1, <1>2, <2>2, <2>3, <2>4, <2>5, FenceKept
<1> QED BY <1>4, <1>5

\* What the cache yields, and what is evicted.
LEMMA FenceMemory ==
    ASSUME FenceInv, TakeResult \/ \E p \in Posts : Evict(p)
    PROVE  FenceInv'
<1>1. TypeOK'
    BY WorkTyped DEF FenceInv
<1>2. UNCHANGED <<server, log, pos, observed, known, gets, fetches, heard>>
    BY DEF TakeResult, Evict, external, channel
<1>3. resident \in [Posts -> Body]
    BY DEF FenceInv, TypeOK
<1>4. /\ \A q \in Posts : resident'[q] = resident[q] \/ resident'[q].by \notin {"event", "request"}
      /\ known' \/ \A q \in Posts : resident'[q] \in {resident[q], NoBody}
  <2>1. CASE TakeResult
    <3>1. CASE known
      <4>1. resident' = IngestCached(Head(results).rows, Head(results).seq)
          BY <2>1, <3>1 DEF TakeResult
      <4>2. \A q \in Posts : \/ resident'[q] = resident[q]
                             \/ resident'[q] = AsCached(Head(results).rows)[q]
          BY <4>1 DEF IngestCached
      <4>3. \A q \in Posts : AsCached(Head(results).rows)[q].by \notin {"event", "request"}
          BY OtherBodies
      <4>4. known'
          BY <1>2, <3>1
      <4> QED BY <4>2, <4>3, <4>4
    <3>2. CASE ~known
        BY <1>2, <2>1, <3>2 DEF TakeResult
    <3> QED BY <3>1, <3>2
  <2>2. ASSUME NEW p \in Posts, Evict(p)
        PROVE  \A q \in Posts : resident'[q] \in {resident[q], NoBody}
      BY <1>3, <2>2 DEF Evict
  <2> QED BY <2>1, <2>2, OtherBodies
<1>5. pos <= pos' /\ \A q \in Posts : observed[q] <= observed'[q]
  <2>1. observed \in [Posts -> 0..seq] /\ seq \in Nat /\ pos \in Nat
      BY DEF FenceInv, TypeOK
  <2> QED BY <1>2, <2>1
<1>6. \A q \in Posts : fetches'[q].body.by \in {"none", "arrival"}
    BY <1>2 DEF FenceInv, FetchesMarked
<1> QED BY <1>1, <1>2, <1>4, <1>5, <1>6, FenceKept

\* FenceInv is inductive.
LEMMA FenceStep == FenceInv /\ [Next]_vars => FenceInv'
<1>1. ASSUME FenceInv, Next PROVE FenceInv'
    BY <1>1, FenceServer, FenceHear, FencePatch, FenceServe, FenceAnswer, FenceRestart, FenceIdle,
       FenceRequest, FenceFetch, FenceAppears, FenceMemory DEF Next
<1>2. ASSUME FenceInv, UNCHANGED vars PROVE FenceInv'
    BY <1>2, StepTyped DEF vars, FenceInv, external, memory, channel, LogOrder, HeardInOrder,
       ServedFresh, FirstSeen, FetchesMarked, FenceHolds, KnownFirst
<1> QED BY <1>1, <1>2

\* Whatever is answered, and when: a body that an event or a numbered answer
\* brought shows every change of its post that was heard of.
THEOREM AnswersRespectEvents == Spec => []FenceHolds
<1>1. Init => FenceInv
    BY FenceInit
<1>2. FenceInv /\ [Next]_vars => FenceInv'
    BY FenceStep
<1>3. FenceInv => FenceHolds
    BY DEF FenceInv
<1> QED BY <1>1, <1>2, <1>3, PTL DEF Spec

-----------------------------------------------------------------------------
(* The rows of the cache.  An answer, a command in the queue and a row are *)
(* held to the same: what they show of a post is up to date, or a removal  *)
(* that is newer stands between them and the table.                        *)

Shown(changes, body) == body.by \in {"event", "request"} => changes \subseteq body.seen

RemovalComes(q, p) == \E i \in 1..Len(q) : q[i].op = "remove" /\ q[i].post = p

\* A removal of the post that is newer than s was worked off, or is in the queue.
Fenced(f, q, p, s) ==
    \/ f[p] > s
    \/ \E i \in 1..Len(q) : q[i].op = "remove" /\ q[i].post = p /\ q[i].seq > s

StoresFresh ==
    \A i \in 1..Len(queue) : queue[i].op = "store" =>
        /\ queue[i].seq <= seq
        /\ \A p \in Posts : Shown(Invalidations(p), queue[i].rows[p]) \/ Fenced(fence, queue, p, queue[i].seq)

AnswersFresh ==
    \A path \in Paths : \A p \in Posts :
        gets[path].served => Shown(Invalidations(p), gets[path].rows[p]) \/ Fenced(fence, queue, p, gets[path].seq)

DiskFresh == \A p \in Posts : Shown(Invalidations(p), disk[p]) \/ RemovalComes(queue, p)

RowsInv == FenceInv /\ StoresFresh /\ AnswersFresh /\ DiskFresh

\* The start of a process.
LEMMA RowsInit == Init => RowsInv
<1> SUFFICES ASSUME Init PROVE RowsInv
    OBVIOUS
<1>1. FenceInv
    BY FenceInit
<1>2. queue = << >> /\ (\A p \in Posts : heard[p] = {}) /\ \A path \in Paths : ~gets[path].served
    BY DEF Init, NoGet
<1>3. \A p \in Posts : Invalidations(p) = {}
    BY <1>2 DEF Invalidations
<1>4. StoresFresh /\ AnswersFresh /\ DiskFresh
    BY <1>2, <1>3 DEF StoresFresh, AnswersFresh, DiskFresh, Shown
<1> QED BY <1>1, <1>4 DEF RowsInv

\* What was invalidated is what was heard of, and is no more than that.
LEMMA InvalidationsHeard ==
    ASSUME FenceInv, NEW p \in Posts
    PROVE  Invalidations(p) \subseteq heard[p] /\ Invalidations(p) \subseteq 1..server[p]
BY DEF Invalidations, FenceInv, HeardInOrder

\* Events that are not heard invalidate nothing.
LEMMA InvalidationsStay ==
    ASSUME FenceInv, NEW p \in Posts, heard'[p] = heard[p],
           \/ log' = log /\ pos' = pos
           \/ log' = log /\ pos' = pos + 1 /\ pos + 1 \in 1..Len(log)
           \/ pos' = pos /\ Len(log') = Len(log) + 1 /\ \A i \in 1..Len(log) : log'[i] = log[i]
    PROVE  Invalidations(p)' = Invalidations(p)
<1>1. pos \in Nat /\ Len(log) \in Nat /\ pos <= Len(log)
  <2>1. log \in Seq(Event) /\ pos \in 0..Len(log)
      BY DEF FenceInv, TypeOK
  <2> QED BY <2>1
<1>2. CASE log' = log /\ pos' = pos
    BY <1>2 DEF Invalidations
<1>3. CASE pos' = pos /\ Len(log') = Len(log) + 1 /\ \A i \in 1..Len(log) : log'[i] = log[i]
  <2>1. \A j \in 1..pos : log'[j] = log[j]
      BY <1>1, <1>3
  <2> QED BY <1>3, <2>1 DEF Invalidations
<1>4. CASE log' = log /\ pos' = pos + 1 /\ pos + 1 \in 1..Len(log)
  <2>1. log[pos + 1].post = p => log[pos + 1].n \notin heard[p]
    <3>1. log[pos + 1].post = p => \A m \in heard[p] : m < log[pos + 1].n /\ m \in 1..server[p]
        BY <1>1, <1>4 DEF FenceInv, HeardInOrder
    <3> QED BY <3>1
  <2>2. \A j \in 1..(pos + 1) : j \in 1..pos \/ j = pos + 1
      BY <1>1
  <2>3. 1..pos \subseteq 1..(pos + 1)
      BY <1>1
  <2> QED BY <1>4, <2>1, <2>2, <2>3 DEF Invalidations
<1> QED BY <1>2, <1>3, <1>4

\* An event that is heard invalidates at most itself.
LEMMA InvalidationsGrow ==
    ASSUME FenceInv, pos + 1 \in 1..Len(log), pos' = pos + 1, log' = log,
           heard' = [heard EXCEPT ![log[pos + 1].post] = @ \cup {log[pos + 1].n}],
           NEW p \in Posts
    PROVE  /\ Invalidations(p)' \subseteq Invalidations(p) \cup {log[pos + 1].n}
           /\ log[pos + 1].post # p \/ log[pos + 1].kind \notin {"reaction", "deleted"}
                 => Invalidations(p)' \subseteq Invalidations(p)
<1> DEFINE e == log[pos + 1]
<1>1. pos \in Nat /\ heard \in [Posts -> SUBSET Nat]
    BY DEF FenceInv, TypeOK
<1>2. \A j \in 1..(pos + 1) : j \in 1..pos \/ j = pos + 1
    BY <1>1
<1>3. heard'[p] \subseteq heard[p] \cup {e.n} /\ (e.post # p => heard'[p] = heard[p])
    BY <1>1
<1>4. ASSUME NEW j \in 1..pos, log[j].post = p, e.post = p PROVE log[j].n # e.n
  <2>1. j \in 1..Len(log) /\ j < pos + 1
      BY <1>1, <1>4
  <2>2. log[j].n < e.n
      BY <1>4, <2>1 DEF FenceInv, LogOrder
  <2>3. log \in Seq(Event)
      BY DEF FenceInv, TypeOK
  <2>4. log[j] \in Event /\ e \in Event
      BY <2>1, <2>3
  <2>5. log[j].n \in Nat /\ e.n \in Nat
      BY <2>4 DEF Event
  <2> QED BY <2>2, <2>5
<1>5. ASSUME NEW m \in Invalidations(p)'
      PROVE  /\ m \in Invalidations(p) \cup {e.n}
             /\ e.post # p \/ e.kind \notin {"reaction", "deleted"} => m \in Invalidations(p)
  <2>1. PICK j \in 1..(pos + 1) :
           /\ log[j].post = p /\ log[j].kind \in {"reaction", "deleted"} /\ m = log[j].n
           /\ m \in heard'[p]
      BY <1>5 DEF Invalidations
  <2>2. CASE j = pos + 1
      BY <2>1, <2>2
  <2>3. CASE j \in 1..pos
    <3>1. m \in heard[p]
        BY <1>3, <1>4, <2>1, <2>3
    <3> QED BY <2>1, <2>3, <3>1 DEF Invalidations
  <2> QED BY <1>2, <2>1, <2>2, <2>3
<1> QED BY <1>5

\* Commands are added to the end of the queue: removals in it stay in it.
LEMMA QueueGrows ==
    ASSUME queue \in Seq(Command), NEW more \in Seq(Command), queue' = queue \o more
    PROVE  /\ \A i \in 1..Len(queue) : i \in 1..Len(queue') /\ queue'[i] = queue[i]
           /\ \A i \in 1..Len(queue') : i \in 1..Len(queue)
                  \/ \E j \in 1..Len(more) : queue'[i] = more[j]
<1>1. Len(queue') = Len(queue) + Len(more) /\ Len(queue) \in Nat /\ Len(more) \in Nat
    OBVIOUS
<1>2. \A i \in 1..Len(queue) : queue'[i] = queue[i]
    OBVIOUS
<1>3. ASSUME NEW i \in 1..Len(queue'), i \notin 1..Len(queue)
      PROVE  \E j \in 1..Len(more) : queue'[i] = more[j]
  <2>1. i - Len(queue) \in 1..Len(more)
      BY <1>1, <1>3
  <2>2. queue'[i] = more[i - Len(queue)]
      BY <1>1, <1>3
  <2> QED BY <2>1, <2>2
<1> QED BY <1>1, <1>2, <1>3

\* Steps that do not touch the worker: what they send to it is fresh, and a post
\* that becomes less well known is removed.
LEMMA RowsKept ==
    ASSUME RowsInv, FenceInv', UNCHANGED <<fence, disk>>,
           NEW more \in Seq(Command), queue' = queue \o more, seq <= seq',
           \A j \in 1..Len(more) : more[j].op = "store" =>
               /\ more[j].seq <= seq'
               /\ \A p \in Posts : Shown(Invalidations(p)', more[j].rows[p]) \/ Fenced(fence', queue', p, more[j].seq),
           \A path \in Paths : \/ gets'[path] = gets[path] \/ ~gets'[path].served
                               \/ \A p \in Posts : Shown(Invalidations(p)', gets'[path].rows[p]),
           \A p \in Posts :
               \/ Invalidations(p)' \subseteq Invalidations(p)
               \/ \E j \in 1..Len(queue') : queue'[j].op = "remove" /\ queue'[j].post = p
                                            /\ queue'[j].seq = seq + 1
    PROVE  RowsInv'
<1>1. /\ seq \in Nat /\ seq' \in Nat /\ queue \in Seq(Command) /\ fence \in [Posts -> Nat]
      /\ gets \in [Paths -> [seq : 0..seq, served : BOOLEAN, rows : [Posts -> Body]]]
    BY DEF RowsInv, FenceInv, TypeOK
<1>2. /\ \A i \in 1..Len(queue) : i \in 1..Len(queue') /\ queue'[i] = queue[i]
      /\ \A i \in 1..Len(queue') : i \in 1..Len(queue)
             \/ \E j \in 1..Len(more) : queue'[i] = more[j]
    BY <1>1, QueueGrows
<1>3. \A p \in Posts : \A t \in Nat : Fenced(fence, queue, p, t) => Fenced(fence', queue', p, t)
    BY <1>2 DEF Fenced
<1>4. \A p \in Posts : RemovalComes(queue, p) => RemovalComes(queue', p)
    BY <1>2 DEF RemovalComes
<1>5. ASSUME NEW p \in Posts, ~(Invalidations(p)' \subseteq Invalidations(p))
      PROVE  RemovalComes(queue', p) /\ \A t \in Nat : t <= seq => Fenced(fence', queue', p, t)
  <2>1. PICK j \in 1..Len(queue') : queue'[j].op = "remove" /\ queue'[j].post = p
                                    /\ queue'[j].seq = seq + 1
      BY <1>5
  <2>2. \A t \in Nat : t <= seq => seq + 1 > t
      BY <1>1
  <2>3. RemovalComes(queue', p)
      BY <2>1 DEF RemovalComes
  <2>4. \A t \in Nat : t <= seq => Fenced(fence', queue', p, t)
      BY <2>1, <2>2 DEF Fenced
  <2> QED BY <2>3, <2>4
<1>6. \A p \in Posts : Invalidations(p)' \subseteq Invalidations(p) =>
         \A row : Shown(Invalidations(p), row) =>
             (row.by \in {"event", "request"} => Invalidations(p)' \subseteq row.seen)
    BY DEF Shown
<1>7. ASSUME NEW p \in Posts, NEW row, NEW t \in Nat, t <= seq, Shown(Invalidations(p), row) \/ Fenced(fence, queue, p, t)
      PROVE  (row.by \in {"event", "request"} => Invalidations(p)' \subseteq row.seen)
             \/ Fenced(fence', queue', p, t)
    BY <1>3, <1>5, <1>6, <1>7
<1>8. StoresFresh'
  <2> SUFFICES ASSUME NEW i \in 1..Len(queue'), queue'[i].op = "store"
               PROVE  /\ queue'[i].seq <= seq'
                      /\ \A p \in Posts : Shown(Invalidations(p)', queue'[i].rows[p]) \/ Fenced(fence', queue', p, queue'[i].seq)
      BY DEF StoresFresh
  <2>1. CASE i \in 1..Len(queue)
    <3>1. queue'[i] = queue[i] /\ queue[i] \in Command
        BY <1>1, <1>2, <2>1
    <3>2. queue[i].seq \in Nat /\ queue[i].seq <= seq
          /\ \A p \in Posts : Shown(Invalidations(p), queue[i].rows[p]) \/ Fenced(fence, queue, p, queue[i].seq)
        BY <2>1, <3>1 DEF RowsInv, StoresFresh, Command
    <3>3. queue[i].seq <= seq'
        BY <1>1, <3>2
    <3> QED BY <1>7, <3>1, <3>2, <3>3 DEF Shown
  <2>2. CASE \E j \in 1..Len(more) : queue'[i] = more[j]
    <3>1. PICK j \in 1..Len(more) : queue'[i] = more[j]
        BY <2>2
    <3>2. more[j].op = "store"
        BY <3>1
    <3>3. /\ more[j].seq <= seq'
          /\ \A p \in Posts : Shown(Invalidations(p)', more[j].rows[p]) \/ Fenced(fence', queue', p, more[j].seq)
        BY <3>2
    <3> QED BY <3>1, <3>3
  <2> QED BY <1>2, <2>1, <2>2
<1>9. AnswersFresh'
  <2> SUFFICES ASSUME NEW path \in Paths, NEW p \in Posts, gets'[path].served
               PROVE  Shown(Invalidations(p)', gets'[path].rows[p]) \/ Fenced(fence', queue', p, gets'[path].seq)
      BY DEF AnswersFresh
  <2>1. CASE gets'[path] = gets[path]
    <3>1. gets[path].seq \in Nat /\ gets[path].seq <= seq
        BY <1>1
    <3>2. Shown(Invalidations(p), gets[path].rows[p]) \/ Fenced(fence, queue, p, gets[path].seq)
        BY <2>1 DEF RowsInv, AnswersFresh
    <3> QED BY <1>7, <2>1, <3>1, <3>2 DEF Shown
  <2>2. CASE \A q \in Posts : Shown(Invalidations(q)', gets'[path].rows[q])
      BY <2>2
  <2> QED BY <2>1, <2>2
<1>10. DiskFresh'
  <2> SUFFICES ASSUME NEW p \in Posts PROVE Shown(Invalidations(p)', disk'[p]) \/ RemovalComes(queue', p)
      BY DEF DiskFresh
  <2>1. Shown(Invalidations(p), disk[p]) \/ RemovalComes(queue, p)
      BY DEF RowsInv, DiskFresh
  <2>2. CASE Invalidations(p)' \subseteq Invalidations(p)
      BY <1>4, <1>6, <2>1, <2>2 DEF Shown
  <2>3. CASE ~(Invalidations(p)' \subseteq Invalidations(p))
      BY <1>5, <2>3
  <2> QED BY <2>2, <2>3
<1> QED BY <1>8, <1>9, <1>10 DEF RowsInv

\* Steps that hear of nothing and store nothing.
LEMMA RowsIdle ==
    ASSUME RowsInv, FenceInv', UNCHANGED <<fence, disk, heard>>, seq <= seq',
           NEW more \in Seq(Command), queue' = queue \o more,
           \A j \in 1..Len(more) : more[j].op = "read",
           \A path \in Paths : gets'[path] = gets[path] \/ ~gets'[path].served,
           \/ log' = log /\ pos' = pos
           \/ log' = log /\ pos' = pos + 1 /\ pos + 1 \in 1..Len(log)
           \/ pos' = pos /\ Len(log') = Len(log) + 1 /\ \A i \in 1..Len(log) : log'[i] = log[i]
    PROVE  RowsInv'
<1>1. FenceInv
    BY DEF RowsInv
<1>2. \A p \in Posts : Invalidations(p)' = Invalidations(p)
    BY <1>1, InvalidationsStay
<1>3. \A p \in Posts : Invalidations(p)' \subseteq Invalidations(p)
    BY <1>2
<1>4. \A j \in 1..Len(more) : more[j].op # "store"
    OBVIOUS
<1> QED BY <1>3, <1>4, RowsKept

\* What follows is the actions, as they touch the rows: a change on the server,
LEMMA RowsLog ==
    ASSUME RowsInv, ServerStep \/ Miss \/ \E p \in Posts : Patch(p)
    PROVE  RowsInv'
<1>1. FenceInv'
    BY FenceServer, FenceIdle, FencePatch DEF RowsInv
<1>2. /\ UNCHANGED <<fence, disk, heard, seq, queue, gets>>
    BY DEF ServerStep, Miss, Patch, memory, worker
<1>3. log \in Seq(Event) /\ pos \in 0..Len(log) /\ seq \in Nat /\ queue \in Seq(Command)
    BY DEF RowsInv, FenceInv, TypeOK
<1>4. \/ log' = log /\ pos' = pos + 1 /\ pos + 1 \in 1..Len(log)
      \/ pos' = pos /\ Len(log') = Len(log) + 1 /\ \A i \in 1..Len(log) : log'[i] = log[i]
  <2>1. CASE Miss
      BY <1>3, <2>1 DEF Miss, external
  <2>2. ASSUME NEW kind, NEW p, Change(kind, p)
        PROVE  Len(log') = Len(log) + 1 /\ \A i \in 1..Len(log) : log'[i] = log[i]
      BY <1>3, <2>2 DEF Change
  <2>3. CASE ServerStep
      BY <2>2, <2>3 DEF ServerStep, Publish, EditOrReact, Delete
  <2>4. CASE \E p \in Posts : Patch(p)
      BY <2>2, <2>4 DEF Patch
  <2> QED BY <2>1, <2>3, <2>4
<1>5. queue' = queue \o << >> /\ seq <= seq' /\ << >> \in Seq(Command)
    BY <1>2, <1>3
<1>6. \A j \in 1..Len(<< >>) : << >>[j].op = "read"
    OBVIOUS
<1> QED BY <1>1, <1>2, <1>4, <1>5, <1>6, RowsIdle

\* a step that touches no row,
LEMMA RowsQuiet ==
    ASSUME RowsInv,
           \/ DirectAdded \/ DirectResolved \/ DirectGivenUp \/ TakeResult
           \/ \E path \in Paths : Fail(path)
           \/ \E p \in Posts : Navigate(p) \/ ServeFetch(p) \/ NeedChannel(p) \/ FetchFails(p)
                               \/ Evict(p)
           \/ UNCHANGED vars
    PROVE  RowsInv'
<1>1. FenceInv'
    BY FenceStep DEF RowsInv, Next
<1>2. UNCHANGED <<fence, disk, heard, seq, queue, log, pos>>
    BY DEF DirectAdded, DirectResolved, DirectGivenUp, TakeResult, Fail, Navigate, ServeFetch,
           NeedChannel, FetchFails, Evict, memory, worker, external, vars
<1>3. seq \in Nat /\ queue \in Seq(Command)
      /\ gets \in [Paths -> [seq : 0..seq, served : BOOLEAN, rows : [Posts -> Body]]]
    BY DEF RowsInv, FenceInv, TypeOK
<1>4. \A path \in Paths : gets'[path] = gets[path] \/ ~gets'[path].served
  <2>1. CASE \E path \in Paths : Fail(path)
      BY <1>3, <2>1 DEF Fail, NoGet
  <2>2. CASE UNCHANGED gets
      BY <2>2
  <2> QED BY <2>1, <2>2 DEF DirectAdded, DirectResolved, DirectGivenUp, TakeResult, Navigate,
             ServeFetch, NeedChannel, FetchFails, Evict, vars
<1>5. queue' = queue \o << >> /\ seq <= seq' /\ << >> \in Seq(Command)
    BY <1>2, <1>3
<1>6. \A j \in 1..Len(<< >>) : << >>[j].op = "read"
    OBVIOUS
<1> QED BY <1>1, <1>2, <1>4, <1>5, <1>6, RowsIdle

\* a request,
LEMMA RowsRequest ==
    ASSUME RowsInv,
           \/ LoadCachedTail \/ \E page \in Pages : LoadPage(page)
           \/ \E c \in Loads, p \in Posts : LoadPost(c, p)
    PROVE  RowsInv'
<1>1. FenceInv'
    BY FenceStep DEF RowsInv, Next
<1>2. UNCHANGED <<fence, disk, heard, log, pos>>
    BY DEF LoadCachedTail, LoadPage, LoadPost, memory, worker, external
<1>3. seq \in Nat /\ queue \in Seq(Command)
      /\ gets \in [Paths -> [seq : 0..seq, served : BOOLEAN, rows : [Posts -> Body]]]
    BY DEF RowsInv, FenceInv, TypeOK
<1>4. ASSUME NEW path \in Paths, NEW s \in Nat, Send(path, s)
      PROVE  /\ \A x \in Paths : gets'[x] = gets[x] \/ ~gets'[x].served
             /\ s <= seq'
    BY <1>3, <1>4 DEF Send
<1>5. /\ \A x \in Paths : gets'[x] = gets[x] \/ ~gets'[x].served
      /\ seq <= seq'
  <2>1. CASE LoadCachedTail
      BY <1>3, <2>1 DEF LoadCachedTail
  <2>2. CASE \E page \in Pages : LoadPage(page)
      BY <1>3, <1>4, <2>2 DEF LoadPage, Paths
  <2>3. ASSUME NEW c \in Loads, NEW p \in Posts, LoadPost(c, p)
        PROVE  (\A x \in Paths : gets'[x] = gets[x] \/ ~gets'[x].served) /\ seq <= seq'
    <3>1. Send(p, seq + 1) /\ p \in Paths /\ seq + 1 \in Nat
        BY <1>3, <2>3 DEF LoadPost, Paths
    <3>2. (\A x \in Paths : gets'[x] = gets[x] \/ ~gets'[x].served) /\ seq + 1 <= seq'
        BY <1>4, <3>1
    <3>3. seq' \in Nat
        BY <1>1 DEF FenceInv, TypeOK
    <3> QED BY <1>3, <3>2, <3>3
  <2> QED BY <2>1, <2>2, <2>3
<1>6. \E more \in Seq(Command) : queue' = queue \o more
          /\ \A j \in 1..Len(more) : more[j].op = "read"
  <2>1. CASE \E page \in Pages : LoadPage(page)
    <3>1. queue' = queue \o << >> /\ << >> \in Seq(Command)
        BY <1>3, <2>1 DEF LoadPage
    <3>2. \A j \in 1..Len(<< >>) : << >>[j].op = "read"
        OBVIOUS
    <3> QED BY <3>1, <3>2
  <2>2. ASSUME NEW pss \in SUBSET SUBSET Posts, NEW s \in Nat, NEW cs \in SUBSET Loads,
               queue' = Append(queue, Read(pss, s, cs))
        PROVE  \E more \in Seq(Command) : queue' = queue \o more
                   /\ \A j \in 1..Len(more) : more[j].op = "read"
    <3>1. Read(pss, s, cs) \in Command /\ Read(pss, s, cs).op = "read"
        BY DEF Read, Command
    <3>2. << Read(pss, s, cs) >> \in Seq(Command)
        BY <3>1
    <3>3. queue' = queue \o << Read(pss, s, cs) >>
        BY <1>3, <2>2, <3>1, <3>2
    <3>4. \A j \in 1..Len(<< Read(pss, s, cs) >>) : << Read(pss, s, cs) >>[j].op = "read"
        BY <3>1
    <3> QED BY <3>2, <3>3, <3>4
  <2>3. seq + 1 \in Nat
      BY <1>3
  <2>4. CASE LoadCachedTail
    <3> DEFINE pss == {{q \in Posts : CreatedAt[q] >= CreatedAt[p]} : p \in Posts}
    <3>1. pss \in SUBSET SUBSET Posts /\ {} \in SUBSET Loads
        OBVIOUS
    <3>2. queue' = Append(queue, Read(pss, seq + 1, {}))
        BY <2>4 DEF LoadCachedTail
    <3> HIDE DEF pss
    <3> QED BY <2>2, <2>3, <3>1, <3>2
  <2>5. ASSUME NEW c \in Loads, NEW p \in Posts, LoadPost(c, p)
        PROVE  \E more \in Seq(Command) : queue' = queue \o more
                   /\ \A j \in 1..Len(more) : more[j].op = "read"
    <3>1. {{p}} \in SUBSET SUBSET Posts /\ {c} \in SUBSET Loads
        OBVIOUS
    <3> QED BY <2>2, <2>3, <2>5, <3>1 DEF LoadPost
  <2> QED BY <2>1, <2>4, <2>5
<1> QED BY <1>1, <1>2, <1>5, <1>6, RowsIdle

\* What is stored, if anything is, is these rows under this number.
LEMMA MayStoreRows ==
    ASSUME NEW rows \in [Posts -> Body], NEW s \in Nat, NEW more \in MayStore(rows, s)
    PROVE  /\ more \in Seq(Command)
           /\ \A j \in 1..Len(more) : more[j].op = "store" /\ more[j].rows = rows /\ more[j].seq = s
<1>1. Store(rows, s) \in Command /\ Store(rows, s).op = "store" /\ Store(rows, s).rows = rows
      /\ Store(rows, s).seq = s
    BY DEF Store, Command
<1>2. CASE more = << >>
    BY <1>2
<1>3. CASE more = << Store(rows, s) >>
    BY <1>1, <1>3
<1> QED BY <1>2, <1>3 DEF MayStore

\* The server reads its state: every change heard of is in it.
LEMMA RowsServe ==
    ASSUME RowsInv, NEW path \in Paths, Serve(path)
    PROVE  RowsInv'
<1>1. FenceInv' /\ FenceInv
    BY FenceServe DEF RowsInv
<1>2. UNCHANGED <<fence, disk, heard, log, pos, queue, seq, server>>
    BY DEF Serve, memory, worker, external
<1>3. seq \in Nat /\ queue \in Seq(Command)
      /\ gets \in [Paths -> [seq : 0..seq, served : BOOLEAN, rows : [Posts -> Body]]]
    BY <1>1 DEF FenceInv, TypeOK
<1>4. \A p \in Posts : Invalidations(p)' = Invalidations(p) /\ Invalidations(p) \subseteq 1..server[p]
    BY <1>1, <1>2, InvalidationsStay, InvalidationsHeard
<1>5. \A p \in Posts : Shown(Invalidations(p), Rows(Asked(path), "request")[p])
    BY <1>4 DEF Shown, Rows, NoBody, Shows
<1>6. \A x \in Paths : gets'[x] = gets[x] \/ gets'[x].rows = Rows(Asked(path), "request")
    BY <1>3 DEF Serve
<1>7. \A x \in Paths : \/ gets'[x] = gets[x]
                       \/ \A p \in Posts : Shown(Invalidations(p), gets'[x].rows[p])
    BY <1>5, <1>6
<1>8. \A x \in Paths : \/ gets'[x] = gets[x] \/ ~gets'[x].served
                       \/ \A p \in Posts : Shown(Invalidations(p)', gets'[x].rows[p])
    BY <1>4, <1>7 DEF Shown
<1>9. queue' = queue \o << >> /\ seq <= seq' /\ << >> \in Seq(Command)
    BY <1>2, <1>3
<1>10. \A j \in 1..Len(<< >>) : << >>[j].op # "store"
    OBVIOUS
<1>11. \A p \in Posts : Invalidations(p)' \subseteq Invalidations(p)
    BY <1>4
<1> QED BY <1>1, <1>2, <1>8, <1>9, <1>10, <1>11, RowsKept

\* An answer hands on what was asked of it.
LEMMA RowsAnswer ==
    ASSUME RowsInv, NEW path \in Paths, Answer(path)
    PROVE  RowsInv'
<1> DEFINE g == gets[path]
<1>1. FenceInv' /\ FenceInv
    BY FenceAnswer DEF RowsInv
<1>2. UNCHANGED <<fence, disk, heard, log, pos, seq>> /\ g.served
    BY DEF Answer, worker, external
<1>3. seq \in Nat /\ queue \in Seq(Command)
      /\ gets \in [Paths -> [seq : 0..seq, served : BOOLEAN, rows : [Posts -> Body]]]
    BY <1>1 DEF FenceInv, TypeOK
<1>4. g.seq \in Nat /\ g.seq <= seq /\ g.rows \in [Posts -> Body]
    BY <1>3
<1>5. PICK more \in MayStore(g.rows, g.seq) : queue' = queue \o more
    BY DEF Answer
<1>6. /\ more \in Seq(Command)
      /\ \A j \in 1..Len(more) : more[j].op = "store" /\ more[j].rows = g.rows /\ more[j].seq = g.seq
    BY <1>4, <1>5, MayStoreRows
<1>7. \A p \in Posts : Invalidations(p)' = Invalidations(p)
    BY <1>1, <1>2, InvalidationsStay
<1>8. \A p \in Posts : Shown(Invalidations(p), g.rows[p]) \/ Fenced(fence, queue, p, g.seq)
    BY <1>2 DEF RowsInv, AnswersFresh
<1>9. /\ \A i \in 1..Len(queue) : i \in 1..Len(queue') /\ queue'[i] = queue[i]
    BY <1>3, <1>5, <1>6, QueueGrows
<1>10. \A p \in Posts : Fenced(fence, queue, p, g.seq) => Fenced(fence', queue', p, g.seq)
    BY <1>2, <1>9 DEF Fenced
<1>11. \A p \in Posts : Shown(Invalidations(p)', g.rows[p]) \/ Fenced(fence', queue', p, g.seq)
    BY <1>7, <1>8, <1>10 DEF Shown
<1>12. \A x \in Paths : gets'[x] = gets[x] \/ ~gets'[x].served
    BY <1>3 DEF Answer, NoGet
<1>13. seq <= seq' /\ g.seq <= seq'
    BY <1>2, <1>3, <1>4
<1>14. \A p \in Posts : Invalidations(p)' \subseteq Invalidations(p)
    BY <1>7
<1>15. \A j \in 1..Len(more) : more[j].op = "store" =>
           /\ more[j].seq <= seq'
           /\ \A p \in Posts : Shown(Invalidations(p)', more[j].rows[p])
                               \/ Fenced(fence', queue', p, more[j].seq)
    BY <1>6, <1>11, <1>13
<1> QED BY <1>1, <1>2, <1>5, <1>6, <1>12, <1>13, <1>14, <1>15, RowsKept

\* A post that is learned as a whole is handed to the worker as it is.
LEMMA RowsLearned ==
    ASSUME RowsInv, FenceInv', UNCHANGED <<fence, disk, gets>>,
           NEW p \in Posts, NEW body \in Body, CachePostObject(p, body),
           \A q \in Posts : Invalidations(q)' \subseteq Invalidations(q),
           Shown(Invalidations(p)', body)
    PROVE  RowsInv'
<1>1. seq \in Nat /\ seq + 1 \in Nat /\ seq' = seq + 1 /\ seq <= seq' /\ seq + 1 <= seq'
  <2>1. seq \in Nat
      BY DEF RowsInv, FenceInv, TypeOK
  <2> QED BY <2>1 DEF CachePostObject
<1>2. PICK more \in MayStore(One(p, body), seq + 1) : queue' = queue \o more
    BY DEF CachePostObject
<1>3. One(p, body) \in [Posts -> Body]
    BY BodyTyped, RowsTyped DEF One
<1>4. /\ more \in Seq(Command)
      /\ \A j \in 1..Len(more) : more[j].op = "store" /\ more[j].rows = One(p, body)
                                 /\ more[j].seq = seq + 1
    BY <1>1, <1>2, <1>3, MayStoreRows
<1>5. \A q \in Posts : Shown(Invalidations(q)', One(p, body)[q])
    BY DEF Shown, One, NoRows, NoBody
<1>6. \A j \in 1..Len(more) : more[j].op = "store" =>
          /\ more[j].seq <= seq'
          /\ \A q \in Posts : Shown(Invalidations(q)', more[j].rows[q])
                              \/ Fenced(fence', queue', q, more[j].seq)
    BY <1>1, <1>4, <1>5
<1>7. \A x \in Paths : gets'[x] = gets[x]
    OBVIOUS
<1> QED BY <1>1, <1>2, <1>4, <1>6, <1>7, RowsKept

\* an answer numbered on arrival,
LEMMA RowsArrive ==
    ASSUME RowsInv, NEW p \in Posts, Arrive(p)
    PROVE  RowsInv'
<1>1. FenceInv' /\ FenceInv
    BY FenceAppears DEF RowsInv
<1>2. UNCHANGED <<fence, disk, heard, log, pos, gets>>
    BY DEF Arrive, worker, external
<1>3. \A q \in Posts : Invalidations(q)' \subseteq Invalidations(q)
    BY <1>1, <1>2, InvalidationsStay
<1>4. fetches[p].body \in Body /\ fetches[p].body.by \in {"none", "arrival"}
  <2>1. fetches \in [Posts -> Fetch]
      BY <1>1 DEF FenceInv, TypeOK
  <2> QED BY <1>1, <2>1 DEF Fetch, FenceInv, FetchesMarked
<1>5. Shown(Invalidations(p)', fetches[p].body)
    BY <1>4 DEF Shown
<1>6. CachePostObject(p, fetches[p].body)
    BY DEF Arrive
<1> QED BY <1>1, <1>2, <1>3, <1>4, <1>5, <1>6, RowsLearned

\* An event shows the post as it is, or fences it.
LEMMA RowsHear ==
    ASSUME RowsInv, Hear
    PROVE  RowsInv'
<1> DEFINE e == log[pos + 1]
<1>1. FenceInv' /\ FenceInv
    BY FenceHear DEF RowsInv
<1>2. /\ UNCHANGED <<fence, disk, gets, log, server>> /\ pos' = pos + 1
      /\ heard' = [heard EXCEPT ![e.post] = @ \cup {e.n}]
    BY DEF Hear, worker, external
<1>3. /\ pos + 1 \in 1..Len(log) /\ e \in Event /\ seq \in Nat /\ queue \in Seq(Command)
  <2>1. log \in Seq(Event) /\ pos \in 0..Len(log) /\ seq \in Nat /\ queue \in Seq(Command)
      BY <1>1 DEF FenceInv, TypeOK
  <2>2. pos + 1 \in 1..Len(log)
      BY <2>1 DEF Hear
  <2> QED BY <2>1, <2>2
<1>4. e.post \in Posts /\ e.n \in Nat
    BY <1>3 DEF Event
<1>5. \A q \in Posts :
          e.post # q \/ e.kind \notin {"reaction", "deleted"}
              => Invalidations(q)' \subseteq Invalidations(q)
    BY <1>1, <1>2, <1>3, InvalidationsGrow
<1>6. CASE e.kind \in {"posted", "edited"}
  <2>1. \A q \in Posts : Invalidations(q)' \subseteq Invalidations(q)
      BY <1>5, <1>6
  <2>2. PICK p \in Posts, n \in Nat : p = e.post /\ n = e.n
      BY <1>4
  <2>3. Invalidations(p)' \subseteq 1..n
    <3>1. Invalidations(p) \subseteq heard[p] /\ Invalidations(p) \subseteq 1..server[p]
        BY <1>1, InvalidationsHeard
    <3>2. \A m \in heard[p] : m < n
      <4>1. pos \in Nat /\ pos + 1 > pos
          BY <1>1 DEF FenceInv, TypeOK
      <4> QED BY <1>1, <1>3, <2>2, <4>1 DEF FenceInv, HeardInOrder
    <3>3. server[p] \in Nat
        BY <1>1 DEF FenceInv, TypeOK
    <3>4. \A m \in Invalidations(p) : m \in 1..n
        BY <3>1, <3>2, <3>3
    <3> QED BY <2>1, <3>4
  <2> DEFINE body == Shows(1..n, "event")
  <2>4. Shown(Invalidations(p)', body)
      BY <2>3 DEF Shown, Shows
  <2>5. CachePostObject(p, body)
      BY <1>6, <2>2 DEF Hear, HearPosted, HearEdited
  <2>6. body \in Body
      BY DEF Shows, Body
  <2>7. UNCHANGED <<fence, disk, gets>>
      BY <1>2
  <2> HIDE DEF e, body
  <2> QED BY <1>1, <2>1, <2>4, <2>5, <2>6, <2>7, RowsLearned
<1>7. CASE e.kind \in {"reaction", "deleted"}
  <2>1. queue' = Append(queue, Remove(e.post, seq + 1)) /\ seq' = seq + 1
      BY <1>7 DEF Hear, HearChanged, InvalidateCachedPost
  <2> DEFINE more == << Remove(e.post, seq + 1) >>
  <2>2. Remove(e.post, seq + 1) \in Command
      BY <1>3, <1>4 DEF Remove, Command
  <2>3. more \in Seq(Command) /\ queue' = queue \o more
      BY <1>3, <2>1, <2>2
  <2>4. \A j \in 1..Len(more) : more[j].op # "store"
      BY DEF Remove
  <2>5. \E j \in 1..Len(queue') : queue'[j].op = "remove" /\ queue'[j].post = e.post
                                  /\ queue'[j].seq = seq + 1
    <3>1. Len(queue) + 1 \in 1..Len(queue') /\ queue'[Len(queue) + 1] = Remove(e.post, seq + 1)
        BY <1>3, <2>1, <2>2
    <3> QED BY <3>1 DEF Remove
  <2>6. \A q \in Posts :
           \/ Invalidations(q)' \subseteq Invalidations(q)
           \/ \E j \in 1..Len(queue') : queue'[j].op = "remove" /\ queue'[j].post = q
                                        /\ queue'[j].seq = seq + 1
      BY <1>5, <2>5
  <2>7. seq <= seq' /\ \A x \in Paths : gets'[x] = gets[x]
      BY <1>2, <1>3, <2>1
  <2> HIDE DEF more
  <2> QED BY <1>1, <1>2, <2>3, <2>4, <2>6, <2>7, RowsKept
<1> QED BY <1>3, <1>6, <1>7 DEF Event

\* A step that leaves the queue alone or takes its head keeps what is not a
\* removal at the head.
LEMMA QueueShrinks ==
    ASSUME queue \in Seq(Command), queue # << >>, queue' = Tail(queue)
    PROVE  /\ Head(queue) \in Command /\ 1 \in 1..Len(queue) /\ queue[1] = Head(queue)
           /\ \A i \in 1..Len(queue') : i + 1 \in 1..Len(queue) /\ queue'[i] = queue[i + 1]
           /\ \A i \in 1..Len(queue) : i # 1 => i - 1 \in 1..Len(queue') /\ queue'[i - 1] = queue[i]
<1>1. Len(queue) \in Nat /\ Len(queue) >= 1 /\ Len(queue') = Len(queue) - 1
    OBVIOUS
<1>2. Head(queue) = queue[1] /\ queue[1] \in Command
    BY <1>1
<1>3. \A i \in 1..Len(queue') : i + 1 \in 1..Len(queue) /\ queue'[i] = queue[i + 1]
    BY <1>1
<1>4. \A i \in 1..Len(queue) : i # 1 => i - 1 \in 1..Len(queue') /\ queue'[i - 1] = queue[i]
    BY <1>1
<1> QED BY <1>1, <1>2, <1>3, <1>4

\* The worker carries out the command at the head.
LEMMA RowsWork ==
    ASSUME RowsInv, Work
    PROVE  RowsInv'
<1> DEFINE c == Head(queue)
<1>1. FenceInv' /\ FenceInv
    BY FenceIdle DEF RowsInv
<1>2. UNCHANGED <<heard, log, pos, seq, gets>> /\ queue # << >> /\ queue' = Tail(queue)
    BY DEF Work, memory, external
<1>3. /\ queue \in Seq(Command) /\ fence \in [Posts -> Nat] /\ disk \in [Posts -> Body]
      /\ gets \in [Paths -> [seq : 0..seq, served : BOOLEAN, rows : [Posts -> Body]]] /\ seq \in Nat
    BY <1>1 DEF FenceInv, TypeOK
<1>4. /\ c \in Command /\ 1 \in 1..Len(queue) /\ queue[1] = c
      /\ \A i \in 1..Len(queue') : i + 1 \in 1..Len(queue) /\ queue'[i] = queue[i + 1]
      /\ \A i \in 1..Len(queue) : i # 1 => i - 1 \in 1..Len(queue') /\ queue'[i - 1] = queue[i]
    BY <1>2, <1>3, QueueShrinks
<1>5. \A p \in Posts : Invalidations(p)' = Invalidations(p)
    BY <1>1, <1>2, InvalidationsStay
<1>6. \/ c.op = "store" /\ fence' = fence
            /\ disk' = [p \in Posts |-> IF p \in Unfenced(c.rows, c.seq) THEN c.rows[p] ELSE disk[p]]
      \/ c.op = "remove" /\ fence' = [fence EXCEPT ![c.post] = Larger(@, c.seq)]
            /\ disk' = [disk EXCEPT ![c.post] = NoBody]
      \/ c.op = "read" /\ fence' = fence /\ disk' = disk
    BY DEF Work, worker
<1>7. ASSUME NEW p \in Posts, NEW s \in Nat, Fenced(fence, queue, p, s)
      PROVE  Fenced(fence', queue', p, s)
  <2>1. CASE \E i \in 1..Len(queue) : i # 1 /\ queue[i].op = "remove" /\ queue[i].post = p /\ queue[i].seq > s
    <3>1. PICK i \in 1..Len(queue) : i # 1 /\ queue[i].op = "remove" /\ queue[i].post = p /\ queue[i].seq > s
        BY <2>1
    <3>2. i - 1 \in 1..Len(queue') /\ queue'[i - 1] = queue[i]
        BY <1>4, <3>1
    <3> QED BY <3>1, <3>2 DEF Fenced
  <2>2. CASE c.op = "remove" /\ c.post = p /\ c.seq > s
    <3>1. fence' = [fence EXCEPT ![p] = Larger(@, c.seq)] /\ fence[p] \in Nat
        BY <1>3, <1>6, <2>2
    <3>2. c.seq \in Nat
        BY <1>4, <2>2 DEF Command
    <3>3. fence'[p] = Larger(fence[p], c.seq)
        BY <1>3, <3>1
    <3>4. Larger(fence[p], c.seq) > s
        BY <2>2, <3>1, <3>2 DEF Larger
    <3> QED BY <3>3, <3>4 DEF Fenced
  <2>3. CASE fence[p] > s
    <3>1. CASE fence' = fence
        BY <2>3, <3>1 DEF Fenced
    <3>2. CASE c.op = "remove" /\ fence' = [fence EXCEPT ![c.post] = Larger(@, c.seq)]
      <4>1. c.seq \in Nat
          BY <1>4, <3>2 DEF Command
      <4>2. fence'[p] = fence[p] \/ fence'[p] = Larger(fence[p], c.seq)
          BY <1>3, <3>2
      <4>3. fence[p] \in Nat /\ Larger(fence[p], c.seq) >= fence[p]
          BY <1>3, <4>1 DEF Larger
      <4>4. Larger(fence[p], c.seq) \in Nat
          BY <4>1, <4>3 DEF Larger
      <4>5. fence'[p] > s
          BY <2>3, <4>2, <4>3, <4>4
      <4> QED BY <4>5 DEF Fenced
    <3> QED BY <1>6, <3>1, <3>2
  <2>4. ASSUME NEW i \in 1..Len(queue), queue[i].op = "remove", queue[i].post = p, queue[i].seq > s
        PROVE  Fenced(fence', queue', p, s)
      BY <1>4, <2>1, <2>2, <2>4
  <2> QED BY <1>7, <2>3, <2>4 DEF Fenced
<1>8. ASSUME NEW p \in Posts, RemovalComes(queue, p), ~(c.op = "remove" /\ c.post = p)
      PROVE  RemovalComes(queue', p)
  <2>1. PICK i \in 1..Len(queue) : queue[i].op = "remove" /\ queue[i].post = p
      BY <1>8 DEF RemovalComes
  <2>2. i - 1 \in 1..Len(queue') /\ queue'[i - 1] = queue[i]
      BY <1>4, <1>8, <2>1
  <2> QED BY <2>1, <2>2 DEF RemovalComes
<1>9. StoresFresh'
  <2> SUFFICES ASSUME NEW i \in 1..Len(queue'), queue'[i].op = "store"
               PROVE  /\ queue'[i].seq <= seq'
                      /\ \A p \in Posts : Shown(Invalidations(p)', queue'[i].rows[p])
                                          \/ Fenced(fence', queue', p, queue'[i].seq)
      BY DEF StoresFresh
  <2>1. i + 1 \in 1..Len(queue) /\ queue'[i] = queue[i + 1] /\ queue[i + 1] \in Command
      BY <1>3, <1>4
  <2> DEFINE d == queue[i + 1]
  <2>2. d.seq \in Nat /\ d.seq <= seq
        /\ \A p \in Posts : Shown(Invalidations(p), d.rows[p]) \/ Fenced(fence, queue, p, d.seq)
      BY <2>1 DEF RowsInv, StoresFresh, Command
  <2>3. \A p \in Posts : Shown(Invalidations(p)', d.rows[p]) \/ Fenced(fence', queue', p, d.seq)
      BY <1>5, <1>7, <2>2 DEF Shown
  <2> QED BY <1>2, <2>1, <2>2, <2>3
<1>10. AnswersFresh'
  <2> SUFFICES ASSUME NEW path \in Paths, NEW p \in Posts, gets'[path].served
               PROVE  Shown(Invalidations(p)', gets'[path].rows[p]) \/ Fenced(fence', queue', p, gets'[path].seq)
      BY DEF AnswersFresh
  <2>1. Shown(Invalidations(p), gets[path].rows[p]) \/ Fenced(fence, queue, p, gets[path].seq)
      BY <1>2 DEF RowsInv, AnswersFresh
  <2>2. gets[path].seq \in Nat
      BY <1>3
  <2> QED BY <1>2, <1>5, <1>7, <2>1, <2>2 DEF Shown
<1>11. DiskFresh'
  <2> SUFFICES ASSUME NEW p \in Posts PROVE Shown(Invalidations(p)', disk'[p]) \/ RemovalComes(queue', p)
      BY DEF DiskFresh
  <2>1. Shown(Invalidations(p), disk[p]) \/ RemovalComes(queue, p)
      BY DEF RowsInv, DiskFresh
  <2>2. CASE disk'[p] = disk[p] /\ ~(c.op = "remove" /\ c.post = p)
      BY <1>5, <1>8, <2>1, <2>2 DEF Shown
  <2>3. CASE c.op = "remove" /\ c.post = p
    <3>1. disk'[p] = NoBody
        BY <1>3, <1>6, <2>3
    <3> QED BY <3>1 DEF Shown, NoBody
  <2>4. CASE c.op = "store" /\ p \in Unfenced(c.rows, c.seq) /\ disk'[p] = c.rows[p]
    <3>1. Shown(Invalidations(p), c.rows[p]) \/ Fenced(fence, queue, p, c.seq)
        BY <1>4, <2>4 DEF RowsInv, StoresFresh
    <3>2. c.seq \in Nat /\ fence[p] \in Nat /\ ~(fence[p] > c.seq)
      <4>1. c.seq \in Nat /\ fence[p] \in Nat
          BY <1>3, <1>4, <2>4 DEF Command
      <4>2. fence[p] < c.seq
          BY <2>4 DEF Unfenced
      <4> QED BY <4>1, <4>2
    <3>3. Shown(Invalidations(p), c.rows[p]) \/ RemovalComes(queue, p)
        BY <3>1, <3>2 DEF Fenced, RemovalComes
    <3> QED BY <1>5, <1>8, <2>4, <3>3 DEF Shown
  <2> QED BY <1>3, <1>6, <2>2, <2>3, <2>4
<1> QED BY <1>1, <1>9, <1>10, <1>11 DEF RowsInv

\* A row is pruned, or the process starts again.
LEMMA RowsPrune ==
    ASSUME RowsInv, NEW p \in Posts, Prune(p)
    PROVE  RowsInv'
<1>1. FenceInv' /\ FenceInv
    BY FenceIdle DEF RowsInv
<1>2. UNCHANGED <<heard, log, pos, seq, gets, queue, fence>>
    BY DEF Prune, memory, external
<1>3. \A q \in Posts : Invalidations(q)' = Invalidations(q)
    BY <1>1, <1>2, InvalidationsStay
<1>4. \A q \in Posts : disk'[q] = disk[q] \/ disk'[q] = NoBody
  <2>1. disk \in [Posts -> Body]
      BY <1>1 DEF FenceInv, TypeOK
  <2> QED BY <2>1 DEF Prune
<1>5. StoresFresh'
    BY <1>2, <1>3 DEF RowsInv, StoresFresh, Shown
<1>6. AnswersFresh'
    BY <1>2, <1>3 DEF RowsInv, AnswersFresh, Shown
<1>7. DiskFresh'
    BY <1>2, <1>3, <1>4 DEF RowsInv, DiskFresh, Shown, NoBody
<1> QED BY <1>1, <1>5, <1>6, <1>7 DEF RowsInv

\* and a restart.
LEMMA RowsRestart ==
    ASSUME RowsInv, Restart
    PROVE  RowsInv'
<1>1. FenceInv'
    BY FenceRestart DEF RowsInv
<1>2. /\ queue' = << >> /\ (\A p \in Posts : heard'[p] = {})
      /\ \A path \in Paths : ~gets'[path].served
    BY DEF Restart, NoGet
<1>3. \A p \in Posts : Invalidations(p)' = {}
    BY <1>2 DEF Invalidations
<1>4. StoresFresh' /\ AnswersFresh' /\ DiskFresh'
    BY <1>2, <1>3 DEF StoresFresh, AnswersFresh, DiskFresh, Shown
<1> QED BY <1>1, <1>4 DEF RowsInv

\* RowsInv is inductive.
LEMMA RowsStep == RowsInv /\ [Next]_vars => RowsInv'
<1>1. ASSUME RowsInv, Next PROVE RowsInv'
    BY <1>1, RowsLog, RowsQuiet, RowsRequest, RowsServe, RowsAnswer, RowsArrive, RowsHear,
       RowsWork,
       RowsPrune, RowsRestart DEF Next
<1>2. ASSUME RowsInv, UNCHANGED vars PROVE RowsInv'
    BY <1>2, RowsQuiet
<1> QED BY <1>1, <1>2

\* A row never outlives a removal that an event asked for, whatever was stored
\* meanwhile and in which order the worker got to it.
THEOREM RowsStayRemoved == Spec => []RowsOutliveNoRemoval
<1>1. Init => RowsInv
    BY RowsInit
<1>2. RowsInv /\ [Next]_vars => RowsInv'
    BY RowsStep
<1>3. RowsInv => RowsOutliveNoRemoval
    BY DEF RowsInv, DiskFresh, RowsOutliveNoRemoval, Shown, RemovalComes
<1> QED BY <1>1, <1>2, <1>3, PTL DEF Spec

-----------------------------------------------------------------------------
(* loadPost asks the cache and the server: each of the two is either done  *)
(* or under way, and a call for which both are done has its outcome.       *)

Reading(c) ==
    \/ \E i \in 1..Len(queue) : queue[i].op = "read" /\ c \in queue[i].load
    \/ \E i \in 1..Len(results) : c \in results[i].load

Carried(c) ==
    /\ loads[c].cacheDone \/ Reading(c)
    /\ loads[c].httpDone \/ gets[loads[c].post].seq # 0
    /\ loads[c].outcome = "none" => ~(loads[c].cacheDone /\ loads[c].httpDone)

LoadsInv == TypeOK /\ \A c \in Loads : loads[c].post # NoPost => Carried(c)

\* More commands do not hide the read of a call.
LEMMA ReadingStays ==
    ASSUME queue \in Seq(Command), NEW more \in Seq(Command), queue' = queue \o more,
           results' = results, NEW c, Reading(c)
    PROVE  Reading(c)'
<1>1. \A i \in 1..Len(queue) : i \in 1..Len(queue') /\ queue'[i] = queue[i]
    BY QueueGrows
<1> QED BY <1>1 DEF Reading

\* Steps that settle no call.
LEMMA LoadsKept ==
    ASSUME LoadsInv, TypeOK', UNCHANGED <<loads, results>>,
           NEW more \in Seq(Command), queue' = queue \o more,
           \A x \in Paths : gets[x].seq # 0 => gets'[x].seq # 0
    PROVE  LoadsInv'
<1>1. queue \in Seq(Command) /\ loads \in [Loads -> Load]
    BY DEF LoadsInv, TypeOK
<1>2. ASSUME NEW c \in Loads, loads'[c].post # NoPost PROVE Carried(c)'
  <2>1. loads'[c] = loads[c] /\ Carried(c) /\ loads[c].post \in Paths
      BY <1>1, <1>2 DEF LoadsInv, Load, Paths
  <2>2. loads[c].cacheDone \/ Reading(c)'
      BY <1>1, <2>1, ReadingStays DEF Carried
  <2> QED BY <2>1, <2>2 DEF Carried
<1> QED BY <1>2 DEF LoadsInv

\* A step that touches no call keeps both of its halves;
LEMMA LoadsQuiet ==
    ASSUME LoadsInv,
           \/ ServerStep \/ Miss \/ DirectAdded \/ DirectResolved \/ DirectGivenUp
           \/ \E path \in Paths : Serve(path)
           \/ \E p \in Posts : Navigate(p) \/ ServeFetch(p) \/ Patch(p) \/ NeedChannel(p)
                               \/ FetchFails(p) \/ Prune(p) \/ Evict(p)
           \/ UNCHANGED vars
    PROVE  LoadsInv'
<1>1. TypeOK'
    BY StepTyped DEF LoadsInv, Next
<1>2. UNCHANGED <<loads, results, queue>>
    BY DEF ServerStep, Miss, DirectAdded, DirectResolved, DirectGivenUp, Serve, Navigate,
       ServeFetch,
           Patch, NeedChannel, FetchFails, Prune, Evict, vars
<1>3. queue' = queue \o << >> /\ << >> \in Seq(Command)
    BY <1>2 DEF LoadsInv, TypeOK
<1>4. gets \in [Paths -> [seq : 0..seq, served : BOOLEAN, rows : [Posts -> Body]]]
    BY DEF LoadsInv, TypeOK
<1>5. \A x \in Paths : gets[x].seq # 0 => gets'[x].seq # 0
  <2>1. CASE \E path \in Paths : Serve(path)
      BY <1>4, <2>1 DEF Serve
  <2>2. CASE UNCHANGED gets
      BY <2>2
  <2> QED BY <2>1, <2>2 DEF ServerStep, Miss, DirectAdded, DirectResolved, DirectGivenUp,
             Navigate,
             ServeFetch, Patch, NeedChannel, FetchFails, Prune, Evict, vars
<1> QED BY <1>1, <1>2, <1>3, <1>5, LoadsKept

\* Steps that tell the worker to store or to remove.
LEMMA LoadsCached ==
    ASSUME LoadsInv, Hear \/ \E p \in Posts : Arrive(p)
    PROVE  LoadsInv'
<1>1. TypeOK'
    BY StepTyped DEF LoadsInv, Next
<1>2. UNCHANGED <<loads, results, gets>>
    BY DEF Hear, Arrive
<1>3. seq \in Nat /\ queue \in Seq(Command)
    BY DEF LoadsInv, TypeOK
<1>4. ASSUME NEW p \in Posts, NEW body \in Body, CachePostObject(p, body)
      PROVE  \E more \in Seq(Command) : queue' = queue \o more
  <2>1. PICK more \in MayStore(One(p, body), seq + 1) : queue' = queue \o more
      BY <1>4 DEF CachePostObject
  <2>2. One(p, body) \in [Posts -> Body]
      BY BodyTyped, RowsTyped DEF One
  <2>3. seq + 1 \in Nat
      BY <1>3
  <2>4. more \in Seq(Command)
      BY <2>1, <2>2, <2>3, MayStoreRows
  <2> QED BY <2>1, <2>4
<1>5. CASE Hear
  <2> DEFINE e == log[pos + 1]
  <2>1. e \in Event
    <3>1. log \in Seq(Event) /\ pos \in 0..Len(log)
        BY DEF LoadsInv, TypeOK
    <3> QED BY <1>5, <3>1 DEF Hear
  <2>2. CASE e.kind \in {"posted", "edited"}
    <3>1. CachePostObject(e.post, Shows(1..e.n, "event"))
        BY <1>5, <2>2 DEF Hear, HearPosted, HearEdited
    <3>2. Shows(1..e.n, "event") \in Body /\ e.post \in Posts
        BY <2>1 DEF Shows, Body, Event
    <3>3. \E more \in Seq(Command) : queue' = queue \o more
        BY <1>4, <3>1, <3>2
    <3> QED BY <1>1, <1>2, <3>3, LoadsKept
  <2>3. CASE e.kind \in {"reaction", "deleted"}
    <3>1. queue' = Append(queue, Remove(e.post, seq + 1))
        BY <1>5, <2>3 DEF Hear, HearChanged, InvalidateCachedPost
    <3>2. Remove(e.post, seq + 1) \in Command
        BY <1>3, <2>1 DEF Remove, Command, Event
    <3>3. << Remove(e.post, seq + 1) >> \in Seq(Command)
          /\ queue' = queue \o << Remove(e.post, seq + 1) >>
        BY <1>3, <3>1, <3>2
    <3> QED BY <1>1, <1>2, <3>3, LoadsKept
  <2> QED BY <2>1, <2>2, <2>3 DEF Event
<1>6. ASSUME NEW p \in Posts, Arrive(p) PROVE LoadsInv'
  <2>1. fetches[p].body \in Body
    <3>1. fetches \in [Posts -> Fetch]
        BY DEF LoadsInv, TypeOK
    <3> QED BY <3>1 DEF Fetch
  <2>2. \E more \in Seq(Command) : queue' = queue \o more
      BY <1>4, <1>6, <2>1 DEF Arrive
  <2> QED BY <1>1, <1>2, <2>2, LoadsKept
<1> QED BY <1>5, <1>6

\* What is asked of the worker.
LEMMA ReadAsked ==
    ASSUME NEW pss \in SUBSET SUBSET Posts, NEW s \in Nat, NEW cs \in SUBSET Loads,
           queue \in Seq(Command), queue' = Append(queue, Read(pss, s, cs))
    PROVE  /\ << Read(pss, s, cs) >> \in Seq(Command) /\ queue' = queue \o << Read(pss, s, cs) >>
           /\ Len(queue) + 1 \in 1..Len(queue') /\ queue'[Len(queue) + 1] = Read(pss, s, cs)
<1>1. Read(pss, s, cs) \in Command
    BY DEF Read, Command
<1> QED BY <1>1

\* A call begins.
LEMMA LoadsBegin ==
    ASSUME LoadsInv,
           \/ LoadCachedTail \/ \E page \in Pages : LoadPage(page)
           \/ \E c \in Loads, p \in Posts : LoadPost(c, p)
    PROVE  LoadsInv'
<1>1. TypeOK'
    BY StepTyped DEF LoadsInv, Next
<1>2. /\ seq \in Nat /\ queue \in Seq(Command) /\ loads \in [Loads -> Load]
      /\ gets \in [Paths -> [seq : 0..seq, served : BOOLEAN, rows : [Posts -> Body]]]
    BY DEF LoadsInv, TypeOK
<1>3. ASSUME NEW path \in Paths, NEW s \in Nat, Send(path, s)
      PROVE  gets'[path].seq # 0 /\ \A x \in Paths : gets[x].seq # 0 => gets'[x].seq # 0
    BY <1>2, <1>3 DEF Send
<1>4. CASE LoadCachedTail
  <2> DEFINE pss == {{q \in Posts : CreatedAt[q] >= CreatedAt[p]} : p \in Posts}
  <2>1. pss \in SUBSET SUBSET Posts /\ {} \in SUBSET Loads /\ seq + 1 \in Nat
      BY <1>2
  <2>2. queue' = Append(queue, Read(pss, seq + 1, {}))
      BY <1>4 DEF LoadCachedTail
  <2>3. UNCHANGED <<loads, results, gets>>
      BY <1>4 DEF LoadCachedTail
  <2> HIDE DEF pss
  <2>4. \E more \in Seq(Command) : queue' = queue \o more
      BY <1>2, <2>1, <2>2, ReadAsked
  <2> QED BY <1>1, <2>3, <2>4, LoadsKept
<1>5. ASSUME NEW page \in Pages, LoadPage(page) PROVE LoadsInv'
  <2>1. UNCHANGED <<loads, results, queue>> /\ queue' = queue \o << >> /\ << >> \in Seq(Command)
      BY <1>2, <1>5 DEF LoadPage
  <2>2. \A x \in Paths : gets[x].seq # 0 => gets'[x].seq # 0
      BY <1>2, <1>3, <1>5 DEF LoadPage, Paths
  <2> QED BY <1>1, <2>1, <2>2, LoadsKept
<1>6. ASSUME NEW c \in Loads, NEW p \in Posts, LoadPost(c, p) PROVE LoadsInv'
  <2>1. /\ loads[c] = Unloaded /\ loads' = [loads EXCEPT ![c].post = p] /\ results' = results
        /\ queue' = Append(queue, Read({{p}}, seq + 1, {c})) /\ Send(p, seq + 1)
      BY <1>6 DEF LoadPost
  <2>2. {{p}} \in SUBSET SUBSET Posts /\ {c} \in SUBSET Loads /\ seq + 1 \in Nat /\ p \in Paths
      BY <1>2 DEF Paths
  <2>3. gets'[p].seq # 0 /\ \A x \in Paths : gets[x].seq # 0 => gets'[x].seq # 0
      BY <1>3, <2>1, <2>2
  <2> DEFINE r == Read({{p}}, seq + 1, {c})
  <2>4. << r >> \in Seq(Command) /\ queue' = queue \o << r >>
        /\ Len(queue) + 1 \in 1..Len(queue') /\ queue'[Len(queue) + 1] = r
      BY <1>2, <2>1, <2>2, ReadAsked
  <2>5. ASSUME NEW d \in Loads, loads'[d].post # NoPost PROVE Carried(d)'
    <3>1. CASE d = c
      <4>1. Reading(c)'
        <5>1. r.op = "read" /\ c \in r.load
            BY DEF Read
        <5> QED BY <2>4, <5>1 DEF Reading
      <4>2. loads'[c] = [Unloaded EXCEPT !.post = p]
          BY <1>2, <2>1
      <4> QED BY <2>3, <3>1, <4>1, <4>2 DEF Carried, Unloaded
    <3>2. CASE d # c
      <4>1. loads'[d] = loads[d]
          BY <1>2, <2>1, <3>2
      <4>2. Carried(d) /\ loads[d].post \in Paths
          BY <1>2, <2>5, <4>1 DEF LoadsInv, Load, Paths
      <4>3. Reading(d) => Reading(d)'
          BY <1>2, <2>1, <2>4, ReadingStays
      <4> QED BY <2>3, <4>1, <4>2, <4>3 DEF Carried
    <3> QED BY <3>1, <3>2
  <2> QED BY <1>1, <2>5 DEF LoadsInv
<1> QED BY <1>4, <1>5, <1>6

\* A call whose two parts are done has an outcome.
LEMMA SettledDone ==
    ASSUME NEW load \in Load, NEW found \in BOOLEAN
    PROVE  Settled(load, found).outcome = "none" =>
               ~(Settled(load, found).cacheDone /\ Settled(load, found).httpDone)
<1>1. /\ Settled(load, found).cacheDone = load.cacheDone
      /\ Settled(load, found).httpDone = load.httpDone
    BY SettledTyped
<1>2. Settled(load, found).outcome = "none" => ~(load.cacheDone /\ load.httpDone)
    BY DEF Settled, Load
<1> QED BY <1>1, <1>2

\* The GET of a path ends: its calls are all told.
LEMMA LoadsTold ==
    ASSUME LoadsInv, TypeOK', NEW path \in Paths, NEW found \in BOOLEAN,
           loads' = HttpDone(path, found), results' = results,
           NEW more \in Seq(Command), queue' = queue \o more,
           gets' = [gets EXCEPT ![path] = NoGet]
    PROVE  LoadsInv'
<1>1. /\ queue \in Seq(Command) /\ loads \in [Loads -> Load]
      /\ gets \in [Paths -> [seq : 0..seq, served : BOOLEAN, rows : [Posts -> Body]]]
    BY DEF LoadsInv, TypeOK
<1>2. ASSUME NEW c \in Loads, loads'[c].post # NoPost PROVE Carried(c)'
  <2>1. Reading(c) => Reading(c)'
      BY <1>1, ReadingStays
  <2>2. CASE loads[c].post = path /\ ~loads[c].httpDone
    <3> DEFINE load == [loads[c] EXCEPT !.httpDone = TRUE]
    <3>1. load \in Load /\ load.httpDone /\ load.cacheDone = loads[c].cacheDone
          /\ load.post = loads[c].post
        BY <1>1 DEF Load
    <3>2. loads'[c] = Settled(load, found)
        BY <2>2 DEF HttpDone
    <3> HIDE DEF load
    <3> DEFINE settled == Settled(load, found)
    <3>3. loads'[c] = settled
        BY <3>2
    <3>4. /\ settled.post = load.post /\ settled.httpDone = load.httpDone
          /\ settled.cacheDone = load.cacheDone
          /\ settled.outcome = "none" => ~(settled.cacheDone /\ settled.httpDone)
        BY <3>1, SettledTyped, SettledDone
    <3> HIDE DEF settled
    <3>5. /\ loads'[c].post = loads[c].post /\ loads'[c].httpDone
          /\ loads'[c].cacheDone = loads[c].cacheDone
          /\ loads'[c].outcome = "none" => ~(loads'[c].cacheDone /\ loads'[c].httpDone)
        BY <3>1, <3>3, <3>4
    <3>6. Carried(c)
        BY <1>2, <3>5 DEF LoadsInv
    <3> QED BY <2>1, <3>5, <3>6 DEF Carried
  <2>3. CASE ~(loads[c].post = path /\ ~loads[c].httpDone)
    <3>1. loads'[c] = loads[c]
        BY <2>3 DEF HttpDone
    <3>2. Carried(c) /\ loads[c].post \in Paths
        BY <1>1, <1>2, <3>1 DEF LoadsInv, Load, Paths
    <3>3. loads[c].httpDone \/ gets'[loads[c].post].seq # 0
        BY <1>1, <2>3, <3>2 DEF Carried
    <3> QED BY <2>1, <3>1, <3>2, <3>3 DEF Carried
  <2> QED BY <2>2, <2>3
<1> QED BY <1>2 DEF LoadsInv

\* an answer ends the half it carries.
LEMMA LoadsAnswered ==
    ASSUME LoadsInv, NEW path \in Paths, Answer(path) \/ Fail(path)
    PROVE  LoadsInv'
<1>1. TypeOK'
    BY StepTyped DEF LoadsInv, Next
<1>2. /\ queue \in Seq(Command)
      /\ gets \in [Paths -> [seq : 0..seq, served : BOOLEAN, rows : [Posts -> Body]]] /\ seq \in Nat
    BY DEF LoadsInv, TypeOK
<1>3. CASE Fail(path)
  <2>1. queue' = queue \o << >> /\ << >> \in Seq(Command)
      BY <1>2, <1>3 DEF Fail
  <2> QED BY <1>1, <1>3, <2>1, LoadsTold DEF Fail
<1>4. CASE Answer(path)
  <2> DEFINE g == gets[path]
  <2>1. g.rows \in [Posts -> Body] /\ g.seq \in Nat
      BY <1>2
  <2>2. PICK more \in MayStore(g.rows, g.seq) : queue' = queue \o more
      BY <1>4 DEF Answer
  <2>3. more \in Seq(Command)
      BY <2>1, <2>2, MayStoreRows
  <2> DEFINE found == path \in Filled(g.rows) /\ known /\ resident'[path] # NoBody
  <2>4. found \in BOOLEAN
    <3>1. known \in BOOLEAN
        BY DEF LoadsInv, TypeOK
    <3> QED BY <3>1
  <2>5. loads' = HttpDone(path, found) /\ results' = results /\ gets' = [gets EXCEPT ![path] = NoGet]
      BY <1>4 DEF Answer
  <2> HIDE DEF found
  <2> QED BY <1>1, <2>2, <2>3, <2>4, <2>5, LoadsTold
<1> QED BY <1>3, <1>4

\* A read is carried out: its answer is under way.
LEMMA LoadsWork ==
    ASSUME LoadsInv, Work
    PROVE  LoadsInv'
<1> DEFINE h == Head(queue)
<1>1. TypeOK'
    BY StepTyped DEF LoadsInv, Next
<1>2. /\ queue \in Seq(Command) /\ results \in Seq(Result)
      /\ queue # << >> /\ queue' = Tail(queue) /\ UNCHANGED <<loads, gets>>
    BY DEF LoadsInv, TypeOK, Work
<1>3. /\ 1 \in 1..Len(queue) /\ queue[1] = h /\ h \in Command
      /\ \A i \in 1..Len(queue) : i # 1 => i - 1 \in 1..Len(queue') /\ queue'[i - 1] = queue[i]
    BY <1>2, QueueShrinks
<1>4. /\ \A i \in 1..Len(results) : i \in 1..Len(results') /\ results'[i] = results[i]
      /\ h.op = "read" => \E i \in 1..Len(results') : results'[i].load = h.load
  <2>1. CASE results' = results /\ h.op # "read"
      BY <2>1
  <2>2. CASE h.op = "read"
    <3>1. PICK ps \in h.posts :
             results' = Append(results, [seq |-> h.seq, load |-> h.load,
                                         rows |-> [p \in Posts |-> IF p \in ps THEN disk[p] ELSE NoBody]])
        BY <2>2 DEF Work
    <3> QED BY <1>2, <3>1
  <2>3. results' = results \/ h.op = "read"
      BY DEF Work
  <2> QED BY <2>1, <2>2, <2>3
<1>5. ASSUME NEW c \in Loads, Reading(c) PROVE Reading(c)'
  <2>1. CASE \E i \in 1..Len(results) : c \in results[i].load
      BY <1>4, <2>1 DEF Reading
  <2>2. ASSUME NEW i \in 1..Len(queue), queue[i].op = "read", c \in queue[i].load
        PROVE  Reading(c)'
    <3>1. CASE i = 1
        BY <1>3, <1>4, <2>2, <3>1 DEF Reading
    <3>2. CASE i # 1
        BY <1>3, <2>2, <3>2 DEF Reading
    <3> QED BY <3>1, <3>2
  <2> QED BY <1>5, <2>1, <2>2 DEF Reading
<1>6. \A c \in Loads : Carried(c) => Carried(c)'
    BY <1>2, <1>5 DEF Carried
<1> QED BY <1>1, <1>2, <1>6 DEF LoadsInv

\* The answer of the worker is taken.
LEMMA LoadsTaken ==
    ASSUME LoadsInv, TakeResult
    PROVE  LoadsInv'
<1> DEFINE r == Head(results)
<1>1. TypeOK'
    BY StepTyped DEF LoadsInv, Next
<1>2. /\ results \in Seq(Result) /\ loads \in [Loads -> Load] /\ known \in BOOLEAN
      /\ results # << >> /\ results' = Tail(results) /\ UNCHANGED <<queue, gets>>
    BY DEF LoadsInv, TypeOK, TakeResult
<1>3. \A i \in 1..Len(results) : i # 1 => i - 1 \in 1..Len(results') /\ results'[i - 1] = results[i]
    BY <1>2
<1>4. r = results[1]
    BY <1>2
<1>5. ASSUME NEW c \in Loads, c \notin r.load, Reading(c) PROVE Reading(c)'
  <2>1. ASSUME NEW i \in 1..Len(results), c \in results[i].load PROVE Reading(c)'
      BY <1>3, <1>4, <1>5, <2>1 DEF Reading
  <2>2. CASE \E i \in 1..Len(queue) : queue[i].op = "read" /\ c \in queue[i].load
      BY <1>2, <2>2 DEF Reading
  <2> QED BY <1>5, <2>1, <2>2 DEF Reading
<1>6. ASSUME NEW c \in Loads, loads'[c].post # NoPost PROVE Carried(c)'
  <2>1. CASE c \in r.load
    <3> DEFINE load == [loads[c] EXCEPT !.cacheDone = TRUE]
    <3> DEFINE found == /\ known /\ loads[c].post \in Filled(r.rows)
                        /\ resident'[loads[c].post] # NoBody
    <3>1. /\ load \in Load /\ load.cacheDone /\ load.httpDone = loads[c].httpDone
          /\ load.post = loads[c].post /\ found \in BOOLEAN
        BY <1>2 DEF Load
    <3>2. loads'[c] = Settled(load, found)
        BY <2>1 DEF TakeResult
    <3> HIDE DEF found, load
    <3> DEFINE settled == Settled(load, found)
    <3>3. loads'[c] = settled
        BY <3>2
    <3>4. /\ settled.post = load.post /\ settled.httpDone = load.httpDone
          /\ settled.cacheDone = load.cacheDone
          /\ settled.outcome = "none" => ~(settled.cacheDone /\ settled.httpDone)
        BY <3>1, SettledTyped, SettledDone
    <3> HIDE DEF settled
    <3>5. /\ loads'[c].post = loads[c].post /\ loads'[c].cacheDone
          /\ loads'[c].httpDone = loads[c].httpDone
          /\ loads'[c].outcome = "none" => ~(loads'[c].cacheDone /\ loads'[c].httpDone)
        BY <3>1, <3>3, <3>4
    <3>6. Carried(c)
        BY <1>6, <3>5 DEF LoadsInv
    <3> QED BY <1>2, <3>5, <3>6 DEF Carried
  <2>2. CASE c \notin r.load
    <3>1. loads'[c] = loads[c]
        BY <2>2 DEF TakeResult
    <3> QED BY <1>2, <1>5, <1>6, <2>2, <3>1 DEF LoadsInv, Carried
  <2> QED BY <2>1, <2>2
<1> QED BY <1>1, <1>6 DEF LoadsInv

\* LoadsInv is inductive.
LEMMA LoadsStep == LoadsInv /\ [Next]_vars => LoadsInv'
<1>1. CASE Restart
    BY StepTyped, <1>1 DEF LoadsInv, Next, Restart, Unloaded
<1>2. ASSUME LoadsInv, [Next]_vars, ~Restart PROVE LoadsInv'
    BY <1>2, LoadsQuiet, LoadsCached, LoadsBegin, LoadsAnswered, LoadsWork, LoadsTaken DEF Next
<1> QED BY <1>1, <1>2

\* A call of loadPost is told of the post or of its failure: until then the
\* worker or the server has yet to answer it.
THEOREM LoadsAreCarried == Spec => []NoLoadForgotten
<1>1. Init => LoadsInv
    BY InitTyped DEF Init, LoadsInv, Unloaded
<1>2. LoadsInv /\ [Next]_vars => LoadsInv'
    BY LoadsStep
<1>3. LoadsInv => NoLoadForgotten
    BY DEF LoadsInv, Carried, Reading, NoLoadForgotten
<1> QED BY <1>1, <1>2, <1>3, PTL DEF Spec

=============================================================================
