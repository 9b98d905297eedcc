----------------------------- MODULE DraftSync -----------------------------
(***************************************************************************)
(* DraftService: the ordinary draft of one conversation, kept in step with *)
(* the server's copy, which other clients of the user change too.          *)
(*                                                                         *)
(* The service posts drafts without waiting for one another, over several  *)
(* connections: the server takes the requests in any order, and the        *)
(* answers come back in any order.  The service reads the drafts of every  *)
(* team at each reconnection, and hears of changes by WebSocket events.    *)
(* Conversations meet only in the sync of all teams: the model has one     *)
(* conversation, in HomeTeam, and the other teams' replies without it.     *)
(* Times are drawn from one clock, which the server and the client share.  *)
(***************************************************************************)
EXTENDS Naturals, Sequences, SequencesExt, FiniteSets

CONSTANTS
    Typing,        \* the texts the user types, in their order: each is a new one
    OtherTexts,    \* the texts another client saves
    Blank,         \* the message of a tombstone
    Teams, HomeTeam,
    MaxPosts,      \* bound: draft requests under way
    MaxEvents,     \* bound: events under way
    MaxActs,       \* bound: texts cleared, flushed, sent or discarded
    MaxTroubles    \* bound: calls that fail, restarts, changes by other clients,
                   \* and syncs that begin while one is under way

Texts == ToSet(Typing)

ASSUME DraftAssumption ==
    /\ Typing \in Seq(Texts) /\ Texts \cap OtherTexts = {} /\ Blank \notin Texts \cup OtherTexts
    /\ HomeTeam \in Teams
    /\ MaxPosts \in Nat /\ MaxEvents \in Nat /\ MaxActs \in Nat /\ MaxTroubles \in Nat

VARIABLES
    entries,        \* the entry of the conversation, if there is one
    disabled,       \* remoteSyncDisabled
    posts,          \* the POSTs of syncEntry under way
    gets,           \* the GETs of syncAllTeams under way
    pending,        \* pendingTeamSyncs
    hadError,       \* teamSyncHadError
    seen,           \* remoteKeysSeen holds the conversation
    (* External: the server, and the events it has sent. *)
    row, events, clock,
    unused, acts, troubles,
    (* History. *)
    typed           \* the text the user typed last, if it is still owed to him

client  == <<entries, disabled, posts, gets, pending, hadError, seen>>
server  == <<row, events>>
bounds  == <<unused, acts, troubles>>
vars    == <<client, server, clock, bounds, typed>>

AllTexts == Texts \cup OtherTexts

Entry == [text : AllTexts \cup {Blank}, at : Nat, dirty : BOOLEAN,
          deleted : BOOLEAN, remote : BOOLEAN, requested : BOOLEAN]
Row   == [text : AllTexts, at : Nat]

\* A POST carries the entry it was made from; at is when the server took it, and
\* heard says that the process that sent it still waits for the answer.  History:
\* old, the user has typed since it was made.
Post == [draft : Entry, at : Nat, heard : BOOLEAN, old : BOOLEAN]
Get  == [team : Teams, current : BOOLEAN, read : BOOLEAN, rows : SUBSET Row]

TypeOK ==
    /\ entries \subseteq Entry /\ Cardinality(entries) <= 1
    /\ \A e \in entries : (e.deleted <=> e.text = Blank) /\ (e.deleted \/ e.requested => e.dirty)
    /\ row \subseteq Row /\ Cardinality(row) <= 1
    /\ posts \in Seq(Post) /\ gets \subseteq Get /\ events \in Seq(SUBSET Row)
    /\ pending = Cardinality({g \in gets : g.current})
    /\ typed \subseteq Texts /\ unused \in Seq(Texts)
    /\ {disabled, hadError, seen} \subseteq BOOLEAN
    /\ {clock, acts, troubles} \subseteq Nat

Init ==
    /\ entries = {} /\ disabled = FALSE /\ posts = <<>> /\ gets = {}
    /\ pending = 0 /\ hadError = FALSE /\ seen = FALSE
    /\ row = {} /\ events = <<>> /\ clock = 0
    /\ unused = Typing /\ acts = 0 /\ troubles = 0
    /\ typed = {}

\* nextUpdateTime, when the clock has moved on.
NextTime == IF \E e \in entries : e.at > clock
            THEN (CHOOSE e \in entries : TRUE).at + 1 ELSE clock + 1

Acts    == acts < MaxActs /\ acts' = acts + 1
Trouble == troubles < MaxTroubles /\ troubles' = troubles + 1

-----------------------------------------------------------------------------
(* The composer. *)

Request(draft) == [draft |-> draft, at |-> 0, heard |-> TRUE, old |-> FALSE]

\* syncEntry, up to its answer: it waits for no earlier call.
SyncEntry(draft) ==
    posts' = IF draft.requested /\ ~disabled THEN Append(posts, Request(draft)) ELSE posts

Tombstone(e, request) ==
    [text |-> Blank, at |-> NextTime, dirty |-> TRUE, deleted |-> TRUE,
     remote |-> e.remote, requested |-> request]

\* updateDraft with a text.
Type ==
    /\ unused # <<>> /\ unused' = Tail(unused)
    /\ entries' = {[text |-> Head(unused), at |-> NextTime, dirty |-> TRUE, deleted |-> FALSE,
                    remote |-> \E e \in entries : e.remote, requested |-> FALSE]}
    /\ clock' = clock + 1 /\ typed' = {Head(unused)}
    /\ posts' = [i \in DOMAIN posts |-> [posts[i] EXCEPT !.old = TRUE]]
    /\ UNCHANGED <<disabled, gets, pending, hadError, seen, server,
                   acts, troubles>>

\* updateDraft with an empty text.
Clear ==
    /\ \E e \in entries :
          /\ ~(e.deleted /\ ~e.requested /\ e.remote)
          /\ entries' = IF ~e.remote /\ ~e.requested THEN {}
                        ELSE {Tombstone(e, FALSE)}
    /\ clock' = clock + 1 /\ typed' = {} /\ Acts
    /\ UNCHANGED <<disabled, posts, gets, pending, hadError, seen, server, unused, troubles>>

\* flushDraft.
Flush ==
    /\ Len(posts) < MaxPosts /\ Acts
    /\ \E e \in entries :
          IF e.deleted /\ ~e.remote /\ ~e.requested
          THEN entries' = {} /\ UNCHANGED posts
          ELSE /\ e.dirty /\ ~disabled
               /\ entries' = {[e EXCEPT !.requested = TRUE]}
               /\ SyncEntry([e EXCEPT !.requested = TRUE])
    /\ UNCHANGED <<disabled, gets, pending, hadError, seen, server, clock, unused,
                   troubles, typed>>

\* removeDraft: the text was sent, or the user discards it.
Discard ==
    /\ Len(posts) < MaxPosts
    /\ \E e \in entries :
          IF disabled \/ (~e.remote /\ ~e.requested)
          THEN entries' = {} /\ UNCHANGED posts
          ELSE entries' = {Tombstone(e, TRUE)} /\ SyncEntry(Tombstone(e, TRUE))
    /\ clock' = clock + 1 /\ typed' = {} /\ Acts
    /\ UNCHANGED <<disabled, gets, pending, hadError, seen, server, unused, troubles>>

-----------------------------------------------------------------------------
(* The server: an upsert without a text deletes. *)

Announce(r) == Len(events) < MaxEvents /\ events' = Append(events, r)

\* A request made before the user typed what the server has replaces that text.
ServerTakes(i) ==
    /\ i \in DOMAIN posts /\ posts[i].at = 0
    /\ clock' = clock + 1
    /\ LET d == posts[i].draft
       IN row' = IF d.deleted THEN {} ELSE {[text |-> d.text, at |-> clock']}
    /\ Announce(row')
    /\ posts' = [posts EXCEPT ![i].at = clock']
    /\ typed' = IF posts[i].old THEN typed \ {r.text : r \in row} ELSE typed
    /\ UNCHANGED <<entries, disabled, gets, pending, hadError, seen, bounds>>

\* Another client saves or deletes the draft; it has seen what the server had.
OtherClient(texts) ==
    /\ Trouble
    /\ clock' = clock + 1
    /\ row' = {[text |-> t, at |-> clock'] : t \in texts}
    /\ row # {} \/ row' # {}
    /\ Announce(row')
    /\ typed' = typed \ {r.text : r \in row}
    /\ UNCHANGED <<client, unused, acts>>

-----------------------------------------------------------------------------
(* The answers to syncEntry. *)

\* disableRemoteSync: the server has no draft API.
DisableRemoteSync(others) ==
    /\ disabled' = TRUE /\ pending' = 0 /\ seen' = FALSE
    /\ gets' = {[g EXCEPT !.current = FALSE] : g \in others}
    /\ entries' = {[e EXCEPT !.requested = FALSE, !.remote = FALSE] :
                      e \in {x \in entries : ~x.deleted}}
    /\ UNCHANGED hadError

\* Mutant of Acknowledged: the edit is not compared.
AcknowledgedAny(cur, draft, at) ==
    IF cur.deleted # draft.deleted
    THEN {[cur EXCEPT !.remote = @ \/ (~draft.deleted /\ cur.deleted /\ cur.requested)]}
    ELSE IF draft.deleted THEN {}
    ELSE {[cur EXCEPT !.dirty = FALSE, !.remote = TRUE, !.requested = FALSE, !.at = at]}

\* The answer to draft, when cur is the entry: it counts only for the edit it was
\* made from.
Acknowledged(cur, draft, at) ==
    IF cur.at # draft.at \/ cur.text # draft.text \/ cur.deleted # draft.deleted
    THEN {[cur EXCEPT !.remote = @ \/ (~draft.deleted /\ cur.deleted /\ cur.requested)]}
    ELSE IF draft.deleted THEN {}
    ELSE {[cur EXCEPT !.dirty = FALSE, !.remote = TRUE, !.requested = FALSE, !.at = at]}

\* An entry deleted since draft was posted must be deleted on the server too.
DeleteAgain(cur, draft) ==
    ~draft.deleted /\ cur.deleted /\ cur.requested

PostAnswered(i) ==
    /\ i \in DOMAIN posts /\ posts[i].heard /\ posts[i].at # 0
    /\ LET draft == posts[i].draft
           rest == RemoveAt(posts, i)
       IN /\ entries' = UNION {Acknowledged(cur, draft, posts[i].at) : cur \in entries}
          /\ posts' = IF ~disabled /\ \E cur \in entries : DeleteAgain(cur, draft)
                      THEN Append(rest, Request(CHOOSE e \in entries' : TRUE))
                      ELSE rest
    /\ UNCHANGED <<disabled, gets, pending, hadError, seen, server, clock, bounds, typed>>

\* The call fails; the server has taken it, may take it yet, or never does.
PostFails(i) ==
    /\ i \in DOMAIN posts /\ posts[i].heard /\ Trouble
    /\ posts' = [posts EXCEPT ![i].heard = FALSE]
    /\ UNCHANGED <<entries, disabled, gets, pending, hadError, seen, server, clock,
                   unused, acts, typed>>

\* A request that nobody waits for is gone.
PostGone(i) ==
    /\ i \in DOMAIN posts /\ ~posts[i].heard
    /\ posts' = RemoveAt(posts, i)
    /\ UNCHANGED <<entries, disabled, gets, pending, hadError, seen, server, clock,
                   bounds, typed>>

\* The call is answered 404, 405 or 501.
PostUnsupported(i) ==
    /\ i \in DOMAIN posts /\ posts[i].heard /\ posts[i].at = 0 /\ Trouble
    /\ posts' = RemoveAt(posts, i)
    /\ IF disabled THEN UNCHANGED <<entries, disabled, gets, pending, hadError, seen>>
       ELSE DisableRemoteSync(gets)
    /\ UNCHANGED <<server, clock, unused, acts, typed>>

-----------------------------------------------------------------------------
(* The sync of all teams. *)

\* syncAllTeams, at a reconnection (which may have lost events) or when the
\* Drafts view opens: replies to an earlier sync are stale.
SyncAllTeams ==
    /\ ~disabled
    /\ IF pending = 0 THEN UNCHANGED troubles ELSE Trouble
    /\ gets' = {[g EXCEPT !.current = FALSE] : g \in gets}
               \cup {[team |-> t, current |-> TRUE, read |-> t # HomeTeam, rows |-> {}] : t \in Teams}
    /\ pending' = Cardinality(Teams) /\ hadError' = FALSE /\ seen' = FALSE
    /\ \/ UNCHANGED events
       \/ events' = <<>>
    /\ UNCHANGED <<entries, disabled, posts, row, clock, unused, acts, typed>>

\* The server answers with the drafts it has now.
ServerReads(g) ==
    /\ g \in gets /\ ~g.read
    /\ gets' = (gets \ {g}) \cup
               {[g EXCEPT !.read = TRUE, !.rows = row]}
    /\ UNCHANGED <<entries, disabled, posts, pending, hadError, seen, server, clock,
                   bounds, typed>>

Clean(r) ==
    [text |-> r.text, at |-> r.at, dirty |-> FALSE, deleted |-> FALSE,
     remote |-> TRUE, requested |-> FALSE]

\* The entries after the drafts of one team were merged into them.
Merged(rows) ==
    IF rows = {} THEN entries
    ELSE IF entries = {} THEN {Clean(r) : r \in rows}
    ELSE UNION {{IF e.dirty THEN [e EXCEPT !.remote = TRUE]
                 ELSE IF r.at > e.at THEN Clean(r) ELSE e : r \in rows} : e \in entries}

\* Mutant of Finished: what is gone from the server is kept.
FinishedKeeping(ents, onServer) ==
    {[e EXCEPT !.remote = onServer] :
        e \in {x \in ents : onServer \/ ~x.deleted}}

\* finishTeamSync: the entries after every team has answered.
Finished(ents, onServer) ==
    {[e EXCEPT !.remote = onServer] :
        e \in {x \in ents : onServer \/ (x.dirty /\ ~x.deleted)}}

\* Mutant of ToSync: deletions are not posted again.
ToSyncLive(ents) == {e \in ents : e.dirty /\ e.requested /\ ~e.deleted}

\* The entries finishTeamSync posts again: their call has failed, or is still
\* under way.
ToSync(ents) == {e \in ents : e.dirty /\ e.requested}

\* The reply of one team, and finishTeamSync after the last.
TeamAnswered(g, failed) ==
    /\ g \in gets /\ (g.read \/ failed) /\ Len(posts) < MaxPosts
    /\ gets' = gets \ {g}
    /\ IF ~g.current THEN UNCHANGED <<entries, posts, pending, hadError, seen>>
       ELSE LET merged == IF failed THEN entries ELSE Merged(g.rows) IN
            /\ seen' = (seen \/ (~failed /\ g.rows # {}))
            /\ hadError' = (hadError \/ failed)
            /\ pending' = pending - 1
            /\ IF pending = 1 /\ ~hadError'
               THEN LET finished == Finished(merged, seen')
                        again == ToSync(finished)
                    IN /\ entries' = finished
                       /\ posts' = posts \o SetToSeq({Request(e) : e \in again})
               ELSE entries' = merged /\ UNCHANGED posts
    /\ UNCHANGED <<disabled, server, clock, unused, acts, typed>>

GetAnswered(g) == TeamAnswered(g, FALSE) /\ UNCHANGED troubles
GetFails(g)    == TeamAnswered(g, TRUE) /\ Trouble

GetUnsupported(g) ==
    /\ g \in gets /\ g.current /\ Trouble
    /\ DisableRemoteSync(gets \ {g})
    /\ UNCHANGED <<posts, server, clock, unused, acts, typed>>

-----------------------------------------------------------------------------
(* applyRemoteDraftEvent. *)

AfterDeletion(e) ==
    IF e.dirty /\ ~e.deleted THEN {[e EXCEPT !.remote = FALSE]} ELSE {}

\* Mutant of AfterChange: only an entry with a text is spared.
AfterChangeOver(e, r) ==
    IF e.dirty /\ ~e.deleted
    THEN IF e.requested /\ e.text = r.text
         THEN {[e EXCEPT !.remote = TRUE, !.dirty = FALSE, !.requested = FALSE,
                         !.at = IF @ > r.at THEN @ ELSE r.at]}
         ELSE {[e EXCEPT !.remote = TRUE]}
    ELSE IF e.at > r.at THEN {e} ELSE {Clean(r)}

AfterChange(e, r) ==
    IF e.dirty
    THEN IF e.requested /\ ~e.deleted /\ e.text = r.text
         THEN {[e EXCEPT !.remote = TRUE, !.dirty = FALSE, !.requested = FALSE,
                         !.at = IF @ > r.at THEN @ ELSE r.at]}
         ELSE {[e EXCEPT !.remote = TRUE]}
    ELSE IF e.at > r.at THEN {e} ELSE {Clean(r)}

RemoteEvent ==
    /\ events # <<>> /\ events' = Tail(events)
    /\ IF disabled THEN UNCHANGED entries
       ELSE LET rows == Head(events) IN
            entries' = IF rows = {} THEN UNION {AfterDeletion(e) : e \in entries}
                       ELSE IF entries = {} THEN {Clean(r) : r \in rows}
                       ELSE UNION {AfterChange(e, r) : e \in entries, r \in rows}
    /\ UNCHANGED <<disabled, posts, gets, pending, hadError, seen, row, clock, bounds, typed>>

-----------------------------------------------------------------------------
\* The process ends and starts again: the entries are in the draft file, nobody
\* waits for the requests any more, which may still reach the server, and events
\* are lost.
Restart ==
    /\ Trouble
    /\ disabled' = FALSE /\ gets' = {} /\ pending' = 0 /\ hadError' = FALSE /\ seen' = FALSE
    /\ events' = <<>>
    /\ posts' = [i \in DOMAIN posts |-> [posts[i] EXCEPT !.heard = FALSE]]
    /\ UNCHANGED <<entries, row, clock, unused, acts, typed>>

Next ==
    \/ Type \/ Clear \/ Flush \/ Discard
    \/ \E i \in 1..MaxPosts : \/ ServerTakes(i) \/ PostAnswered(i)
                              \/ PostFails(i) \/ PostGone(i) \/ PostUnsupported(i)
    \/ OtherClient({}) \/ \E t \in OtherTexts : OtherClient({t})
    \/ SyncAllTeams
    \/ \E g \in gets : \/ ServerReads(g) \/ GetAnswered(g)
                       \/ GetFails(g) \/ GetUnsupported(g)
    \/ RemoteEvent \/ Restart

Spec == Init /\ [][Next]_vars

\* Calls and events arrive, and the WebSocket reconnects again and again.
Fairness ==
    /\ \A i \in 1..MaxPosts :
          WF_vars(ServerTakes(i)) /\ WF_vars(PostAnswered(i)) /\ WF_vars(PostGone(i))
    /\ WF_vars(pending = 0 /\ SyncAllTeams)
    /\ WF_vars(\E g \in gets : ServerReads(g))
    /\ WF_vars(\E g \in gets : GetAnswered(g))
    /\ WF_vars(RemoteEvent)

FairSpec == Spec /\ Fairness

-----------------------------------------------------------------------------
(* Properties. *)

\* What the user typed last is in his draft or was saved on the server, until he
\* clears it or, after the server has saved it, another client or a request of
\* this one that was made before he typed it replaces it there.  The code does
\* nothing about the order of its requests: that a late one undoes a saved text is
\* what the property leaves to it; no answer, sync or event that was under way
\* while he typed, and no late request before his text is saved, may replace it.
NothingTypedIsLost ==
    \A t \in typed :
        \/ \E e \in entries : e.text = t
        \/ \E r \in row : r.text = t

\* Only the user brings a deleted draft back while its deletion is not confirmed:
\* neither a sync nor an event that still shows the server's copy does.
TombstoneHolds ==
    [][\A e \in entries : e.deleted =>
          \A f \in entries' : f.deleted \/ unused' # unused]_vars

\* A requested upload or deletion is not forgotten: one whose call failed, or whose
\* answer a restart lost, is made again.
FlushSettles ==
    (\E e \in entries : e.requested) ~> (\A e \in entries : ~e.requested)

\* When everyone rests, the draft shown is the server's, or an edit that waits for
\* its flush.
Visible == {e.text : e \in {x \in entries : ~x.deleted}}
Converges ==
    <>[](disabled \/ (\E e \in entries : e.dirty /\ ~e.requested)
         \/ Visible = {r.text : r \in row})

\* "a previously published remote draft is deleted normally"
\* (presentation-chain.md): when no call is under way and none has failed, a text
\* the user sent or discarded is not left on the server, unless the deletion that
\* waits for its flush is kept.
DiscardReachesServer ==
    (typed = {} /\ posts = <<>> /\ troubles = 0) =>
        \A r \in row : r.text \in Texts => \E e \in entries : e.deleted

=============================================================================
