----------------------------- MODULE OutboxStore -----------------------------
(***************************************************************************)
(* What of the outbox survives the process: PendingPostService's file, its *)
(* recovery at the next start (loadStore) and the drafts that recovery     *)
(* hands the records to (DraftService, DraftStore).                        *)
(*                                                                         *)
(* Both files are replaced atomically (QSaveFile) and any write may fail.  *)
(* The process may quit or be killed between any two steps.  One           *)
(* conversation stands for all: it has one ordinary draft, and any number  *)
(* of recovered ones.  A message is named by its pending_post_id and,      *)
(* while it is still being typed, by its text.                             *)
(***************************************************************************)
EXTENDS Naturals

CONSTANTS
  Msgs,           \* messages, by pending_post_id
  None,           \* no ordinary draft
  KeyAtStart,     \* may DraftService already hold its key when loadStore runs?
  ReadResults,    \* the outcomes of opening and parsing the outbox file
  WriteResults,   \* the outcomes of replacing or removing a file
  MaxTimers,      \* bound: persist timers running at once
  MaxStarts       \* bound: times the process is started

ASSUME StoreAssumption ==
  /\ None \notin Msgs
  /\ \A outcomes \in {KeyAtStart, ReadResults, WriteResults} :
       outcomes \subseteq BOOLEAN
  /\ MaxTimers \in Nat /\ MaxStarts \in Nat

VARIABLES
  running,    \* the process is up and MainWindow built its services
  loaded,     \* DraftService::_loadedLocalDrafts
  order,      \* PendingPostService::order
  backlog,    \* PendingPostService::recoveryBacklog
  file,       \* the records in the outbox file; {} = no file
  entries,    \* DraftService::entries
  disk,       \* the draft file
  scheduled,  \* PendingPostService::persistRetryScheduled
  timers,     \* five-second persist timers that are running
  used,       \* history: messages enqueue accepted
  settled,    \* history: confirmed, cancelled or discarded by the user
  starts      \* process starts so far

outboxVars == <<order, backlog, file>>
draftVars  == <<entries, disk, loaded>>
retryVars  == <<scheduled, timers>>
history    == <<used, settled>>
vars == <<running, outboxVars, draftVars, retryVars, history, starts>>

Drafts == [recovered : SUBSET Msgs, ordinary : Msgs \cup {None}]

BlankDrafts == [recovered |-> {}, ordinary |-> ""]

NoDrafts == [recovered |-> {}, ordinary |-> None]

-----------------------------------------------------------------------------
(* Writing the two files.                                                  *)

LiveOnly(ok, rows) == IF ok THEN rows ELSE file

\* persist: one snapshot of the recovery backlog and the live rows.
Persisted(ok, rows) == IF ok THEN backlog \cup rows ELSE file

\* persistBestEffort, when `armed` timers run and `waiting` is the flag.
BestEffort(ok, rows, waiting, armed) ==
  /\ ok \/ waiting \/ armed < MaxTimers
  /\ file' = Persisted(ok, rows)
  /\ scheduled' = ~ok
  /\ timers' = IF ok \/ waiting THEN armed ELSE armed + 1

\* DraftService::persist, which fails until the stored drafts were loaded.
Saved(ok, drafts) == IF ok /\ loaded THEN drafts ELSE disk

DropOrdinary(drafts, handed) == [drafts EXCEPT !.ordinary = None]

\* loadStore discards an ordinary draft that equals a recovered record.
DropDuplicate(drafts, handed) ==
  IF drafts.ordinary \in handed
    THEN [drafts EXCEPT !.ordinary = None] ELSE drafts

-----------------------------------------------------------------------------
Init ==
  /\ running = FALSE /\ loaded = FALSE
  /\ order = {} /\ backlog = {} /\ file = {}
  /\ entries = NoDrafts /\ disk = NoDrafts
  /\ scheduled = FALSE /\ timers = 0
  /\ used = {} /\ settled = {}
  /\ starts = 0

\* PendingPostService's constructor; loadStore creates the DraftService.
Started(key) ==
  /\ ~running /\ starts < MaxStarts
  /\ key \in KeyAtStart
  /\ running' = TRUE /\ loaded' = key /\ starts' = starts + 1
  /\ UNCHANGED <<order, retryVars, history>>

\* No file, or one that cannot be read: loadStore returns early.
StartEmpty(key, readable) ==
  /\ Started(key)
  /\ file = {} \/ (~readable /\ readable \in ReadResults)
  /\ entries' = IF key THEN disk ELSE NoDrafts
  /\ UNCHANGED <<backlog, file, disk>>

\* Without the key the first addRecoveredDraft cannot be saved.
StartLocked ==
  /\ Started(FALSE)
  /\ file # {}
  /\ backlog' = file
  /\ UNCHANGED <<file, entries, disk>>

\* With the key the records are handed over up to the first failed write; a
\* record that is a draft already needs none.
StartRecovering(handed, dropped, removed) ==
  LET kept == [disk EXCEPT !.recovered = @ \cup handed]
  IN /\ Started(TRUE)
     /\ file # {} /\ handed \subseteq file
     /\ {dropped, removed} \subseteq WriteResults
     /\ entries' = DropDuplicate(kept, handed)
     /\ disk' = IF dropped THEN entries' ELSE kept
     /\ \/ /\ handed = file
           /\ backlog' = {}
           /\ file' = IF removed THEN {} ELSE file
        \/ /\ handed # file /\ FALSE \in WriteResults
           /\ ~(file \subseteq disk.recovered \cup handed)
           /\ backlog' = file \ handed
           /\ UNCHANGED file

\* The keychain answers: ensureIdentity merges the stored drafts under those
\* already in memory, and saves the result.
KeyArrives(ok) ==
  LET merged == [recovered |-> disk.recovered \cup entries.recovered,
                 ordinary  |-> IF entries.ordinary # None
                               THEN entries.ordinary ELSE disk.ordinary]
  IN /\ running /\ ~loaded /\ ok \in WriteResults
     /\ loaded' = TRUE
     /\ entries' = merged
     /\ disk' = IF ok THEN merged ELSE disk
     /\ UNCHANGED <<running, outboxVars, retryVars, history, starts>>

\* The composer's debounced save of an ordinary draft.
Type(m, ok) ==
  /\ running /\ m \notin used /\ entries.ordinary # m
  /\ ok \in WriteResults
  /\ entries' = [entries EXCEPT !.ordinary = m]
  /\ disk' = Saved(ok, entries')
  /\ UNCHANGED <<running, loaded, outboxVars, retryVars, history, starts>>

\* enqueue makes m durable or refuses it; then finishSend discards the draft
\* m was typed in: the ordinary one, or the recovered draft d.
Send(m, d, stored, discarded) ==
  /\ running /\ m \notin used
  /\ {stored, discarded} \subseteq WriteResults
  /\ file' = Persisted(stored, order \cup {m})
  /\ \/ ~stored /\ UNCHANGED <<order, entries, disk, history>>
     \/ /\ stored
        /\ order' = order \cup {m}
        /\ used' = used \cup {m}
        /\ \/ /\ d = None /\ entries.ordinary \in {None, m}
              /\ entries' = [entries EXCEPT !.ordinary = None]
              /\ UNCHANGED settled
           \/ /\ d \in entries.recovered
              /\ entries' = [entries EXCEPT !.recovered = @ \ {d}]
              /\ settled' = settled \cup {d}
        /\ disk' = Saved(discarded, entries')
  /\ UNCHANGED <<running, loaded, backlog, retryVars, starts>>

\* The user deletes a recovered draft (removeDraftByKey).
Discard(d, ok) ==
  /\ running /\ d \in entries.recovered
  /\ ok \in WriteResults
  /\ entries' = [entries EXCEPT !.recovered = @ \ {d}]
  /\ disk' = Saved(ok, entries')
  /\ settled' = settled \cup {d}
  /\ UNCHANGED <<running, loaded, outboxVars, retryVars, used, starts>>

\* remove: the server confirmed m, or the user cancelled it.
Settle(m, ok) ==
  /\ running /\ m \in order
  /\ ok \in WriteResults
  /\ order' = order \ {m}
  /\ settled' = settled \cup {m}
  /\ BestEffort(ok, order \ {m}, scheduled, timers)
  /\ UNCHANGED <<running, backlog, draftVars, used, starts>>

FlaggedTimer(ok) ==
  /\ running /\ timers > 0
  /\ ok \in WriteResults
  /\ BestEffort(ok, order, scheduled, timers - 1)
  /\ UNCHANGED <<running, order, backlog, draftVars, history, starts>>

\* The persist timer clears the flag before it tries again.
PersistTimer(ok) ==
  /\ running /\ timers > 0
  /\ ok \in WriteResults
  /\ BestEffort(ok, order, FALSE, timers - 1)
  /\ UNCHANGED <<running, order, backlog, draftVars, history, starts>>

Stopped ==
  /\ running
  /\ running' = FALSE /\ loaded' = FALSE
  /\ order' = {} /\ backlog' = {} /\ entries' = NoDrafts
  /\ scheduled' = FALSE /\ timers' = 0
  /\ UNCHANGED <<disk, history, starts>>

\* The destructor saves once more if anything may be unsaved.
Quit(ok) ==
  /\ Stopped
  /\ ok \in WriteResults
  /\ file' = IF order \cup backlog # {} \/ scheduled
             THEN Persisted(ok, order) ELSE file

Crash == Stopped /\ UNCHANGED file

-----------------------------------------------------------------------------
Launch ==
  \/ \E key, readable \in BOOLEAN : StartEmpty(key, readable)
  \/ StartLocked
  \/ \E handed \in SUBSET file, dropped, removed \in BOOLEAN :
       StartRecovering(handed, dropped, removed)

Work ==
  \/ \E m \in Msgs, ok \in BOOLEAN :
       Type(m, ok) \/ Discard(m, ok) \/ Settle(m, ok)
  \/ \E m \in Msgs, d \in Msgs \cup {None}, stored, discarded \in BOOLEAN :
       Send(m, d, stored, discarded)

Next ==
  \/ Launch
  \/ Work
  \/ \E ok \in BOOLEAN : KeyArrives(ok) \/ PersistTimer(ok) \/ Quit(ok)
  \/ Crash

Spec == Init /\ [][Next]_vars

\* The keychain answers and timers run; nobody has to send, quit or restart.
Fairness ==
  /\ WF_vars(\E ok \in BOOLEAN : KeyArrives(ok))
  /\ WF_vars(\E ok \in BOOLEAN : PersistTimer(ok))

FairSpec == Spec /\ Fairness

-----------------------------------------------------------------------------
TypeOK ==
  /\ running \in BOOLEAN /\ loaded \in BOOLEAN /\ scheduled \in BOOLEAN
  /\ order \subseteq Msgs /\ backlog \subseteq Msgs /\ file \subseteq Msgs
  /\ used \subseteq Msgs /\ settled \subseteq Msgs
  /\ entries \in Drafts /\ disk \in Drafts
  /\ timers \in Nat /\ starts \in Nat

\* No accepted message is lost, whenever the process dies: until the user or
\* the server settled it, the outbox file or the draft file holds it
\* (presentation-chain.md:470, records leave only once handed over).
Durable ==
  \A m \in used \ settled : m \in file \/ m \in disk.recovered

\* While the process runs, a file that the session's own failed writes left
\* behind what persist would write is on its way to being rewritten: once it
\* was up to date or a timer ran, that stays so (persistBestEffort's flag).  A
\* start that recovered the records but could not remove the file is not meant.
Fresh == file = backlog \cup order \/ timers > 0

StaleFileIsRetried == [][running /\ running' /\ Fresh => Fresh']_vars

\* Recovery never deletes an ordinary draft that was not sent: only one whose
\* text is an accepted message's may go, however the start is cut short
\* (presentation-chain.md:472, "a differing ordinary draft is preserved").
RecoveryKeepsDraft ==
  [][~running /\ running' =>
       disk'.ordinary = disk.ordinary \/ disk.ordinary \in used]_vars

\* With a working disk, every record found at a start becomes a recovered
\* draft (mainwindow.cpp:176, "it converts them to local drafts").
BecomesDraft ==
  \A m \in Msgs :
    (running /\ m \in backlog) ~> (~running \/ m \in entries.recovered)
=============================================================================
