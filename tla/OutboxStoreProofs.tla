-------------------------- MODULE OutboxStoreProofs --------------------------
(***************************************************************************)
(* No accepted message is lost by a crash, a stale file is always on its   *)
(* way to be rewritten, and recovery keeps the drafts that were not sent,  *)
(* for any set of messages, any number of restarts and any pattern of      *)
(* failed writes.                                                          *)
(*                                                                         *)
(* Durable speaks of the two files.  It is not inductive: a rewrite of the *)
(* outbox file keeps only what memory holds, and a rewrite of the draft    *)
(* file keeps only what DraftService::entries holds.  InMemory and Loaded  *)
(* say that memory covers the files whenever such a rewrite can happen.    *)
(***************************************************************************)
EXTENDS OutboxStore, TLAPS

Open == used \ settled

\* persist never drops an open message: memory or the draft file has it.
InMemory == running => Open \subseteq backlog \cup order \cup disk.recovered

\* DraftService::persist never drops one either.
Loaded == (running /\ loaded) => disk.recovered \ settled \subseteq entries.recovered

StoreInv == TypeOK /\ Durable /\ InMemory /\ Loaded

-----------------------------------------------------------------------------
\* The initial state is well typed.
LEMMA InitTyped == Init => TypeOK
<1>0. NoDrafts \in Drafts
  BY Zenon DEF NoDrafts, Drafts
<1>1. Init => entries \in Drafts /\ disk \in Drafts
  BY <1>0, Zenon DEF Init
<1>2. Init => running \in BOOLEAN /\ loaded \in BOOLEAN /\ scheduled \in BOOLEAN
  BY Zenon DEF Init
<1>3. Init => timers \in Nat /\ starts \in Nat
  <2>1. Init => timers = 0 /\ starts = 0
    BY Zenon DEF Init
  <2> QED
    BY <2>1
<1>4. Init => /\ order \subseteq Msgs /\ backlog \subseteq Msgs
              /\ file \subseteq Msgs /\ used \subseteq Msgs
              /\ settled \subseteq Msgs
  BY DEF Init
<1> QED
  BY <1>1, <1>2, <1>3, <1>4, Zenon DEF TypeOK

\* Type correctness of the store: Spec implies TypeOK.
THEOREM StoreTypeCorrect == Spec => []TypeOK
<1> USE StoreAssumption
<1>1. Init => TypeOK
  BY InitTyped
<1>2. TypeOK /\ [Next]_vars => TypeOK'
  <2> SUFFICES ASSUME TypeOK, [Next]_vars PROVE TypeOK'
    OBVIOUS
  <2> USE DEF TypeOK, Drafts
  <2>1. ASSUME NEW key \in BOOLEAN, NEW readable \in BOOLEAN,
               StartEmpty(key, readable)
        PROVE  TypeOK'
    BY <2>1 DEF StartEmpty, Started, retryVars, history, NoDrafts
  <2>2. CASE StartLocked
    <3>1. loaded' \in BOOLEAN /\ running' \in BOOLEAN
      BY <2>2, Zenon DEF StartLocked, Started
    <3> QED
      BY <2>2, <3>1 DEF StartLocked, Started, retryVars, history
  <2>3. ASSUME NEW handed \in SUBSET file, NEW dropped \in BOOLEAN,
               NEW removed \in BOOLEAN, StartRecovering(handed, dropped, removed)
        PROVE  TypeOK'
    <3> DEFINE kept == [disk EXCEPT !.recovered = @ \cup handed]
    <3>1. kept \in Drafts
      OBVIOUS
    <3>2. DropDuplicate(kept, handed) \in Drafts
      BY <3>1 DEF DropDuplicate
    <3>3. entries' \in Drafts /\ disk' \in Drafts
      BY <2>3, <3>1, <3>2 DEF StartRecovering
    <3>4. loaded' \in BOOLEAN /\ running' \in BOOLEAN
      BY <2>3, Zenon DEF StartRecovering, Started
    <3>5. /\ backlog' \subseteq Msgs /\ file' \subseteq Msgs
          /\ UNCHANGED <<order, used, settled, scheduled, timers>>
      BY <2>3 DEF StartRecovering, Started, retryVars, history
    <3>6. starts' \in Nat
      BY <2>3 DEF StartRecovering, Started
    <3> QED
      BY <3>3, <3>4, <3>5, <3>6
  <2>4. ASSUME NEW ok \in BOOLEAN, KeyArrives(ok) PROVE TypeOK'
    BY <2>4 DEF KeyArrives, outboxVars, retryVars, history
  <2>5. ASSUME NEW m \in Msgs, NEW ok \in BOOLEAN, Type(m, ok) PROVE TypeOK'
    BY <2>5 DEF Type, Saved, outboxVars, retryVars, history
  <2>6. ASSUME NEW m \in Msgs, NEW ok \in BOOLEAN, Discard(m, ok)
        PROVE  TypeOK'
    BY <2>6 DEF Discard, Saved, outboxVars, retryVars
  <2>7. ASSUME NEW m \in Msgs, NEW ok \in BOOLEAN, Settle(m, ok)
        PROVE  TypeOK'
    BY <2>7 DEF Settle, BestEffort, Persisted, draftVars
  <2>8. ASSUME NEW m \in Msgs, NEW d \in Msgs \cup {None},
               NEW stored \in BOOLEAN, NEW discarded \in BOOLEAN,
               Send(m, d, stored, discarded)
        PROVE  TypeOK'
    BY <2>8 DEF Send, Persisted, Saved, retryVars, history
  <2>9. ASSUME NEW ok \in BOOLEAN, PersistTimer(ok) PROVE TypeOK'
    BY <2>9 DEF PersistTimer, BestEffort, Persisted, draftVars, history
  <2>10. ASSUME NEW ok \in BOOLEAN, Quit(ok) PROVE TypeOK'
    BY <2>10 DEF Quit, Stopped, Persisted, NoDrafts, history
  <2>11. CASE Crash
    BY <2>11 DEF Crash, Stopped, NoDrafts, history
  <2>12. CASE UNCHANGED vars
    BY <2>12 DEF vars, outboxVars, draftVars, retryVars, history
  <2> QED
    BY <2>1, <2>2, <2>3, <2>4, <2>5, <2>6, <2>7, <2>8, <2>9, <2>10, <2>11,
       <2>12 DEF Next, Launch, Work
<1> QED
  BY <1>1, <1>2, PTL DEF Spec

-----------------------------------------------------------------------------
\* As long as the outbox file can be read, no accepted message is lost, at
\* whatever step the process dies and whichever writes fail: Spec => []Durable.
THEOREM NothingLostOnDisk == ASSUME FALSE \notin ReadResults
                             PROVE  Spec => []Durable
<1> USE StoreAssumption
<1>1. Init => StoreInv
  <2>1. Init => Durable /\ InMemory /\ Loaded
    BY DEF Init, Durable, InMemory, Loaded, Open
  <2> QED
    BY <2>1, InitTyped DEF StoreInv
<1>2. ASSUME StoreInv, TypeOK', [Next]_vars
      PROVE  (Durable /\ InMemory /\ Loaded)'
  <2> USE <1>2 DEF StoreInv, TypeOK, Drafts, Durable, InMemory, Loaded, Open
  <2>1. ASSUME NEW key \in BOOLEAN, NEW readable \in BOOLEAN,
               StartEmpty(key, readable)
        PROVE  (Durable /\ InMemory /\ Loaded)'
    <3>1. file = {}
      BY <2>1 DEF StartEmpty
    <3> QED
      BY <2>1, <3>1 DEF StartEmpty, Started, history
  <2>2. CASE StartLocked
    BY <2>2 DEF StartLocked, Started, history
  <2>3. ASSUME NEW handed \in SUBSET file, NEW dropped \in BOOLEAN,
               NEW removed \in BOOLEAN, StartRecovering(handed, dropped, removed)
        PROVE  (Durable /\ InMemory /\ Loaded)'
    <3>1. /\ disk'.recovered = disk.recovered \cup handed
          /\ entries'.recovered = disk'.recovered
      BY <2>3 DEF StartRecovering, DropDuplicate
    <3>2. /\ backlog' = file \ handed
          /\ file' = file \/ file' \cup handed = file
      BY <2>3 DEF StartRecovering
    <3>3. UNCHANGED <<used, settled, order>>
      BY <2>3 DEF StartRecovering, Started, history
    <3> QED
      BY <3>1, <3>2, <3>3
  <2>4. ASSUME NEW ok \in BOOLEAN, KeyArrives(ok)
        PROVE  (Durable /\ InMemory /\ Loaded)'
    <3>1. /\ entries'.recovered = disk.recovered \cup entries.recovered
          /\ disk' \in {disk, entries'}
      BY <2>4 DEF KeyArrives
    <3>2. UNCHANGED <<used, settled, order, backlog, file>>
      BY <2>4 DEF KeyArrives, history, outboxVars
    <3> QED
      BY <3>1, <3>2, <2>4 DEF KeyArrives
  <2>5. ASSUME NEW m \in Msgs, NEW ok \in BOOLEAN, Type(m, ok)
        PROVE  (Durable /\ InMemory /\ Loaded)'
    BY <2>5 DEF Type, Saved, outboxVars, history
  <2>6. ASSUME NEW m \in Msgs, NEW ok \in BOOLEAN, Discard(m, ok)
        PROVE  (Durable /\ InMemory /\ Loaded)'
    BY <2>6 DEF Discard, Saved, outboxVars
  <2>7. ASSUME NEW m \in Msgs, NEW ok \in BOOLEAN, Settle(m, ok)
        PROVE  (Durable /\ InMemory /\ Loaded)'
    BY <2>7 DEF Settle, BestEffort, Persisted, draftVars
  <2>8. ASSUME NEW m \in Msgs, NEW d \in Msgs \cup {None},
               NEW stored \in BOOLEAN, NEW discarded \in BOOLEAN,
               Send(m, d, stored, discarded)
        PROVE  (Durable /\ InMemory /\ Loaded)'
    BY <2>8 DEF Send, Persisted, Saved, history
  <2>9. ASSUME NEW ok \in BOOLEAN, PersistTimer(ok)
        PROVE  (Durable /\ InMemory /\ Loaded)'
    BY <2>9 DEF PersistTimer, BestEffort, Persisted, draftVars, history
  <2>10. ASSUME NEW ok \in BOOLEAN, Quit(ok)
         PROVE  (Durable /\ InMemory /\ Loaded)'
    BY <2>10 DEF Quit, Stopped, Persisted, history
  <2>11. CASE Crash
    BY <2>11 DEF Crash, Stopped, history
  <2>12. CASE UNCHANGED vars
    BY <2>12 DEF vars, outboxVars, draftVars, history
  <2> QED
    BY <2>1, <2>2, <2>3, <2>4, <2>5, <2>6, <2>7, <2>8, <2>9, <2>10, <2>11,
       <2>12 DEF Next, Launch, Work
<1> QED
  BY <1>1, <1>2, StoreTypeCorrect, PTL DEF Spec, StoreInv

-----------------------------------------------------------------------------
(* The steps of a running process.                                         *)

\* A retry that is flagged has its timer: the flag alone holds later failures
\* back from starting one.
RetryArmed == scheduled => timers > 0

\* Only accepted messages are in the outbox, in memory and on disk.
OnlyAccepted == order \cup backlog \cup file \subseteq used

UpkeepInv == TypeOK /\ RetryArmed /\ OnlyAccepted

\* A write keeps its parts accepted, and a failed one its timer.
LEMMA BestEffortKept ==
  ASSUME UpkeepInv, NEW rows \in SUBSET used, NEW ok \in BOOLEAN,
         NEW waiting \in BOOLEAN, NEW armed \in Nat, waiting => armed > 0,
         BestEffort(ok, rows, waiting, armed)
  PROVE  /\ scheduled' => timers' > 0
         /\ file' \subseteq used
         /\ ok => file' = backlog \cup rows
         /\ ~ok => timers' > 0
BY DEF UpkeepInv, OnlyAccepted, BestEffort, Persisted

\* The two parts hold in every state.
LEMMA UpkeepHolds == Spec => []UpkeepInv
<1>1. Init => UpkeepInv
  BY InitTyped DEF Init, UpkeepInv, RetryArmed, OnlyAccepted
<1>2. ASSUME UpkeepInv, TypeOK', [Next]_vars PROVE RetryArmed' /\ OnlyAccepted'
  <2> USE <1>2 DEF UpkeepInv, TypeOK, RetryArmed, OnlyAccepted
  <2>1. ASSUME NEW key \in BOOLEAN, NEW readable \in BOOLEAN,
               StartEmpty(key, readable)
        PROVE  RetryArmed' /\ OnlyAccepted'
    BY <2>1 DEF StartEmpty, Started, retryVars, history
  <2>2. CASE StartLocked
    BY <2>2 DEF StartLocked, Started, retryVars, history
  <2>3. ASSUME NEW handed \in SUBSET file, NEW dropped \in BOOLEAN,
               NEW removed \in BOOLEAN, StartRecovering(handed, dropped, removed)
        PROVE  RetryArmed' /\ OnlyAccepted'
    <3>1. backlog' \subseteq file /\ file' \subseteq file
      BY <2>3 DEF StartRecovering
    <3>2. UNCHANGED <<order, retryVars, history>>
      BY <2>3 DEF StartRecovering, Started
    <3> QED
      BY <3>1, <3>2 DEF retryVars, history
  <2>4. ASSUME NEW ok \in BOOLEAN, KeyArrives(ok) PROVE RetryArmed' /\ OnlyAccepted'
    BY <2>4 DEF KeyArrives, outboxVars, retryVars, history
  <2>5. ASSUME NEW m \in Msgs, NEW ok \in BOOLEAN, Type(m, ok) \/ Discard(m, ok)
        PROVE  RetryArmed' /\ OnlyAccepted'
    BY <2>5 DEF Type, Discard, outboxVars, retryVars, history
  <2>6. ASSUME NEW m \in Msgs, NEW ok \in BOOLEAN, Settle(m, ok)
        PROVE  RetryArmed' /\ OnlyAccepted'
    <3>1. BestEffort(ok, order \ {m}, scheduled, timers)
      BY <2>6 DEF Settle
    <3>2. (scheduled' => timers' > 0) /\ file' \subseteq used
      BY <3>1, BestEffortKept
    <3> QED
      BY <2>6, <3>2 DEF Settle
  <2>7. ASSUME NEW m \in Msgs, NEW d \in Msgs \cup {None},
               NEW stored \in BOOLEAN, NEW discarded \in BOOLEAN,
               Send(m, d, stored, discarded)
        PROVE  RetryArmed' /\ OnlyAccepted'
    BY <2>7 DEF Send, Persisted, retryVars, history
  <2>8. ASSUME NEW ok \in BOOLEAN, PersistTimer(ok) PROVE RetryArmed' /\ OnlyAccepted'
    <3>0. timers > 0 /\ BestEffort(ok, order, FALSE, timers - 1)
      BY <2>8, Zenon DEF PersistTimer
    <3>1. timers - 1 \in Nat
      BY <3>0
    <3>2. (scheduled' => timers' > 0) /\ file' \subseteq used
      BY <3>0, <3>1, BestEffortKept
    <3> QED
      BY <2>8, <3>2 DEF PersistTimer, history
  <2>9. ASSUME NEW ok \in BOOLEAN, Quit(ok) PROVE RetryArmed' /\ OnlyAccepted'
    BY <2>9 DEF Quit, Stopped, Persisted, history
  <2>10. CASE Crash
    BY <2>10 DEF Crash, Stopped, history
  <2>11. CASE UNCHANGED vars
    BY <2>11 DEF vars, outboxVars, retryVars, history
  <2> QED
    BY <2>1, <2>2, <2>3, <2>4, <2>5, <2>6, <2>7, <2>8, <2>9, <2>10, <2>11
       DEF Next, Launch, Work
<1> QED
  BY <1>1, <1>2, StoreTypeCorrect, PTL DEF Spec, UpkeepInv

\* persistBestEffort: a file that a failed write left behind what it should hold
\* has a timer running, until a write succeeds, whatever else writes meanwhile.
THEOREM StaleFilesAreRetried == Spec => StaleFileIsRetried
<1>1. ASSUME UpkeepInv, [Next]_vars PROVE running /\ running' /\ Fresh => Fresh'
  <2> SUFFICES ASSUME running, running', Fresh PROVE Fresh'
    OBVIOUS
  <2> USE <1>1 DEF UpkeepInv, TypeOK, RetryArmed, OnlyAccepted
  <2>0. UNCHANGED <<order, backlog, file, timers>> => Fresh'
    BY DEF Fresh
  <2>1. ASSUME NEW ok \in BOOLEAN, KeyArrives(ok) PROVE Fresh'
    BY <2>0, <2>1 DEF KeyArrives, outboxVars, retryVars
  <2>2. ASSUME NEW m \in Msgs, NEW ok \in BOOLEAN, Type(m, ok) \/ Discard(m, ok)
        PROVE  Fresh'
    BY <2>0, <2>2 DEF Type, Discard, outboxVars, retryVars
  <2>3. ASSUME NEW m \in Msgs, NEW ok \in BOOLEAN, Settle(m, ok) PROVE Fresh'
    <3>1. BestEffort(ok, order \ {m}, scheduled, timers)
      BY <2>3 DEF Settle
    <3>2. (ok => file' = backlog \cup (order \ {m})) /\ (~ok => timers' > 0)
      BY <3>1, BestEffortKept
    <3> QED
      BY <2>3, <3>2 DEF Settle, Fresh
  <2>4. ASSUME NEW m \in Msgs, NEW d \in Msgs \cup {None},
               NEW stored \in BOOLEAN, NEW discarded \in BOOLEAN,
               Send(m, d, stored, discarded)
        PROVE  Fresh'
    <3>1. \/ UNCHANGED <<order, file>>
          \/ file' = backlog \cup order'
      BY <2>4 DEF Send, Persisted
    <3> QED
      BY <2>0, <2>4, <3>1 DEF Send, Fresh, retryVars
  <2>5. ASSUME NEW ok \in BOOLEAN, PersistTimer(ok) PROVE Fresh'
    <3>0. timers > 0 /\ BestEffort(ok, order, FALSE, timers - 1)
      BY <2>5, Zenon DEF PersistTimer
    <3>1. timers - 1 \in Nat
      BY <3>0
    <3>2. (ok => file' = backlog \cup order) /\ (~ok => timers' > 0)
      BY <3>0, <3>1, BestEffortKept
    <3> QED
      BY <2>5, <3>2 DEF PersistTimer, Fresh
  <2>6. CASE UNCHANGED vars
    BY <2>0, <2>6 DEF vars, outboxVars, retryVars
  <2>7. ~Launch
    BY DEF Launch, StartEmpty, StartLocked, StartRecovering, Started
  <2>8. ~Crash /\ \A ok \in BOOLEAN : ~Quit(ok)
    BY DEF Crash, Quit, Stopped
  <2> QED
    BY <2>1, <2>2, <2>3, <2>4, <2>5, <2>6, <2>7, <2>8 DEF Next, Work
<1> QED
  BY <1>1, UpkeepHolds, PTL DEF Spec, StaleFileIsRetried

\* loadStore: however a start is cut short, it deletes an ordinary draft only if
\* its text is an accepted message's.
THEOREM OrdinaryDraftsStay == Spec => RecoveryKeepsDraft
<1>1. ASSUME UpkeepInv, [Next]_vars
      PROVE  ~running /\ running' =>
               disk'.ordinary = disk.ordinary \/ disk.ordinary \in used
  <2> SUFFICES ASSUME ~running, running'
               PROVE  disk'.ordinary = disk.ordinary \/ disk.ordinary \in used
    OBVIOUS
  <2> USE <1>1 DEF UpkeepInv, TypeOK, OnlyAccepted, Drafts
  <2>1. ASSUME NEW key \in BOOLEAN, NEW readable \in BOOLEAN, StartEmpty(key, readable)
        PROVE  disk' = disk
    BY <2>1 DEF StartEmpty
  <2>2. StartLocked => disk' = disk
    BY DEF StartLocked
  <2>3. ASSUME NEW handed \in SUBSET file, NEW dropped \in BOOLEAN,
               NEW removed \in BOOLEAN, StartRecovering(handed, dropped, removed)
        PROVE  disk'.ordinary = disk.ordinary \/ disk.ordinary \in used
    <3> DEFINE kept == [disk EXCEPT !.recovered = @ \cup handed]
    <3>1. disk' = DropDuplicate(kept, handed) \/ disk' = kept
      BY <2>3 DEF StartRecovering
    <3>2. kept.ordinary = disk.ordinary
      OBVIOUS
    <3>3. disk'.ordinary = kept.ordinary \/ kept.ordinary \in handed
      BY <3>1 DEF DropDuplicate
    <3> QED
      BY <3>2, <3>3
  <2>4. Launch
    BY DEF Next, Work, Type, Discard, Settle, Send, KeyArrives, PersistTimer, Quit, Crash,
           Stopped, vars
  <2> QED
    BY <2>1, <2>2, <2>3, <2>4 DEF Launch
<1> QED
  BY <1>1, UpkeepHolds, PTL DEF Spec, RecoveryKeepsDraft
=============================================================================
