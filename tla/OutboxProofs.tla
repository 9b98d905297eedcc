---------------------------- MODULE OutboxProofs ----------------------------
(* Proofs about the outbox, for every number of messages, conversations,   *)
(* uploads and every bound.                                                *)
EXTENDS OutboxProperties, FiniteSetTheorems, TLAPS

-----------------------------------------------------------------------------
(* Type correctness.                                                       *)

\* The updates the handlers make keep a row a row.
LEMMA SetState ==
  ASSUME NEW r \in Row, NEW s \in States, NEW g \in Nat
  PROVE  [r EXCEPT !.state = s, !.gen = g] \in Row
  BY DEF Row

\* A row whose fields are replaced is a row.
LEMMA SetAll ==
  ASSUME NEW r \in Row, NEW s \in States, NEW g \in Nat, NEW a \in Nat,
         NEW n \in SUBSET Messages, NEW w \in Nat, NEW t \in Nat,
         NEW f \in SUBSET Uploads
  PROVE  [r EXCEPT !.state = s, !.gen = g, !.attempts = a, !.newer = n,
                   !.window = w, !.tail = t, !.files = f] \in Row
  BY DEF Row

\* What the fields of a row are.
LEMMA RowFields ==
  ASSUME NEW r \in Row
  PROVE  /\ r.state \in States /\ r.gen \in Nat /\ r.gen + 1 \in Nat
         /\ r.attempts \in Nat /\ r.attempts + 1 \in Nat
         /\ r.newer \in SUBSET Messages /\ r.tail \in Nat
         /\ r.files \in SUBSET Uploads /\ r.window \in Nat
  BY DEF Row

\* A row in another state, one generation on, is a row.
LEMMA WithRow ==
  ASSUME NEW r \in Row, NEW s \in States
  PROVE  With(r, s) \in Row
  BY RowFields, SetState DEF With

\* tryStartConversation maps rows to rows.
LEMMA StartedRows ==
  ASSUME NEW rows \in [Posts -> Row], NEW c \in Convs
  PROVE  Started(rows, c) \in [Posts -> Row]
<1>1. \A p \in Posts :
        /\ With(rows[p], "Blocked") \in Row
        /\ With(rows[p], IF Spent(rows[p]) THEN "Failed" ELSE "Queued") \in Row
  BY WithRow DEF States
<1>2. QED BY <1>1 DEF Started

\* The timers it arms carry a post and a generation.
LEMMA ArmedTimers ==
  ASSUME NEW rows \in [Posts -> Row], NEW c \in Convs, pending \subseteq Posts
  PROVE  Armed(rows, c) \subseteq Posts \X Nat
  BY DEF Armed, Startable, Queue, Row

\* The only upload entries ever written are well formed.
LEMMA UploadEntries ==
  ASSUME TypeOK, NEW us, NEW p \in Posts
  PROVE  /\ Restarted(us) \in [Uploads -> [state : UploadStates, gen : Nat]]
         /\ Released(p) \in [Uploads -> [state : UploadStates, gen : Nat]]
         /\ us \subseteq Uploads => Transfers(us) \subseteq Uploads \X Nat
  BY DEF TypeOK, Restarted, Released, Transfers, NoUpload, UploadStates

\* Messages have conversations, posts are messages.
LEMMA ConvsOfPosts ==
  /\ \A m \in Messages : ConvOf[m] \in Convs
  /\ \A p \in Posts : p \in Messages /\ UploadsOf[p] \subseteq Uploads
  BY OutboxAssumption DEF OutboxAssumption, Messages

\* The row of a post that is new.
LEMMA EmptyRowIsRow == EmptyRow \in Row
  BY DEF EmptyRow, Row, States

\* The row retry leaves, while its uploads are looked at.
LEMMA ResetRow ==
  ASSUME TypeOK, NEW p \in Posts
  PROVE  /\ Reset(p) \in Row
         /\ Reset(p).state = "Uploading" /\ Reset(p).window = now /\ Reset(p).newer = {}
         /\ Reset(p).files = row[p].files \cup InState(UploadsOf[p], "Ready")
<1> DEFINE tail  == IF ConvOf[p] \in gone THEN row[p].tail ELSE known[ConvOf[p]]
           files == row[p].files \cup InState(UploadsOf[p], "Ready")
<1>1. /\ row[p] \in Row /\ row[p].gen + 1 \in Nat /\ now \in Nat
      /\ tail \in Nat /\ files \in SUBSET Uploads
      /\ 0 \in Nat /\ {} \in SUBSET Messages /\ "Uploading" \in States
  BY RowFields, ConvsOfPosts DEF TypeOK, InState, States
<1>2. \A g, t \in Nat, f \in SUBSET Uploads :
        [row[p] EXCEPT !.state = "Uploading", !.gen = g, !.attempts = 0,
             !.newer = {}, !.window = now, !.tail = t, !.files = f] \in Row
  BY <1>1, SetAll
<1>3. Reset(p) \in Row
  BY <1>1, <1>2 DEF Reset
<1>4. /\ Reset(p).state = "Uploading" /\ Reset(p).window = now /\ Reset(p).newer = {}
      /\ Reset(p).files = row[p].files \cup InState(UploadsOf[p], "Ready")
  BY <1>1 DEF Reset, Row
<1>5. QED BY <1>3, <1>4

\* The user's steps keep the types,
LEMMA TypeUser ==
  ASSUME TypeOK, User PROVE TypeOK'
<1> USE DEF outboxVars, timerVars, clientVars, uploadVars, serverVars
<1>1. ASSUME NEW p \in Posts, Enqueue(p) PROVE TypeOK'
  <2>1. [EmptyRow EXCEPT !.state = IF InState(UploadsOf[p], "Failed") # {} THEN "Failed"
             ELSE IF InState(UploadsOf[p], "Uploading") \cup InState(UploadsOf[p], "none") # {}
             THEN "Uploading" ELSE "Queued",
                         !.files = InState(UploadsOf[p], "Ready"),
                         !.tail = known[ConvOf[p]],
                         !.window = now] \in Row
    BY ConvsOfPosts DEF EmptyRow, Row, States, InState, TypeOK
  <2>2. row' \in [Posts -> Row]
    BY <1>1, <2>1 DEF Enqueue, TypeOK
  <2>3. /\ upload' \in [Uploads -> [state : UploadStates, gen : Nat]]
        /\ transfers' \subseteq Uploads \X Nat
    BY <1>1, UploadEntries, ConvsOfPosts DEF Enqueue, TypeOK, InState
  <2>4. QED BY <1>1, <2>2, <2>3, ConvsOfPosts DEF Enqueue, TypeOK
<1>2. ASSUME NEW p \in Posts, EnqueueRefused(p) PROVE TypeOK'
  <2>1. /\ upload' \in [Uploads -> [state : UploadStates, gen : Nat]]
        /\ transfers' \subseteq Uploads \X Nat
    BY <1>2, UploadEntries, ConvsOfPosts DEF EnqueueRefused, TypeOK, InState
  <2>2. QED BY <1>2, <2>1 DEF EnqueueRefused, TypeOK
<1>3. ASSUME NEW p \in Posts, Cancel(p) PROVE TypeOK'
  BY <1>3, UploadEntries, ConvsOfPosts, EmptyRowIsRow DEF Cancel, Remove, TypeOK
<1>4. ASSUME NEW p \in Posts, Retry(p) PROVE TypeOK'
  <2> DEFINE reset == [row EXCEPT ![p] = Reset(p)]
             refail == [reset EXCEPT ![p] = Refailed(p)]
             waiting == Missing(p) \ InState(UploadsOf[p], "Ready")
             failed == InState(waiting, "Failed")
  <2>1. Reset(p) \in Row
    BY ResetRow
  <2>2. reset \in [Posts -> Row]
    BY <2>1 DEF TypeOK
  <2>3. Refailed(p) \in Row /\ With(reset[p], "Queued") \in Row
    BY <2>1, <2>2, WithRow DEF Refailed, States
  <2>4. refail \in [Posts -> Row] /\ [reset EXCEPT ![p] = With(@, "Queued")] \in [Posts -> Row]
    BY <2>2, <2>3
  <2>5. ConvOf[p] \in Convs /\ pending \subseteq Posts
    BY ConvsOfPosts DEF TypeOK
  <2>6. /\ Started(reset, ConvOf[p]) \in [Posts -> Row]
        /\ Started(refail, ConvOf[p]) \in [Posts -> Row]
        /\ Armed(reset, ConvOf[p]) \subseteq Posts \X Nat
        /\ Armed(refail, ConvOf[p]) \subseteq Posts \X Nat
    BY <2>2, <2>4, <2>5, StartedRows, ArmedTimers
  <2>7. failed \subseteq Uploads
    BY ConvsOfPosts DEF Missing, InState
  <2>8. /\ Restarted(failed) \in [Uploads -> [state : UploadStates, gen : Nat]]
        /\ Transfers(failed) \subseteq Uploads \X Nat
    BY <2>7, UploadEntries
  <2>c. \A u \in Uploads :
          [upload[u] EXCEPT !.gen = @ + 1] \in [state : UploadStates, gen : Nat]
    BY DEF TypeOK
  <2>d. [u \in Uploads |-> IF u \in failed
           THEN [upload[u] EXCEPT !.gen = @ + 1] ELSE upload[u]]
             \in [Uploads -> [state : UploadStates, gen : Nat]]
    BY <2>c DEF TypeOK
  <2>9. row' \in [Posts -> Row] /\ attemptDue' \subseteq Posts \X Nat
    BY <1>4, <2>2, <2>4, <2>6 DEF Retry, TypeOK
  <2>10. /\ upload' \in [Uploads -> [state : UploadStates, gen : Nat]]
         /\ transfers' \subseteq Uploads \X Nat
    BY <1>4, <2>8, <2>d DEF Retry, TypeOK
  <2>11. QED BY <1>4, <2>5, <2>9, <2>10 DEF Retry, TypeOK
<1>5. ASSUME NEW p \in Posts, NEW u \in Uploads, Stage(p, u) PROVE TypeOK'
  <2>1. /\ Restarted({u}) \in [Uploads -> [state : UploadStates, gen : Nat]]
        /\ Transfers({u}) \subseteq Uploads \X Nat
    BY UploadEntries
  <2>2. QED BY <1>5, <2>1 DEF Stage, TypeOK
<1>6. QED BY <1>1, <1>2, <1>3, <1>4, <1>5 DEF User

\* (with an attempt counted,
LEMMA SetAttempts ==
  ASSUME NEW r \in Row, NEW a \in Nat
  PROVE  [r EXCEPT !.attempts = a] \in Row
  BY DEF Row

\* a file that is there,
LEMMA AddFile ==
  ASSUME NEW r \in Row, NEW f \in SUBSET Uploads
  PROVE  [r EXCEPT !.files = f] \in Row
  BY DEF Row

\* posts counted as newer,
LEMMA AddNewer ==
  ASSUME NEW r \in Row, NEW n \in SUBSET Messages
  PROVE  [r EXCEPT !.newer = n] \in Row
  BY DEF Row

\* or another state, a row stays a row)
LEMMA SetRow ==
  ASSUME NEW rows \in [Posts -> Row], NEW p \in Posts, NEW s \in States
  PROVE  /\ With(rows[p], s) \in Row
         /\ [rows EXCEPT ![p] = With(@, s)] \in [Posts -> Row]
<1>1. With(rows[p], s) \in Row BY WithRow
<1>2. QED BY <1>1

\* The row an upload's end leaves is a row.
LEMMA MovedRow ==
  ASSUME TypeOK, NEW p \in Posts, NEW u \in Uploads, NEW ok \in BOOLEAN
  PROVE  Moved(p, u, ok) \in Row
<1>1. row[p] \in Row
  BY DEF TypeOK
<1>2. row[p].files \cup {u} \in SUBSET Uploads
  BY <1>1, RowFields
<1>3. Filed(p, u, ok) \in Row
  BY <1>1, <1>2, AddFile DEF Filed
<1>4. With(row[p], "Failed") \in Row /\ With(Filed(p, u, ok), "Queued") \in Row
  BY <1>1, <1>3, WithRow DEF States
<1>5. QED BY <1>3, <1>4 DEF Moved

\* the timers' steps do,
LEMMA TypeTimers ==
  ASSUME TypeOK, Timers \/ Tick PROVE TypeOK'
<1> USE DEF outboxVars, timerVars, clientVars, uploadVars, serverVars
<1>1. ASSUME NEW c \in Convs, Start(c) PROVE TypeOK'
  <2>1. /\ Started(row, c) \in [Posts -> Row]
        /\ Armed(row, c) \subseteq Posts \X Nat
    BY StartedRows, ArmedTimers DEF TypeOK
  <2>2. QED BY <1>1, <2>1 DEF Start, TypeOK
<1>2. ASSUME NEW p \in Posts, NEW g \in Nat, Attempt(p, g) PROVE TypeOK'
  <2>1. row \in [Posts -> Row] /\ {"Failed", "Uploading", "Sending"} \subseteq States
    BY DEF TypeOK, States
  <2>2. /\ [row EXCEPT ![p] = With(@, "Failed")] \in [Posts -> Row]
        /\ [row EXCEPT ![p] = With(@, "Uploading")] \in [Posts -> Row]
    BY <2>1, SetRow
  <2>3. Tried(p) \in Row
    <3>1. With(row[p], "Sending") \in Row BY <2>1, SetRow
    <3>2. With(row[p], "Sending").attempts + 1 \in Nat BY <3>1, RowFields
    <3>3. QED BY <3>1, <3>2, SetAttempts DEF Tried
  <2>4. With(Tried(p), "Failed") \in Row
    BY <2>1, <2>3, WithRow
  <2>5. row' \in [Posts -> Row]
    BY <1>2, <2>1, <2>2, <2>3, <2>4 DEF Attempt
  <2>6. requests' \subseteq [post : Posts, gen : Nat, accepted : BOOLEAN]
    <3>1. [post |-> p, gen |-> g + 1, accepted |-> FALSE]
            \in [post : Posts, gen : Nat, accepted : BOOLEAN]
      OBVIOUS
    <3>2. requests \subseteq [post : Posts, gen : Nat, accepted : BOOLEAN]
      BY DEF TypeOK
    <3>3. requests' = requests \/ requests' =
            requests \cup {[post |-> p, gen |-> g + 1, accepted |-> FALSE]}
      BY <1>2 DEF Attempt
    <3>4. QED BY <3>1, <3>2, <3>3
  <2>7. QED BY <1>2, <2>5, <2>6 DEF Attempt, TypeOK
<1>3. ASSUME NEW p \in Posts, NEW g \in Nat, RetryTimer(p, g) PROVE TypeOK'
  <2> DEFINE back == [row EXCEPT ![p] = With(@, "Queued")]
  <2>1. ConvOf[p] \in Convs /\ row \in [Posts -> Row] /\ pending \subseteq Posts
        /\ "Queued" \in States
    BY ConvsOfPosts DEF TypeOK, States
  <2>2. back \in [Posts -> Row]
    BY <2>1, SetRow
  <2>3. /\ Started(back, ConvOf[p]) \in [Posts -> Row]
        /\ Armed(back, ConvOf[p]) \subseteq Posts \X Nat
    BY <2>1, <2>2, StartedRows, ArmedTimers
  <2>4. row' \in [Posts -> Row] /\ attemptDue' \subseteq Posts \X Nat
    BY <1>3, <2>3 DEF RetryTimer, TypeOK
  <2>5. QED BY <1>3, <2>4 DEF RetryTimer, TypeOK
<1>4. ASSUME NEW p \in Posts, NEW w \in Nat, Deadline(p, w) PROVE TypeOK'
  <2>1. [row EXCEPT ![p] = With(@, "Failed")] \in [Posts -> Row]
    BY SetRow DEF TypeOK, States
  <2>2. QED BY <1>4, <2>1 DEF Deadline, TypeOK
<1>5. ASSUME NEW m, NEW t, Forget(m, t) PROVE TypeOK'
  BY <1>5 DEF Forget, TypeOK
<1>6. ASSUME Tick PROVE TypeOK'
  BY <1>6 DEF Tick, TypeOK
<1>7. /\ attemptDue \subseteq Posts \X Nat /\ retryDue \subseteq Posts \X Nat
      /\ deadlines \subseteq Posts \X Nat
  BY DEF TypeOK
<1>8. QED BY <1>1, <1>2, <1>3, <1>4, <1>5, <1>6, <1>7 DEF Timers

\* a confirmation of a post does,
LEMMA TypeConfirm ==
  ASSUME TypeOK, NEW p \in Posts, Confirm(p)
  PROVE  /\ confirmed' \subseteq Posts \X Nat
         /\ pending' \subseteq Posts
         /\ row' \in [Posts -> Row]
         /\ upload' \in [Uploads -> [state : UploadStates, gen : Nat]]
         /\ starts' \subseteq Convs
         /\ issued' = issued /\ serial' = serial
<1>1. confirmed' \subseteq Posts \X Nat
  BY DEF Confirm, TypeOK
<1>2. row' \in [Posts -> Row]
  BY EmptyRowIsRow DEF Confirm, Remove, TypeOK
<1>3. upload' \in [Uploads -> [state : UploadStates, gen : Nat]]
  BY UploadEntries DEF Confirm, Remove
<1>4. QED BY <1>1, <1>2, <1>3, ConvsOfPosts DEF Confirm, Remove, TypeOK

\* the replies,
LEMMA TypeReplies ==
  ASSUME TypeOK, Replies PROVE TypeOK'
<1> USE DEF outboxVars, timerVars, clientVars, uploadVars, serverVars
<1>1. ASSUME NEW r \in requests, CreateSucceeds(r) PROVE TypeOK'
  <2>1. r.post \in Posts /\ r.post \in Messages
    BY ConvsOfPosts DEF TypeOK
  <2>2. /\ known' \in [Convs -> Nat] /\ resident' \subseteq Messages
        /\ requests' \subseteq [post : Posts, gen : Nat, accepted : BOOLEAN]
    BY <1>1, <2>1 DEF CreateSucceeds, Advance, TypeOK
  <2>3. CASE r.post \in pending /\ Confirm(r.post)
    BY <1>1, <2>1, <2>2, <2>3, TypeConfirm DEF CreateSucceeds, TypeOK
  <2>4. CASE UNCHANGED <<outboxVars, confirmed, upload, starts>>
    BY <1>1, <2>2, <2>4 DEF CreateSucceeds, TypeOK
  <2>5. QED BY <1>1, <2>3, <2>4 DEF CreateSucceeds
<1>2. ASSUME NEW r \in requests, NEW b \in BOOLEAN, CreateFails(r, b)
      PROVE TypeOK'
  <2>1. r.post \in Posts /\ r.gen \in Nat
    BY DEF TypeOK
  <2>2. /\ [row EXCEPT ![r.post] = With(@, "Failed")] \in [Posts -> Row]
        /\ [row EXCEPT ![r.post] = With(@, "RetryWait")] \in [Posts -> Row]
    BY <2>1, SetRow DEF TypeOK, States
  <2>3. row' \in [Posts -> Row] /\ retryDue' \subseteq Posts \X Nat
        /\ floating' \subseteq Posts
    BY <1>2, <2>1, <2>2 DEF CreateFails, TypeOK
  <2>4. QED BY <1>2, <2>3 DEF CreateFails, TypeOK
<1>3. ASSUME NEW u \in Uploads, NEW g \in Nat, NEW ok \in BOOLEAN,
             UploadReplies(u, g, ok)
      PROVE TypeOK'
  <2> DEFINE owners == {p \in pending : u \in Missing(p)}
             rows == [p \in Posts |-> IF p \in owners THEN Moved(p, u, ok) ELSE row[p]]
  <2>1. \A p \in Posts : Moved(p, u, ok) \in Row
    BY MovedRow
  <2>2. rows \in [Posts -> Row]
    BY <2>1 DEF TypeOK
  <2>3. ASSUME NEW p \in owners
        PROVE  /\ Started(rows, ConvOf[p]) \in [Posts -> Row]
               /\ Armed(rows, ConvOf[p]) \subseteq Posts \X Nat
    <3>1. p \in Posts /\ ConvOf[p] \in Convs /\ pending \subseteq Posts
      BY ConvsOfPosts DEF TypeOK
    <3>2. QED BY <2>2, <3>1, StartedRows, ArmedTimers
  <2>4. row' \in [Posts -> Row] /\ attemptDue' \subseteq Posts \X Nat
    <3> HIDE DEF rows
    <3> QED BY <1>3, <2>3 DEF UploadReplies, TypeOK, rows
  <2>5. /\ upload' \in [Uploads -> [state : UploadStates, gen : Nat]]
        /\ transfers' \subseteq Uploads \X Nat
    BY <1>3 DEF UploadReplies, TypeOK, UploadStates
  <2>6. QED BY <1>3, <2>4, <2>5 DEF UploadReplies, TypeOK
<1>4. transfers \subseteq Uploads \X Nat
  BY DEF TypeOK
<1>5. QED BY <1>1, <1>2, <1>3, <1>4 DEF Replies

\* a post that counts against the rows of its conversation,
LEMMA CountedRows ==
  ASSUME TypeOK, NEW m \in Messages
  PROVE  Counted(m) \in [Posts -> Row]
<1>1. ASSUME NEW p \in Posts
      PROVE /\ row[p] \in Row
            /\ [row[p] EXCEPT !.newer = @ \cup {m}] \in Row
            /\ With([row[p] EXCEPT !.newer = @ \cup {m}], "Failed") \in Row
  <2>1. row[p] \in Row
    BY DEF TypeOK
  <2>2. row[p].newer \cup {m} \in SUBSET Messages
    BY <2>1, RowFields
  <2>3. [row[p] EXCEPT !.newer = @ \cup {m}] \in Row
    BY <2>1, <2>2, AddNewer
  <2>4. QED BY <2>1, <2>3, WithRow DEF States
<1>2. QED BY <1>1 DEF Counted

\* a post that is heard of,
LEMMA TypeHandled ==
  ASSUME TypeOK, NEW m \in Messages, HandleAuthoritative(m)
  PROVE  /\ confirmed' \subseteq Posts \X Nat
         /\ pending' \subseteq Posts
         /\ row' \in [Posts -> Row]
         /\ upload' \in [Uploads -> [state : UploadStates, gen : Nat]]
         /\ starts' \subseteq Convs
         /\ issued' = issued /\ serial' = serial
<1>1. CASE m \in pending /\ Confirm(m)
  BY <1>1, TypeConfirm DEF TypeOK
<1>2. CASE row' = Counted(m) /\ UNCHANGED <<pending, issued, serial, confirmed, upload, starts>>
  BY <1>2, CountedRows DEF TypeOK
<1>3. CASE UNCHANGED <<outboxVars, confirmed, upload, starts>>
  BY <1>3 DEF TypeOK, outboxVars
<1>4. QED BY <1>1, <1>2, <1>3 DEF HandleAuthoritative

\* by an event or with history,
LEMMA TypeArrivals ==
  ASSUME TypeOK, Arrivals PROVE TypeOK'
<1> USE DEF outboxVars, timerVars, clientVars, uploadVars, serverVars
<1>1. ASSUME NEW m \in Messages, Realtime(m) PROVE TypeOK'
  <2>1. known' \in [Convs -> Nat] /\ resident' \subseteq Messages
        /\ echoed' \subseteq Messages
    BY <1>1, ConvsOfPosts DEF Realtime, Advance, TypeOK
  <2>2. HandleAuthoritative(m)
    BY <1>1 DEF Realtime
  <2>3. QED BY <1>1, <2>1, <2>2, TypeHandled DEF Realtime, TypeOK
<1>2. ASSUME NEW m \in Messages, HistoryMerged(m) PROVE TypeOK'
  <2>1. HandleAuthoritative(m) /\ resident' \subseteq Messages
    BY <1>2 DEF HistoryMerged, TypeOK
  <2>2. QED BY <1>2, <2>1, TypeHandled DEF HistoryMerged, TypeOK
<1>3. ASSUME NEW m \in Messages, Evicted(m) PROVE TypeOK'
  BY <1>3 DEF Evicted, TypeOK
<1>4. ASSUME NEW c \in Convs, ChannelRefreshed(c) PROVE TypeOK'
  BY <1>4 DEF ChannelRefreshed, TypeOK
<1>5. ASSUME NEW c \in Convs, ChannelLost(c) PROVE TypeOK'
  BY <1>5 DEF ChannelLost, TypeOK
<1>6. QED BY <1>1, <1>2, <1>3, <1>4, <1>5 DEF Arrivals

\* and the server's steps.
LEMMA TypeServer ==
  ASSUME TypeOK, Server PROVE TypeOK'
<1> USE DEF outboxVars, timerVars, clientVars, uploadVars, serverVars
<1>1. ASSUME NEW r \in requests, ServerAccepts(r) PROVE TypeOK'
  <2>1. r.post \in Messages /\ [r EXCEPT !.accepted = TRUE]
          \in [post : Posts, gen : Nat, accepted : BOOLEAN]
    BY ConvsOfPosts DEF TypeOK
  <2>2. requests' \subseteq [post : Posts, gen : Nat, accepted : BOOLEAN]
    <3>1. requests' = (requests \ {r}) \cup {[r EXCEPT !.accepted = TRUE]}
      BY <1>1 DEF ServerAccepts
    <3>2. requests \subseteq [post : Posts, gen : Nat, accepted : BOOLEAN]
      BY DEF TypeOK
    <3>3. QED BY <2>1, <3>1, <3>2
  <2>3. clock' \in Nat /\ createdAt' \in [Messages -> Nat]
    BY <1>1, <2>1 DEF ServerAccepts, Stamp, TypeOK
  <2>4. QED BY <1>1, <2>2, <2>3 DEF ServerAccepts, TypeOK
<1>2. ASSUME NEW p \in Posts, ServerAcceptsLate(p) PROVE TypeOK'
  BY <1>2, ConvsOfPosts DEF ServerAcceptsLate, Stamp, TypeOK
<1>3. ASSUME NEW m \in Messages, ForeignPosted(m) PROVE TypeOK'
  BY <1>3 DEF ForeignPosted, Stamp, TypeOK
<1>4. QED BY <1>1, <1>2, <1>3 DEF Server

\* They hold at the start.
LEMMA TypeInit == Init => TypeOK
  BY OutboxAssumption, EmptyRowIsRow
  DEF Init, TypeOK, NoUpload, UploadStates, Messages

\* Every variable of the outbox keeps its type, for all bounds and sizes:
\* in particular no handler leaves a row outside the six delivery states.
THEOREM TypeCorrect == Spec => []TypeOK
<1>1. Init => TypeOK
  BY TypeInit
<1>2. TypeOK /\ [Next]_vars => TypeOK'
  <2> SUFFICES ASSUME TypeOK, [Next]_vars PROVE TypeOK'
    OBVIOUS
  <2>1. CASE UNCHANGED vars
    BY <2>1 DEF vars, outboxVars, timerVars, clientVars, uploadVars,
                serverVars, TypeOK
  <2>2. QED BY <2>1, TypeUser, TypeTimers, TypeReplies, TypeArrivals,
                TypeServer DEF Next
<1>3. QED BY <1>1, <1>2, PTL DEF Spec

-----------------------------------------------------------------------------
(* FIFO delivery.                                                          *)

\* A copy of p has been offered to the server, or the server has p.
Offered(p) == p \in OnWire \/ createdAt[p] > 0

\* The strengthening: a message is offered only after every earlier one of
\* its conversation has left the outbox, so what was accepted before it was
\* accepted earlier.
OrderInv ==
  /\ TypeOK
  /\ \A p \in Posts : serial[p] <= issued
  /\ \A p \in Posts : p \in pending \/ Offered(p) => serial[p] > 0
  /\ \A m \in Messages : createdAt[m] <= clock
  /\ \A r \in requests : r.accepted => createdAt[r.post] > 0
  /\ \A p, q \in Posts : Before(p, q) /\ Offered(q) => p \notin pending
  /\ NoSilentLoss
  /\ DeliveryInOrder

orderVars == <<pending, issued, serial, createdAt, clock, requests, floating,
               withdrawn>>

\* Steps that move no message keep the order.
LEMMA OrderQuiet ==
  ASSUME OrderInv, TypeOK', UNCHANGED orderVars PROVE OrderInv'
  BY DEF OrderInv, orderVars, Offered, OnWire, Before, NoSilentLoss,
         DeliveryInOrder

\* Removing a message that is on the server, or that the user withdraws.
LEMMA OrderRemoved ==
  ASSUME OrderInv, TypeOK', NEW p \in Posts,
         pending' = pending \ {p},
         UNCHANGED <<issued, serial, createdAt, clock, floating>>,
         requests' \subseteq requests,
         \/ createdAt[p] > 0 /\ withdrawn' = withdrawn
         \/ withdrawn' = withdrawn \cup {p}
  PROVE  OrderInv'
<1>1. \A q \in Posts : Offered(q)' => Offered(q)
  BY DEF Offered, OnWire
<1>2. \A q, r \in Posts : Before(q, r)' <=> Before(q, r)
  BY DEF Before
<1>3. NoSilentLoss'
  BY DEF OrderInv, NoSilentLoss
<1>4. DeliveryInOrder'
  BY <1>2 DEF OrderInv, DeliveryInOrder
<1>5. QED BY <1>1, <1>2, <1>3, <1>4 DEF OrderInv

\* The server stamps a message that was offered.
LEMMA OrderStamped ==
  ASSUME OrderInv, TypeOK', NEW m \in Messages, Stamp(m),
         m \in Posts => Offered(m),
         UNCHANGED <<pending, issued, serial, withdrawn>>,
         OnWire' \subseteq OnWire,
         \A r \in requests' : r.accepted =>
           r.post = m \/ \E s \in requests : s.accepted /\ s.post = r.post
  PROVE  OrderInv'
<1>1. /\ \A k \in Messages : createdAt[k] > 0 => createdAt'[k] = createdAt[k]
      /\ createdAt'[m] > 0
      /\ \A k \in Messages : createdAt'[k] > 0 => createdAt[k] > 0 \/ k = m
      /\ \A k \in Messages : createdAt'[k] <= clock'
      /\ createdAt[m] = 0 => \A k \in Messages : createdAt[k] < createdAt'[m]
      /\ createdAt' \in [Messages -> Nat]
  BY DEF Stamp, OrderInv, TypeOK
<1>2. \A q, r \in Posts : Before(q, r)' <=> Before(q, r)
  BY DEF Before
<1>3. \A q \in Posts : Offered(q)' => Offered(q)
  BY <1>1, ConvsOfPosts DEF Offered
<1>4. NoSilentLoss'
  BY <1>1, ConvsOfPosts DEF OrderInv, NoSilentLoss
<1>5. \A r \in requests' : r.accepted => createdAt'[r.post] > 0
  BY <1>1, ConvsOfPosts DEF OrderInv, TypeOK
<1>6. DeliveryInOrder'
  <2> SUFFICES ASSUME NEW p \in Posts, NEW q \in Posts, Before(p, q),
                      createdAt'[q] > 0, p \notin withdrawn
               PROVE  0 < createdAt'[p] /\ createdAt'[p] < createdAt'[q]
    BY <1>2 DEF DeliveryInOrder
  <2>1. p \in Messages /\ q \in Messages /\ Offered(q)
    BY <1>1, ConvsOfPosts DEF Offered
  <2>2. p \notin pending /\ serial[p] > 0
    BY <2>1 DEF OrderInv, Before
  <2>3. createdAt[p] > 0 /\ createdAt'[p] = createdAt[p]
    BY <1>1, <2>1, <2>2 DEF OrderInv, NoSilentLoss
  <2>4. CASE createdAt[q] > 0
    BY <1>1, <2>1, <2>3, <2>4 DEF OrderInv, DeliveryInOrder
  <2>5. CASE createdAt[q] = 0
    BY <1>1, <2>1, <2>3, <2>5
  <2>6. QED BY <2>1, <2>4, <2>5 DEF OrderInv, TypeOK
<1>7. QED BY <1>1, <1>2, <1>3, <1>4, <1>5, <1>6, ConvsOfPosts DEF OrderInv

\* Every step keeps the order.
LEMMA OrderStep ==
  ASSUME OrderInv, TypeOK', Next PROVE OrderInv'
<1> USE DEF outboxVars, timerVars, clientVars, uploadVars, serverVars
<1>1. ASSUME NEW p \in Posts, Enqueue(p) PROVE OrderInv'
  <2>1. serial[p] = 0 /\ issued' = issued + 1 /\ pending' = pending \cup {p}
        /\ serial' = [serial EXCEPT ![p] = issued + 1]
        /\ UNCHANGED <<createdAt, clock, requests, floating, withdrawn>>
    BY <1>1 DEF Enqueue, CanSend
  <2>2. issued \in Nat /\ serial \in [Posts -> Nat] /\ pending \subseteq Posts
    BY DEF OrderInv, TypeOK
  <2>3. \A q \in Posts : Offered(q)' <=> Offered(q)
    BY <2>1 DEF Offered, OnWire
  <2>4. ~Offered(p)
    BY <2>1 DEF OrderInv
  <2>5. \A q, r \in Posts : Before(q, r)' => (Before(q, r) \/ r = p)
    BY <2>1, <2>2 DEF Before, OrderInv
  <2>6. \A q \in Posts : ~Before(p, q)'
    BY <2>1, <2>2 DEF Before, OrderInv
  <2>7. NoSilentLoss'
    BY <2>1, <2>2 DEF OrderInv, NoSilentLoss
  <2>8. \A q, r \in Posts : Before(q, r)' /\ createdAt[r] > 0 => Before(q, r)
    BY <2>4, <2>5 DEF Offered
  <2>9. DeliveryInOrder'
    BY <2>1, <2>8 DEF OrderInv, DeliveryInOrder
  <2>10. \A q, r \in Posts : Before(q, r)' /\ Offered(r)' => q \notin pending'
    BY <2>1, <2>3, <2>4, <2>5, <2>6 DEF OrderInv
  <2>11. \A q \in Posts : serial'[q] <= issued'
                          /\ (q \in pending' \/ Offered(q)' => serial'[q] > 0)
    BY <2>1, <2>2, <2>3 DEF OrderInv
  <2>12. QED BY <2>1, <2>7, <2>9, <2>10, <2>11 DEF OrderInv
<1>2. ASSUME NEW p \in Posts, Cancel(p) PROVE OrderInv'
  BY <1>2, OrderRemoved DEF Cancel, Remove
<1>3. ASSUME NEW p \in Posts, NEW g \in Nat, Attempt(p, g) PROVE OrderInv'
  <2>1. CASE requests' = requests
    BY <1>3, <2>1, OrderQuiet DEF Attempt, orderVars
  <2>2. CASE /\ IsHead(p)
             /\ requests' = requests \cup
                  {[post |-> p, gen |-> g + 1, accepted |-> FALSE]}
    <3>1. UNCHANGED <<pending, issued, serial, createdAt, clock, floating,
                      withdrawn>>
      BY <1>3 DEF Attempt
    <3>2. \A q \in Posts : Offered(q)' => Offered(q) \/ q = p
      BY <2>2, <3>1 DEF Offered, OnWire
    <3>3. \A q, r \in Posts : Before(q, r)' <=> Before(q, r)
      BY <3>1 DEF Before
    <3>4. \A q \in Posts : Before(q, p) => q \notin pending
      BY <2>2 DEF IsHead
    <3>5. NoSilentLoss' /\ DeliveryInOrder'
      BY <3>1, <3>3 DEF OrderInv, NoSilentLoss, DeliveryInOrder
    <3>6. p \in pending
      BY <2>2 DEF IsHead
    <3>7. \A r \in requests' : r.accepted => r \in requests
      BY <2>2
    <3>8. QED BY <3>1, <3>2, <3>3, <3>4, <3>5, <3>6, <3>7 DEF OrderInv
  <2>3. QED BY <1>3, <2>1, <2>2 DEF Attempt, Attemptable
<1>4. ASSUME NEW r \in requests, CreateSucceeds(r) PROVE OrderInv'
  <2>1. r.post \in Posts /\ createdAt[r.post] > 0
    BY <1>4 DEF CreateSucceeds, OrderInv, TypeOK
  <2>2. CASE pending' = pending \ {r.post} /\ UNCHANGED <<issued, serial>>
    BY <1>4, <2>1, <2>2, OrderRemoved DEF CreateSucceeds
  <2>3. CASE r.post \notin pending /\ UNCHANGED <<pending, issued, serial>>
    <3>1. pending' = pending \ {r.post}
      BY <2>3
    <3>2. QED BY <1>4, <2>1, <2>3, <3>1, OrderRemoved DEF CreateSucceeds
  <2>4. QED BY <1>4, <2>2, <2>3 DEF CreateSucceeds, Confirm, Remove
<1>5. ASSUME NEW r \in requests, NEW b \in BOOLEAN, CreateFails(r, b)
      PROVE OrderInv'
  <2>1. UNCHANGED <<pending, issued, serial, createdAt, clock, withdrawn>>
        /\ requests' \subseteq requests
    BY <1>5 DEF CreateFails
  <2>2. OnWire' \subseteq OnWire
    BY <1>5 DEF CreateFails, OnWire
  <2>3. \A q \in Posts : Offered(q)' => Offered(q)
    BY <2>1, <2>2 DEF Offered
  <2>4. \A q, s \in Posts : Before(q, s)' <=> Before(q, s)
    BY <2>1 DEF Before
  <2>5. NoSilentLoss' /\ DeliveryInOrder'
    BY <2>1, <2>4 DEF OrderInv, NoSilentLoss, DeliveryInOrder
  <2>6. QED BY <2>1, <2>3, <2>4, <2>5 DEF OrderInv
<1>6. ASSUME NEW m \in Messages, Realtime(m) \/ HistoryMerged(m)
      PROVE OrderInv'
  <2>1. createdAt[m] > 0 /\ HandleAuthoritative(m)
        /\ UNCHANGED <<createdAt, clock, requests, floating, withdrawn>>
    BY <1>6 DEF Realtime, HistoryMerged
  <2>2. CASE m \in pending /\ Confirm(m)
    <3>1. m \in Posts
      BY <2>2 DEF OrderInv, TypeOK
    <3>2. QED BY <2>1, <2>2, <3>1, OrderRemoved DEF Confirm, Remove
  <2>3. CASE UNCHANGED <<pending, issued, serial>>
    BY <2>1, <2>3, OrderQuiet DEF orderVars
  <2>4. QED BY <2>1, <2>2, <2>3 DEF HandleAuthoritative
<1>7. ASSUME NEW r \in requests, ServerAccepts(r) PROVE OrderInv'
  <2>1. r.post \in Posts /\ r.post \in Messages /\ Offered(r.post)
    BY ConvsOfPosts DEF OrderInv, TypeOK, Offered, OnWire
  <2>2. [r EXCEPT !.accepted = TRUE].post = r.post
    BY DEF OrderInv, TypeOK
  <2>3. requests' = (requests \ {r}) \cup {[r EXCEPT !.accepted = TRUE]}
        /\ floating' = floating
    BY <1>7 DEF ServerAccepts
  <2>4. OnWire' \subseteq OnWire
    BY <2>2, <2>3 DEF OnWire
  <2>5. \A s \in requests' : s.accepted =>
          s.post = r.post \/ \E t \in requests : t.accepted /\ t.post = s.post
    BY <2>2, <2>3
  <2>6. Stamp(r.post) /\ UNCHANGED <<pending, issued, serial, withdrawn>>
    BY <1>7 DEF ServerAccepts
  <2>7. QED BY <2>1, <2>4, <2>5, <2>6, OrderStamped
<1>8. ASSUME NEW p \in Posts, ServerAcceptsLate(p) PROVE OrderInv'
  <2>1. Offered(p) /\ OnWire' \subseteq OnWire
    BY <1>8 DEF ServerAcceptsLate, Offered, OnWire
  <2>2. Stamp(p) /\ UNCHANGED <<pending, issued, serial, withdrawn, requests>>
    BY <1>8 DEF ServerAcceptsLate
  <2>3. QED BY <2>1, <2>2, OrderStamped, ConvsOfPosts
<1>9. ASSUME NEW m \in Messages, ForeignPosted(m) PROVE OrderInv'
  <2>1. m \notin Posts
    BY <1>9, OutboxAssumption DEF ForeignPosted, OutboxAssumption
  <2>2. /\ Stamp(m)
        /\ UNCHANGED <<pending, issued, serial, withdrawn, requests, floating>>
    BY <1>9 DEF ForeignPosted
  <2>3. OnWire' \subseteq OnWire
    BY <2>2 DEF OnWire
  <2>4. QED BY <2>1, <2>2, <2>3, OrderStamped
<1>10. ASSUME UNCHANGED orderVars PROVE OrderInv'
  BY <1>10, OrderQuiet
<1>11. ASSUME User PROVE OrderInv'
  BY <1>11, <1>1, <1>2, <1>10 DEF User, EnqueueRefused, Retry, Stage, orderVars
<1>12. ASSUME Timers \/ Tick PROVE OrderInv'
  <2>1. attemptDue \subseteq Posts \X Nat
    BY DEF OrderInv, TypeOK
  <2>2. QED BY <1>12, <1>3, <1>10, <2>1
        DEF Timers, Start, RetryTimer, Deadline, Forget, Tick, orderVars
<1>13. ASSUME Replies PROVE OrderInv'
  BY <1>13, <1>4, <1>5, <1>10 DEF Replies, UploadReplies, orderVars
<1>14. ASSUME Arrivals PROVE OrderInv'
  BY <1>14, <1>6, <1>10
     DEF Arrivals, Evicted, ChannelRefreshed, ChannelLost, orderVars
<1>15. ASSUME Server PROVE OrderInv'
  BY <1>15, <1>7, <1>8, <1>9 DEF Server
<1>16. QED BY <1>11, <1>12, <1>13, <1>14, <1>15 DEF Next

\* FIFO order and the absence of silent loss, with the invariant that makes
\* them inductive.
THEOREM OrderHolds == Spec => []OrderInv
<1>1. Init => OrderInv
  <2> SUFFICES ASSUME Init PROVE OrderInv
    OBVIOUS
  <2>1. TypeOK
    BY TypeInit
  <2>2. QED BY <2>1, ConvsOfPosts DEF Init, OrderInv, Offered, OnWire, Before,
        NoSilentLoss, DeliveryInOrder, Messages
<1>2. OrderInv /\ TypeOK /\ TypeOK' /\ [Next]_vars => OrderInv'
  <2> SUFFICES ASSUME OrderInv, TypeOK', [Next]_vars PROVE OrderInv'
    OBVIOUS
  <2>1. CASE UNCHANGED vars
    BY <2>1, OrderQuiet
    DEF vars, outboxVars, serverVars, orderVars
  <2>2. QED BY <2>1, OrderStep
<1>3. QED BY <1>1, <1>2, TypeCorrect, PTL DEF Spec

\* A later message of a conversation reaches the server only after every
\* earlier one did or was withdrawn, whatever is lost, retried or late.
THEOREM FifoDelivery == Spec => []DeliveryInOrder
<1>1. OrderInv => DeliveryInOrder
  BY DEF OrderInv
<1>2. QED BY <1>1, OrderHolds, PTL

\* A message leaves the outbox only delivered or withdrawn.
THEOREM NothingLost == Spec => []NoSilentLoss
<1>1. OrderInv => NoSilentLoss
  BY DEF OrderInv
<1>2. QED BY <1>1, OrderHolds, PTL

-----------------------------------------------------------------------------
(* The outbox implements ordered delivery: every step of the session is   *)
(* one abstract step or none.                                              *)

landedNow == [p \in Posts |-> createdAt[p]]

\* The variables the abstract specification sees.
seen == <<pending, serial, OnWire, landedNow, withdrawn>>

AbstractStep == Ordered!Next \/ UNCHANGED seen

\* What the abstract specification sees depends on these variables only.
LEMMA StutterSeen ==
  ASSUME UNCHANGED orderVars PROVE UNCHANGED seen
  BY DEF orderVars, seen, OnWire, landedNow

\* The wire shrinks by at most one message.
LEMMA WireShrinks ==
  ASSUME TypeOK, NEW r \in requests, requests' = requests \ {r},
         floating' = floating \/ floating' = floating \cup {r.post}
  PROVE  OnWire' \in {OnWire, OnWire \ {r.post}}
  BY DEF OnWire

\* An enqueue is the abstract submission,
LEMMA EnqueueSubmits ==
  ASSUME OrderInv, NEW p \in Posts, Enqueue(p) PROVE Ordered!Submit(p)
<1>1. serial[p] = 0 /\ pending' = pending \cup {p}
      /\ serial' = [serial EXCEPT ![p] = issued + 1]
      /\ UNCHANGED <<createdAt, requests, floating, withdrawn>>
  BY DEF Enqueue, CanSend, serverVars
<1>2. /\ serial'[p] = issued + 1 /\ serial' = [serial EXCEPT ![p] = serial'[p]]
      /\ \A q \in Posts : serial[q] < serial'[p]
  BY <1>1 DEF OrderInv, TypeOK
<1>3. UNCHANGED <<OnWire, landedNow>>
  BY <1>1 DEF OnWire, landedNow
<1>4. QED BY <1>1, <1>2, <1>3 DEF Ordered!Submit, landedNow

\* an attempt is an offer or nothing,
LEMMA AttemptOffers ==
  ASSUME OrderInv, NEW p \in Posts, NEW g \in Nat, Attempt(p, g)
  PROVE  Ordered!Offer(p) \/ UNCHANGED seen
<1>1. CASE requests' = requests
  BY <1>1, StutterSeen DEF Attempt, orderVars, serverVars
<1>2. CASE /\ IsHead(p)
           /\ requests' = requests \cup
                {[post |-> p, gen |-> g + 1, accepted |-> FALSE]}
  <2>1. UNCHANGED <<pending, serial, createdAt, floating, withdrawn>>
    BY DEF Attempt, serverVars
  <2>2. OnWire' = OnWire \cup {p}
    <3> DEFINE fresh == [post |-> p, gen |-> g + 1, accepted |-> FALSE]
    <3>1. fresh.post = p /\ requests' = requests \cup {fresh}
      BY <1>2
    <3>2. {r.post : r \in requests'} = {r.post : r \in requests} \cup {p}
      <4> HIDE DEF fresh
      <4> QED BY <3>1
    <3>3. QED BY <2>1, <3>2 DEF OnWire
  <2>3. \A q \in pending : ~Ordered!Ahead(q, p)
    BY <1>2 DEF IsHead, Before, Ordered!Ahead, OrderInv, TypeOK
  <2>4. landedNow' = landedNow
    BY <2>1 DEF landedNow
  <2>5. p \in pending
    BY <1>2 DEF IsHead
  <2>6. QED BY <2>1, <2>2, <2>3, <2>4, <2>5 DEF Ordered!Offer, landedNow
<1>3. QED BY <1>1, <1>2 DEF Attempt, Attemptable

\* Leaving the outbox with the server holding the message.
LEMMA RemovalFinishes ==
  ASSUME OrderInv, NEW p \in Posts, p \in pending, createdAt[p] > 0,
         pending' = pending \ {p},
         OnWire' \in {OnWire, OnWire \ {p}},
         UNCHANGED <<serial, createdAt, withdrawn>>
  PROVE  Ordered!Finish(p)
<1>1. landedNow[p] > 0 /\ landedNow' = landedNow
  BY DEF landedNow
<1>2. QED BY <1>1 DEF Ordered!Finish, landedNow

\* A copy leaving the wire, with nothing else for the abstraction to see.
LEMMA WireDrops ==
  ASSUME NEW p \in Posts, OnWire' \in {OnWire, OnWire \ {p}},
         UNCHANGED <<pending, serial, createdAt, withdrawn>>
  PROVE  Ordered!Drop(p) \/ UNCHANGED seen
<1>1. landedNow' = landedNow
  BY DEF landedNow
<1>2. CASE OnWire' = OnWire
  BY <1>1, <1>2 DEF seen
<1>3. CASE p \in OnWire /\ OnWire' = OnWire \ {p}
  BY <1>1, <1>3 DEF Ordered!Drop, landedNow
<1>4. CASE p \notin OnWire /\ OnWire' = OnWire \ {p}
  BY <1>2, <1>4
<1>5. QED BY <1>2, <1>3, <1>4

\* The server stamping an offered message, or meeting it again.
LEMMA StampLands ==
  ASSUME OrderInv, NEW p \in Posts, p \in OnWire, Stamp(p),
         OnWire' \in {OnWire, OnWire \ {p}},
         UNCHANGED <<pending, serial, withdrawn>>
  PROVE  Ordered!Land(p) \/ Ordered!Drop(p) \/ UNCHANGED seen
<1>1. CASE createdAt[p] > 0
  BY <1>1, WireDrops DEF Stamp, OrderInv, TypeOK
<1>2. CASE createdAt[p] = 0
  <2>1. p \in Messages /\ createdAt' = [createdAt EXCEPT ![p] = clock + 1]
    BY <1>2, ConvsOfPosts DEF Stamp
  <2>2. landedNow[p] = 0 /\ landedNow'[p] = clock + 1
        /\ landedNow' = [landedNow EXCEPT ![p] = landedNow'[p]]
    BY <1>2, <2>1, ConvsOfPosts DEF landedNow, OrderInv, TypeOK
  <2>3. \A q \in Posts : landedNow[q] < landedNow'[p]
    BY <2>2, ConvsOfPosts DEF landedNow, OrderInv, TypeOK
  <2>4. QED BY <2>2, <2>3 DEF Ordered!Land, landedNow
<1>3. QED BY <1>1, <1>2, ConvsOfPosts DEF OrderInv, TypeOK

\* and so every step is an abstract one.
LEMMA OrderedStep ==
  ASSUME OrderInv, Next PROVE AbstractStep
<1> USE DEF outboxVars, timerVars, clientVars, uploadVars, serverVars
<1>1. ASSUME NEW p \in Posts, Enqueue(p) PROVE AbstractStep
  BY <1>1, EnqueueSubmits DEF AbstractStep, Ordered!Next
<1>2. ASSUME NEW p \in Posts, Cancel(p) PROVE AbstractStep
  <2>1. Ordered!Withdraw(p)
    BY <1>2 DEF Cancel, Remove, Ordered!Withdraw, OnWire
  <2>2. QED BY <2>1 DEF AbstractStep, Ordered!Next
<1>3. ASSUME NEW p \in Posts, NEW g \in Nat, Attempt(p, g) PROVE AbstractStep
  BY <1>3, AttemptOffers DEF AbstractStep, Ordered!Next
<1>4. ASSUME NEW r \in requests, CreateSucceeds(r) PROVE AbstractStep
  <2>1. r.post \in Posts /\ createdAt[r.post] > 0 /\ TypeOK
    BY <1>4 DEF CreateSucceeds, OrderInv, TypeOK
  <2>2. /\ OnWire' \in {OnWire, OnWire \ {r.post}}
        /\ UNCHANGED <<createdAt, withdrawn>>
    BY <1>4, <2>1, WireShrinks DEF CreateSucceeds
  <2>3. CASE r.post \in pending /\ Confirm(r.post)
    BY <2>1, <2>2, <2>3, RemovalFinishes
    DEF Confirm, Remove, AbstractStep, Ordered!Next
  <2>4. CASE UNCHANGED outboxVars
    BY <2>1, <2>2, <2>4, WireDrops DEF AbstractStep, Ordered!Next
  <2>5. QED BY <1>4, <2>3, <2>4 DEF CreateSucceeds
<1>5. ASSUME NEW r \in requests, NEW b \in BOOLEAN, CreateFails(r, b)
      PROVE AbstractStep
  <2>1. r.post \in Posts /\ TypeOK
    BY DEF OrderInv, TypeOK
  <2>2. /\ OnWire' \in {OnWire, OnWire \ {r.post}}
        /\ UNCHANGED <<pending, serial, createdAt, withdrawn>>
    BY <1>5, <2>1, WireShrinks DEF CreateFails
  <2>3. QED BY <2>1, <2>2, WireDrops DEF AbstractStep, Ordered!Next
<1>6. ASSUME NEW m \in Messages, Realtime(m) \/ HistoryMerged(m)
      PROVE AbstractStep
  <2>1. createdAt[m] > 0 /\ HandleAuthoritative(m)
        /\ UNCHANGED <<createdAt, clock, requests, floating, withdrawn>>
    BY <1>6 DEF Realtime, HistoryMerged
  <2>2. CASE m \in pending /\ Confirm(m)
    <3>1. m \in Posts
      BY <2>2 DEF OrderInv, TypeOK
    <3>2. OnWire' = OnWire
      BY <2>1 DEF OnWire
    <3>3. QED BY <2>1, <2>2, <3>1, <3>2, RemovalFinishes
          DEF Confirm, Remove, AbstractStep, Ordered!Next
  <2>3. CASE UNCHANGED <<pending, issued, serial>>
    BY <2>1, <2>3, StutterSeen DEF orderVars, AbstractStep
  <2>4. QED BY <2>1, <2>2, <2>3 DEF HandleAuthoritative
<1>7. ASSUME NEW r \in requests, ServerAccepts(r) PROVE AbstractStep
  <2>1. r.post \in Posts /\ r.post \in OnWire
    BY DEF OrderInv, TypeOK, OnWire
  <2>2. OnWire' = OnWire
    <3>1. [r EXCEPT !.accepted = TRUE].post = r.post
      BY DEF OrderInv, TypeOK
    <3>2. requests' = (requests \ {r}) \cup {[r EXCEPT !.accepted = TRUE]}
          /\ floating' = floating
      BY <1>7 DEF ServerAccepts
    <3>3. QED BY <3>1, <3>2 DEF OnWire
  <2>3. Stamp(r.post) /\ UNCHANGED <<pending, serial, withdrawn>>
    BY <1>7 DEF ServerAccepts
  <2>4. QED BY <2>1, <2>2, <2>3, StampLands DEF AbstractStep, Ordered!Next
<1>8. ASSUME NEW p \in Posts, ServerAcceptsLate(p) PROVE AbstractStep
  <2>1. p \in OnWire /\ OnWire' \in {OnWire, OnWire \ {p}}
    BY <1>8 DEF ServerAcceptsLate, OnWire
  <2>2. Stamp(p) /\ UNCHANGED <<pending, serial, withdrawn>>
    BY <1>8 DEF ServerAcceptsLate
  <2>3. QED BY <2>1, <2>2, StampLands DEF AbstractStep, Ordered!Next
<1>9. ASSUME NEW m \in Messages, ForeignPosted(m) PROVE AbstractStep
  <2>1. landedNow' = landedNow
    BY <1>9, OutboxAssumption, ConvsOfPosts
    DEF ForeignPosted, Stamp, OutboxAssumption, landedNow, OrderInv, TypeOK
  <2>2. QED BY <1>9, <2>1 DEF ForeignPosted, OnWire, AbstractStep, seen
<1>10. ASSUME UNCHANGED orderVars PROVE AbstractStep
  BY <1>10, StutterSeen DEF AbstractStep
<1>11. ASSUME User PROVE AbstractStep
  BY <1>11, <1>1, <1>2, <1>10 DEF User, EnqueueRefused, Retry, Stage, orderVars
<1>12. ASSUME Timers \/ Tick PROVE AbstractStep
  <2>1. attemptDue \subseteq Posts \X Nat
    BY DEF OrderInv, TypeOK
  <2>2. QED BY <1>12, <1>3, <1>10, <2>1
        DEF Timers, Start, RetryTimer, Deadline, Forget, Tick, orderVars
<1>13. ASSUME Replies PROVE AbstractStep
  BY <1>13, <1>4, <1>5, <1>10 DEF Replies, UploadReplies, orderVars
<1>14. ASSUME Arrivals PROVE AbstractStep
  BY <1>14, <1>6, <1>10
     DEF Arrivals, Evicted, ChannelRefreshed, ChannelLost, orderVars
<1>15. ASSUME Server PROVE AbstractStep
  BY <1>15, <1>7, <1>8, <1>9 DEF Server
<1>16. QED BY <1>11, <1>12, <1>13, <1>14, <1>15 DEF Next

\* The session outbox is an ordered delivery queue: through every retry, lost
\* reply, stale timer and late acceptance, only heads are offered and a
\* message stops waiting only when it landed or was withdrawn.
THEOREM Refinement == Spec => ImplementsOrderedDelivery
<1>1. Init => Ordered!Init
  BY ConvsOfPosts DEF Init, Ordered!Init, OnWire
<1>2. OrderInv /\ [Next]_vars => [Ordered!Next]_Ordered!vars
  <2> SUFFICES ASSUME OrderInv, [Next]_vars
               PROVE  Ordered!Next \/ UNCHANGED Ordered!vars
    BY DEF Ordered!vars
  <2>1. UNCHANGED seen => UNCHANGED Ordered!vars
    BY DEF seen, landedNow, Ordered!vars
  <2>2. CASE UNCHANGED vars
    BY <2>1, <2>2, StutterSeen DEF vars, outboxVars, serverVars, orderVars
  <2>3. CASE Next
    BY <2>1, <2>3, OrderedStep DEF AbstractStep
  <2>4. QED BY <2>2, <2>3
<1>3. QED BY <1>1, <1>2, OrderHolds, PTL
      DEF Spec, ImplementsOrderedDelivery, Ordered!Spec

-----------------------------------------------------------------------------
(* Nothing is stranded: what each message waits for, and why it still comes. *)

\* What row r of p lacks is being uploaded, or its failure shows.
FilesComing(p, r) ==
  \A u \in UploadsOf[p] \ r.files :
    /\ upload[u].state \in {"Uploading", "Failed"}
    /\ upload[u].state = "Failed" => r.state = "Failed"

\* Each state has its place in the queue and the callback that moves it on;
\* begun is that a start of the conversation is due, which may mend the rest.
Placed(p, r, begun) ==
  /\ r.state = "Sending" =>
       /\ IsHead(p) /\ UploadsOf[p] \subseteq r.files
       /\ \E q \in requests : q.post = p /\ q.gen = r.gen
  /\ r.state = "RetryWait" => IsHead(p) /\ <<p, r.gen>> \in retryDue /\ ~CutOff(r)
  /\ r.state = "Uploading" =>
       ~(UploadsOf[p] \subseteq r.files) /\ (begun \/ IsHead(p))
  /\ r.state = "Queued" => begun \/ (IsHead(p) /\ <<p, r.gen>> \in attemptDue)
  /\ r.state = "Blocked" => begun \/ ~IsHead(p)

\* The end of the ten minutes is armed, or passed while a create is in flight.
Timed(p, r) ==
  r.state # "Failed" =>
    <<p, r.window>> \in deadlines \/ (r.state = "Sending" /\ Expired(r))

\* A head that the conversation left behind is not to be attempted.
Counting(p, r, begun) ==
  /\ IsFiniteSet(r.newer)
  /\ IsHead(p) /\ CutOff(r) =>
       begun \/ r.state \in {"Failed", "Sending", "Uploading"}

RowOK(p, r, begun) ==
  FilesComing(p, r) /\ Placed(p, r, begun) /\ Timed(p, r) /\ Counting(p, r, begun)

PostOK(p) == RowOK(p, row[p], ConvOf[p] \in starts)

\* No two messages share a number, and the create in flight of a pending
\* message is its only one and carries its generation.
Numbered ==
  /\ \A p \in Posts : serial[p] <= issued
  /\ \A p \in pending : serial[p] > 0
  /\ \A p, q \in Posts : serial[p] > 0 /\ serial[p] = serial[q] => p = q

Requested ==
  /\ \A r \in requests : serial[r.post] > 0
  /\ \A r \in requests : r.post \in pending =>
       row[r.post].state = "Sending" /\ row[r.post].gen = r.gen
  /\ \A r, s \in requests : r.post \in pending /\ r.post = s.post => r = s

\* An upload in progress has its request in flight.
Carried ==
  \A u \in Uploads :
    upload[u].state = "Uploading" => <<u, upload[u].gen>> \in transfers

LiveInv ==
  /\ Numbered
  /\ Carried
  /\ Requested
  /\ \A p \in pending : PostOK(p)

\* What a step does not touch: post p keeps its row, and every timer, reply
\* and upload it waits for stays; it may only become the head when a start
\* of its conversation is due.
LEMMA Untouched ==
  ASSUME TypeOK, TypeOK', NEW p \in pending, PostOK(p), row'[p] = row[p],
         IsHead(p) => IsHead(p)',
         IsHead(p)' => IsHead(p) \/ ConvOf[p] \in starts',
         ConvOf[p] \in starts => ConvOf[p] \in starts',
         \A q \in requests : q.post = p => \E s \in requests' : s.post = p /\ s.gen = q.gen,
         <<p, row[p].gen>> \in retryDue => <<p, row[p].gen>> \in retryDue',
         <<p, row[p].gen>> \in attemptDue => <<p, row[p].gen>> \in attemptDue',
         <<p, row[p].window>> \in deadlines => <<p, row[p].window>> \in deadlines',
         \A u \in UploadsOf[p] \ row[p].files : upload'[u] = upload[u],
         now <= now'
  PROVE  PostOK(p)'
<1> DEFINE r == row[p]
<1>0. r \in Row /\ row'[p] = r /\ r.window \in Nat
  BY RowFields DEF TypeOK
<1>1. FilesComing(p, row[p])'
  BY DEF PostOK, RowOK, FilesComing
<1>2. Placed(p, row[p], ConvOf[p] \in starts)'
  BY DEF PostOK, RowOK, Placed, CutOff
<1>3. Timed(p, row[p])'
  <2>1. Expired(row[p]) => Expired(row[p])'
    BY <1>0, OutboxAssumption DEF Expired, TypeOK, OutboxAssumption
  <2>2. QED BY <2>1 DEF PostOK, RowOK, Timed
<1>4. Counting(p, row[p], ConvOf[p] \in starts)'
  BY DEF PostOK, RowOK, Counting, CutOff
<1>5. QED BY <1>1, <1>2, <1>3, <1>4 DEF PostOK, RowOK

\* A start of the conversation mends what it was due for.
LEMMA StartMends ==
  ASSUME TypeOK, TypeOK', NEW rows \in [Posts -> Row], NEW p \in pending,
         UNCHANGED <<pending, serial, now>>,
         Armed(rows, ConvOf[p]) \subseteq attemptDue',
         row'[p] = Started(rows, ConvOf[p])[p],
         RowOK(p, rows[p], TRUE)'
  PROVE  RowOK(p, row[p], FALSE)'
<1> DEFINE c == ConvOf[p]
           r == rows[p]
<1>1. p \in Posts /\ p \in Queue(c) /\ r \in Row
  BY DEF TypeOK, Queue
<1>2. IsHead(p)' <=> IsHead(p)
  BY DEF IsHead, Before
<1>3. CASE p \in ToBlock(rows, c)
  <2>1. /\ row'[p] = With(r, "Blocked") /\ ~IsHead(p)
        /\ r.state \notin {"Failed", "Blocked"}
    <3>1. Started(rows, c)[p] = With(rows[p], "Blocked")
      BY <1>1, <1>3 DEF Started, ToBlock, Startable
    <3>2. QED BY <1>3, <3>1 DEF ToBlock
  <2>2. /\ row'[p].state = "Blocked" /\ row'[p].files = r.files
        /\ row'[p].window = r.window /\ row'[p].newer = r.newer
    BY <1>1, <2>1 DEF With, Row
  <2>3. r.state # "Sending"
    BY <1>2, <2>1 DEF RowOK, Placed
  <2>4. QED BY <1>2, <2>1, <2>2, <2>3
            DEF RowOK, FilesComing, Placed, Timed, Counting
<1>4. CASE p \in Startable(rows, c) /\ Spent(r)
  <2>1. row'[p] = With(r, "Failed")
    BY <1>1, <1>4 DEF Started, Startable, ToBlock
  <2>2. /\ row'[p].state = "Failed" /\ row'[p].files = r.files
        /\ row'[p].newer = r.newer
    BY <1>1, <2>1 DEF With, Row
  <2>3. QED BY <2>2 DEF RowOK, FilesComing, Placed, Timed, Counting
<1>5. CASE p \in Startable(rows, c) /\ ~Spent(r)
  <2>1. /\ row'[p] = With(r, "Queued") /\ IsHead(p)
        /\ r.state \in {"Queued", "Blocked"}
    BY <1>1, <1>5 DEF Started, Startable, ToBlock
  <2>2. /\ row'[p].state = "Queued" /\ row'[p].files = r.files
        /\ row'[p].window = r.window /\ row'[p].newer = r.newer
        /\ row'[p].gen = r.gen + 1
    BY <1>1, <2>1 DEF With, Row
  <2>3. <<p, row'[p].gen>> \in attemptDue'
    BY <1>5, <2>2 DEF Armed
  <2>4. ~CutOff(row[p])'
    BY <1>5, <2>2 DEF Spent, CutOff
  <2>5. QED BY <1>2, <2>1, <2>2, <2>3, <2>4
            DEF RowOK, FilesComing, Placed, Timed, Counting
<1>6. CASE p \notin ToBlock(rows, c) /\ p \notin Startable(rows, c)
  <2>1. row'[p] = r
    BY <1>1, <1>6 DEF Started
  <2>2. IsHead(p) => r.state \notin {"Queued", "Blocked"}
    BY <1>1, <1>6 DEF Startable
  <2>3. ~IsHead(p) => r.state \in {"Failed", "Blocked"}
    BY <1>1, <1>6 DEF ToBlock
  <2>4. r.state \in States
    BY <1>1, RowFields
  <2>5. FilesComing(p, row[p])' /\ Timed(p, row[p])'
    BY <2>1 DEF RowOK, FilesComing, Timed, Expired
  <2>6. Placed(p, row[p], FALSE)'
    BY <1>2, <2>1, <2>2, <2>3 DEF RowOK, Placed, CutOff
  <2>7. Counting(p, row[p], FALSE)'
    BY <1>2, <2>1, <2>2, <2>4 DEF RowOK, Counting, Placed, CutOff, States
  <2>8. QED BY <2>5, <2>6, <2>7 DEF RowOK
<1>7. QED BY <1>3, <1>4, <1>5, <1>6

\* A removal, and a start of what comes next.
LEMMA HeadsAfter ==
  ASSUME NEW p \in pending, NEW q, pending' = pending \ {q}, serial' = serial, p # q
  PROVE  /\ IsHead(p) => IsHead(p)'
         /\ IsHead(p)' => IsHead(p) \/ ConvOf[p] = ConvOf[q]
  BY DEF IsHead, Before

\* The heads of the conversations follow from the order alone,
LEMMA SameHeads ==
  ASSUME UNCHANGED <<pending, serial>>
  PROVE  \A p \in Posts : IsHead(p)' <=> IsHead(p)
  BY DEF IsHead, Before

\* and each conversation has at most one.
LEMMA OneHead ==
  ASSUME Numbered, pending \subseteq Posts, NEW p \in pending, NEW q \in pending,
         serial \in [Posts -> Nat],
         IsHead(p), IsHead(q), ConvOf[p] = ConvOf[q]
  PROVE  p = q
  BY DEF IsHead, Before, Numbered

\* Files belong to one message.
LEMMA OwnFiles ==
  ASSUME NEW p \in Posts, NEW q \in Posts, p # q
  PROVE  \A u \in UploadsOf[q] : u \notin UploadsOf[p]
  BY OutboxAssumption DEF OutboxAssumption

\* A row that is still to be started, when nothing it waits for changes.
LEMMA RowKept ==
  ASSUME TypeOK, TypeOK', NEW p \in Posts, NEW r \in Row, RowOK(p, r, TRUE),
         IsHead(p)' <=> IsHead(p),
         \A q \in requests : q.post = p => \E s \in requests' : s.post = p /\ s.gen = q.gen,
         <<p, r.gen>> \in retryDue => <<p, r.gen>> \in retryDue',
         <<p, r.window>> \in deadlines => <<p, r.window>> \in deadlines',
         \A u \in UploadsOf[p] \ r.files : upload'[u] = upload[u],
         now <= now'
  PROVE  RowOK(p, r, TRUE)'
<1>1. FilesComing(p, r)'
  BY DEF RowOK, FilesComing
<1>2. Placed(p, r, TRUE)'
  BY DEF RowOK, Placed, CutOff
<1>3. Timed(p, r)'
  <2>1. Expired(r) => Expired(r)'
    BY RowFields, OutboxAssumption DEF Expired, TypeOK, OutboxAssumption
  <2>2. QED BY <2>1 DEF RowOK, Timed
<1>4. Counting(p, r, TRUE)'
  BY DEF RowOK, Counting
<1>5. QED BY <1>1, <1>2, <1>3, <1>4 DEF RowOK

\* A start leaves rows alone that are not its conversation's, and a head being sent.
LEMMA StartedSame ==
  ASSUME TypeOK, NEW rows \in [Posts -> Row], NEW c, NEW p \in Posts,
         p \notin Queue(c) \/ (IsHead(p) /\ rows[p].state = "Sending")
  PROVE  Started(rows, c)[p] = rows[p]
<1>1. p \notin ToBlock(rows, c) /\ p \notin Startable(rows, c)
  BY DEF ToBlock, Startable
<1>2. QED BY <1>1 DEF Started

\* The numbers and the creates in flight, when nothing is enqueued.
LEMMA BooksKept ==
  ASSUME LiveInv, TypeOK, UNCHANGED <<issued, serial>>, pending' \subseteq pending,
         \A r \in requests' : \E q \in requests : q.post = r.post /\ q.gen = r.gen,
         \A r \in requests' : r.post \in pending' => row'[r.post] = row[r.post],
         \A r, s \in requests' : r.post \in pending' /\ r.post = s.post => r = s
  PROVE  Numbered' /\ Requested'
<1>1. Numbered'
  BY DEF LiveInv, Numbered
<1>2. Requested'
  BY DEF LiveInv, Requested
<1>3. QED BY <1>1, <1>2

\* Steps that touch no message, nor what it waits for.
LEMMA LiveQuiet ==
  ASSUME LiveInv, TypeOK, TypeOK',
         UNCHANGED <<outboxVars, starts, attemptDue, retryDue, deadlines, requests>>,
         \A p \in pending : \A u \in UploadsOf[p] \ row[p].files : upload'[u] = upload[u],
         Carried', now <= now'
  PROVE  LiveInv'
<1> USE DEF outboxVars
<1>1. Numbered' /\ Requested'
  BY BooksKept DEF LiveInv, Requested
<1>2. ASSUME NEW p \in pending PROVE PostOK(p)'
  <2>1. PostOK(p) /\ p \in Posts
    BY DEF LiveInv, TypeOK
  <2>2. IsHead(p)' <=> IsHead(p)
    BY <2>1, SameHeads
  <2>3. QED BY <2>1, <2>2, Untouched
<1>3. QED BY <1>1, <1>2 DEF LiveInv

\* A message leaves: its reply came, or the user cancelled it.
LEMMA LiveRemoved ==
  ASSUME LiveInv, TypeOK, TypeOK', NEW p \in Posts, Remove(p),
         UNCHANGED <<attemptDue, retryDue, deadlines, transfers, now>>,
         requests' \subseteq requests,
         \A r \in requests : r.post # p => r \in requests'
  PROVE  LiveInv'
<1>0. pending' = pending \ {p} /\ UNCHANGED <<issued, serial>>
  BY DEF Remove
<1>1. Numbered' /\ Requested'
  <2>1. \A r \in requests' : r.post \in pending' => row'[r.post] = row[r.post]
    BY <1>0 DEF Remove, TypeOK
  <2>2. QED BY <1>0, <2>1, BooksKept DEF LiveInv, Requested
<1>c. Carried'
  BY DEF LiveInv, Carried, Remove, Released, NoUpload
<1>2. ASSUME NEW q \in pending' PROVE PostOK(q)'
  <2>1. q \in pending /\ q # p /\ q \in Posts /\ PostOK(q)
    BY <1>0 DEF LiveInv, TypeOK
  <2>2. row'[q] = row[q]
    BY <2>1 DEF Remove, TypeOK
  <2>3. \A u \in UploadsOf[q] : upload'[u] = upload[u]
    BY <2>1, OwnFiles, ConvsOfPosts DEF Remove, Released
  <2>4. /\ IsHead(q) => IsHead(q)'
        /\ IsHead(q)' => IsHead(q) \/ ConvOf[q] \in starts'
        /\ ConvOf[q] \in starts => ConvOf[q] \in starts'
    BY <1>0, <2>1, HeadsAfter DEF Remove
  <2>5. now <= now'
    BY DEF TypeOK
  <2>6. QED BY <2>1, <2>2, <2>3, <2>4, <2>5, Untouched
<1>3. QED BY <1>1, <1>c, <1>2 DEF LiveInv

\* A start of conversation c, after whatever made rows of the rows.
LEMMA LiveStarted ==
  ASSUME LiveInv, TypeOK, TypeOK', NEW rows \in [Posts -> Row], NEW c \in Convs,
         UNCHANGED <<pending, issued, serial, now, requests>>,
         Carried', row' = Started(rows, c), Armed(rows, c) \subseteq attemptDue',
         \A p \in pending : ConvOf[p] = c => RowOK(p, rows[p], TRUE)',
         \A p \in pending : ConvOf[p] # c => PostOK(p)',
         \A r \in requests : r.post \in pending => rows[r.post] = row[r.post]
  PROVE  LiveInv'
<1>1. Numbered' /\ Requested'
  <2>1. ASSUME NEW r \in requests, r.post \in pending PROVE row'[r.post] = row[r.post]
    <3>1. r.post \in Posts /\ rows[r.post] = row[r.post] /\ row[r.post].state = "Sending"
      BY <2>1 DEF TypeOK, LiveInv, Requested
    <3>2. IsHead(r.post)
      BY <2>1, <3>1 DEF LiveInv, PostOK, RowOK, Placed
    <3>3. QED BY <3>1, <3>2, StartedSame
  <2>2. QED BY <2>1, BooksKept DEF LiveInv, Requested
<1>2. ASSUME NEW p \in pending PROVE PostOK(p)'
  <2>1. CASE ConvOf[p] = c
    <3>1. RowOK(p, row[p], FALSE)'
      BY <2>1, StartMends
    <3>2. QED BY <3>1 DEF PostOK, RowOK, Placed, Counting
  <2>2. QED BY <2>1
<1>3. QED BY <1>1, <1>2 DEF LiveInv

\* Steps that change the row of one message and start nothing.
LEMMA LiveOne ==
  ASSUME LiveInv, TypeOK, TypeOK', NEW p \in Posts,
         UNCHANGED <<pending, issued, serial>>, starts \subseteq starts',
         Carried', Requested',
         \A q \in Posts \ {p} : \A u \in UploadsOf[q] : upload'[u] = upload[u],
         \A q \in Posts : q # p => row'[q] = row[q],
         \A q \in Posts \ {p}, r \in requests : r.post = q =>
           \E s \in requests' : s.post = q /\ s.gen = r.gen,
         \A q \in Posts \ {p}, g \in Nat : <<q, g>> \in retryDue => <<q, g>> \in retryDue',
         \A q \in Posts \ {p}, g \in Nat : <<q, g>> \in attemptDue => <<q, g>> \in attemptDue',
         \A q \in Posts \ {p}, w \in Nat : <<q, w>> \in deadlines => <<q, w>> \in deadlines',
         now <= now', p \in pending => PostOK(p)'
  PROVE  LiveInv'
<1>1. Numbered'
  BY DEF LiveInv, Numbered
<1>2. ASSUME NEW q \in pending, q # p PROVE PostOK(q)'
  <2>1. q \in Posts \ {p} /\ PostOK(q) /\ row[q] \in Row /\ row'[q] = row[q]
    BY <1>2 DEF LiveInv, TypeOK
  <2>2. row[q].gen \in Nat /\ row[q].window \in Nat
    BY <2>1, RowFields
  <2>3. IsHead(q)' <=> IsHead(q)
    BY <2>1, SameHeads
  <2>4. QED BY <2>1, <2>2, <2>3, Untouched
<1>3. QED BY <1>1, <1>2 DEF LiveInv

-----------------------------------------------------------------------------
(* One lemma for each handler.                                             *)

\* What follows is the model's actions, one each: a file is staged,
LEMMA LiveStage ==
  ASSUME LiveInv, TypeOK, TypeOK', NEW p \in Posts, NEW u \in Uploads, Stage(p, u)
  PROVE  LiveInv'
<1>1. p \notin pending /\ u \in UploadsOf[p]
  BY DEF Stage, CanSend, LiveInv, Numbered
<1>2. \A q \in pending : \A v \in UploadsOf[q] : upload'[v] = upload[v]
  <2>1. ASSUME NEW q \in pending, NEW v \in UploadsOf[q] PROVE upload'[v] = upload[v]
    <3>1. q \in Posts /\ q # p /\ v # u /\ v \in Uploads
      BY <1>1, OwnFiles, ConvsOfPosts DEF TypeOK
    <3>2. QED BY <3>1 DEF Stage, Restarted
  <2>2. QED BY <2>1
<1>3. Carried'
  BY DEF Stage, Restarted, Transfers, LiveInv, Carried, TypeOK
<1>4. UNCHANGED <<now, outboxVars, starts, attemptDue, retryDue, deadlines, requests>>
  BY DEF Stage, timerVars
<1>5. now <= now'
  BY <1>4 DEF TypeOK
<1>6. QED BY <1>2, <1>3, <1>4, <1>5, LiveQuiet

\* a message is refused,
LEMMA LiveRefused ==
  ASSUME LiveInv, TypeOK, TypeOK', NEW p \in Posts, EnqueueRefused(p)
  PROVE  LiveInv'
<1>1. p \notin pending
  BY DEF EnqueueRefused, CanSend, LiveInv, Numbered
<1>2. \A q \in pending : \A v \in UploadsOf[q] : upload'[v] = upload[v]
  BY <1>1, OwnFiles, ConvsOfPosts DEF EnqueueRefused, Released, TypeOK
<1>3. Carried'
  BY DEF EnqueueRefused, Released, NoUpload, LiveInv, Carried
<1>4. QED BY <1>2, <1>3, LiveQuiet DEF EnqueueRefused, outboxVars, timerVars, TypeOK

\* or accepted,
LEMMA LiveEnqueue ==
  ASSUME LiveInv, TypeOK, TypeOK', NEW p \in Posts, Enqueue(p)
  PROVE  LiveInv'
<1> DEFINE c      == ConvOf[p]
           staged == InState(UploadsOf[p], "none")
<1>1. /\ serial[p] = 0 /\ p \notin pending /\ issued \in Nat /\ serial \in [Posts -> Nat]
      /\ pending \subseteq Posts /\ UploadsOf[p] \subseteq Uploads /\ now \in Nat
  BY ConvsOfPosts DEF Enqueue, CanSend, LiveInv, Numbered, TypeOK
<1>2. /\ pending' = pending \cup {p} /\ issued' = issued + 1 /\ UNCHANGED requests
      /\ serial' = [serial EXCEPT ![p] = issued + 1]
      /\ starts' = starts \cup {c} /\ deadlines' = deadlines \cup {<<p, now>>}
      /\ upload' = Restarted(staged)
      /\ transfers' = transfers \cup Transfers(staged)
      /\ UNCHANGED <<now, attemptDue, retryDue>>
  BY DEF Enqueue
<1>3. \A q \in Posts : q # p => row'[q] = row[q]
  BY DEF Enqueue, TypeOK
<1>4. Numbered'
  BY <1>1, <1>2 DEF LiveInv, Numbered
<1>5. Requested'
  <2>1. \A r \in requests : r.post # p /\ r.post \in Posts
    BY <1>1 DEF LiveInv, Requested, TypeOK
  <2>2. QED BY <1>1, <1>2, <1>3, <2>1 DEF LiveInv, Requested
<1>6. Carried'
  BY <1>2 DEF LiveInv, Carried, Restarted, Transfers, TypeOK
<1>7. ASSUME NEW q \in pending PROVE PostOK(q)'
  <2>1. q \in Posts /\ q # p /\ PostOK(q) /\ row'[q] = row[q]
    BY <1>1, <1>3 DEF LiveInv
  <2>2. IsHead(q)' <=> IsHead(q)
    <3>1. serial[q] <= issued /\ serial[q] \in Nat
      BY <1>1, <2>1 DEF LiveInv, Numbered
    <3>2. ~Before(p, q)'
      BY <1>1, <1>2, <2>1, <3>1 DEF Before
    <3>3. \A s \in pending : Before(s, q)' <=> Before(s, q)
      BY <1>1, <1>2, <2>1 DEF Before
    <3>4. QED BY <1>2, <3>2, <3>3 DEF IsHead
  <2>3. \A u \in UploadsOf[q] : upload'[u] = upload[u]
    BY <1>2, <2>1, OwnFiles, ConvsOfPosts DEF Restarted, InState
  <2>4. \A r \in requests : r.post = q => \E t \in requests' : t.post = q /\ t.gen = r.gen
    BY <1>2
  <2>5. now <= now'
    BY <1>1, <1>2
  <2>6. QED BY <1>2, <2>1, <2>2, <2>3, <2>4, <2>5, Untouched
<1>8. PostOK(p)'
  <2>1. /\ row'[p].state = IF InState(UploadsOf[p], "Failed") # {} THEN "Failed"
              ELSE IF InState(UploadsOf[p], "Uploading") \cup staged # {}
              THEN "Uploading" ELSE "Queued"
        /\ row'[p].files = InState(UploadsOf[p], "Ready")
        /\ row'[p].window = now /\ row'[p].newer = {}
    BY DEF Enqueue, EmptyRow, TypeOK
  <2>2. ASSUME NEW u \in UploadsOf[p]
        PROVE  /\ upload[u].state \in {"none", "Uploading", "Ready", "Failed"}
               /\ upload'[u].state = IF upload[u].state = "none" THEN "Uploading"
                                     ELSE upload[u].state
    BY <1>1, <1>2 DEF Restarted, InState, TypeOK, UploadStates
  <2>3. FilesComing(p, row[p])'
    BY <2>1, <2>2 DEF FilesComing, InState
  <2>4. Placed(p, row[p], ConvOf[p] \in starts)'
    BY <1>2, <2>1 DEF Placed, InState
  <2>5. Timed(p, row[p])' /\ Counting(p, row[p], ConvOf[p] \in starts)'
    BY <1>2, <2>1, FS_EmptySet DEF Timed, Counting
  <2>6. QED BY <2>3, <2>4, <2>5 DEF PostOK, RowOK
<1>9. QED BY <1>2, <1>4, <1>5, <1>6, <1>7, <1>8 DEF LiveInv

\* cancelled,
LEMMA LiveCancel ==
  ASSUME LiveInv, TypeOK, TypeOK', NEW p \in Posts, Cancel(p)
  PROVE  LiveInv'
  BY LiveRemoved DEF Cancel

\* a conversation is started,
LEMMA LiveStart ==
  ASSUME LiveInv, TypeOK, TypeOK', NEW c \in Convs, Start(c)
  PROVE  LiveInv'
<1>1. /\ UNCHANGED <<now, pending, issued, serial, retryDue, deadlines, requests, upload, transfers>>
      /\ starts' = starts \ {c} /\ row' = Started(row, c)
      /\ attemptDue' = attemptDue \cup Armed(row, c)
  BY DEF Start, uploadVars
<1>2. PICK rows \in [Posts -> Row] : rows = row
  BY DEF TypeOK
<1>3. \A p \in Posts : IsHead(p)' <=> IsHead(p)
  BY <1>1, SameHeads
<1>4. Carried' /\ now <= now'
  BY <1>1 DEF LiveInv, Carried, TypeOK
<1>5. ASSUME NEW p \in pending PROVE RowOK(p, rows[p], TRUE)'
  <2>1. p \in Posts /\ RowOK(p, rows[p], TRUE)
    BY <1>2 DEF LiveInv, PostOK, RowOK, Placed, Counting, TypeOK
  <2>2. \A q \in requests : q.post = p => \E s \in requests' : s.post = p /\ s.gen = q.gen
    BY <1>1
  <2>3. QED BY <1>1, <1>3, <1>4, <2>1, <2>2, RowKept
<1>6. ASSUME NEW p \in pending, ConvOf[p] # c PROVE PostOK(p)'
  <2>1. p \in Posts /\ PostOK(p) /\ p \notin Queue(c)
    BY <1>6 DEF LiveInv, TypeOK, Queue
  <2>2. row'[p] = row[p]
    BY <1>1, <1>2, <2>1, StartedSame
  <2>3. \A q \in requests : q.post = p => \E s \in requests' : s.post = p /\ s.gen = q.gen
    BY <1>1
  <2>4. QED BY <1>1, <1>3, <1>4, <1>6, <2>1, <2>2, <2>3, Untouched
<1>7. row' = Started(rows, c) /\ Armed(rows, c) \subseteq attemptDue'
  BY <1>1, <1>2
<1>8. QED BY <1>1, <1>2, <1>4, <1>5, <1>6, <1>7, LiveStarted

\* A message that fails waits for nobody but the user.
LEMMA FailRow ==
  ASSUME TypeOK, NEW p \in pending, PostOK(p), UNCHANGED upload,
         row'[p].state = "Failed", row'[p].files = row[p].files,
         row'[p].newer = row[p].newer
  PROVE  PostOK(p)'
  BY DEF PostOK, RowOK, FilesComing, Placed, Timed, Counting

\* its head attempted,
LEMMA LiveAttempt ==
  ASSUME LiveInv, TypeOK, TypeOK', NEW p \in Posts, NEW g \in Nat, Attempt(p, g)
  PROVE  LiveInv'
<1>1. /\ UNCHANGED <<now, pending, issued, serial, starts, retryDue, deadlines, upload, transfers>>
      /\ attemptDue' = attemptDue \ {<<p, g>>}
  BY DEF Attempt, uploadVars
<1>2. /\ \A q \in Posts : q # p => row'[q] = row[q]
      /\ \A q \in Posts \ {p}, h \in Nat : <<q, h>> \in attemptDue => <<q, h>> \in attemptDue'
      /\ Carried' /\ now <= now'
      /\ requests \subseteq requests'
  BY <1>1 DEF Attempt, TypeOK, LiveInv, Carried
<1>3. /\ \A q \in Posts \ {p}, r \in requests : r.post = q =>
             \E s \in requests' : s.post = q /\ s.gen = r.gen
      /\ \A q \in Posts \ {p}, h \in Nat :
             /\ <<q, h>> \in retryDue => <<q, h>> \in retryDue'
             /\ <<q, h>> \in deadlines => <<q, h>> \in deadlines'
  BY <1>1, <1>2
<1>4. row[p] \in Row /\ (IsHead(p)' <=> IsHead(p))
  BY <1>1, SameHeads DEF TypeOK
<1>5. CASE ~Attemptable(p, g) /\ UNCHANGED <<row, requests>>
  <2>1. Requested'
    BY <1>1, <1>5 DEF LiveInv, Requested
  <2>2. ASSUME p \in pending PROVE PostOK(p)'
    <3>1. PostOK(p)
      BY <2>2 DEF LiveInv
    <3>2. <<p, row[p].gen>> \in attemptDue' \/ row[p].state # "Queued" \/ ~IsHead(p)
            \/ <<p, row[p].gen>> \notin attemptDue
      BY <1>1, <1>5 DEF Attemptable
    <3>3. row'[p] = row[p]
      BY <1>5
    <3>4. FilesComing(p, row[p])' /\ Timed(p, row[p])'
      BY <1>1, <3>1, <3>3 DEF PostOK, RowOK, FilesComing, Timed, Expired
    <3>5. Placed(p, row[p], ConvOf[p] \in starts)'
      BY <1>1, <1>4, <1>5, <3>1, <3>2, <3>3 DEF PostOK, RowOK, Placed, CutOff
    <3>6. Counting(p, row[p], ConvOf[p] \in starts)'
      BY <1>1, <1>4, <3>1, <3>3 DEF PostOK, RowOK, Counting, CutOff
    <3>7. QED BY <3>4, <3>5, <3>6 DEF PostOK, RowOK
  <2>3. QED BY <1>1, <1>2, <1>3, <2>1, <2>2, LiveOne
<1>6. CASE Attemptable(p, g) /\ UNCHANGED requests
           /\ row'[p].state = "Failed" /\ row'[p].files = row[p].files
           /\ row'[p].newer = row[p].newer
  <2>1. p \in pending /\ row[p].state = "Queued" /\ PostOK(p)
    BY <1>6 DEF Attemptable, IsHead, LiveInv
  <2>2. Requested'
    <3>1. \A r \in requests : r.post # p /\ r.post \in Posts
      BY <2>1 DEF LiveInv, Requested, TypeOK
    <3>2. QED BY <1>1, <1>2, <1>6, <3>1 DEF LiveInv, Requested
  <2>3. PostOK(p)'
    BY <1>1, <1>6, <2>1, FailRow
  <2>4. QED BY <1>1, <1>2, <1>3, <2>2, <2>3, LiveOne
<1>7. CASE Attemptable(p, g) /\ ~Hopeless(p) /\ Missing(p) # {}
           /\ row'[p] = With(row[p], "Uploading") /\ UNCHANGED requests
  <2>1. p \in pending /\ row[p].state = "Queued" /\ PostOK(p) /\ IsHead(p)
    BY <1>7 DEF Attemptable, IsHead, LiveInv
  <2>2. Requested'
    <3>1. \A r \in requests : r.post # p /\ r.post \in Posts
      BY <2>1 DEF LiveInv, Requested, TypeOK
    <3>2. QED BY <1>1, <1>2, <1>7, <3>1 DEF LiveInv, Requested
  <2>3. /\ row'[p].state = "Uploading" /\ row'[p].files = row[p].files
        /\ row'[p].newer = row[p].newer /\ row'[p].window = row[p].window
    BY <1>4, <1>7 DEF With, Row
  <2>4. PostOK(p)'
    BY <1>1, <1>4, <1>7, <2>1, <2>3
       DEF PostOK, RowOK, FilesComing, Placed, Timed, Counting, Missing
  <2>5. QED BY <1>1, <1>2, <1>3, <2>2, <2>4, LiveOne
<1>8. CASE Attemptable(p, g) /\ ~Hopeless(p) /\ Missing(p) = {}
           /\ row'[p] = Tried(p)
           /\ requests' = requests \cup {[post |-> p, gen |-> g + 1, accepted |-> FALSE]}
  <2>1. p \in pending /\ row[p].state = "Queued" /\ PostOK(p) /\ IsHead(p) /\ row[p].gen = g
    BY <1>8 DEF Attemptable, IsHead, LiveInv
  <2>2. /\ row'[p].state = "Sending" /\ row'[p].files = row[p].files
        /\ row'[p].newer = row[p].newer /\ row'[p].window = row[p].window
        /\ row'[p].gen = g + 1
    BY <1>4, <1>8, <2>1 DEF With, Row, Tried
  <2>3. Requested'
    <3>1. \A r \in requests : r.post # p /\ r.post \in Posts
      BY <2>1 DEF LiveInv, Requested, TypeOK
    <3>2. serial[p] > 0
      BY <2>1 DEF LiveInv, Numbered
    <3>3. PICK new : new = [post |-> p, gen |-> g + 1, accepted |-> FALSE]
      OBVIOUS
    <3>a. requests' = requests \cup {new} /\ new.post = p /\ new.gen = g + 1
      BY <1>8, <3>3
    <3>4. \A r \in requests : r.post \in pending => row'[r.post] = row[r.post]
      BY <1>2, <3>1
    <3>5. QED BY <1>1, <2>2, <3>1, <3>2, <3>a, <3>4 DEF LiveInv, Requested
  <2>4. \E q \in requests' : q.post = p /\ q.gen = row'[p].gen
    <3>1. PICK new : new = [post |-> p, gen |-> g + 1, accepted |-> FALSE]
      OBVIOUS
    <3>2. new \in requests' /\ new.post = p /\ new.gen = g + 1
      BY <1>8, <3>1
    <3>3. QED BY <2>2, <3>2
  <2>5. PostOK(p)'
    BY <1>1, <1>4, <1>8, <2>1, <2>2, <2>4
       DEF PostOK, RowOK, FilesComing, Placed, Timed, Counting, Missing
  <2>6. QED BY <1>1, <1>2, <1>3, <2>3, <2>5, LiveOne
<1>9. CASE Attemptable(p, g) /\ row'[p] = With(row[p], "Failed") /\ UNCHANGED requests
  BY <1>4, <1>6, <1>9 DEF With, Row
<1>10. CASE Attemptable(p, g) /\ row'[p] = With(Tried(p), "Failed") /\ UNCHANGED requests
  BY <1>4, <1>6, <1>10 DEF With, Row, Tried
<1>11. QED BY <1>5, <1>7, <1>8, <1>9, <1>10 DEF Attempt, TypeOK

\* tried again,
LEMMA LiveRetryTimer ==
  ASSUME LiveInv, TypeOK, TypeOK', NEW p \in Posts, NEW g \in Nat, RetryTimer(p, g)
  PROVE  LiveInv'
<1> DEFINE live == p \in pending /\ row[p].gen = g /\ row[p].state = "RetryWait"
           back == [row EXCEPT ![p] = With(@, "Queued")]
<1>1. /\ UNCHANGED <<now, pending, issued, serial, starts, deadlines, requests, upload, transfers>>
      /\ retryDue' = retryDue \ {<<p, g>>}
  BY DEF RetryTimer, uploadVars
<1>2. /\ Carried' /\ now <= now'
      /\ \A q \in Posts \ {p}, h \in Nat : <<q, h>> \in retryDue => <<q, h>> \in retryDue'
      /\ \A q \in Posts, r \in requests : r.post = q =>
             \E s \in requests' : s.post = q /\ s.gen = r.gen
  BY <1>1 DEF TypeOK, LiveInv, Carried
<1>3. \A q \in Posts : IsHead(q)' <=> IsHead(q)
  BY <1>1, SameHeads
<1>4. CASE ~live /\ UNCHANGED <<row, attemptDue>>
  <2>1. Requested'
    BY <1>1, <1>4 DEF LiveInv, Requested
  <2>2. ASSUME p \in pending PROVE PostOK(p)'
    <3>1. PostOK(p)
      BY <2>2 DEF LiveInv
    <3>2. <<p, row[p].gen>> \in retryDue' \/ row[p].state # "RetryWait"
            \/ <<p, row[p].gen>> \notin retryDue
      BY <1>1, <1>4, <2>2
    <3>3. QED BY <1>1, <1>3, <1>4, <3>1, <3>2
              DEF PostOK, RowOK, FilesComing, Placed, Timed, Counting, CutOff, Expired
  <2>3. QED BY <1>1, <1>2, <1>4, <2>1, <2>2, LiveOne
<1>5. CASE live /\ row' = Started(back, ConvOf[p])
           /\ attemptDue' = attemptDue \cup Armed(back, ConvOf[p])
  <2>1. back \in [Posts -> Row]
    BY SetRow DEF TypeOK, States
  <2>2. PICK rows \in [Posts -> Row] : rows = back
    BY <2>1
  <2>3. /\ rows[p] = With(row[p], "Queued") /\ row[p] \in Row /\ rows[p] \in Row
        /\ \A q \in Posts : q # p => rows[q] = row[q]
    BY <2>2 DEF TypeOK
  <2>4. /\ rows[p].state = "Queued" /\ rows[p].files = row[p].files
        /\ rows[p].newer = row[p].newer /\ rows[p].window = row[p].window
    BY <2>3 DEF With, Row
  <2>5. ASSUME NEW q \in pending PROVE RowOK(q, rows[q], TRUE)'
    <3>1. PostOK(q) /\ q \in Posts
      BY DEF LiveInv, TypeOK
    <3>2. CASE q = p
      BY <1>1, <1>3, <1>5, <2>4, <3>1, <3>2
         DEF PostOK, RowOK, FilesComing, Placed, Timed, Counting
    <3>3. CASE q # p
      <4>1. RowOK(q, rows[q], TRUE) /\ rows[q] \in Row
        BY <2>3, <3>1, <3>3 DEF PostOK, RowOK, Placed, Counting
      <4>2. rows[q].gen \in Nat
        BY <4>1, RowFields
      <4>3. QED BY <1>1, <1>2, <1>3, <3>1, <3>3, <4>1, <4>2, RowKept
    <3>4. QED BY <3>2, <3>3
  <2>6. ASSUME NEW q \in pending, ConvOf[q] # ConvOf[p] PROVE PostOK(q)'
    <3>1. q \in Posts /\ q # p /\ PostOK(q) /\ q \notin Queue(ConvOf[p])
      BY <2>6 DEF LiveInv, TypeOK, Queue
    <3>2. row'[q] = row[q] /\ row[q].gen \in Nat
      BY <1>5, <2>2, <2>3, <3>1, StartedSame, RowFields DEF TypeOK
    <3>3. QED BY <1>1, <1>2, <1>3, <1>5, <3>1, <3>2, Untouched
  <2>7. ASSUME NEW r \in requests, r.post \in pending PROVE rows[r.post] = row[r.post]
    BY <1>5, <2>3, <2>7 DEF LiveInv, Requested, TypeOK
  <2>8. row' = Started(rows, ConvOf[p]) /\ Armed(rows, ConvOf[p]) \subseteq attemptDue'
        /\ ConvOf[p] \in Convs
    BY <1>5, <2>2, ConvsOfPosts
  <2>9. QED BY <1>1, <1>2, <2>5, <2>6, <2>7, <2>8, LiveStarted
<1>6. QED BY <1>4, <1>5 DEF RetryTimer

\* or given up;
LEMMA LiveDeadline ==
  ASSUME LiveInv, TypeOK, TypeOK', NEW p \in Posts, NEW w \in Nat, Deadline(p, w)
  PROVE  LiveInv'
<1> DEFINE live == /\ p \in pending /\ row[p].window = w
                   /\ row[p].state \notin {"Failed", "Sending"}
<1>1. /\ UNCHANGED <<now, pending, issued, serial, starts, attemptDue, retryDue, requests, upload, transfers>>
      /\ deadlines' = deadlines \ {<<p, w>>} /\ now >= w + RetryWindow
      /\ row' = IF live THEN [row EXCEPT ![p] = With(@, "Failed")] ELSE row
  BY DEF Deadline, uploadVars
<1>2. /\ Carried' /\ now <= now'
      /\ \A q \in Posts : q # p => row'[q] = row[q]
      /\ \A q \in Posts \ {p}, h \in Nat : <<q, h>> \in deadlines => <<q, h>> \in deadlines'
      /\ \A q \in Posts, r \in requests : r.post = q =>
             \E s \in requests' : s.post = q /\ s.gen = r.gen
  BY <1>1 DEF TypeOK, LiveInv, Carried
<1>3. row[p] \in Row /\ (IsHead(p)' <=> IsHead(p))
  BY <1>1, SameHeads DEF TypeOK
<1>4. Requested'
  <2>1. \A r \in requests : r.post \in pending => row'[r.post] = row[r.post]
    BY <1>1, <1>2 DEF LiveInv, Requested, TypeOK
  <2>2. QED BY <1>1, <2>1 DEF LiveInv, Requested
<1>5. ASSUME p \in pending PROVE PostOK(p)'
  <2>1. PostOK(p)
    BY <1>5 DEF LiveInv
  <2>2. CASE live
    <3>1. /\ row'[p].state = "Failed" /\ row'[p].files = row[p].files
          /\ row'[p].newer = row[p].newer
      BY <1>1, <1>3, <2>2 DEF With, Row, TypeOK
    <3>2. QED BY <1>1, <1>5, <2>1, <3>1, FailRow
  <2>3. CASE ~live
    <3>1. /\ row' = row
          /\ \/ row[p].state = "Failed" \/ <<p, row[p].window>> \in deadlines'
             \/ row[p].state = "Sending" /\ Expired(row[p])
      BY <1>1, <1>5, <2>1, <2>3 DEF PostOK, RowOK, Timed, Expired
    <3>2. Timed(p, row[p])'
      BY <1>1, <3>1 DEF Timed, Expired
    <3>3. FilesComing(p, row[p])'
      BY <1>1, <2>1, <3>1 DEF PostOK, RowOK, FilesComing
    <3>4. Placed(p, row[p], ConvOf[p] \in starts)'
      BY <1>1, <1>3, <2>1, <3>1 DEF PostOK, RowOK, Placed, CutOff
    <3>5. Counting(p, row[p], ConvOf[p] \in starts)'
      BY <1>1, <1>3, <2>1, <3>1 DEF PostOK, RowOK, Counting, CutOff
    <3>6. QED BY <3>2, <3>3, <3>4, <3>5 DEF PostOK, RowOK
  <2>4. QED BY <2>2, <2>3
<1>6. QED BY <1>1, <1>2, <1>4, <1>5, LiveOne

\* a create succeeds
LEMMA LiveSucceeds ==
  ASSUME LiveInv, TypeOK, TypeOK', NEW r \in requests, CreateSucceeds(r)
  PROVE  LiveInv'
<1>1. /\ UNCHANGED <<now, attemptDue, retryDue, deadlines, transfers>>
      /\ requests' = requests \ {r} /\ r.post \in Posts
  BY DEF CreateSucceeds, TypeOK
<1>2. CASE r.post \in pending /\ Confirm(r.post)
  BY <1>1, <1>2, LiveRemoved DEF Confirm
<1>3. CASE r.post \notin pending /\ UNCHANGED <<outboxVars, upload, starts>>
  <2>1. UNCHANGED <<pending, issued, serial, row, upload, starts>>
    BY <1>3 DEF outboxVars
  <2>2. Requested' /\ Carried' /\ now <= now'
    BY <1>1, <2>1 DEF LiveInv, Requested, Carried, TypeOK
  <2>3. QED BY <1>1, <1>3, <2>1, <2>2, LiveOne
<1>4. QED BY <1>2, <1>3 DEF CreateSucceeds

\* or fails;
LEMMA LiveFails ==
  ASSUME LiveInv, TypeOK, TypeOK', NEW r \in requests, NEW b \in BOOLEAN, CreateFails(r, b)
  PROVE  LiveInv'
<1> DEFINE p == r.post
<1>1. /\ UNCHANGED <<now, pending, issued, serial, starts, attemptDue, deadlines, upload, transfers>>
      /\ requests' = requests \ {r} /\ p \in Posts /\ r.gen \in Nat
      /\ \A q \in Posts : q # p => row'[q] = row[q]
      /\ \A q \in Posts \ {p}, h \in Nat : <<q, h>> \in retryDue => <<q, h>> \in retryDue'
  BY DEF CreateFails, TypeOK, uploadVars
<1>2. Carried' /\ now <= now'
  BY <1>1 DEF LiveInv, Carried, TypeOK
<1>3. row[p] \in Row /\ (IsHead(p)' <=> IsHead(p))
  BY <1>1, SameHeads DEF TypeOK
<1>4. p \in pending => \A s \in requests' : s.post # p
  BY <1>1 DEF LiveInv, Requested
<1>5. Requested'
  BY <1>1, <1>4 DEF LiveInv, Requested, TypeOK
<1>6. ASSUME p \in pending PROVE PostOK(p)'
  <2>1. /\ PostOK(p) /\ row[p].state = "Sending" /\ row[p].gen = r.gen
    BY <1>6 DEF LiveInv, Requested
  <2>2. CASE row' = [row EXCEPT ![p] = With(@, "Failed")]
    <3>1. /\ row'[p].state = "Failed" /\ row'[p].files = row[p].files
          /\ row'[p].newer = row[p].newer
      BY <1>1, <1>3, <2>2 DEF With, Row, TypeOK
    <3>2. QED BY <1>1, <1>6, <2>1, <3>1, FailRow
  <2>3. CASE /\ ~Spent(row[p]) /\ row' = [row EXCEPT ![p] = With(@, "RetryWait")]
             /\ retryDue' = retryDue \cup {<<p, r.gen + 1>>}
    <3>1. /\ row'[p].state = "RetryWait" /\ row'[p].files = row[p].files
          /\ row'[p].newer = row[p].newer /\ row'[p].window = row[p].window
          /\ row'[p].gen = r.gen + 1
      BY <1>1, <1>3, <2>1, <2>3 DEF With, Row, TypeOK
    <3>2. FilesComing(p, row[p])' /\ Timed(p, row[p])'
      BY <1>1, <2>1, <2>3, <3>1 DEF PostOK, RowOK, FilesComing, Timed, Spent
    <3>3. Placed(p, row[p], ConvOf[p] \in starts)'
      BY <1>1, <1>3, <2>1, <2>3, <3>1 DEF PostOK, RowOK, Placed, Spent, CutOff
    <3>4. Counting(p, row[p], ConvOf[p] \in starts)'
      BY <1>1, <1>3, <2>1, <2>3, <3>1 DEF PostOK, RowOK, Counting, Spent, CutOff
    <3>5. QED BY <3>2, <3>3, <3>4 DEF PostOK, RowOK
  <2>4. QED BY <1>6, <2>1, <2>2, <2>3 DEF CreateFails
<1>7. \A q \in Posts \ {p}, s \in requests : s.post = q =>
        \E t \in requests' : t.post = q /\ t.gen = s.gen
  BY <1>1
<1>8. QED BY <1>1, <1>2, <1>5, <1>6, <1>7, LiveOne

\* a post counts against those that wait,
LEMMA LiveCounted ==
  ASSUME LiveInv, TypeOK, TypeOK', NEW m \in Messages, row' = Counted(m),
         UNCHANGED <<pending, issued, serial, upload, starts, now, attemptDue, retryDue,
                     deadlines, requests, transfers>>
  PROVE  LiveInv'
<1>1. Numbered' /\ Carried'
  BY DEF LiveInv, Numbered, Carried
<1>2. ASSUME NEW p \in pending
      PROVE  /\ PostOK(p)'
             /\ row[p].state = "Sending" => row'[p].state = "Sending" /\ row'[p].gen = row[p].gen
  <2> DEFINE more == [row[p] EXCEPT !.newer = @ \cup {m}]
  <2>1. /\ p \in Posts /\ PostOK(p) /\ row[p] \in Row
        /\ IsHead(p)' <=> IsHead(p)
    BY SameHeads DEF LiveInv, TypeOK
  <2>2. /\ more.newer = row[p].newer \cup {m} /\ more.state = row[p].state
        /\ more.files = row[p].files /\ more.gen = row[p].gen /\ more.window = row[p].window
    BY <2>1 DEF Row
  <2>3. IsFiniteSet(row[p].newer) /\ IsFiniteSet(row[p].newer \cup {m})
    BY <2>1, FS_AddElement DEF PostOK, RowOK, Counting
  <2>4. CASE row'[p] = row[p]
    <3>1. \A q \in requests : q.post = p => \E s \in requests' : s.post = p /\ s.gen = q.gen
      OBVIOUS
    <3>2. now <= now'
      BY DEF TypeOK
    <3>3. PostOK(p)'
      BY <2>1, <2>4, <3>1, <3>2, Untouched
    <3>4. QED BY <2>4, <3>3
  <2>5. CASE row'[p] = With(more, "Failed") /\ row[p].state # "Sending"
    <3>1. /\ row'[p].state = "Failed" /\ row'[p].files = row[p].files
          /\ row'[p].newer = row[p].newer \cup {m}
      BY <2>1, <2>5 DEF With, Row
    <3>2. PostOK(p)'
      BY <2>1, <2>3, <3>1 DEF PostOK, RowOK, FilesComing, Placed, Timed, Counting
    <3>3. QED BY <2>5, <3>2
  <2>6. CASE /\ row'[p] = more
             /\ IsHead(p) /\ CutOff(more) /\ m \notin row[p].newer =>
                  row[p].state \in {"Failed", "Sending"}
    <3>1. m \in row[p].newer => row'[p].newer = row[p].newer
      BY <2>2, <2>6
    <3>2. IsHead(p) /\ CutOff(row[p])' =>
            row[p].state \in {"Failed", "Sending"} \/ CutOff(row[p])
      BY <2>6, <3>1 DEF CutOff
    <3>3. FilesComing(p, row[p])'
      BY <2>1, <2>2, <2>6 DEF PostOK, RowOK, FilesComing
    <3>4. Placed(p, row[p], ConvOf[p] \in starts)'
      BY <2>1, <2>2, <2>6, <3>2 DEF PostOK, RowOK, Placed
    <3>5. Timed(p, row[p])'
      BY <2>1, <2>2, <2>6 DEF PostOK, RowOK, Timed, Expired
    <3>6. Counting(p, row[p], ConvOf[p] \in starts)'
      BY <2>1, <2>2, <2>3, <2>6, <3>2 DEF PostOK, RowOK, Counting
    <3>7. QED BY <2>2, <2>6, <3>3, <3>4, <3>5, <3>6 DEF PostOK, RowOK
  <2>7. \/ row'[p] = row[p]
        \/ row'[p] = With(more, "Failed") /\ row[p].state # "Sending"
        \/ /\ row'[p] = more
           /\ IsHead(p) /\ CutOff(more) /\ m \notin row[p].newer =>
                  row[p].state \in {"Failed", "Sending"}
    BY <2>1 DEF Counted
  <2>8. QED BY <2>4, <2>5, <2>6, <2>7
<1>3. Requested'
  BY <1>2 DEF LiveInv, Requested
<1>4. QED BY <1>1, <1>2, <1>3 DEF LiveInv

\* or confirms one;
LEMMA LiveHandled ==
  ASSUME LiveInv, TypeOK, TypeOK', NEW m \in Messages, HandleAuthoritative(m),
         UNCHANGED <<now, attemptDue, retryDue, deadlines, requests, transfers>>
  PROVE  LiveInv'
<1>1. CASE UNCHANGED <<outboxVars, upload, starts>>
  <2>1. Carried' /\ now <= now'
    BY <1>1 DEF LiveInv, Carried, TypeOK
  <2>2. QED BY <1>1, <2>1, LiveQuiet
<1>2. CASE m \in pending /\ Confirm(m)
  BY <1>2, LiveRemoved DEF Confirm, TypeOK
<1>3. CASE row' = Counted(m) /\ UNCHANGED <<pending, issued, serial, upload, starts>>
  BY <1>3, LiveCounted
<1>4. QED BY <1>1, <1>2, <1>3 DEF HandleAuthoritative

\* the server takes a create;
LEMMA LiveAccepts ==
  ASSUME LiveInv, TypeOK, TypeOK', NEW r \in requests, ServerAccepts(r)
  PROVE  LiveInv'
<1> DEFINE new == [r EXCEPT !.accepted = TRUE]
<1>1. /\ UNCHANGED <<now, pending, issued, serial, row, starts, attemptDue, retryDue, deadlines,
                     upload, transfers>>
      /\ requests' = (requests \ {r}) \cup {new}
  BY DEF ServerAccepts, outboxVars, timerVars, uploadVars
<1>2. new.post = r.post /\ new.gen = r.gen /\ r.post \in Posts
  BY DEF TypeOK
<1>3. Carried' /\ now <= now'
  BY <1>1 DEF LiveInv, Carried, TypeOK
<1>4. Requested'
  <2> HIDE DEF new
  <2> QED BY <1>1, <1>2 DEF LiveInv, Requested
<1>5. \A q \in Posts, s \in requests : s.post = q =>
        \E t \in requests' : t.post = q /\ t.gen = s.gen
  <2> HIDE DEF new
  <2> QED BY <1>1, <1>2
<1>6. ASSUME r.post \in pending PROVE PostOK(r.post)'
  <2>1. PostOK(r.post)
    BY <1>6 DEF LiveInv
  <2>2. IsHead(r.post)' <=> IsHead(r.post)
    BY <1>1, <1>2, SameHeads
  <2>3. QED BY <1>1, <1>2, <1>3, <1>5, <1>6, <2>1, <2>2, Untouched
<1>7. QED BY <1>1, <1>2, <1>3, <1>4, <1>5, <1>6, LiveOne

\* The message whose upload ended, as rows that are still to be started.
LEMMA OwnerMoved ==
  ASSUME TypeOK, TypeOK', NEW p \in pending, PostOK(p), NEW u \in Missing(p),
         NEW ok \in BOOLEAN, NEW n \in Row, n = Moved(p, u, ok),
         UNCHANGED <<pending, serial, now, retryDue, deadlines>>,
         upload' = [upload EXCEPT ![u].state = IF ok THEN "Ready" ELSE "Failed"]
  PROVE  RowOK(p, n, TRUE)'
<1> DEFINE r == row[p]
<1>1. /\ p \in Posts /\ r \in Row /\ u \in UploadsOf[p] /\ u \notin r.files
      /\ u \in Uploads /\ \A v \in UploadsOf[p] : v \in Uploads
  BY ConvsOfPosts DEF TypeOK, Missing
<1>2. /\ upload'[u].state = IF ok THEN "Ready" ELSE "Failed"
      /\ \A v \in Uploads : v # u => upload'[v] = upload[v]
  BY <1>1 DEF TypeOK
<1>4. r.state # "Sending" /\ (IsHead(p)' <=> IsHead(p))
  BY <1>1, SameHeads DEF PostOK, RowOK, Placed
<1>5. CASE ~ok /\ r.state # "Failed"
  <2>1. n = With(r, "Failed")
    BY <1>5 DEF Moved
  <2>2. n.state = "Failed" /\ n.files = r.files /\ n.newer = r.newer
    BY <1>1, <2>1 DEF With, Row
  <2>3. QED BY <1>1, <1>2, <1>5, <2>2
       DEF PostOK, RowOK, FilesComing, Placed, Timed, Counting
<1>6. CASE ~ok /\ r.state = "Failed"
  <2>1. n = r
    BY <1>6 DEF Moved, Filed
  <2>2. QED BY <1>1, <1>2, <1>6, <2>1
       DEF PostOK, RowOK, FilesComing, Placed, Timed, Counting
<1>7. CASE ok /\ r.state = "Uploading" /\ Missing(p) = {u}
  <2>1. n = With(Filed(p, u, ok), "Queued")
    BY <1>7 DEF Moved
  <2>2. /\ n.state = "Queued" /\ n.files = r.files \cup {u} /\ n.newer = r.newer
        /\ n.window = r.window
    BY <1>1, <1>7, <2>1 DEF With, Row, Filed
  <2>3. QED BY <1>1, <1>2, <1>7, <2>2
       DEF PostOK, RowOK, FilesComing, Placed, Timed, Counting, Missing
<1>8. CASE ok /\ ~(r.state = "Uploading" /\ Missing(p) = {u})
  <2>1. n = [r EXCEPT !.files = @ \cup {u}]
    BY <1>8 DEF Moved, Filed
  <2>2. /\ n.state = r.state /\ n.files = r.files \cup {u} /\ n.newer = r.newer
        /\ n.window = r.window /\ n.gen = r.gen
    BY <1>1, <2>1 DEF Row
  <2>3. FilesComing(p, n)' /\ Timed(p, n)' /\ Counting(p, n, TRUE)'
    BY <1>1, <1>2, <1>4, <2>2 DEF PostOK, RowOK, FilesComing, Timed, Counting
  <2>4. n.state = "Uploading" => ~(UploadsOf[p] \subseteq n.files)
    BY <1>1, <1>8, <2>2 DEF Missing
  <2>5. Placed(p, n, TRUE)'
    BY <1>1, <1>4, <2>2, <2>4 DEF PostOK, RowOK, Placed, CutOff
  <2>6. QED BY <2>3, <2>5 DEF RowOK
<1>9. QED BY <1>5, <1>6, <1>7, <1>8

\* an upload ends;
LEMMA LiveUploadReplies ==
  ASSUME LiveInv, TypeOK, TypeOK', NEW u \in Uploads, NEW g \in Nat, NEW ok \in BOOLEAN,
         UploadReplies(u, g, ok)
  PROVE  LiveInv'
<1> DEFINE current == upload[u].state # "none" /\ upload[u].gen = g
           owners  == {p \in pending : u \in Missing(p)}
           moved   == [p \in Posts |-> IF p \in owners THEN Moved(p, u, ok) ELSE row[p]]
<1>1. /\ UNCHANGED <<now, pending, issued, serial, starts, retryDue, deadlines, requests>>
      /\ transfers' = transfers \ {<<u, g>>}
      /\ now <= now'
  BY DEF UploadReplies, TypeOK
<1>2. CASE ~current /\ UNCHANGED <<row, attemptDue, upload>>
  <2>1. Carried'
    BY <1>1, <1>2 DEF LiveInv, Carried, TypeOK
  <2>2. QED BY <1>1, <1>2, <2>1, LiveQuiet DEF outboxVars
<1>3. ASSUME current,
             upload' = [upload EXCEPT ![u].state = IF ok THEN "Ready" ELSE "Failed"]
      PROVE  Carried' /\ \A v \in Uploads : v # u => upload'[v] = upload[v]
  <2>1. \A v \in Uploads : v # u => upload'[v] = upload[v]
    BY <1>3 DEF TypeOK
  <2>2. upload'[u].state # "Uploading"
    BY <1>3 DEF TypeOK
  <2>3. \A v \in Uploads : v # u => <<v, upload[v].gen>> # <<u, g>>
    OBVIOUS
  <2>4. Carried'
    BY <1>1, <2>1, <2>2, <2>3 DEF LiveInv, Carried
  <2>5. QED BY <2>1, <2>4
<1>4. CASE current /\ owners = {} /\ UNCHANGED <<row, attemptDue>>
           /\ upload' = [upload EXCEPT ![u].state = IF ok THEN "Ready" ELSE "Failed"]
  <2>1. \A p \in pending : \A v \in UploadsOf[p] \ row[p].files : upload'[v] = upload[v]
    BY <1>3, <1>4, ConvsOfPosts DEF Missing, TypeOK
  <2>2. QED BY <1>1, <1>3, <1>4, <2>1, LiveQuiet DEF outboxVars
<1>5. ASSUME NEW p \in owners, current,
             upload' = [upload EXCEPT ![u].state = IF ok THEN "Ready" ELSE "Failed"],
             row' = Started(moved, ConvOf[p]),
             attemptDue' = attemptDue \cup Armed(moved, ConvOf[p])
      PROVE  LiveInv'
  <2>1. /\ p \in pending /\ p \in Posts /\ u \in Missing(p) /\ PostOK(p)
        /\ ConvOf[p] \in Convs
    BY ConvsOfPosts DEF LiveInv, TypeOK
  <2>2. Carried' /\ \A v \in Uploads : v # u => upload'[v] = upload[v]
    BY <1>3, <1>5
  <2>3. moved \in [Posts -> Row]
    <3>1. \A q \in Posts : Moved(q, u, ok) \in Row /\ row[q] \in Row
      BY MovedRow DEF TypeOK
    <3>2. QED BY <3>1
  <2>4. PICK rows \in [Posts -> Row] : rows = moved
    BY <2>3
  <2>5. ASSUME NEW q \in Posts, q # p
        PROVE  rows[q] = row[q] /\ \A v \in UploadsOf[q] : upload'[v] = upload[v]
    <3>1. u \notin UploadsOf[q]
      BY <2>1, <2>5, OwnFiles DEF Missing
    <3>2. q \notin owners
      BY <3>1 DEF Missing
    <3>3. rows[q] = row[q]
      BY <2>4, <3>2
    <3>4. \A v \in UploadsOf[q] : v # u /\ v \in Uploads
      BY <3>1, ConvsOfPosts
    <3>5. QED BY <2>2, <3>3, <3>4
  <2>6. \A q \in Posts : IsHead(q)' <=> IsHead(q)
    BY <1>1, SameHeads
  <2>7. \A q \in Posts : \A r \in requests :
          r.post = q => \E s \in requests' : s.post = q /\ s.gen = r.gen
    BY <1>1
  <2>8. ASSUME NEW q \in pending PROVE RowOK(q, rows[q], TRUE)'
    <3>1. q \in Posts /\ PostOK(q) /\ rows[q] \in Row
      BY DEF LiveInv, TypeOK
    <3>2. CASE q = p
      <4>1. rows[p] = Moved(p, u, ok)
        BY <2>1, <2>4
      <4>2. QED BY <1>1, <1>5, <2>1, <3>1, <3>2, <4>1, OwnerMoved
    <3>3. CASE q # p
      <4>1. rows[q] = row[q] /\ \A v \in UploadsOf[q] : upload'[v] = upload[v]
        BY <2>5, <3>1, <3>3
      <4>2. RowOK(q, rows[q], TRUE)
        BY <3>1, <4>1 DEF PostOK, RowOK, Placed, Counting
      <4>3. QED BY <1>1, <2>6, <2>7, <3>1, <4>1, <4>2, RowKept
    <3>4. QED BY <3>2, <3>3
  <2>9. ASSUME NEW q \in pending, ConvOf[q] # ConvOf[p] PROVE PostOK(q)'
    <3>1. q \in Posts /\ q # p /\ PostOK(q) /\ q \notin Queue(ConvOf[p])
      BY <2>9 DEF LiveInv, TypeOK, Queue
    <3>2. row'[q] = rows[q]
      BY <1>5, <2>4, <3>1, StartedSame
    <3>3. rows[q] = row[q] /\ \A v \in UploadsOf[q] : upload'[v] = upload[v]
      BY <2>5, <3>1
    <3>4. <<q, row[q].gen>> \in attemptDue => <<q, row[q].gen>> \in attemptDue'
      BY <1>5
    <3>5. QED BY <1>1, <2>6, <2>7, <3>1, <3>2, <3>3, <3>4, Untouched
  <2>10. ASSUME NEW r \in requests, r.post \in pending PROVE rows[r.post] = row[r.post]
    <3>1. /\ r.post \in Posts /\ PostOK(r.post) /\ row[r.post].state = "Sending"
      BY <2>10 DEF LiveInv, Requested, TypeOK
    <3>2. u \notin Missing(r.post)
      BY <3>1 DEF PostOK, RowOK, Placed, Missing
    <3>3. QED BY <2>1, <2>5, <3>1, <3>2
  <2>11. row' = Started(rows, ConvOf[p]) /\ Armed(rows, ConvOf[p]) \subseteq attemptDue'
    BY <1>5, <2>4
  <2>12. QED BY <1>1, <2>1, <2>2, <2>8, <2>9, <2>10, <2>11, LiveStarted
<1>6. QED BY <1>2, <1>4, <1>5 DEF UploadReplies

\* the user tries again.
LEMMA LiveRetry ==
  ASSUME LiveInv, TypeOK, TypeOK', NEW p \in Posts, Retry(p)
  PROVE  LiveInv'
<1> DEFINE c       == ConvOf[p]
           waiting == Missing(p) \ InState(UploadsOf[p], "Ready")
           failed  == InState(waiting, "Failed")
           reset   == [row EXCEPT ![p] = Reset(p)]
           refail  == [reset EXCEPT ![p] = Refailed(p)]
<1>1. /\ UNCHANGED <<now, pending, issued, serial, retryDue, requests>>
      /\ deadlines' = deadlines \cup {<<p, now>>} /\ starts' = starts \cup {c}
      /\ p \in pending /\ row[p].state = "Failed"
      /\ now <= now' /\ c \in Convs /\ PostOK(p)
  BY ConvsOfPosts DEF Retry, TypeOK, LiveInv
<1>2. /\ Reset(p) \in Row /\ reset \in [Posts -> Row] /\ refail \in [Posts -> Row]
      /\ reset[p] = Reset(p) /\ refail[p] = With(Reset(p), "Failed")
      /\ \A q \in Posts : q # p => reset[q] = row[q] /\ refail[q] = row[q]
  <2>1. Reset(p) \in Row
    BY ResetRow
  <2>2. reset \in [Posts -> Row] /\ reset[p] = Reset(p)
    BY <2>1 DEF TypeOK
  <2>3. Refailed(p) \in Row /\ Refailed(p) = With(Reset(p), "Failed")
    BY <2>1, WithRow DEF Refailed, States
  <2>4. QED BY <2>1, <2>2, <2>3 DEF TypeOK
<1>3. \A v \in UploadsOf[p] :
        /\ v \in Uploads
        /\ v \notin Reset(p).files => v \in waiting /\ upload[v].state \in {"Uploading", "Failed"}
  BY <1>1, ResetRow, ConvsOfPosts DEF Missing, PostOK, RowOK, FilesComing
<1>4. \A r \in requests : r.post \in pending => r.post # p /\ r.post \in Posts
  BY <1>1 DEF LiveInv, Requested, TypeOK
<1>5. \A q \in Posts : IsHead(q)' <=> IsHead(q)
  BY <1>1, SameHeads
<1>6. \A q \in Posts : \A r \in requests : r.post = q =>
        \E s \in requests' : s.post = q /\ s.gen = r.gen
  BY <1>1
<1>7. /\ failed \subseteq UploadsOf[p] /\ failed \subseteq Uploads
      /\ \A v \in failed : upload[v].state = "Failed"
      /\ \A v \in waiting : v \in failed <=> upload[v].state = "Failed"
      /\ waiting = {} => UploadsOf[p] \subseteq Reset(p).files
      /\ waiting # {} => ~(UploadsOf[p] \subseteq Reset(p).files)
  BY <1>3, ResetRow DEF InState, Missing
<1>8. ASSUME UNCHANGED <<upload, transfers, attemptDue>>, NEW n \in Row,
             row' = [row EXCEPT ![p] = n],
             n.files = Reset(p).files, n.newer = {}, n.window = now,
             \/ n.state = "Queued" /\ waiting = {}
             \/ n.state = "Uploading" /\ waiting # {} /\ failed = {}
      PROVE  LiveInv'
  <2>1. row'[p] = n /\ \A q \in Posts : q # p => row'[q] = row[q]
    BY <1>8 DEF TypeOK
  <2>2. Requested'
    BY <1>1, <1>4, <2>1 DEF LiveInv, Requested
  <2>3. Carried'
    BY <1>8 DEF LiveInv, Carried
  <2>4. PostOK(p)'
    <3>1. FilesComing(p, row[p])'
      BY <1>3, <1>7, <1>8, <2>1 DEF FilesComing
    <3>2. Placed(p, row[p], ConvOf[p] \in starts)'
      BY <1>1, <1>7, <1>8, <2>1 DEF Placed
    <3>3. Timed(p, row[p])' /\ Counting(p, row[p], ConvOf[p] \in starts)'
      BY <1>1, <1>8, <2>1, FS_EmptySet DEF Timed, Counting
    <3>4. QED BY <3>1, <3>2, <3>3 DEF PostOK, RowOK
  <2>5. QED BY <1>1, <1>6, <1>8, <2>1, <2>2, <2>3, <2>4, LiveOne
<1>9. ASSUME NEW rows \in [Posts -> Row], Carried',
             row' = Started(rows, c), attemptDue' = attemptDue \cup Armed(rows, c),
             \A q \in Posts : q # p => rows[q] = row[q],
             \A v \in Uploads \ failed : upload'[v] = upload[v],
             RowOK(p, rows[p], TRUE)'
      PROVE  LiveInv'
  <2>1. ASSUME NEW q \in pending, q # p
        PROVE  /\ q \in Posts /\ PostOK(q) /\ rows[q] = row[q] /\ row[q] \in Row
               /\ \A v \in UploadsOf[q] : upload'[v] = upload[v]
    <3>1. q \in Posts /\ PostOK(q) /\ row[q] \in Row
      BY DEF LiveInv, TypeOK
    <3>2. \A v \in UploadsOf[q] : v \in Uploads \ failed
      BY <1>7, <2>1, <3>1, OwnFiles, ConvsOfPosts
    <3>3. QED BY <1>9, <2>1, <3>1, <3>2
  <2>2. ASSUME NEW q \in pending PROVE RowOK(q, rows[q], TRUE)'
    <3>1. CASE q = p
      BY <1>9, <3>1
    <3>2. CASE q # p
      <4>1. /\ q \in Posts /\ PostOK(q) /\ rows[q] = row[q] /\ rows[q] \in Row
            /\ \A v \in UploadsOf[q] : upload'[v] = upload[v]
        BY <2>1, <3>2
      <4>2. RowOK(q, rows[q], TRUE)
        BY <4>1 DEF PostOK, RowOK, Placed, Counting
      <4>3. <<q, rows[q].window>> \in deadlines => <<q, rows[q].window>> \in deadlines'
        BY <1>1
      <4>4. QED BY <1>1, <1>5, <1>6, <4>1, <4>2, <4>3, RowKept
    <3>3. QED BY <3>1, <3>2
  <2>3. ASSUME NEW q \in pending, ConvOf[q] # c PROVE PostOK(q)'
    <3>1. /\ q # p /\ q \in Posts /\ PostOK(q) /\ rows[q] = row[q]
          /\ q \notin Queue(c) /\ \A v \in UploadsOf[q] : upload'[v] = upload[v]
      BY <2>1, <2>3 DEF Queue
    <3>2. row'[q] = row[q]
      BY <1>9, <3>1, StartedSame
    <3>3. /\ <<q, row[q].gen>> \in attemptDue => <<q, row[q].gen>> \in attemptDue'
          /\ <<q, row[q].window>> \in deadlines => <<q, row[q].window>> \in deadlines'
          /\ ConvOf[q] \in starts => ConvOf[q] \in starts'
      BY <1>1, <1>9
    <3>4. QED BY <1>1, <1>5, <1>6, <3>1, <3>2, <3>3, Untouched
  <2>4. \A r \in requests : r.post \in pending => rows[r.post] = row[r.post]
    BY <1>4, <1>9
  <2>5. Armed(rows, c) \subseteq attemptDue'
    BY <1>9
  <2>6. QED BY <1>1, <1>9, <2>2, <2>3, <2>4, <2>5, LiveStarted
<1>10. CASE /\ waiting = {} /\ row' = [reset EXCEPT ![p] = With(@, "Queued")]
            /\ UNCHANGED <<upload, transfers, attemptDue>>
  <2>1. PICK n \in Row : n = With(Reset(p), "Queued")
    BY <1>2, WithRow DEF States
  <2>2. row' = [row EXCEPT ![p] = n]
    BY <1>2, <1>10, <2>1 DEF TypeOK
  <2>3. n.state = "Queued" /\ n.files = Reset(p).files /\ n.newer = {} /\ n.window = now
    BY <1>2, <2>1, ResetRow DEF With, Row
  <2>4. QED BY <1>8, <1>10, <2>2, <2>3
<1>11. CASE /\ waiting # {} /\ failed = {} /\ row' = reset
            /\ UNCHANGED <<upload, transfers, attemptDue>>
  <2>1. PICK n \in Row : n = Reset(p)
    BY <1>2
  <2>2. QED BY <1>8, <1>11, <2>1, ResetRow
<1>12. CASE /\ failed # {} /\ row' = Started(reset, c)
            /\ attemptDue' = attemptDue \cup Armed(reset, c)
            /\ upload' = Restarted(failed)
            /\ transfers' = transfers \cup Transfers(failed)
  <2>1. PICK rows \in [Posts -> Row] : rows = reset
    BY <1>2
  <2>2. /\ \A v \in Uploads \ failed : upload'[v] = upload[v]
        /\ \A v \in failed : upload'[v].state = "Uploading"
    BY <1>7, <1>12 DEF Restarted
  <2>3. Carried'
    BY <1>12 DEF LiveInv, Carried, Restarted, Transfers
  <2>4. PICK n \in Row : n = Reset(p)
    BY <1>2
  <2>5. RowOK(p, n, TRUE)'
    <3>1. n.files = Reset(p).files /\ n.newer = {} /\ n.window = now /\ n.state = "Uploading"
      BY <2>4, ResetRow
    <3>2. FilesComing(p, n)'
      BY <1>3, <1>7, <2>2, <3>1 DEF FilesComing
    <3>3. ~(UploadsOf[p] \subseteq n.files)
      BY <1>7, <1>12, <3>1 DEF InState
    <3>4. Placed(p, n, TRUE)' /\ Timed(p, n)' /\ Counting(p, n, TRUE)'
      BY <1>1, <3>1, <3>3, FS_EmptySet DEF Placed, Timed, Counting
    <3>5. QED BY <3>2, <3>4 DEF RowOK
  <2>6. rows[p] = n
    BY <1>2, <2>1, <2>4
  <2>7. QED BY <1>2, <1>9, <1>12, <2>1, <2>2, <2>3, <2>5, <2>6
<1>13. CASE /\ failed # {} /\ row' = Started(refail, c)
            /\ attemptDue' = attemptDue \cup Armed(refail, c)
            /\ upload' = [u \in Uploads |-> IF u \in failed
                           THEN [upload[u] EXCEPT !.gen = @ + 1] ELSE upload[u]]
            /\ UNCHANGED transfers
  <2>1. PICK rows \in [Posts -> Row] : rows = refail
    BY <1>2
  <2>2. /\ \A v \in Uploads \ failed : upload'[v] = upload[v]
        /\ \A v \in failed : upload'[v].state = "Failed"
    BY <1>7, <1>13 DEF TypeOK
  <2>3. Carried'
    BY <1>13, <2>2 DEF LiveInv, Carried
  <2>4. PICK n \in Row : n = With(Reset(p), "Failed")
    BY <1>2, WithRow DEF States
  <2>5. RowOK(p, n, TRUE)'
    <3>1. n.files = Reset(p).files /\ n.newer = {} /\ n.state = "Failed"
      BY <1>2, <2>4, ResetRow DEF With, Row
    <3>2. FilesComing(p, n)'
      BY <1>3, <1>7, <2>2, <3>1 DEF FilesComing
    <3>3. Placed(p, n, TRUE)' /\ Timed(p, n)' /\ Counting(p, n, TRUE)'
      BY <3>1, FS_EmptySet DEF Placed, Timed, Counting
    <3>4. QED BY <3>2, <3>3 DEF RowOK
  <2>6. rows[p] = n
    BY <1>2, <2>1, <2>4
  <2>7. QED BY <1>2, <1>9, <1>13, <2>1, <2>2, <2>3, <2>5, <2>6
<1>14. QED BY <1>10, <1>11, <1>12, <1>13 DEF Retry

\* Together these are all the steps.
LEMMA LiveStep ==
  ASSUME LiveInv, TypeOK, TypeOK', [Next]_vars
  PROVE  LiveInv'
<1>1. ASSUME UNCHANGED <<outboxVars, timerVars, requests, uploadVars>>,
             now' = now \/ now' = now + 1
      PROVE  LiveInv'
  <2>1. Carried' /\ now <= now'
    BY <1>1 DEF LiveInv, Carried, uploadVars, TypeOK
  <2>2. QED BY <1>1, <2>1, LiveQuiet DEF timerVars, uploadVars
<1>2. CASE User
  BY <1>2, LiveEnqueue, LiveRefused, LiveCancel, LiveRetry, LiveStage DEF User
<1>3. CASE Timers
  BY <1>1, <1>3, LiveStart, LiveAttempt, LiveRetryTimer, LiveDeadline DEF Timers, Forget, TypeOK
<1>4. CASE Replies
  BY <1>4, LiveSucceeds, LiveFails, LiveUploadReplies DEF Replies, TypeOK
<1>5. CASE Arrivals
  <2>1. ASSUME NEW m \in Messages, Realtime(m) PROVE LiveInv'
    BY <2>1, LiveHandled DEF Realtime
  <2>2. ASSUME NEW m \in Messages, HistoryMerged(m) PROVE LiveInv'
    BY <2>2, LiveHandled DEF HistoryMerged
  <2>3. QED BY <1>1, <1>5, <2>1, <2>2
            DEF Arrivals, Evicted, ChannelRefreshed, ChannelLost
<1>6. CASE Server
  BY <1>1, <1>6, LiveAccepts DEF Server, ServerAcceptsLate, ForeignPosted
<1>7. QED BY <1>1, <1>2, <1>3, <1>4, <1>5, <1>6 DEF Next, Tick, vars

\* What every message waits for is on its way, in every reachable state: the
\* invariant the four properties below follow from.
THEOREM LiveHolds == Spec => []LiveInv
<1>1. Init => LiveInv
  BY DEF Init, LiveInv, Numbered, Carried, Requested, NoUpload
<1>2. LiveInv /\ TypeOK /\ TypeOK' /\ [Next]_vars => LiveInv'
  BY LiveStep
<1>3. QED BY <1>1, <1>2, TypeCorrect, PTL DEF Spec

\* No bump of a generation leaves a message without the timer, reply or
\* upload that moves it on.
THEOREM NothingStranded == Spec => []NoStrandedPost
<1>1. LiveInv /\ TypeOK => NoStrandedPost
  <2> SUFFICES ASSUME LiveInv, TypeOK, NEW p \in pending PROVE Waits(p)
    BY DEF NoStrandedPost
  <2>1. p \in Posts /\ PostOK(p) /\ row[p].state \in States
    BY RowFields DEF LiveInv, TypeOK
  <2>2. ASSUME row[p].state = "Uploading", ConvOf[p] \notin starts
        PROVE  /\ Missing(p) # {}
               /\ \A u \in Missing(p) :
                    upload[u].state = "Uploading" /\ <<u, upload[u].gen>> \in transfers
    BY <2>1, <2>2, ConvsOfPosts
       DEF PostOK, RowOK, FilesComing, Placed, Missing, LiveInv, Carried
  <2>3. QED BY <2>1, <2>2 DEF Waits, States, PostOK, RowOK, Placed
<1>2. QED BY <1>1, LiveHolds, TypeCorrect, PTL

\* However a create's answer is lost or late, a conversation's pending
\* messages have one create in flight.
THEOREM OneCreate == Spec => []OneLiveRequest
<1>1. LiveInv /\ TypeOK => OneLiveRequest
  <2> SUFFICES ASSUME LiveInv, TypeOK, NEW r \in requests, NEW s \in requests,
                      {r.post, s.post} \subseteq pending, ConvOf[r.post] = ConvOf[s.post]
               PROVE  r = s
    BY DEF OneLiveRequest
  <2>1. IsHead(r.post) /\ IsHead(s.post)
    BY DEF LiveInv, Requested, PostOK, RowOK, Placed
  <2>2. r.post = s.post
    BY <2>1, OneHead DEF LiveInv, TypeOK
  <2>3. QED BY <2>2 DEF LiveInv, Requested
<1>2. QED BY <1>1, LiveHolds, TypeCorrect, PTL

\* The end of a message's ten minutes stays armed across every retry.
THEOREM DeadlineStaysArmed == Spec => []DeadlineArmed
<1>1. LiveInv => DeadlineArmed
  BY DEF LiveInv, PostOK, RowOK, Timed, DeadlineArmed
<1>2. QED BY <1>1, LiveHolds, PTL

\* A failed upload is never hidden behind a message that looks alive.
THEOREM UploadFailureShows == Spec => []UploadFailureSurfaces
<1>1. LiveInv => UploadFailureSurfaces
  BY DEF LiveInv, PostOK, RowOK, FilesComing, UploadFailureSurfaces, Missing, InState
<1>2. QED BY <1>1, LiveHolds, PTL

\* A head that its conversation left behind is not attempted again.
THEOREM CutOffStays == Spec => []CutOffHolds
<1>1. LiveInv => CutOffHolds
  BY DEF LiveInv, PostOK, RowOK, Counting, CutOffHolds
<1>2. QED BY <1>1, LiveHolds, PTL
=============================================================================
