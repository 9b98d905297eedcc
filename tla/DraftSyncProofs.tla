-------------------------- MODULE DraftSyncProofs --------------------------
(***************************************************************************)
(* Proofs about DraftSync: what the user typed is not lost, and a deleted  *)
(* draft stays deleted, for any texts, teams and numbers of calls.         *)
(***************************************************************************)
EXTENDS DraftSync, SequenceTheorems, FiniteSetTheorems, TLAPS

-----------------------------------------------------------------------------
(* Sequences.                                                              *)

\* A sequence without its i-th element.
LEMMA Removed ==
    ASSUME NEW S, NEW s \in Seq(S), NEW i \in 1..Len(s)
    PROVE  /\ RemoveAt(s, i) \in Seq(S) /\ Len(RemoveAt(s, i)) = Len(s) - 1
           /\ \A j \in 1..(Len(s) - 1) :
                 RemoveAt(s, i)[j] = s[IF j < i THEN j ELSE j + 1]
<1> DEFINE before == SubSeq(s, 1, i - 1)
           after  == SubSeq(s, i + 1, Len(s))
<1>1. before \in Seq(S) /\ Len(before) = i - 1 /\ \A j \in 1..(i - 1) : before[j] = s[j]
  OBVIOUS
<1>2. /\ after \in Seq(S) /\ Len(after) = Len(s) - i
      /\ \A j \in 1..(Len(s) - i) : after[j] = s[j + i]
  <2>1. after \in Seq(S) /\ Len(after) = Len(s) - i
    OBVIOUS
  <2>2. ASSUME NEW j \in 1..(Len(s) - i)  PROVE after[j] = s[j + i]
    <3>1. after[j] = s[(i + 1) + j - 1]
      OBVIOUS
    <3> QED  BY <3>1
  <2> QED  BY <2>1, <2>2
<1> HIDE DEF before, after
<1>3. RemoveAt(s, i) = before \o after  BY DEF RemoveAt, before, after
<1>4. before \o after \in Seq(S) /\ Len(before \o after) = Len(s) - 1
  BY <1>1, <1>2
<1>5. ASSUME NEW j \in 1..(Len(s) - 1)
      PROVE  (before \o after)[j] = s[IF j < i THEN j ELSE j + 1]
  <2>1. (before \o after)[j] = IF j <= Len(before) THEN before[j] ELSE after[j - Len(before)]
    BY <1>1, <1>2
  <2>2. CASE j < i
    BY <2>1, <2>2, <1>1
  <2>3. CASE ~(j < i)
    <3>1. j - Len(before) \in 1..(Len(s) - i) /\ (j - Len(before)) + i = j + 1
      BY <1>1, <2>3
    <3> QED  BY <2>1, <2>3, <1>1, <1>2, <3>1
  <2> QED  BY <2>2, <2>3
<1> QED  BY <1>3, <1>4, <1>5

\* No two elements.
Lone(S) == \A x, y \in S : x = y

\* The sequence of a set without two elements.
LEMMA LoneAsSeq ==
    ASSUME NEW S, Lone(S)
    PROVE  \/ S = {} /\ SetToSeq(S) = <<>>
           \/ \E x \in S : S = {x} /\ SetToSeq(S) = <<x>>
<1>1. CASE S = {}
  <2>1. Cardinality(S) = 0  BY <1>1, FS_EmptySet
  <2>2. \E f \in [1..0 -> S] : IsInjective(f)
    <3>1. [j \in 1..0 |-> j] \in [1..0 -> S] /\ IsInjective([j \in 1..0 |-> j])
      BY DEF IsInjective
    <3> QED  BY <3>1
  <2>3. SetToSeq(S) \in [1..0 -> S]  BY <2>1, <2>2 DEF SetToSeq
  <2>4. SetToSeq(S) = <<>>
    BY <2>3
  <2> QED  BY <1>1, <2>4
<1>2. CASE S # {}
  <2>1. PICK x \in S : TRUE  BY <1>2
  <2>2. S = {x}  BY <2>1 DEF Lone
  <2>3. Cardinality(S) = 1  BY <2>2, FS_Singleton
  <2>4. \E f \in [1..1 -> S] : IsInjective(f)
    <3>1. <<x>> \in [1..1 -> S] /\ IsInjective(<<x>>)
      BY <2>2 DEF IsInjective
    <3> QED  BY <3>1
  <2>5. SetToSeq(S) \in [1..1 -> S]  BY <2>3, <2>4 DEF SetToSeq
  <2>6. SetToSeq(S) = <<x>>
    BY <2>2, <2>5
  <2> QED  BY <2>2, <2>6
<1> QED  BY <1>1, <1>2

-----------------------------------------------------------------------------
(* The invariant.                                                          *)

\* Entries of one conversation: one at most, a deleted one is a change, and so is
\* one whose upload or deletion was asked for.
Sound(S) ==
    /\ S \subseteq Entry /\ Lone(S)
    /\ \A e \in S : e.deleted <=> e.text = Blank
    /\ \A e \in S : (e.deleted \/ e.requested) => e.dirty

Drafted(p) == p \in Seq(Post) /\ \A i \in DOMAIN p : p[i].draft.deleted <=> p[i].draft.text = Blank

OneRow(r) == r \subseteq Row /\ Lone(r)

Shape ==
    /\ Sound(entries) /\ OneRow(row)
    /\ Drafted(posts)
    /\ events \in Seq(SUBSET Row) /\ \A k \in DOMAIN events : Lone(events[k])
    /\ gets \subseteq Get /\ \A g \in gets : Lone(g.rows)
    /\ clock \in Nat /\ unused \in Seq(Texts) /\ typed \subseteq Texts /\ Lone(typed)

\* What an event or a reply under way shows of the server.
Shown == (UNION {events[k] : k \in DOMAIN events}) \cup (UNION {g.rows : g \in gets})

\* A text that is nowhere yet.
Fresh(t) ==
    /\ \A e \in entries : e.text # t
    /\ \A r \in row : r.text # t
    /\ \A r \in Shown : r.text # t
    /\ \A i \in DOMAIN posts : posts[i].draft.text # t

NewTexts ==
    /\ \A u \in DOMAIN unused : Fresh(unused[u])
    /\ \A u, v \in DOMAIN unused : unused[u] = unused[v] => u = v

Saved(t) == \E r \in row : r.text = t

Pending(t) == \E e \in entries : e.dirty /\ e.text = t

\* The texts whose upload is or may be about to be confirmed: the server has
\* answered, or it has announced the text.
Confirmed ==
    {posts[i].draft.text : i \in {j \in DOMAIN posts : posts[j].at # 0}}
    \cup UNION {{r.text : r \in events[k]} : k \in DOMAIN events}

\* A request made since the user typed last carries t.
Recent(t, p) == \A i \in DOMAIN p : p[i].old \/ p[i].draft.text = t

\* What it takes for t, which the user typed last, to be safe: nothing else waits
\* to be sent, the server has it or the entry waits, only the requests made before
\* it was typed carry anything else, and no answer or event confirms it before the
\* server has it.
Safe(t) ==
    /\ \A e \in entries : e.dirty => e.text = t
    /\ Saved(t) \/ Pending(t)
    /\ Recent(t, posts)
    /\ t \in Confirmed => Saved(t)

Owing == NewTexts /\ \A t \in typed : Safe(t)

DraftInv == Shape /\ Owing

\* No text is typed twice.
Distinct == \A i, j \in DOMAIN Typing : Typing[i] = Typing[j] => i = j

\* The user's texts are no tombstone and no other client's.
LEMMA OwnTexts == \A t \in Texts : t # Blank /\ t \notin OtherTexts /\ t \in AllTexts
BY DraftAssumption DEF AllTexts

-----------------------------------------------------------------------------
(* What the handlers do to the entry.                                      *)

\* The entry after an answer, a sync or an event: it is the one of before, no
\* change is made of what was none, or it is the server's where nothing waited;
\* and a text that waits goes on waiting until it is confirmed.
Yields(S) ==
    /\ Sound(S)
    /\ \A f \in S :
          \/ \E e \in entries : f.text = e.text /\ (f.dirty => e.dirty)
          \/ ~f.dirty /\ (\A e \in entries : ~e.dirty) /\ \E r \in Shown : f.text = r.text
    /\ \A e \in entries :
          (e.dirty /\ ~e.deleted /\ e.text \notin Confirmed) =>
             \E f \in S : f.dirty /\ f.text = e.text

\* The fields of an entry,
LEMMA EntryFields ==
    ASSUME NEW e \in Entry
    PROVE  /\ e.text \in AllTexts \cup {Blank} /\ e.at \in Nat
           /\ {e.dirty, e.deleted, e.remote, e.requested} \subseteq BOOLEAN
BY DEF Entry

\* and of the server's draft.
LEMMA RowFields == ASSUME NEW r \in Row PROVE r.text \in AllTexts /\ r.at \in Nat
BY DEF Row

\* An entry that stays yields nothing new.
LEMMA Same == ASSUME Shape PROVE Yields(entries)
BY DEF Shape, Yields

\* An answer may take the entry for saved, and gives it no other text.
LEMMA AcknowledgedYields ==
    ASSUME Shape, NEW i \in DOMAIN posts, posts[i].at # 0
    PROVE  Yields(UNION {Acknowledged(e, posts[i].draft, posts[i].at) : e \in entries})
<1> DEFINE d == posts[i].draft
           at == posts[i].at
           S  == UNION {Acknowledged(e, d, at) : e \in entries}
<1>1. d \in Entry /\ at \in Nat /\ (d.deleted <=> d.text = Blank) /\ d.text \in Confirmed
  <2>1. posts[i] \in Post  BY DEF Shape, Drafted
  <2>2. d.text \in Confirmed  BY DEF Confirmed
  <2> QED  BY <2>1, <2>2 DEF Post, Shape, Drafted
<1> HIDE DEF d, at
<1>2. CASE entries = {}
  BY <1>2 DEF Yields, Sound, Lone
<1>3. ASSUME NEW e \in entries  PROVE Yields(S)
  <2>1. entries = {e}  BY <1>3 DEF Shape, Sound, Lone
  <2>2. S = Acknowledged(e, d, at)  BY <2>1
  <2>3. e \in Entry /\ (e.deleted <=> e.text = Blank) /\ ((e.deleted \/ e.requested) => e.dirty)
    BY DEF Shape, Sound
  <2> HIDE DEF S
  <2>4. CASE e.at # d.at \/ e.text # d.text \/ e.deleted # d.deleted
    <3>1. PICK v \in BOOLEAN : S = {[e EXCEPT !.remote = v]}
      <4>1. S = {[e EXCEPT !.remote = @ \/ (~d.deleted /\ e.deleted /\ e.requested)]}
        BY <2>2, <2>4 DEF Acknowledged
      <4> QED  BY <4>1, <2>3, EntryFields
    <3> DEFINE f == [e EXCEPT !.remote = v]
    <3>2. f \in Entry /\ f.text = e.text /\ f.dirty = e.dirty /\ f.deleted = e.deleted
             /\ f.requested = e.requested
      BY <2>3 DEF Entry
    <3>3. S = {f}  BY <3>1
    <3> HIDE DEF f
    <3> QED  BY <2>1, <2>3, <3>2, <3>3 DEF Yields, Sound, Lone
  <2>5. CASE ~(e.at # d.at \/ e.text # d.text \/ e.deleted # d.deleted) /\ d.deleted
    <3>1. S = {}  BY <2>2, <2>5 DEF Acknowledged
    <3> QED  BY <2>1, <2>5, <3>1 DEF Yields, Sound, Lone
  <2>6. CASE ~(e.at # d.at \/ e.text # d.text \/ e.deleted # d.deleted) /\ ~d.deleted
    <3> DEFINE f == [e EXCEPT !.dirty = FALSE, !.remote = TRUE, !.requested = FALSE, !.at = at]
    <3>1. S = {f}  BY <2>2, <2>6 DEF Acknowledged
    <3>2. f \in Entry /\ f.text = e.text /\ ~f.dirty /\ f.deleted = e.deleted /\ ~f.requested
      BY <2>3, <1>1 DEF Entry
    <3>3. ~f.deleted /\ (f.deleted <=> f.text = Blank)
      BY <2>3, <2>6, <3>2
    <3> HIDE DEF f
    <3> QED  BY <1>1, <2>1, <2>6, <3>1, <3>2, <3>3 DEF Yields, Sound, Lone
  <2> QED  BY <2>4, <2>5, <2>6
<1> QED  BY <1>2, <1>3 DEF d, at

\* The server's draft is an entry without changes.
LEMMA CleanIs ==
    ASSUME NEW r \in Row
    PROVE  /\ Clean(r) \in Entry /\ Clean(r).text = r.text /\ r.text # Blank
           /\ ~Clean(r).dirty /\ ~Clean(r).deleted /\ ~Clean(r).requested
BY DraftAssumption DEF Row, Entry, Clean, AllTexts

\* A row that is shown, in place of an entry without changes.
LEMMA ShownYields ==
    ASSUME Shape, NEW r \in Shown, \A e \in entries : ~e.dirty
    PROVE  Yields({Clean(r)})
<1>1. r \in Row
  <2>1. ASSUME NEW k \in DOMAIN events, r \in events[k]  PROVE r \in Row
    <3>1. events[k] \in SUBSET Row  BY DEF Shape
    <3> QED  BY <2>1, <3>1
  <2>2. ASSUME NEW g \in gets, r \in g.rows  PROVE r \in Row
    BY <2>2 DEF Shape, Get
  <2> QED  BY <2>1, <2>2 DEF Shown
<1>2. Clean(r) \in Entry /\ Clean(r).text = r.text /\ r.text # Blank
         /\ ~Clean(r).dirty /\ ~Clean(r).deleted /\ ~Clean(r).requested
  BY <1>1, CleanIs
<1> QED  BY <1>2 DEF Yields, Sound, Lone

\* The entry, known or not to be on the server.
LEMMA RemoteYields ==
    ASSUME Shape, NEW e \in entries, NEW v \in BOOLEAN
    PROVE  Yields({[e EXCEPT !.remote = v]})
<1> DEFINE f == [e EXCEPT !.remote = v]
<1>1. f \in Entry /\ f.text = e.text /\ f.dirty = e.dirty /\ f.deleted = e.deleted
         /\ f.requested = e.requested
  BY DEF Entry, Shape, Sound
<1>2. entries = {e}  BY DEF Shape, Sound, Lone
<1>3. (e.deleted <=> e.text = Blank) /\ ((e.deleted \/ e.requested) => e.dirty)
  BY DEF Shape, Sound
<1> HIDE DEF f
<1>4. Sound({f})
  BY <1>1, <1>3 DEF Sound, Lone
<1>5. Yields({f})
  BY <1>1, <1>2, <1>4 DEF Yields
<1> QED  BY <1>5 DEF f

\* The draft of a sync, in place of an entry without changes.
LEMMA MergedYields ==
    ASSUME Shape, NEW rows, OneRow(rows), rows \subseteq Shown
    PROVE  Yields(Merged(rows))
<1>1. CASE rows = {}
  BY <1>1, Same DEF Merged
<1>2. ASSUME NEW r \in rows  PROVE Yields(Merged(rows))
  <2>1. rows = {r}  BY DEF OneRow, Lone
  <2>2. CASE entries = {}
    <3>1. Merged(rows) = {Clean(r)}  BY <2>1, <2>2 DEF Merged
    <3> QED  BY <3>1, <2>2, ShownYields
  <2>3. ASSUME NEW e \in entries  PROVE Yields(Merged(rows))
    <3>1. entries = {e}  BY DEF Shape, Sound, Lone
    <3>2. Merged(rows) = {IF e.dirty THEN [e EXCEPT !.remote = TRUE]
                          ELSE IF r.at > e.at THEN Clean(r) ELSE e}
      BY <2>1, <3>1 DEF Merged
    <3>3. CASE e.dirty
      BY <3>2, <3>3, RemoteYields
    <3>4. CASE ~e.dirty /\ r.at > e.at
      BY <3>1, <3>2, <3>4, ShownYields
    <3>5. CASE ~e.dirty /\ ~(r.at > e.at)
      BY <3>1, <3>2, <3>5, Same
    <3> QED  BY <3>3, <3>4, <3>5
  <2> QED  BY <2>2, <2>3
<1> QED  BY <1>1, <1>2

\* The end of a sync drops no text that waits.
LEMMA FinishedYields ==
    ASSUME Shape, NEW S, Yields(S), NEW v \in BOOLEAN
    PROVE  Yields(Finished(S, v))
<1>1. CASE \A e \in S : ~(v \/ (e.dirty /\ ~e.deleted))
  <2>1. Finished(S, v) = {}  BY <1>1 DEF Finished
  <2>2. \A f \in S : f.dirty => f.text = Blank  BY <1>1 DEF Yields, Sound
  <2>3. \A e \in entries : (e.dirty /\ ~e.deleted) => e.text # Blank
    BY DEF Shape, Sound
  <2> QED  BY <2>1, <2>2, <2>3 DEF Yields, Sound, Lone
<1>2. ASSUME NEW e \in S, v \/ (e.dirty /\ ~e.deleted)  PROVE Yields(Finished(S, v))
  <2> DEFINE f == [e EXCEPT !.remote = v]
  <2>1. S = {e}  BY DEF Yields, Sound, Lone
  <2>2. Finished(S, v) = {f}  BY <1>2, <2>1 DEF Finished
  <2>3. f \in Entry /\ f.text = e.text /\ f.dirty = e.dirty /\ f.deleted = e.deleted
           /\ f.requested = e.requested
    BY DEF Entry, Yields, Sound
  <2> HIDE DEF f
  <2> QED  BY <2>1, <2>2, <2>3 DEF Yields, Sound, Lone
<1> QED  BY <1>1, <1>2

\* An event without a row.
LEMMA DeletionYields ==
    ASSUME Shape
    PROVE  Yields(UNION {AfterDeletion(e) : e \in entries})
<1>1. CASE entries = {}
  BY <1>1 DEF Yields, Sound, Lone
<1>2. ASSUME NEW e \in entries  PROVE Yields(UNION {AfterDeletion(x) : x \in entries})
  <2>1. entries = {e}  BY DEF Shape, Sound, Lone
  <2>2. UNION {AfterDeletion(x) : x \in entries} = AfterDeletion(e)  BY <2>1
  <2>3. CASE e.dirty /\ ~e.deleted
    <3>1. AfterDeletion(e) = {[e EXCEPT !.remote = FALSE]}  BY <2>3 DEF AfterDeletion
    <3> QED  BY <2>2, <3>1, RemoteYields
  <2>4. CASE ~(e.dirty /\ ~e.deleted)
    <3>1. AfterDeletion(e) = {}  BY <2>4 DEF AfterDeletion
    <3> QED  BY <2>1, <2>2, <2>4, <3>1 DEF Yields, Sound, Lone
  <2> QED  BY <2>3, <2>4
<1> QED  BY <1>1, <1>2

\* An event with the server's draft.
LEMMA ChangeYields ==
    ASSUME Shape, NEW e \in entries, NEW r \in Row, r \in Shown, r.text \in Confirmed
    PROVE  Yields(AfterChange(e, r))
<1>1. entries = {e}  BY DEF Shape, Sound, Lone
<1>2. e \in Entry /\ (e.deleted <=> e.text = Blank) /\ ((e.deleted \/ e.requested) => e.dirty)
  BY DEF Shape, Sound
<1>3. CASE e.dirty /\ e.requested /\ ~e.deleted /\ e.text = r.text
  <2> DEFINE f == [e EXCEPT !.remote = TRUE, !.dirty = FALSE, !.requested = FALSE,
                            !.at = IF @ > r.at THEN @ ELSE r.at]
  <2>1. AfterChange(e, r) = {f}  BY <1>3 DEF AfterChange
  <2>2. (IF e.at > r.at THEN e.at ELSE r.at) \in Nat  BY <1>2, EntryFields, RowFields
  <2>3. f \in Entry /\ f.text = e.text /\ ~f.dirty /\ f.deleted = e.deleted /\ ~f.requested
    BY <1>2, <2>2 DEF Entry
  <2> HIDE DEF f
  <2> QED  BY <1>1, <1>2, <1>3, <2>1, <2>3 DEF Yields, Sound, Lone
<1>4. CASE e.dirty /\ ~(e.requested /\ ~e.deleted /\ e.text = r.text)
  <2>1. AfterChange(e, r) = {[e EXCEPT !.remote = TRUE]}  BY <1>4 DEF AfterChange
  <2> QED  BY <2>1, RemoteYields
<1>5. CASE ~e.dirty /\ e.at > r.at
  <2>1. AfterChange(e, r) = entries  BY <1>1, <1>5 DEF AfterChange
  <2> QED  BY <2>1, Same
<1>6. CASE ~e.dirty /\ ~(e.at > r.at)
  <2>1. AfterChange(e, r) = {Clean(r)}  BY <1>6 DEF AfterChange
  <2> QED  BY <1>1, <1>6, <2>1, ShownYields
<1> QED  BY <1>3, <1>4, <1>5, <1>6

\* The whole handler of an event.
LEMMA EventYields ==
    ASSUME Shape, RemoteEvent
    PROVE  Yields(entries')
<1>1. CASE disabled
  BY <1>1, Same DEF RemoteEvent
<1>2. CASE ~disabled
  <2>1. PICK rows \in SUBSET Row : rows = Head(events)
    BY DEF RemoteEvent, Shape
  <2>2. 1 \in DOMAIN events /\ rows = events[1]  BY <2>1 DEF RemoteEvent, Shape
  <2>3. Lone(rows) /\ rows \subseteq Shown /\ \A r \in rows : r.text \in Confirmed
    BY <2>2 DEF Shape, Shown, Confirmed
  <2>4. entries' = IF rows = {} THEN UNION {AfterDeletion(e) : e \in entries}
                   ELSE IF entries = {} THEN {Clean(r) : r \in rows}
                   ELSE UNION {AfterChange(e, r) : e \in entries, r \in rows}
    BY <1>2, <2>1 DEF RemoteEvent
  <2>5. CASE rows = {}
    BY <2>4, <2>5, DeletionYields
  <2>6. ASSUME NEW r \in rows, entries = {}  PROVE Yields(entries')
    <3>1. rows = {r}  BY <2>3 DEF Lone
    <3>2. entries' = {Clean(r)}  BY <2>4, <2>6, <3>1
    <3> QED  BY <2>3, <2>6, <3>2, ShownYields
  <2>7. ASSUME NEW r \in rows, NEW e \in entries  PROVE Yields(entries')
    <3>1. rows = {r} /\ entries = {e}  BY <2>3 DEF Lone, Shape, Sound
    <3>2. entries' = AfterChange(e, r)  BY <2>4, <3>1
    <3>3. r \in Row /\ r \in Shown /\ r.text \in Confirmed  BY <2>3
    <3>4. Yields(AfterChange(e, r))  BY <3>3, ChangeYields
    <3> QED  BY <3>2, <3>4
  <2> QED  BY <2>5, <2>6, <2>7
<1> QED  BY <1>1, <1>2

\* A server without drafts: the texts stay.
LEMMA DisabledYields ==
    ASSUME Shape, NEW others, DisableRemoteSync(others)
    PROVE  Yields(entries')
<1>1. entries' = {[e EXCEPT !.requested = FALSE, !.remote = FALSE] :
                     e \in {x \in entries : ~x.deleted}}
  BY DEF DisableRemoteSync
<1>2. CASE \A e \in entries : e.deleted
  <2>1. entries' = {}  BY <1>1, <1>2
  <2> QED  BY <1>2, <2>1 DEF Yields, Sound, Lone
<1>3. ASSUME NEW e \in entries, ~e.deleted  PROVE Yields(entries')
  <2> DEFINE f == [e EXCEPT !.requested = FALSE, !.remote = FALSE]
  <2>1. entries = {e}  BY DEF Shape, Sound, Lone
  <2>2. entries' = {f}  BY <1>1, <1>3, <2>1
  <2>3. e \in Entry /\ (e.deleted <=> e.text = Blank)
    BY DEF Shape, Sound
  <2>4. f \in Entry /\ f.text = e.text /\ f.dirty = e.dirty /\ f.deleted = e.deleted
           /\ ~f.requested
    BY <2>3 DEF Entry
  <2> HIDE DEF f
  <2>5. Yields({f})
    BY <1>3, <2>1, <2>3, <2>4 DEF Yields, Sound, Lone
  <2> QED  BY <2>2, <2>5
<1> QED  BY <1>2, <1>3

-----------------------------------------------------------------------------
(* What the handlers do to the requests.                                   *)

\* q is p without some of its requests; who waits for the answers may differ, and
\* the user may have typed.
Part(q, p) ==
    /\ q \in Seq(Post)
    /\ \E f \in [DOMAIN q -> DOMAIN p] :
          \A i \in DOMAIN q : /\ q[i].draft = p[f[i]].draft /\ q[i].at = p[f[i]].at
                              /\ p[f[i]].old => q[i].old

\* The requests of before, or some of them, and at most one for a change that the
\* new entry is.
Sends ==
    \/ Part(posts', posts)
    \/ \E p \in Seq(Post), e \in entries' :
          Part(p, posts) /\ e.dirty /\ posts' = Append(p, Request(e))

\* What the invariant says of the requests, and of their texts.
PostsKept(q, p, S) ==
    /\ Drafted(q)
    /\ \A t : (\A e \in S : e.dirty => e.text = t) => (Recent(t, p) => Recent(t, q))
    /\ \A i \in DOMAIN q :
          \/ \E j \in DOMAIN p : q[i].at = p[j].at /\ q[i].draft.text = p[j].draft.text
          \/ q[i].at = 0 /\ \E e \in S : q[i].draft.text = e.text

\* Requests that go on are a part of them,
LEMMA WholePart ==
    ASSUME NEW p \in Seq(Post), NEW q \in Seq(Post), DOMAIN q = DOMAIN p,
           \A i \in DOMAIN p : /\ q[i].draft = p[i].draft /\ q[i].at = p[i].at
                               /\ p[i].old => q[i].old
    PROVE  Part(q, p)
<1> DEFINE f == [i \in DOMAIN p |-> i]
<1>1. f \in [DOMAIN p -> DOMAIN p] /\ \A i \in DOMAIN p : f[i] = i
  OBVIOUS
<1> HIDE DEF f
<1> QED  BY <1>1 DEF Part

\* the requests of before too,
LEMMA SamePart == ASSUME NEW p \in Seq(Post) PROVE Part(p, p)
BY WholePart

\* and so are all but one.
LEMMA RemovedPart ==
    ASSUME NEW p \in Seq(Post), NEW i \in 1..Len(p)
    PROVE  Part(RemoveAt(p, i), p) /\ RemoveAt(p, i) \in Seq(Post)
<1> DEFINE q == RemoveAt(p, i)
           f == [j \in DOMAIN q |-> IF j < i THEN j ELSE j + 1]
<1>1. q \in Seq(Post) /\ Len(q) = Len(p) - 1
         /\ \A j \in 1..(Len(p) - 1) : q[j] = p[IF j < i THEN j ELSE j + 1]
  BY Removed
<1>2. DOMAIN q = 1..(Len(p) - 1) /\ DOMAIN p = 1..Len(p) /\ Len(p) \in Nat  BY <1>1
<1> HIDE DEF q
<1>3. f \in [DOMAIN q -> DOMAIN p]  BY <1>2
<1>5. \A j \in DOMAIN q : q[j] = p[f[j]]  BY <1>1, <1>2
<1> HIDE DEF f
<1>6. Part(q, p)  BY <1>1, <1>3, <1>5 DEF Part
<1> QED  BY <1>1, <1>6 DEF q

\* What stays of the requests has nothing new.
LEMMA PartKeeps ==
    ASSUME NEW p, Drafted(p), NEW q, Part(q, p), NEW S
    PROVE  PostsKept(q, p, S)
<1>1. PICK f \in [DOMAIN q -> DOMAIN p] :
         \A i \in DOMAIN q : /\ q[i].draft = p[f[i]].draft /\ q[i].at = p[f[i]].at
                             /\ p[f[i]].old => q[i].old
  BY DEF Part
<1>2. Drafted(q)
  BY <1>1 DEF Part, Drafted
<1>3. \A t : Recent(t, p) => Recent(t, q)
  BY <1>1 DEF Recent
<1> QED  BY <1>1, <1>2, <1>3 DEF PostsKept

\* A request that is added carries the entry.
LEMMA AppendKeeps ==
    ASSUME NEW p, NEW q \in Seq(Post), NEW S, Sound(S), PostsKept(q, p, S),
           NEW e \in S, e.dirty
    PROVE  PostsKept(Append(q, Request(e)), p, S)
<1> DEFINE new == Append(q, Request(e))
           n   == Len(q)
<1>1. e \in Entry /\ (e.deleted <=> e.text = Blank)  BY DEF Sound
<1>2. Request(e) \in Post /\ Request(e).at = 0 /\ Request(e).draft = e
  BY <1>1 DEF Post, Request
<1>3. /\ new \in Seq(Post) /\ DOMAIN new = 1..(n + 1) /\ DOMAIN q = 1..n /\ n \in Nat
      /\ new[n + 1] = Request(e) /\ \A i \in 1..n : new[i] = q[i]
  BY <1>2
<1> HIDE DEF new, n
<1>4. \A i \in DOMAIN new : i = n + 1 \/ i \in DOMAIN q  BY <1>3
<1>5. Drafted(new)
  BY <1>1, <1>2, <1>3, <1>4 DEF Drafted, PostsKept
<1>6. ASSUME NEW t, \A x \in S : x.dirty => x.text = t, Recent(t, p)
      PROVE  Recent(t, new)
  <2>1. Recent(t, q)  BY <1>6 DEF PostsKept
  <2> QED  BY <2>1, <1>2, <1>3, <1>4, <1>6 DEF Recent
<1>9. ASSUME NEW i \in DOMAIN new
      PROVE  \/ \E j \in DOMAIN p : new[i].at = p[j].at /\ new[i].draft.text = p[j].draft.text
             \/ new[i].at = 0 /\ \E x \in S : new[i].draft.text = x.text
  <2>1. CASE i = n + 1
    BY <2>1, <1>2, <1>3
  <2>2. CASE i \in DOMAIN q
    <3>1. new[i] = q[i]  BY <2>2, <1>3
    <3> QED  BY <2>2, <3>1 DEF PostsKept
  <2> QED  BY <1>4, <2>1, <2>2
<1>10. PostsKept(new, p, S)
  BY <1>5, <1>6, <1>9 DEF PostsKept
<1> QED  BY <1>10 DEF new

\* The two ways the requests under way change.
LEMMA SendsKeep ==
    ASSUME Shape, Sound(entries'), Sends
    PROVE  PostsKept(posts', posts, entries')
<1>1. CASE Part(posts', posts)
  BY <1>1, PartKeeps DEF Shape
<1>2. ASSUME NEW p \in Seq(Post), NEW e \in entries', Part(p, posts), e.dirty,
             posts' = Append(p, Request(e))
      PROVE  PostsKept(posts', posts, entries')
  <2>1. PostsKept(p, posts, entries')  BY <1>2, PartKeeps DEF Shape
  <2> QED  BY <1>2, <2>1, AppendKeeps
<1> QED  BY <1>1, <1>2 DEF Sends

-----------------------------------------------------------------------------
(* The steps of neither the user nor the server.                           *)

\* What is under way shows nothing of the server that was not shown, or is there.
Hears ==
    /\ events' \in Seq(SUBSET Row)
    /\ \A k \in DOMAIN events' : \E m \in DOMAIN events : events'[k] = events[m]
    /\ gets' \subseteq Get
    /\ \A g \in gets' : g.rows \in {{}, row} \/ \E h \in gets : g.rows = h.rows

\* The shape is kept, whatever is typed; and what is owed to the user, if it was.
Moves == Shape' /\ (Owing => Owing')

\* A step that leaves the server and the user's texts alone.
LEMMA QuietStep ==
    ASSUME Shape, Yields(entries'), Sends, Hears,
           UNCHANGED <<row, clock, unused, typed>>
    PROVE  Moves /\ Yields(entries')
<1>1. Sound(entries')  BY DEF Yields
<1>2. PostsKept(posts', posts, entries')  BY <1>1, SendsKeep
<1>3. Shape'
  <2>1. \A k \in DOMAIN events' : Lone(events'[k])  BY DEF Hears, Shape
  <2>2. \A g \in gets' : Lone(g.rows)
    <3>1. Lone({})  BY DEF Lone
    <3> QED  BY <3>1 DEF Hears, Shape, OneRow
  <2>3. OneRow(row)' /\ (typed \subseteq Texts /\ Lone(typed))'
           /\ (clock \in Nat)' /\ (unused \in Seq(Texts))'
    BY DEF Shape, OneRow, Lone
  <2>4. events' \in Seq(SUBSET Row) /\ gets' \subseteq Get  BY DEF Hears
  <2>5. Drafted(posts')  BY <1>2 DEF PostsKept
  <2>6. Sound(entries)' /\ Drafted(posts)'
    BY <1>1, <2>5 DEF Sound, Drafted, Lone
  <2>7. (\A k \in DOMAIN events : Lone(events[k]))' /\ (\A g \in gets : Lone(g.rows))'
    BY <2>1, <2>2 DEF Lone
  <2> QED  BY <2>3, <2>4, <2>6, <2>7 DEF Shape
<1>4. \A r \in Shown' : r \in Shown \/ r \in row
  BY DEF Hears, Shown
<1>5. Confirmed' \subseteq Confirmed
  <2> SUFFICES ASSUME NEW t \in Confirmed'  PROVE t \in Confirmed
    OBVIOUS
  <2>1. ASSUME NEW i \in DOMAIN posts', posts'[i].at # 0, t = posts'[i].draft.text
        PROVE  t \in Confirmed
    <3>1. PICK j \in DOMAIN posts : posts'[i].at = posts[j].at
             /\ posts'[i].draft.text = posts[j].draft.text
      BY <1>2, <2>1 DEF PostsKept
    <3> QED  BY <2>1, <3>1 DEF Confirmed
  <2>2. ASSUME NEW k \in DOMAIN events', NEW r \in events'[k], t = r.text
        PROVE  t \in Confirmed
    <3>1. PICK m \in DOMAIN events : events'[k] = events[m]  BY DEF Hears
    <3> QED  BY <2>2, <3>1 DEF Confirmed
  <2> QED  BY <2>1, <2>2 DEF Confirmed
<1>6. ASSUME NEW t, Fresh(t)  PROVE Fresh(t)'
  <2>1. \A e \in entries' : e.text # t  BY <1>6 DEF Fresh, Yields
  <2>2. \A r \in Shown' : r.text # t  BY <1>4, <1>6 DEF Fresh
  <2>3. \A i \in DOMAIN posts' : posts'[i].draft.text # t
    BY <1>2, <1>6, <2>1 DEF Fresh, PostsKept
  <2>4. \A r \in row' : r.text # t  BY <1>6 DEF Fresh
  <2> QED  BY <2>1, <2>2, <2>3, <2>4 DEF Fresh
<1>7. ASSUME NewTexts  PROVE NewTexts'
  BY <1>6, <1>7 DEF NewTexts
<1>8. ASSUME NEW t \in typed', \A x \in typed : Safe(x)  PROVE Safe(t)'
  <2>1. t \in typed /\ Safe(t) /\ t # Blank  BY <1>8, OwnTexts DEF Shape
  <2>2. \A e \in entries' : e.dirty => e.text = t
    BY <2>1 DEF Safe, Yields
  <2>3. Saved(t)' <=> Saved(t)  BY DEF Saved
  <2>4. Saved(t)' \/ Pending(t)'
    <3> SUFFICES ASSUME ~Saved(t)  PROVE Pending(t)'
      BY <2>3
    <3>1. PICK e \in entries : e.dirty /\ e.text = t  BY <2>1 DEF Safe, Pending
    <3>2. ~e.deleted  BY <2>1, <3>1 DEF Shape, Sound
    <3>3. e.text \notin Confirmed  BY <2>1, <3>1 DEF Safe
    <3> QED  BY <3>1, <3>2, <3>3 DEF Yields, Pending
  <2>5. Recent(t, posts')
    BY <1>2, <2>1, <2>2 DEF PostsKept, Safe
  <2>6. (t \in Confirmed)' => Saved(t)  BY <1>5, <2>1 DEF Safe
  <2>7. Recent(t, posts)' = Recent(t, posts')
    BY DEF Recent
  <2> QED  BY <2>2, <2>3, <2>4, <2>5, <2>6, <2>7 DEF Safe
<1> QED  BY <1>3, <1>7, <1>8 DEF Moves, Owing

\* Nothing new is under way to this client,
LEMMA NoNewHears == ASSUME Shape, UNCHANGED <<events, gets>> PROVE Hears
BY DEF Shape, Hears

\* or from it.
LEMMA NoNewSends == ASSUME Shape, UNCHANGED posts PROVE Sends
<1>1. posts \in Seq(Post)  BY DEF Shape, Drafted
<1>2. Part(posts, posts)  BY <1>1, SamePart
<1> QED  BY <1>2 DEF Sends

\* A request that ended.
LEMMA DropSends ==
    ASSUME Shape, NEW i \in 1..Len(posts), posts' = RemoveAt(posts, i)
    PROVE  Sends
<1>1. posts \in Seq(Post)  BY DEF Shape, Drafted
<1>2. Part(RemoveAt(posts, i), posts)  BY <1>1, RemovedPart
<1> QED  BY <1>2 DEF Sends

\* A request for the new entry, if it is made.
LEMMA RequestSends ==
    ASSUME Shape, NEW e, e \in entries', e.dirty, SyncEntry(e)
    PROVE  Sends
<1>1. posts \in Seq(Post)  BY DEF Shape, Drafted
<1>2. Part(posts, posts)  BY <1>1, SamePart
<1>3. posts' = posts \/ posts' = Append(posts, Request(e))
  BY DEF SyncEntry
<1> QED  BY <1>1, <1>2, <1>3 DEF Sends

\* A step that says nothing new of the entry and nothing of the server.
LEMMA StillStep ==
    ASSUME Shape, UNCHANGED entries, Sends, Hears,
           UNCHANGED <<row, clock, unused, typed>>
    PROVE  Moves /\ Yields(entries')
<1>1. Yields(entries')  BY Same
<1> QED  BY <1>1, QuietStep

\* The steps that follow are the model's actions, one each: the flush of the entry,
LEMMA FlushStep == ASSUME Shape, Flush PROVE Moves /\ Yields(entries')
<1>1. Shape /\ UNCHANGED <<events, gets, row, clock, unused, typed>>
  BY DEF Flush, server
<1>2. PICK e \in entries :
         IF e.deleted /\ ~e.remote /\ ~e.requested
         THEN entries' = {} /\ UNCHANGED posts
         ELSE /\ e.dirty /\ ~disabled
              /\ entries' = {[e EXCEPT !.requested = TRUE]}
              /\ SyncEntry([e EXCEPT !.requested = TRUE])
  BY DEF Flush
<1>3. entries = {e} /\ e \in Entry /\ (e.deleted <=> e.text = Blank)
  BY <1>1 DEF Shape, Sound, Lone
<1>4. CASE e.deleted /\ ~e.remote /\ ~e.requested
  <2>1. entries' = {} /\ UNCHANGED posts  BY <1>2, <1>4
  <2>2. Yields(entries')  BY <1>3, <1>4, <2>1 DEF Yields, Sound, Lone
  <2> QED  BY <1>1, <2>1, <2>2, NoNewSends, NoNewHears, QuietStep
<1>5. CASE ~(e.deleted /\ ~e.remote /\ ~e.requested)
  <2> DEFINE f == [e EXCEPT !.requested = TRUE]
  <2>1. e.dirty /\ entries' = {f} /\ SyncEntry(f)  BY <1>2, <1>5
  <2>2. f \in Entry /\ f.text = e.text /\ f.dirty = e.dirty /\ f.deleted = e.deleted
    BY <1>3 DEF Entry
  <2> HIDE DEF f
  <2>3. Sound({f})  BY <1>3, <2>1, <2>2 DEF Sound, Lone
  <2>4. Yields(entries')  BY <1>3, <2>1, <2>2, <2>3 DEF Yields
  <2>5. f \in entries' /\ f.dirty  BY <2>1, <2>2
  <2>6. Sends  BY <1>1, <2>1, <2>5, RequestSends
  <2> QED  BY <1>1, <2>4, <2>6, NoNewHears, QuietStep
<1> QED  BY <1>4, <1>5

\* the answer to an upload,
LEMMA AnswerStep ==
    ASSUME Shape, NEW i, PostAnswered(i) PROVE Moves /\ Yields(entries')
<1>1. /\ Shape /\ UNCHANGED <<events, gets, row, clock, unused, typed>>
      /\ i \in 1..Len(posts) /\ posts[i].at # 0 /\ posts \in Seq(Post)
  BY DEF PostAnswered, server, bounds, Shape, Drafted
<1> DEFINE d    == posts[i].draft
           rest == RemoveAt(posts, i)
<1>2. entries' = UNION {Acknowledged(e, posts[i].draft, posts[i].at) : e \in entries}
  BY DEF PostAnswered
<1>3. i \in DOMAIN posts  BY <1>1
<1>4. Yields(entries')  BY <1>1, <1>2, <1>3, AcknowledgedYields
<1>5. posts' = IF ~disabled /\ \E e \in entries : DeleteAgain(e, d)
               THEN Append(rest, Request(CHOOSE e \in entries' : TRUE))
               ELSE rest
  BY DEF PostAnswered
<1>6. Part(rest, posts) /\ rest \in Seq(Post)  BY <1>1, RemovedPart
<1>7. Sends
  <2>1. CASE ~(~disabled /\ \E e \in entries : DeleteAgain(e, d))
    BY <1>5, <1>6, <2>1 DEF Sends
  <2>2. ASSUME NEW e \in entries, DeleteAgain(e, d), ~disabled  PROVE Sends
    <3>1. entries = {e} /\ e.deleted # d.deleted /\ e.dirty
      BY <1>1, <2>2 DEF Shape, Sound, Lone, DeleteAgain
    <3>2. entries' = {[e EXCEPT !.remote = @ \/ (~d.deleted /\ e.deleted /\ e.requested)]}
      BY <1>2, <3>1 DEF Acknowledged
    <3> DEFINE f == [e EXCEPT !.remote = @ \/ (~d.deleted /\ e.deleted /\ e.requested)]
    <3>3. e \in Entry  BY <1>1 DEF Shape, Sound
    <3>4. f.dirty  BY <3>1, <3>3 DEF Entry
    <3>5. entries' = {f} /\ (CHOOSE x \in entries' : TRUE) = f  BY <3>2
    <3> HIDE DEF f, rest
    <3>6. posts' = Append(rest, Request(f))  BY <1>5, <2>2, <3>5
    <3> QED  BY <1>6, <3>4, <3>5, <3>6 DEF Sends
  <2> QED  BY <2>1, <2>2
<1> QED  BY <1>1, <1>4, <1>7, NoNewHears, QuietStep

\* Requests that nobody waits for any more.
LEMMA SilentPart ==
    ASSUME NEW p \in Seq(Post), NEW q, DOMAIN q = DOMAIN p, q = [i \in DOMAIN q |-> q[i]],
           \A i \in DOMAIN p : q[i] = p[i] \/ q[i] = [p[i] EXCEPT !.heard = FALSE]
    PROVE  Part(q, p)
<1>1. \A x \in Post : /\ [x EXCEPT !.heard = FALSE] \in Post
                      /\ [x EXCEPT !.heard = FALSE].draft = x.draft
                      /\ [x EXCEPT !.heard = FALSE].at = x.at
                      /\ [x EXCEPT !.heard = FALSE].old = x.old
  BY DEF Post
<1>2. DOMAIN p = 1..Len(p) /\ Len(p) \in Nat /\ \A i \in DOMAIN p : p[i] \in Post
  OBVIOUS
<1>3. \A i \in DOMAIN p : /\ q[i] \in Post /\ q[i].draft = p[i].draft
                          /\ q[i].at = p[i].at /\ q[i].old = p[i].old
  BY <1>1, <1>2
<1>4. q \in [1..Len(p) -> Post]  BY <1>2, <1>3
<1>5. q \in Seq(Post)  BY <1>2, <1>4
<1> QED  BY <1>3, <1>5, WholePart

\* an upload that failed,
LEMMA FailStep == ASSUME Shape, NEW i, PostFails(i) PROVE Moves /\ Yields(entries')
<1>1. Shape /\ UNCHANGED <<entries, events, gets, row, clock, unused, typed>>
  BY DEF PostFails, server
<1>2. posts \in Seq(Post) /\ posts' = [posts EXCEPT ![i].heard = FALSE]
  BY DEF PostFails, Shape, Drafted
<1>3. /\ DOMAIN posts' = DOMAIN posts /\ posts' = [j \in DOMAIN posts' |-> posts'[j]]
      /\ \A j \in DOMAIN posts : posts'[j] = posts[j]
                                \/ posts'[j] = [posts[j] EXCEPT !.heard = FALSE]
  BY <1>2
<1>4. Sends  BY <1>2, <1>3, SilentPart DEF Sends
<1> QED  BY <1>1, <1>4, NoNewHears, StillStep

\* one that nobody waits for,
LEMMA GoneByStep == ASSUME Shape, NEW i, PostGone(i) PROVE Moves /\ Yields(entries')
<1>1. Shape /\ UNCHANGED <<entries, events, gets, row, clock, unused, typed>>
  BY DEF PostGone, server, bounds
<1>2. i \in 1..Len(posts) /\ posts' = RemoveAt(posts, i)
  BY DEF PostGone, Shape, Drafted
<1>3. Sends  BY <1>1, <1>2, DropSends
<1> QED  BY <1>1, <1>3, NoNewHears, StillStep

\* A reply that is no longer of the current sync shows what it did.
LEMMA GetChange ==
    ASSUME NEW g \in Get, NEW c \in BOOLEAN
    PROVE  [g EXCEPT !.current = c] \in Get /\ [g EXCEPT !.current = c].rows = g.rows
BY DEF Get

\* What a server without drafts leaves of the replies under way,
LEMMA DisableHears ==
    ASSUME Shape, NEW others, others \subseteq gets, DisableRemoteSync(others), UNCHANGED events
    PROVE  Hears
<1>1. gets' = {[g EXCEPT !.current = FALSE] : g \in others}  BY DEF DisableRemoteSync
<1>2. \A g \in gets : g \in Get  BY DEF Shape
<1>3. ASSUME NEW g \in gets'  PROVE g \in Get /\ \E h \in gets : g.rows = h.rows
  <2>1. PICK h \in others : g = [h EXCEPT !.current = FALSE]  BY <1>1
  <2> QED  BY <1>2, <2>1, GetChange
<1> QED  BY <1>3 DEF Shape, Hears

\* which an upload may tell,
LEMMA UnsupportedStep ==
    ASSUME Shape, NEW i, PostUnsupported(i) PROVE Moves /\ Yields(entries')
<1>1. Shape /\ UNCHANGED <<events, row, clock, unused, typed>>
  BY DEF PostUnsupported, server
<1>2. i \in 1..Len(posts) /\ posts' = RemoveAt(posts, i)
  BY DEF PostUnsupported, Shape, Drafted
<1>3. Sends  BY <1>1, <1>2, DropSends
<1>4. CASE disabled
  <2>1. UNCHANGED <<entries, gets>>  BY <1>4 DEF PostUnsupported
  <2> QED  BY <1>1, <1>3, <2>1, NoNewHears, StillStep
<1>5. CASE ~disabled
  <2>1. DisableRemoteSync(gets)  BY <1>5 DEF PostUnsupported
  <2>2. Yields(entries')  BY <1>1, <2>1, DisabledYields
  <2>3. Hears  BY <1>1, <2>1, DisableHears
  <2> QED  BY <1>1, <1>3, <2>2, <2>3, QuietStep
<1> QED  BY <1>4, <1>5

\* or a sync,
LEMMA GetUnsupportedStep ==
    ASSUME Shape, NEW g, GetUnsupported(g) PROVE Moves /\ Yields(entries')
<1>1. /\ Shape /\ UNCHANGED <<posts, events, row, clock, unused, typed>>
      /\ DisableRemoteSync(gets \ {g})
  BY DEF GetUnsupported, server
<1>2. Yields(entries')  BY <1>1, DisabledYields
<1>3. Hears  BY <1>1, DisableHears
<1> QED  BY <1>1, <1>2, <1>3, NoNewSends, QuietStep

\* the start of a sync,
LEMMA SyncStep == ASSUME Shape, SyncAllTeams PROVE Moves /\ Yields(entries')
<1>1. Shape /\ UNCHANGED <<entries, posts, row, clock, unused, typed>>
  BY DEF SyncAllTeams
<1>2. gets' = {[g EXCEPT !.current = FALSE] : g \in gets}
              \cup {[team |-> t, current |-> TRUE, read |-> t # HomeTeam, rows |-> {}] : t \in Teams}
  BY DEF SyncAllTeams
<1>3. \A g \in gets : g \in Get  BY <1>1 DEF Shape
<1>4. \A t \in Teams :
         [team |-> t, current |-> TRUE, read |-> t # HomeTeam, rows |-> {}] \in Get
  BY DEF Get
<1>5. ASSUME NEW g \in gets'
      PROVE  g \in Get /\ (g.rows = {} \/ \E h \in gets : g.rows = h.rows)
  <2>1. CASE \E h \in gets : g = [h EXCEPT !.current = FALSE]
    BY <1>3, <2>1, GetChange
  <2>2. CASE \E t \in Teams :
               g = [team |-> t, current |-> TRUE, read |-> t # HomeTeam, rows |-> {}]
    BY <1>4, <2>2
  <2> QED  BY <1>2, <2>1, <2>2
<1>6. /\ events' \in Seq(SUBSET Row)
      /\ \A k \in DOMAIN events' : \E m \in DOMAIN events : events'[k] = events[m]
  <2>1. CASE events' = events
    BY <1>1, <2>1 DEF Shape
  <2>2. CASE events' = <<>>
    BY <2>2
  <2> QED  BY <2>1, <2>2 DEF SyncAllTeams
<1>7. Hears  BY <1>5, <1>6 DEF Hears
<1> QED  BY <1>1, <1>7, NoNewSends, StillStep

\* the server that reads the draft for it,
LEMMA ReadStep == ASSUME Shape, NEW g, ServerReads(g) PROVE Moves /\ Yields(entries')
<1>1. Shape /\ UNCHANGED <<entries, posts, row, events, clock, unused, typed>>
  BY DEF ServerReads, server, bounds
<1>2. gets' = (gets \ {g}) \cup {[g EXCEPT !.read = TRUE, !.rows = row]} /\ g \in gets
  BY DEF ServerReads
<1>3. [g EXCEPT !.read = TRUE, !.rows = row] \in Get
         /\ [g EXCEPT !.read = TRUE, !.rows = row].rows = row
  BY <1>1, <1>2 DEF Get, Shape, OneRow
<1>4. gets' \subseteq Get /\ \A h \in gets' : h.rows = row \/ \E x \in gets : h.rows = x.rows
  BY <1>1, <1>2, <1>3 DEF Shape
<1>5. Hears  BY <1>1, <1>4 DEF Hears, Shape
<1> QED  BY <1>1, <1>5, NoNewSends, StillStep

\* a team's reply,
LEMMA TeamStep ==
    ASSUME Shape, NEW g, NEW failed \in BOOLEAN, TeamAnswered(g, failed) PROVE Moves /\ Yields(entries')
<1>1. /\ Shape /\ UNCHANGED <<row, events, clock, unused, typed>>
      /\ g \in gets /\ gets' = gets \ {g}
  BY DEF TeamAnswered, server
<1>2. Hears
  <2>1. gets' \subseteq Get /\ \A x \in gets' : \E h \in gets : x.rows = h.rows
    BY <1>1 DEF Shape
  <2> QED  BY <1>1, <2>1 DEF Hears, Shape
<1>3. CASE ~g.current
  <2>1. UNCHANGED <<entries, posts>>  BY <1>3 DEF TeamAnswered
  <2> QED  BY <1>1, <1>2, <2>1, NoNewSends, StillStep
<1>4. CASE g.current
  <2> DEFINE merged == IF failed THEN entries ELSE Merged(g.rows)
             on     == (seen \/ (~failed /\ g.rows # {}))
  <2>1. Yields(merged)
    <3>1. g.rows \subseteq Shown /\ OneRow(g.rows)  BY <1>1 DEF Shown, Shape, OneRow, Get
    <3>2. Yields(Merged(g.rows))  BY <1>1, <3>1, MergedYields
    <3> QED  BY <1>1, <3>2, Same
  <2>2. PICK v \in BOOLEAN : v <=> on
    OBVIOUS
  <2>3. \/ entries' = merged /\ UNCHANGED posts
        \/ /\ entries' = Finished(merged, seen')
           /\ posts' = posts \o SetToSeq({Request(e) : e \in ToSync(Finished(merged, seen'))})
    BY <1>4 DEF TeamAnswered
  <2>4. seen' \in BOOLEAN
    <3>1. seen' = on  BY <1>4 DEF TeamAnswered
    <3> QED  BY <3>1
  <2> HIDE DEF merged, on
  <2>5. CASE entries' = merged /\ UNCHANGED posts
    BY <1>1, <1>2, <2>1, <2>5, NoNewSends, QuietStep
  <2>6. CASE /\ entries' = Finished(merged, seen')
             /\ posts' = posts \o SetToSeq({Request(e) : e \in ToSync(Finished(merged, seen'))})
    <3>1. Yields(entries')  BY <1>1, <2>1, <2>4, <2>6, FinishedYields
    <3> DEFINE R == {Request(e) : e \in ToSync(entries')}
    <3>2. Lone(R)  BY <3>1 DEF Yields, Sound, Lone, ToSync
    <3>3. posts' = posts \o SetToSeq(R)  BY <2>6
    <3>4. posts \in Seq(Post)  BY <1>1 DEF Shape, Drafted
    <3>5. CASE R = {} /\ SetToSeq(R) = <<>>
      <4>1. posts' = posts  BY <3>3, <3>4, <3>5, ConcatEmptySeq
      <4> QED  BY <1>1, <1>2, <3>1, <4>1, NoNewSends, QuietStep
    <3>6. ASSUME NEW x \in R, SetToSeq(R) = <<x>>  PROVE Moves /\ Yields(entries')
      <4>1. PICK e \in ToSync(entries') : x = Request(e)  BY <3>6
      <4>2. e \in entries' /\ e.dirty  BY <4>1 DEF ToSync
      <4>3. posts' = Append(posts, x)
        <5> HIDE DEF R
        <5>1. posts' = posts \o <<x>>  BY <3>3, <3>6
        <5>2. x \in Post
          <6>1. e \in Entry  BY <3>1, <4>2 DEF Yields, Sound
          <6> QED  BY <4>1, <6>1 DEF Request, Post
        <5> QED  BY <3>4, <5>1, <5>2
      <4>4. Part(posts, posts)  BY <3>4, SamePart
      <4>5. Sends  BY <3>4, <4>1, <4>2, <4>3, <4>4 DEF Sends
      <4> QED  BY <1>1, <1>2, <3>1, <4>5, QuietStep
    <3> HIDE DEF R
    <3> QED  BY <3>2, <3>5, <3>6, LoneAsSeq
  <2> QED  BY <2>3, <2>5, <2>6
<1>5. g.current \in BOOLEAN  BY <1>1 DEF Shape, Get
<1> QED  BY <1>3, <1>4, <1>5

\* an event,
LEMMA EventStep == ASSUME Shape, RemoteEvent PROVE Moves /\ Yields(entries')
<1>1. /\ Shape /\ UNCHANGED <<posts, gets, row, clock, unused, typed>>
      /\ events # <<>> /\ events' = Tail(events)
  BY DEF RemoteEvent, bounds
<1>2. Yields(entries')  BY <1>1, EventYields
<1>3. events \in Seq(SUBSET Row)  BY <1>1 DEF Shape
<1>4. /\ events' \in Seq(SUBSET Row)
      /\ \A k \in DOMAIN events' : k + 1 \in DOMAIN events /\ events'[k] = events[k + 1]
  BY <1>1, <1>3
<1>5. Hears  BY <1>1, <1>4 DEF Hears, Shape
<1> QED  BY <1>1, <1>2, <1>5, NoNewSends, QuietStep

\* and a restart.
LEMMA RestartStep == ASSUME Shape, Restart PROVE Moves /\ Yields(entries')
<1>1. /\ Shape /\ UNCHANGED <<entries, row, clock, unused, typed>>
      /\ gets' = {} /\ events' = <<>> /\ posts \in Seq(Post)
  BY DEF Restart, Shape, Drafted
<1>2. Hears  BY <1>1 DEF Hears
<1>3. posts' = [j \in DOMAIN posts |-> [posts[j] EXCEPT !.heard = FALSE]]
  BY DEF Restart
<1>4. Part(posts', posts)
  <2>1. /\ DOMAIN posts' = DOMAIN posts /\ posts' = [j \in DOMAIN posts' |-> posts'[j]]
        /\ \A j \in DOMAIN posts : posts'[j] = [posts[j] EXCEPT !.heard = FALSE]
    BY <1>3
  <2> QED  BY <1>1, <2>1, SilentPart
<1>5. Sends  BY <1>4 DEF Sends
<1> QED  BY <1>1, <1>2, <1>5, StillStep

-----------------------------------------------------------------------------
(* The steps of the user, of the server and of another client.             *)

\* The user's step: what he typed is the new entry, or nothing is owed to him.
LEMMA UserStep ==
    ASSUME Shape, Sound(entries'), Sends, UNCHANGED <<row, events, gets>>,
           clock' \in Nat, unused' \in Seq(Texts), typed' \subseteq Texts, Lone(typed'),
           Owing => /\ \A u \in DOMAIN unused' : Fresh(unused'[u])
                    /\ \A u, v \in DOMAIN unused' : unused'[u] = unused'[v] => u = v
                    /\ \A u \in DOMAIN unused' : \A e \in entries' : e.text # unused'[u]
                    /\ \A t \in typed' : Safe(t)'
    PROVE  Moves
<1>1. Shape  OBVIOUS
<1>2. PostsKept(posts', posts, entries')  BY <1>1, SendsKeep
<1>3. Shape'
  <2>1. Drafted(posts')  BY <1>2 DEF PostsKept
  <2>2. /\ Sound(entries)' /\ Drafted(posts)' /\ OneRow(row)'
        /\ (typed \subseteq Texts /\ Lone(typed))'
    BY <1>1, <2>1 DEF Sound, Drafted, Lone, OneRow, Shape
  <2>3. (\A k \in DOMAIN events : Lone(events[k]))' /\ (\A g \in gets : Lone(g.rows))'
    BY <1>1 DEF Shape, Lone
  <2> QED  BY <1>1, <2>2, <2>3 DEF Shape
<1>4. ASSUME NEW t, Fresh(t), \A e \in entries' : e.text # t  PROVE Fresh(t)'
  <2>1. \A i \in DOMAIN posts' : posts'[i].draft.text # t
    BY <1>2, <1>4 DEF Fresh, PostsKept
  <2>2. \A r \in Shown' : r.text # t  BY <1>4 DEF Shown, Fresh
  <2>3. \A r \in row' : r.text # t  BY <1>4 DEF Fresh
  <2> QED  BY <1>4, <2>1, <2>2, <2>3 DEF Fresh
<1>5. ASSUME Owing  PROVE NewTexts'
  BY <1>4, <1>5 DEF NewTexts
<1> QED  BY <1>3, <1>5 DEF Moves, Owing

\* The time of an edit.
LEMMA NextTimeType == ASSUME Shape PROVE NextTime \in Nat
<1>1. clock \in Nat /\ \A e \in entries : e \in Entry  BY DEF Shape, Sound
<1>2. CASE \E e \in entries : e.at > clock
  <2>1. (CHOOSE e \in entries : TRUE) \in entries  BY <1>2
  <2>2. (CHOOSE e \in entries : TRUE).at \in Nat  BY <1>1, <2>1, EntryFields
  <2> QED  BY <1>2, <2>2 DEF NextTime
<1>3. CASE ~ \E e \in entries : e.at > clock
  BY <1>1, <1>3 DEF NextTime
<1> QED  BY <1>2, <1>3

\* The user types,
LEMMA TypeStep == ASSUME Shape, Type PROVE Moves
<1>1. Shape /\ UNCHANGED <<gets, events, row>>
  BY DEF Type, server
<1>2. /\ unused \in Seq(Texts) /\ unused # <<>> /\ unused' = Tail(unused)
      /\ clock' \in Nat /\ typed' = {Head(unused)}
  BY <1>1 DEF Type, Shape
<1>3. PICK t \in Texts : t = Head(unused) /\ 1 \in DOMAIN unused /\ t = unused[1]
  BY <1>2
<1> DEFINE e == [text |-> t, at |-> NextTime, dirty |-> TRUE, deleted |-> FALSE,
                 remote |-> \E x \in entries : x.remote, requested |-> FALSE]
<1>4. t # Blank /\ t \in AllTexts  BY <1>3, OwnTexts
<1>5. (\E x \in entries : x.remote) \in BOOLEAN
  OBVIOUS
<1>6. entries' = {e}  BY <1>3 DEF Type
<1>7. e \in Entry /\ e.text = t /\ e.dirty /\ ~e.deleted /\ ~e.requested
  BY <1>1, <1>4, <1>5, NextTimeType DEF Entry
<1>8. Owing => Fresh(t)  BY <1>3 DEF Owing, NewTexts
<1> HIDE DEF e
<1>9. Sound(entries')  BY <1>4, <1>6, <1>7 DEF Sound, Lone
<1>10. /\ Part(posts', posts) /\ DOMAIN posts' = DOMAIN posts
       /\ \A i \in DOMAIN posts : posts'[i].old /\ posts'[i].draft = posts[i].draft
  <2>1. posts \in Seq(Post) /\ posts' = [i \in DOMAIN posts |-> [posts[i] EXCEPT !.old = TRUE]]
    BY <1>1 DEF Type, Shape, Drafted
  <2>2. \A x \in Post : /\ [x EXCEPT !.old = TRUE] \in Post
                        /\ [x EXCEPT !.old = TRUE].draft = x.draft
                        /\ [x EXCEPT !.old = TRUE].at = x.at
                        /\ [x EXCEPT !.old = TRUE].old
    BY DEF Post
  <2>3. /\ DOMAIN posts' = DOMAIN posts
        /\ \A i \in DOMAIN posts : /\ posts'[i] \in Post /\ posts'[i].draft = posts[i].draft
                                   /\ posts'[i].at = posts[i].at /\ posts'[i].old
    <3>1. DOMAIN posts' = DOMAIN posts  BY <2>1
    <3>2. \A i \in DOMAIN posts : /\ posts'[i] = [posts[i] EXCEPT !.old = TRUE]
                                 /\ posts[i] \in Post
      BY <2>1
    <3>3. ASSUME NEW i \in DOMAIN posts
          PROVE  /\ posts'[i] \in Post /\ posts'[i].draft = posts[i].draft
                 /\ posts'[i].at = posts[i].at /\ posts'[i].old
      <4>1. PICK x \in Post : x = posts[i]  BY <3>2
      <4>2. posts'[i] = [x EXCEPT !.old = TRUE]  BY <3>2, <4>1
      <4> QED  BY <2>2, <4>1, <4>2
    <3> QED  BY <3>1, <3>3
  <2>4. posts' \in [1..Len(posts) -> Post]  BY <2>1, <2>3
  <2>5. posts' \in Seq(Post)  BY <2>1, <2>4
  <2> QED  BY <2>1, <2>3, <2>5, WholePart
<1>19. Sends  BY <1>10 DEF Sends
<1>11. \A u \in DOMAIN unused' : u + 1 \in DOMAIN unused /\ unused'[u] = unused[u + 1]
                                    /\ u \in Nat /\ u + 1 # 1
  BY <1>2
<1>12. Owing => \A u \in DOMAIN unused' : Fresh(unused'[u]) /\ unused'[u] # t
  BY <1>3, <1>11 DEF Owing, NewTexts
<1>13. Owing => \A u, v \in DOMAIN unused' : unused'[u] = unused'[v] => u = v
  BY <1>11 DEF Owing, NewTexts
<1>14. unused' \in Seq(Texts)  BY <1>2
<1>15. typed' = {t} /\ typed' \subseteq Texts /\ Lone(typed')  BY <1>2, <1>3 DEF Lone
<1>16. ASSUME Owing  PROVE Safe(t)'
  <2>1. \A x \in entries' : x.dirty => x.text = t  BY <1>6, <1>7
  <2>2. \E x \in entries' : x.dirty /\ x.text = t  BY <1>6, <1>7
  <2>3. ~ \E r \in row' : r.text = t  BY <1>1, <1>8, <1>16 DEF Fresh
  <2>4. \A i \in DOMAIN posts' : posts'[i].draft.text # t  BY <1>10, <1>8, <1>16 DEF Fresh
  <2>5. \A k \in DOMAIN events' : \A r \in events'[k] : r.text # t
    BY <1>1, <1>8, <1>16 DEF Fresh, Shown
  <2>6. t \notin Confirmed'  BY <2>4, <2>5 DEF Confirmed
  <2>7. ~Saved(t)' /\ Recent(t, posts)' /\ Pending(t)'
    BY <1>10, <2>2, <2>3 DEF Saved, Recent, Pending
  <2> QED  BY <2>1, <2>6, <2>7 DEF Safe
<1>17. Owing => \A x \in typed' : Safe(x)'
  BY <1>15, <1>16
<1>18. Owing => \A u \in DOMAIN unused' : \A x \in entries' : x.text # unused'[u]
  BY <1>6, <1>7, <1>12
<1> QED  BY <1>2, <1>1, <1>9, <1>19, <1>12, <1>13, <1>14, <1>15, <1>17, <1>18, UserStep

\* The entry after it was deleted.
LEMMA TombstoneIs ==
    ASSUME Shape, NEW e \in entries, NEW request \in BOOLEAN
    PROVE  /\ Tombstone(e, request) \in Entry /\ Sound({Tombstone(e, request)})
           /\ Tombstone(e, request).text = Blank /\ Tombstone(e, request).dirty
<1> DEFINE f == Tombstone(e, request)
<1>1. e.remote \in BOOLEAN  BY EntryFields DEF Shape, Sound
<1>2. /\ f \in Entry /\ f.text = Blank /\ f.dirty /\ f.deleted
  BY <1>1, NextTimeType DEF Tombstone, Entry
<1> HIDE DEF f
<1>3. Sound({f})  BY <1>2 DEF Sound, Lone
<1> QED  BY <1>2, <1>3 DEF f

\* A step that leaves nothing owed to the user, and a tombstone or nothing.
LEMMA GoneStep ==
    ASSUME Shape, Sound(entries'), \A e \in entries' : e.text = Blank, Sends,
           UNCHANGED <<row, events, gets, unused>>, clock' = clock + 1, typed' = {}
    PROVE  Moves
<1>1. Shape /\ clock' \in Nat /\ unused' \in Seq(Texts)
  BY DEF Shape
<1>2. \A u \in DOMAIN unused : unused[u] # Blank
  BY <1>1, OwnTexts DEF Shape
<1>3. \A u \in DOMAIN unused' : \A e \in entries' : e.text # unused'[u]
  BY <1>2
<1>4. Owing => /\ \A u \in DOMAIN unused' : Fresh(unused'[u])
               /\ \A u, v \in DOMAIN unused' : unused'[u] = unused'[v] => u = v
  BY DEF Owing, NewTexts
<1>5. typed' \subseteq Texts /\ Lone(typed') /\ \A t \in typed' : Safe(t)'
  BY DEF Lone
<1> QED  BY <1>1, <1>3, <1>4, <1>5, UserStep

\* clears the draft,
LEMMA ClearStep == ASSUME Shape, Clear PROVE Moves
<1>1. /\ Shape /\ UNCHANGED <<row, events, gets, unused, posts>>
      /\ clock' = clock + 1 /\ typed' = {}
  BY DEF Clear, server
<1>2. PICK e \in entries :
         entries' = IF ~e.remote /\ ~e.requested THEN {} ELSE {Tombstone(e, FALSE)}
  BY DEF Clear
<1>3. Sound({})  BY DEF Sound, Lone
<1>4. Sound(entries') /\ \A f \in entries' : f.text = Blank
  BY <1>1, <1>2, <1>3, TombstoneIs
<1> QED  BY <1>1, <1>4, NoNewSends, GoneStep

\* or sends or discards it.
LEMMA DiscardStep == ASSUME Shape, Discard PROVE Moves
<1>1. /\ Shape /\ UNCHANGED <<row, events, gets, unused>>
      /\ clock' = clock + 1 /\ typed' = {}
  BY DEF Discard, server
<1>2. PICK e \in entries :
         IF disabled \/ (~e.remote /\ ~e.requested)
         THEN entries' = {} /\ UNCHANGED posts
         ELSE entries' = {Tombstone(e, TRUE)} /\ SyncEntry(Tombstone(e, TRUE))
  BY DEF Discard
<1>3. CASE disabled \/ (~e.remote /\ ~e.requested)
  <2>1. entries' = {} /\ UNCHANGED posts  BY <1>2, <1>3
  <2>2. Sound(entries') /\ \A f \in entries' : f.text = Blank  BY <2>1 DEF Sound, Lone
  <2> QED  BY <1>1, <2>1, <2>2, NoNewSends, GoneStep
<1>4. CASE ~(disabled \/ (~e.remote /\ ~e.requested))
  <2>1. entries' = {Tombstone(e, TRUE)} /\ SyncEntry(Tombstone(e, TRUE))  BY <1>2, <1>4
  <2>2. Sound({Tombstone(e, TRUE)}) /\ Tombstone(e, TRUE).text = Blank /\ Tombstone(e, TRUE).dirty
    BY <1>1, TombstoneIs
  <2>3. Tombstone(e, TRUE) \in entries'  BY <2>1
  <2>4. Sends  BY <1>1, <2>1, <2>2, <2>3, RequestSends
  <2>5. Sound(entries') /\ \A f \in entries' : f.text = Blank  BY <2>1, <2>2
  <2> QED  BY <1>1, <2>4, <2>5, GoneStep
<1> QED  BY <1>3, <1>4

\* The server announces what it has now.
LEMMA Announced ==
    ASSUME Shape, OneRow(row'), Announce(row')
    PROVE  /\ events' \in Seq(SUBSET Row) /\ \A k \in DOMAIN events' : Lone(events'[k])
           /\ \A k \in DOMAIN events' : events'[k] = row' \/ \E m \in DOMAIN events : events'[k] = events[m]
<1> DEFINE n == Len(events)
<1>1. events \in Seq(SUBSET Row) /\ row' \in SUBSET Row /\ Lone(row')
  BY DEF Shape, OneRow
<1>2. events' = Append(events, row')  BY DEF Announce
<1>3. /\ events' \in Seq(SUBSET Row) /\ DOMAIN events' = 1..(n + 1) /\ DOMAIN events = 1..n
      /\ n \in Nat /\ events'[n + 1] = row' /\ \A k \in 1..n : events'[k] = events[k]
  BY <1>1, <1>2
<1> HIDE DEF n
<1>4. ASSUME NEW k \in DOMAIN events'
      PROVE  events'[k] = row' \/ \E m \in DOMAIN events : events'[k] = events[m]
  <2>1. k = n + 1 \/ k \in 1..n  BY <1>3
  <2> QED  BY <1>3, <2>1
<1>5. \A k \in DOMAIN events' : Lone(events'[k])
  BY <1>1, <1>4 DEF Shape
<1> QED  BY <1>3, <1>4, <1>5

\* The server takes an upload or a deletion,
LEMMA TakeStep ==
    ASSUME Shape, NEW i, ServerTakes(i) PROVE Moves /\ Yields(entries')
<1>1. /\ Shape /\ UNCHANGED <<entries, gets, unused>>
      /\ i \in DOMAIN posts /\ posts[i].at = 0 /\ posts \in Seq(Post) /\ posts[i] \in Post
      /\ clock \in Nat /\ clock' = clock + 1
  BY DEF ServerTakes, bounds, Shape, Drafted
<1>2. PICK new \in Nat : new = clock' /\ new # 0  BY <1>1
<1>0. posts[i].draft \in Entry /\ (posts[i].draft.deleted <=> posts[i].draft.text = Blank)
  BY <1>1 DEF Shape, Drafted, Post
<1>3. PICK d \in Entry : d = posts[i].draft /\ (d.deleted <=> d.text = Blank)
  BY <1>1, <1>0
<1>4. row' = (IF d.deleted THEN {} ELSE {[text |-> d.text, at |-> new]}) /\ Announce(row')
  BY <1>2, <1>3 DEF ServerTakes
<1>5. /\ OneRow(row') /\ \A r \in row' : r.text = d.text
      /\ d.text # Blank => \E r \in row' : r.text = d.text
  <2>1. CASE d.deleted
    <3>1. row' = {}  BY <1>4, <2>1
    <3> QED  BY <1>3, <2>1, <3>1 DEF OneRow, Lone
  <2>2. CASE ~d.deleted
    <3>1. d.text \in AllTexts  BY <1>3, <2>2, EntryFields
    <3>2. row' = {[text |-> d.text, at |-> new]}  BY <1>4, <2>2
    <3>3. [text |-> d.text, at |-> new] \in Row  BY <1>2, <3>1 DEF Row
    <3> QED  BY <3>2, <3>3 DEF OneRow, Lone
  <2>3. d.deleted \in BOOLEAN  BY <1>3, EntryFields
  <2> QED  BY <2>1, <2>2, <2>3
<1>6. posts' = [posts EXCEPT ![i].at = new]  BY <1>2 DEF ServerTakes
<1>7. /\ posts' \in Seq(Post) /\ DOMAIN posts' = DOMAIN posts
      /\ \A m \in DOMAIN posts : posts'[m].draft = posts[m].draft /\ posts'[m].old = posts[m].old
      /\ \A m \in DOMAIN posts : m # i => posts'[m].at = posts[m].at
  <2>1. \A p \in Post : /\ [p EXCEPT !.at = new] \in Post
                        /\ [p EXCEPT !.at = new].draft = p.draft
                        /\ [p EXCEPT !.at = new].old = p.old
    BY DEF Post
  <2>2. DOMAIN posts' = DOMAIN posts  BY <1>6
  <2>3. \A m \in DOMAIN posts : IF m = i THEN posts'[m] = [posts[i] EXCEPT !.at = new]
                                ELSE posts'[m] = posts[m]
    BY <1>1, <1>6
  <2>4. \A m \in DOMAIN posts : posts[m] \in Post  BY <1>1
  <2>5. \A m \in DOMAIN posts : posts'[m] \in Post
    BY <2>1, <2>3, <2>4
  <2>6. posts' \in Seq(Post)
    <3>1. posts' \in [1..Len(posts) -> Post]  BY <1>1, <1>6, <2>2, <2>5
    <3> QED  BY <1>1, <3>1
  <2> QED  BY <2>1, <2>2, <2>3, <2>4, <2>6
<1>8. /\ typed' \subseteq typed /\ typed' \subseteq Texts /\ Lone(typed')
      /\ \A t \in typed' : posts[i].old => ~Saved(t)
  BY <1>1 DEF ServerTakes, Shape, Lone, Saved
<1>9. Drafted(posts')
  BY <1>1, <1>7 DEF Drafted, Shape
<1>10. /\ events' \in Seq(SUBSET Row) /\ \A k \in DOMAIN events' : Lone(events'[k])
       /\ \A k \in DOMAIN events' : events'[k] = row' \/ \E m \in DOMAIN events : events'[k] = events[m]
  BY <1>1, <1>4, <1>5, Announced
<1>11. Shape'
  <2>1. /\ Sound(entries)' /\ Drafted(posts)' /\ OneRow(row)'
        /\ (typed \subseteq Texts /\ Lone(typed))'
    BY <1>1, <1>5, <1>8, <1>9 DEF Sound, Drafted, Lone, OneRow, Shape
  <2>2. (\A k \in DOMAIN events : Lone(events[k]))' /\ (\A g \in gets : Lone(g.rows))'
    BY <1>1, <1>10 DEF Shape, Lone
  <2>3. (clock \in Nat /\ unused \in Seq(Texts) /\ gets \subseteq Get)'
    BY <1>1 DEF Shape
  <2> QED  BY <1>10, <2>1, <2>2, <2>3 DEF Shape
<1>12. ASSUME NEW t, Fresh(t)  PROVE Fresh(t)'
  <2>1. d.text # t  BY <1>1, <1>3, <1>12 DEF Fresh
  <2>2. \A r \in Shown' : r.text # t
    BY <1>1, <1>5, <1>10, <1>12, <2>1 DEF Fresh, Shown
  <2>3. (\A e \in entries' : e.text # t) /\ (\A r \in row' : r.text # t)
    BY <1>1, <1>5, <1>12, <2>1 DEF Fresh
  <2>4. \A m \in DOMAIN posts' : posts'[m].draft.text # t
    BY <1>7, <1>12 DEF Fresh
  <2> QED  BY <2>2, <2>3, <2>4 DEF Fresh
<1>13. ASSUME NewTexts  PROVE NewTexts'
  BY <1>1, <1>12, <1>13 DEF NewTexts
<1>14. \A t \in Confirmed' : t \in Confirmed \/ t = d.text
  <2> SUFFICES ASSUME NEW t \in Confirmed'  PROVE t \in Confirmed \/ t = d.text
    OBVIOUS
  <2>1. ASSUME NEW m \in DOMAIN posts', posts'[m].at # 0, t = posts'[m].draft.text
        PROVE  t \in Confirmed \/ t = d.text
    <3>1. CASE m = i
      BY <1>3, <1>7, <2>1, <3>1
    <3>2. CASE m # i
      BY <1>7, <2>1, <3>2 DEF Confirmed
    <3> QED  BY <3>1, <3>2
  <2>2. ASSUME NEW k \in DOMAIN events', NEW r \in events'[k], t = r.text
        PROVE  t \in Confirmed \/ t = d.text
    BY <1>5, <1>10, <2>2 DEF Confirmed
  <2> QED  BY <2>1, <2>2 DEF Confirmed
<1>15. ASSUME NEW t \in typed', \A x \in typed : Safe(x)  PROVE Safe(t)'
  <2>1. t \in typed /\ Safe(t) /\ t # Blank /\ (posts[i].old => ~Saved(t))
    BY <1>1, <1>8, <1>15, OwnTexts DEF Shape
  <2>2. (\A e \in entries : e.dirty => e.text = t)' /\ (Pending(t)' <=> Pending(t))
    BY <1>1, <2>1 DEF Safe, Pending
  <2>3. Recent(t, posts)'
    BY <1>7, <2>1 DEF Recent, Safe
  <2>4. Saved(t)' <=> d.text = t
    BY <1>5, <2>1 DEF Saved
  <2>5. CASE d.text = t
    BY <2>2, <2>3, <2>4, <2>5 DEF Safe
  <2>6. CASE d.text # t
    <3>1. posts[i].old  BY <1>1, <1>3, <2>1, <2>6 DEF Safe, Recent
    <3>2. Pending(t) /\ t \notin Confirmed  BY <2>1, <3>1 DEF Safe
    <3>3. t \notin Confirmed'  BY <1>14, <2>6, <3>2
    <3> QED  BY <2>2, <2>3, <2>4, <2>6, <3>2, <3>3 DEF Safe
  <2> QED  BY <2>5, <2>6
<1>16. Yields(entries')  BY <1>1, Same
<1> QED  BY <1>11, <1>13, <1>15, <1>16 DEF Moves, Owing

\* and another client's change.
LEMMA OtherStep ==
    ASSUME Shape, NEW texts, texts \subseteq OtherTexts, Lone(texts), OtherClient(texts)
    PROVE  Moves /\ Yields(entries')
<1>1. /\ Shape /\ UNCHANGED <<entries, posts, gets, unused>>
      /\ clock \in Nat /\ clock' = clock + 1
      /\ typed' = typed \ {r.text : r \in row}
  BY DEF OtherClient, client, Shape
<1>2. PICK new \in Nat : new = clock'  BY <1>1
<1>3. row' = {[text |-> t, at |-> new] : t \in texts} /\ Announce(row')
  BY <1>2 DEF OtherClient
<1>4. OneRow(row') /\ \A r \in row' : r.text \in OtherTexts
  BY <1>3 DEF OneRow, Lone, Row, AllTexts
<1>5. /\ events' \in Seq(SUBSET Row) /\ \A k \in DOMAIN events' : Lone(events'[k])
      /\ \A k \in DOMAIN events' : events'[k] = row' \/ \E m \in DOMAIN events : events'[k] = events[m]
  BY <1>1, <1>3, <1>4, Announced
<1>6. Shape'
  <2>1. /\ Sound(entries)' /\ Drafted(posts)' /\ OneRow(row)'
        /\ (typed \subseteq Texts /\ Lone(typed))'
    BY <1>1, <1>4 DEF Sound, Drafted, Lone, OneRow, Shape
  <2>2. (\A k \in DOMAIN events : Lone(events[k]))' /\ (\A g \in gets : Lone(g.rows))'
    BY <1>1, <1>5 DEF Shape, Lone
  <2>3. (clock \in Nat /\ unused \in Seq(Texts) /\ gets \subseteq Get)'
    BY <1>1 DEF Shape
  <2> QED  BY <1>5, <2>1, <2>2, <2>3 DEF Shape
<1>7. ASSUME NEW t \in Texts, Fresh(t)  PROVE Fresh(t)'
  <2>1. t \notin OtherTexts  BY OwnTexts
  <2>2. \A r \in Shown' : r.text # t
    BY <1>1, <1>4, <1>5, <1>7, <2>1 DEF Fresh, Shown
  <2>3. /\ \A e \in entries' : e.text # t
        /\ \A r \in row' : r.text # t
        /\ \A m \in DOMAIN posts' : posts'[m].draft.text # t
    BY <1>1, <1>4, <1>7, <2>1 DEF Fresh
  <2> QED  BY <2>2, <2>3 DEF Fresh
<1>8. ASSUME NewTexts  PROVE NewTexts'
  <2>1. \A u \in DOMAIN unused : unused[u] \in Texts  BY <1>1 DEF Shape
  <2> QED  BY <1>1, <1>7, <1>8, <2>1 DEF NewTexts
<1>9. ASSUME NEW t \in typed', \A x \in typed : Safe(x)  PROVE Safe(t)'
  <2>1. t \in typed /\ Safe(t) /\ t \notin OtherTexts /\ ~Saved(t)
    BY <1>1, <1>9, OwnTexts DEF Shape, Saved
  <2>2. /\ (\A e \in entries : e.dirty => e.text = t)' /\ (Pending(t)' <=> Pending(t))
        /\ Recent(t, posts)'
    BY <1>1, <2>1 DEF Safe, Pending, Recent
  <2>3. ~Saved(t)'  BY <1>4, <2>1 DEF Saved
  <2>4. Pending(t) /\ t \notin Confirmed  BY <2>1 DEF Safe
  <2>5. t \notin Confirmed'
    <3>1. \A k \in DOMAIN events' : \A r \in events'[k] : r.text # t
      BY <1>4, <1>5, <2>1, <2>4 DEF Confirmed
    <3>2. \A m \in DOMAIN posts' : posts'[m].at # 0 => posts'[m].draft.text # t
      BY <1>1, <2>4 DEF Confirmed
    <3> QED  BY <3>1, <3>2 DEF Confirmed
  <2> QED  BY <2>2, <2>3, <2>4, <2>5 DEF Safe
<1>10. Yields(entries')  BY <1>1, Same
<1> QED  BY <1>6, <1>8, <1>9, <1>10 DEF Moves, Owing

-----------------------------------------------------------------------------
(* The theorems.                                                           *)

\* Every step keeps the invariant; and all but the user's own are quiet for the
\* entry.
LEMMA Steps ==
    ASSUME Shape, [Next]_vars
    PROVE  Moves /\ (Type \/ Clear \/ Discard \/ Yields(entries'))
<1> DEFINE Goal == Moves /\ (Type \/ Clear \/ Discard \/ Yields(entries'))
<1> SUFFICES Goal  OBVIOUS
<1>1. CASE Type       BY <1>1, TypeStep
<1>2. CASE Clear      BY <1>2, ClearStep
<1>3. CASE Flush      BY <1>3, FlushStep
<1>4. CASE Discard    BY <1>4, DiscardStep
<1>5. ASSUME NEW i, \/ ServerTakes(i) \/ PostAnswered(i)
                    \/ PostFails(i) \/ PostGone(i) \/ PostUnsupported(i)
      PROVE  Goal
  <2>1. CASE ServerTakes(i)      BY <2>1, TakeStep
  <2>2. CASE PostAnswered(i)     BY <2>2, AnswerStep
  <2>3. CASE PostFails(i)        BY <2>3, FailStep
  <2>4. CASE PostGone(i)         BY <2>4, GoneByStep
  <2>5. CASE PostUnsupported(i)  BY <2>5, UnsupportedStep
  <2> QED  BY <1>5, <2>1, <2>2, <2>3, <2>4, <2>5
<1>6. CASE OtherClient({})
  BY <1>6, OtherStep DEF Lone
<1>7. ASSUME NEW t \in OtherTexts, OtherClient({t})  PROVE Goal
  BY <1>7, OtherStep DEF Lone
<1>8. CASE SyncAllTeams  BY <1>8, SyncStep
<1>9. ASSUME NEW g, ServerReads(g)  PROVE Goal  BY <1>9, ReadStep
<1>10. ASSUME NEW g, GetAnswered(g) \/ GetFails(g)  PROVE Goal
  BY <1>10, TeamStep DEF GetAnswered, GetFails
<1>11. ASSUME NEW g, GetUnsupported(g)  PROVE Goal  BY <1>11, GetUnsupportedStep
<1>12. CASE RemoteEvent  BY <1>12, EventStep
<1>13. CASE Restart      BY <1>13, RestartStep
<1>14. CASE UNCHANGED vars
  <2>1. UNCHANGED <<entries, posts, gets, events, row, clock, unused, typed>>
    BY <1>14 DEF vars, client, server, bounds
  <2> QED  BY <2>1, NoNewSends, NoNewHears, StillStep
<1> HIDE DEF Goal
<1> QED
  BY <1>1, <1>2, <1>3, <1>4, <1>5, <1>6, <1>7, <1>8, <1>9, <1>10, <1>11, <1>12, <1>13, <1>14
  DEF Next

\* The invariant holds at the start.
LEMMA ShapeInit == ASSUME Init PROVE Shape
BY DraftAssumption DEF Init, Shape, Sound, Lone, OneRow, Drafted

\* It does so for texts that are typed once.
LEMMA DraftInit == ASSUME Distinct, Init PROVE DraftInv
<1>1. Shown = {}  BY DEF Init, Shown
<1>2. NewTexts  BY <1>1 DEF Init, NewTexts, Fresh, Distinct
<1> QED  BY <1>2, ShapeInit DEF Init, DraftInv, Owing

\* What the user typed last is in his draft or on the server (DraftSync,
\* NothingTypedIsLost), in whatever order the server takes the requests and
\* whatever answers, syncs, events, failures and restarts come in between, if he
\* types no text twice (an event is told apart from the echo of an earlier request
\* by its text alone).  Once the server has saved the text, a request made before
\* it was typed may still undo it there: of that the property says nothing.
THEOREM NothingTypedLost ==
    ASSUME Distinct
    PROVE  Spec => []NothingTypedIsLost
<1>1. Init => DraftInv  BY DraftInit
<1>2. DraftInv /\ [Next]_vars => DraftInv'  BY Steps DEF DraftInv, Moves
<1>3. DraftInv => NothingTypedIsLost
  BY DEF DraftInv, Owing, Safe, Saved, Pending, NothingTypedIsLost
<1> QED  BY <1>1, <1>2, <1>3, PTL DEF Spec

\* What a step does to a deleted draft.
Kept == \A e \in entries : e.deleted => \A f \in entries' : f.deleted \/ unused' # unused

\* Only the user's own text replaces a tombstone.
LEMMA TombstoneStep == ASSUME Shape, [Next]_vars PROVE Kept
<1> SUFFICES ASSUME NEW e \in entries, e.deleted, NEW f \in entries'
             PROVE  f.deleted \/ unused' # unused
  BY DEF Kept
<1>1. CASE Type
  <2>1. unused \in Seq(Texts) /\ unused # <<>> /\ unused' = Tail(unused)
    BY <1>1 DEF Shape, Type
  <2>2. Len(unused') # Len(unused)  BY <2>1
  <2> QED  BY <2>2
<1>2. CASE Clear
  BY <1>2 DEF Clear, Tombstone
<1>3. CASE Discard
  BY <1>3 DEF Discard, Tombstone
<1>4. CASE Yields(entries')
  <2>1. entries = {e} /\ e.dirty /\ e.text = Blank  BY DEF Shape, Sound, Lone
  <2>2. f.text = Blank  BY <1>4, <2>1 DEF Yields
  <2> QED  BY <1>4, <2>2 DEF Yields, Sound
<1> QED  BY <1>1, <1>2, <1>3, <1>4, Steps

\* Only the user brings a deleted draft back while its deletion is not confirmed
\* (DraftSync, TombstoneHolds), whatever he types.
THEOREM TombstonesHold == Spec => TombstoneHolds
<1>1. Init => Shape  BY ShapeInit
<1>2. Shape /\ [Next]_vars => Shape'  BY Steps DEF Moves
<1>3. Shape /\ [Next]_vars => [Kept]_vars  BY TombstoneStep
<1>4. TombstoneHolds <=> [][Kept]_vars  BY DEF TombstoneHolds, Kept
<1> QED  BY <1>1, <1>2, <1>3, <1>4, PTL DEF Spec
====
