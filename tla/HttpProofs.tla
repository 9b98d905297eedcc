----------------------------- MODULE HttpProofs -----------------------------
(***************************************************************************)
(* Proofs about HttpTransport, for any connectors, requests, resets and    *)
(* restarts.                                                               *)
(***************************************************************************)
EXTENDS HttpTransport, TLAPS

\* A queued request is one of the current generation, was never answered and, if
\* it is a write, never sent.
Waiting(q, gen, ep, cl, sn) ==
    \A c \in Connectors : \A r \in q[c] :
        /\ Home[r] = c /\ ep[r] = gen[c] /\ ep[r] # 0 /\ cl[r] = 0
        /\ r \in Writes => sn[r] = 0

\* A reply in flight is one of the current generation; unless it is replayed, its
\* request is unanswered, is not queued, and is carried by no other reply.
InFlight(q, act, rep, gen, ep, cl) ==
    \A c \in Connectors : \A p \in act[c] :
        /\ Home[p.req] = c /\ p.gen = gen[c] /\ ep[p.req] = gen[c] /\ ep[p.req] # 0
        /\ p \notin rep =>
              /\ cl[p.req] = 0 /\ p.req \notin q[c]
              /\ \A p2 \in act[c] : p2 \notin rep /\ p2.req = p.req => p2 = p

Books(q, act, rep, rst, gen, ep, cl, sn) ==
    /\ Waiting(q, gen, ep, cl, sn)
    /\ InFlight(q, act, rep, gen, ep, cl)
    /\ \A p \in rep : Home[p.req] \in rst
    /\ \A r \in Requests : ep[r] = 0 => cl[r] = 0 /\ sn[r] = 0

\* The books as they are in a state.
Kept == Books(queued, active, replayed, restarting, generation, epoch, called, sent)

\* What holds of the frames of a restart.
Frames ==
    /\ \A p \in replayed : p \in aborts /\ p.req \in Gets
    /\ \A p \in aborts :
          LET c == Home[p.req] IN
          /\ loop = {c} /\ p.manager <= manager[c]
          /\ p.manager = manager[c] /\ c \in alive => p \in active[c]
    /\ \A p \in orphans : p.gen < generation[Home[p.req]]
    /\ \A c \in Connectors : generation[c] > 0
    /\ \A c \in Connectors : \A p \in active[c] : p.manager <= manager[c]

Once == \A r \in Requests : called[r] <= 1 /\ (r \in Writes => sent[r] <= 1)

IInv ==
    /\ TypeOK /\ Once
    /\ ~crashed => Frames /\ Kept

-----------------------------------------------------------------------------
(* Type correctness. *)

\* What the queues hold after processQueues is of the right type.
LEMMA ProcessTyped ==
    ASSUME NEW q \in [Connectors -> SUBSET Requests],
           NEW act \in [Connectors -> SUBSET Replies],
           manager' \in [Connectors -> Nat], generation' \in [Connectors -> Nat],
           sent \in [Requests -> Nat], ProcessQueues(q, act)
    PROVE  /\ queued' \in [Connectors -> SUBSET Requests]
           /\ active' \in [Connectors -> SUBSET Replies]
           /\ sent' \in [Requests -> Nat]
<1> DEFINE open == alive' \ restarting'
<1>1. queued' \in [Connectors -> SUBSET Requests]
    BY DEF ProcessQueues
<1>2. \A c \in Connectors :
          {[req |-> r, manager |-> manager'[c], gen |-> generation'[c]] : r \in q[c]}
              \subseteq Replies
    BY DEF Replies
<1>3. active' = [c \in Connectors |->
                   IF c \in open
                   THEN act[c] \cup {[req |-> r, manager |-> manager'[c],
                                      gen |-> generation'[c]] : r \in q[c]}
                   ELSE act[c]]
    BY DEF ProcessQueues
<1>4. active' \in [Connectors -> SUBSET Replies]
    BY <1>2, <1>3
<1>5. sent' \in [Requests -> Nat]
    BY DEF ProcessQueues
<1> QED BY <1>1, <1>4, <1>5

\* The finished handler keeps the types.
LEMMA FinishedTyped ==
    ASSUME TypeOK, NEW c \in Connectors, NEW reply \in Replies,
           UNCHANGED <<manager, generation>>, Finished(c, reply)
    PROVE  /\ queued' \in [Connectors -> SUBSET Requests]
           /\ active' \in [Connectors -> SUBSET Replies]
           /\ sent' \in [Requests -> Nat] /\ called' \in [Requests -> Nat]
           /\ replayed' \subseteq Replies /\ orphans' \subseteq Replies
           /\ calling' \subseteq Replies /\ restarting' = restarting
<1> DEFINE act == [active EXCEPT ![c] = @ \ {reply}]
<1>1. act \in [Connectors -> SUBSET Replies]
    BY DEF TypeOK
<1>2. reply.req \in Requests
    BY DEF Replies
<1>3. manager' \in [Connectors -> Nat] /\ generation' \in [Connectors -> Nat]
    BY DEF TypeOK
<1>4. CASE reply.gen # generation[c]
    BY <1>4 DEF Finished, TypeOK
<1>5. CASE reply.gen = generation[c] /\ reply \in replayed
  <2>1. CASE c \in restarting
      BY <1>1, <1>5, <2>1 DEF Finished, TypeOK
  <2>2. CASE c \notin restarting
    <3>1. ProcessQueues(queued, act) /\ UNCHANGED <<orphans, calling, called>>
          /\ replayed' = replayed \ {reply} /\ restarting' = restarting
        BY <1>5, <2>2 DEF Finished
    <3>2. queued \in [Connectors -> SUBSET Requests] /\ sent \in [Requests -> Nat]
        BY DEF TypeOK
    <3> QED BY <1>1, <1>3, <3>1, <3>2, ProcessTyped DEF TypeOK
  <2> QED BY <2>1, <2>2
<1>6. CASE reply.gen = generation[c] /\ reply \notin replayed
    BY <1>1, <1>2, <1>6 DEF Finished, TypeOK
<1> QED BY <1>4, <1>5, <1>6

\* A new process is of the right types.
LEMMA InitTyped == Init => TypeOK
<1> SUFFICES ASSUME Init PROVE TypeOK
    OBVIOUS
<1> QED BY DEF Init, TypeOK

\* Every step keeps the types.
LEMMA StepTyped == TypeOK /\ [Next]_vars => TypeOK'
<1> SUFFICES ASSUME TypeOK, [Next]_vars PROVE TypeOK'
    OBVIOUS
<1> USE DEF TypeOK
<1>q. queued \in [Connectors -> SUBSET Requests] /\ active \in [Connectors -> SUBSET Replies]
    OBVIOUS
<1>1. ASSUME NEW r \in Requests, Issue(r) PROVE TypeOK'
  <2>1. Home[r] \in Connectors
      BY <1>1 DEF Issue
  <2>2. [queued EXCEPT ![Home[r]] = @ \cup {r}] \in [Connectors -> SUBSET Requests]
      BY <2>1
  <2>3. ProcessQueues([queued EXCEPT ![Home[r]] = @ \cup {r}], active)
        /\ UNCHANGED <<alive, generation, manager, replayed, restarting>>
        /\ UNCHANGED <<called, stack, network>>
        /\ epoch' = [epoch EXCEPT ![r] = generation[Home[r]]]
      BY <1>1 DEF Issue
  <2>4. /\ queued' \in [Connectors -> SUBSET Requests]
        /\ active' \in [Connectors -> SUBSET Replies]
        /\ sent' \in [Requests -> Nat]
      BY <2>2, <2>3, ProcessTyped
  <2> QED BY <2>1, <2>3, <2>4 DEF stack, network
<1>2. ASSUME NEW c \in Connectors, NEW reply \in active[c] \cup orphans,
             ReplyFinished(c, reply)
      PROVE TypeOK'
  <2>1. reply \in Replies
      BY <1>2
  <2> QED BY <1>2, <2>1, FinishedTyped DEF ReplyFinished
<1>3. ASSUME NEW reply \in calling, HandlerReturns(reply) PROVE TypeOK'
  <2>1. UNCHANGED <<generation, manager, replayed, restarting, alive>> /\ calling' = {}
        /\ UNCHANGED <<snapshot, loop, loopGen, aborts, network, epoch, called>>
      BY <1>3 DEF HandlerReturns
  <2>2. ProcessQueues(queued, active) \/ UNCHANGED <<queued, active, sent>>
      BY <1>3 DEF HandlerReturns
  <2>3. /\ queued' \in [Connectors -> SUBSET Requests]
        /\ active' \in [Connectors -> SUBSET Replies]
        /\ sent' \in [Requests -> Nat]
      BY <1>q, <2>1, <2>2, ProcessTyped
  <2> QED BY <2>1, <2>3 DEF network
<1>4. ASSUME NEW c \in Connectors, Reset(c) PROVE TypeOK'
  <2> DEFINE q == [queued EXCEPT ![c] = {}]
             act == [active EXCEPT ![c] = {}]
  <2>1. q \in [Connectors -> SUBSET Requests] /\ act \in [Connectors -> SUBSET Replies]
      OBVIOUS
  <2>2. /\ generation' = [generation EXCEPT ![c] = @ + 1]
        /\ manager' = [manager EXCEPT ![c] = @ + 1]
        /\ restarting' = restarting \ {c}
        /\ replayed' \subseteq replayed
        /\ orphans' = orphans \cup active[c] /\ dead' \subseteq dead
        /\ alive' = alive /\ resets' = resets + 1
        /\ UNCHANGED <<stack, crashed, routes, restarts, epoch, called>>
      BY <1>4 DEF Reset, MayReset
  <2>3. ProcessQueues(q, act)
      BY <1>4 DEF Reset
  <2>4. /\ queued' \in [Connectors -> SUBSET Requests]
        /\ active' \in [Connectors -> SUBSET Replies]
        /\ sent' \in [Requests -> Nat]
    <3>1. generation' \in [Connectors -> Nat] /\ manager' \in [Connectors -> Nat]
        BY <2>2
    <3>2. sent \in [Requests -> Nat]
        OBVIOUS
    <3> QED BY ONLY <2>1, <2>3, <3>1, <3>2, ProcessTyped
  <2>5. orphans' \subseteq Replies
      BY <2>2
  <2>6. generation' \in [Connectors -> Nat] /\ manager' \in [Connectors -> Nat]
      BY <2>2
  <2>7. restarting' \subseteq loop' \cap alive' /\ replayed' \subseteq Replies
      BY <2>2 DEF stack
  <2> HIDE DEF q, act
  <2> QED BY <2>2, <2>4, <2>5, <2>6, <2>7 DEF stack
<1>5. ASSUME NEW c \in Connectors, Destroy(c) PROVE TypeOK'
  <2> DEFINE q == [queued EXCEPT ![c] = {}]
             act == [active EXCEPT ![c] = {}]
  <2>1. q \in [Connectors -> SUBSET Requests] /\ act \in [Connectors -> SUBSET Replies]
      OBVIOUS
  <2>2. /\ UNCHANGED <<generation, manager>>
        /\ restarting' = restarting \ {c}
        /\ replayed' \subseteq replayed
        /\ orphans' \subseteq orphans /\ dead' \subseteq dead
        /\ alive' = alive \ {c} /\ resets' = resets + 1
        /\ UNCHANGED <<stack, crashed, routes, restarts, epoch, called>>
      BY <1>5 DEF Destroy, MayReset
  <2>3. ProcessQueues(q, act)
      BY <1>5 DEF Destroy
  <2>4. /\ queued' \in [Connectors -> SUBSET Requests]
        /\ active' \in [Connectors -> SUBSET Replies]
        /\ sent' \in [Requests -> Nat]
    <3>1. generation' \in [Connectors -> Nat] /\ manager' \in [Connectors -> Nat]
        BY <2>2
    <3>2. sent \in [Requests -> Nat]
        OBVIOUS
    <3> QED BY ONLY <2>1, <2>3, <3>1, <3>2, ProcessTyped
  <2>5. restarting' \subseteq loop' \cap alive' /\ replayed' \subseteq Replies
      BY <2>2 DEF stack
  <2> HIDE DEF q, act
  <2> QED BY <2>2, <2>4, <2>5 DEF stack
<1>6. ASSUME NEW c \in Connectors, RestartTransport(c) PROVE TypeOK'
  <2>1. CASE c \notin alive
      BY <1>6, <2>1 DEF RestartTransport, connectors, history
  <2>2. CASE c \in alive
    <3> DEFINE gets == {p \in active[c] : p.req \in Gets}
    <3>1. gets \subseteq Replies /\ {p.req : p \in gets} \subseteq Requests
        BY DEF Replies
    <3>2. /\ restarting' = restarting \cup {c}
          /\ loop' = {c} /\ loopGen' = generation[c]
          /\ replayed' = replayed \cup gets
          /\ queued' = [queued EXCEPT ![c] = @ \cup {p.req : p \in gets}]
          /\ aborts' = active[c] /\ snapshot' = snapshot \ {c} /\ loop = {}
          /\ UNCHANGED <<alive, generation, manager, active, crashed>>
          /\ UNCHANGED <<calling, dead, orphans, routes, restarts, resets, history>>
        BY <1>6, <2>2 DEF RestartTransport
    <3>3. queued' \in [Connectors -> SUBSET Requests]
      <4>1. queued[c] \cup {p.req : p \in gets} \subseteq Requests
          BY <3>1
      <4> QED BY <3>2, <4>1
    <3>4. restarting' \subseteq loop' \cap alive' /\ replayed' \subseteq Replies
        BY <2>2, <3>1, <3>2
    <3> HIDE DEF gets
    <3> QED BY <3>1, <3>2, <3>3, <3>4 DEF history
  <2> QED BY <2>1, <2>2
<1>7. ASSUME NEW c \in Connectors, RestartDone(c) PROVE TypeOK'
  <2>1. /\ c \in loop /\ loop' = {} /\ loopGen' = 0
        /\ UNCHANGED <<snapshot, aborts, calling, orphans, routes, restarts,
                       resets, epoch, called>>
      BY <1>7 DEF RestartDone
  <2>2. CASE c \notin alive
      BY <1>7, <2>1, <2>2 DEF RestartDone, connectors
  <2>3. CASE c \in alive /\ generation[c] # loopGen
      BY <1>7, <2>1, <2>3 DEF RestartDone
  <2>4. CASE c \in alive /\ generation[c] = loopGen
    <3>1. /\ restarting' = restarting \ {c}
          /\ UNCHANGED <<alive, generation, replayed, crashed>>
          /\ manager' = [manager EXCEPT ![c] = @ + 1]
          /\ dead' = dead \ {c}
          /\ ProcessQueues(queued, active)
        BY <1>7, <2>4 DEF RestartDone
    <3>2. /\ queued' \in [Connectors -> SUBSET Requests]
          /\ active' \in [Connectors -> SUBSET Replies]
          /\ sent' \in [Requests -> Nat]
        BY <1>q, <3>1, ProcessTyped
    <3>3. restarting' \subseteq loop' \cap alive'
        BY <2>1, <3>1
    <3>4. manager' \in [Connectors -> Nat]
        BY <3>1
    <3> QED BY <2>1, <3>1, <3>2, <3>3, <3>4
  <2> QED BY <2>2, <2>3, <2>4
<1>8. ASSUME NEW c \in Connectors, NEW reply \in aborts, AbortReply(c, reply)
      PROVE TypeOK'
  <2>1. reply \in Replies /\ UNCHANGED <<alive, generation, manager>>
        /\ aborts' = aborts \ {reply}
        /\ UNCHANGED <<snapshot, loop, loopGen, dead, routes, restarts, resets, epoch>>
      BY <1>8 DEF AbortReply
  <2>2. CASE c \notin alive \/ reply.manager # manager[c]
      BY <1>8, <2>1, <2>2 DEF AbortReply
  <2>3. CASE ~(c \notin alive \/ reply.manager # manager[c])
      BY <1>8, <2>1, <2>3, FinishedTyped DEF AbortReply
  <2> QED BY <2>2, <2>3
<1>9. ASSUME RouteDies PROVE TypeOK'
    BY <1>9 DEF RouteDies, connectors, stack, history
<1>10. ASSUME RestartAllTransports PROVE TypeOK'
    BY <1>10 DEF RestartAllTransports, connectors, history
<1>11. ASSUME UNCHANGED vars PROVE TypeOK'
    BY <1>11 DEF vars, connectors, stack, network, history
<1> HIDE DEF TypeOK
<1> QED BY <1>1, <1>2, <1>3, <1>4, <1>5, <1>6, <1>7, <1>8, <1>9, <1>10, <1>11 DEF Next

-----------------------------------------------------------------------------
(* The books are kept. *)

\* processQueues keeps the books, and sends a write that was never sent.
LEMMA ProcessBooks ==
    ASSUME NEW q \in [Connectors -> SUBSET Requests],
           NEW act \in [Connectors -> SUBSET Replies],
           sent \in [Requests -> Nat], alive' \subseteq Connectors,
           ProcessQueues(q, act),
           Books(q, act, replayed', restarting', generation', epoch', called', sent),
           \A r \in Writes : sent[r] <= 1
    PROVE  /\ Books(queued', active', replayed', restarting', generation',
                    epoch', called', sent')
           /\ \A r \in Writes : sent'[r] <= 1
           /\ \A c \in Connectors : act[c] \subseteq active'[c]
           /\ \A c \in Connectors : \A p \in active'[c] :
                 p \in act[c] \/ p.manager = manager'[c]
<1> DEFINE open == alive' \ restarting'
           started(c) == {[req |-> r, manager |-> manager'[c],
                           gen |-> generation'[c]] : r \in q[c]}
<1>1. \A c \in Connectors :
          queued'[c] = IF c \in open THEN {} ELSE q[c]
    BY DEF ProcessQueues
<1>2. \A c \in Connectors :
          active'[c] = IF c \in open THEN act[c] \cup started(c) ELSE act[c]
    BY DEF ProcessQueues
<1>3. \A r \in Requests :
          sent'[r] = IF \E c \in open : r \in q[c] THEN sent[r] + 1 ELSE sent[r]
    BY DEF ProcessQueues
<1>4. \A c \in Connectors : \A p \in started(c) :
          /\ p.req \in q[c] /\ p.manager = manager'[c] /\ p.gen = generation'[c]
          /\ \A p2 \in started(c) : p2.req = p.req => p2 = p
    OBVIOUS
<1> HIDE DEF started
<1>5. \A c \in Connectors : \A r \in q[c] :
          /\ Home[r] = c /\ epoch'[r] = generation'[c] /\ epoch'[r] # 0
          /\ called'[r] = 0
          /\ r \in Writes => sent[r] = 0
    BY DEF Books, Waiting
<1>6. \A c \in Connectors : \A p \in act[c] :
          /\ Home[p.req] = c /\ p.gen = generation'[c]
          /\ epoch'[p.req] = generation'[c] /\ epoch'[p.req] # 0
          /\ p \notin replayed' =>
                /\ called'[p.req] = 0 /\ p.req \notin q[c]
                /\ \A p2 \in act[c] :
                      p2 \notin replayed' /\ p2.req = p.req => p2 = p
    BY DEF Books, InFlight
<1>7. \A p \in replayed' : Home[p.req] \in restarting'
    BY DEF Books
<1>8. \A r \in Requests : epoch'[r] = 0 => called'[r] = 0 /\ sent[r] = 0
    BY DEF Books
<1>9. Waiting(queued', generation', epoch', called', sent')
  <2> SUFFICES ASSUME NEW c \in Connectors, NEW r \in queued'[c]
               PROVE  /\ Home[r] = c /\ epoch'[r] = generation'[c]
                      /\ epoch'[r] # 0 /\ called'[r] = 0
                      /\ r \in Writes => sent'[r] = 0
      BY DEF Waiting
  <2>1. c \notin open /\ r \in q[c] /\ r \in Requests
      BY <1>1
  <2>2. ASSUME NEW d \in open, r \in q[d] PROVE FALSE
      BY <1>5, <2>1, <2>2
  <2> QED BY <1>3, <1>5, <2>1, <2>2
<1>10. InFlight(queued', active', replayed', generation', epoch', called')
  <2> SUFFICES ASSUME NEW c \in Connectors, NEW p \in active'[c]
               PROVE  /\ Home[p.req] = c /\ p.gen = generation'[c]
                      /\ epoch'[p.req] = generation'[c] /\ epoch'[p.req] # 0
                      /\ p \notin replayed' =>
                            /\ called'[p.req] = 0 /\ p.req \notin queued'[c]
                            /\ \A p2 \in active'[c] :
                                  p2 \notin replayed' /\ p2.req = p.req => p2 = p
      BY DEF InFlight
  <2>1. CASE c \notin open
      BY <1>1, <1>2, <1>6, <2>1
  <2>2. CASE c \in open /\ p \in act[c]
    <3>1. ASSUME p \notin replayed', NEW p2 \in active'[c], p2 \notin replayed',
                 p2.req = p.req
          PROVE  p2 = p
      <4>1. p2 \in act[c] \/ p2 \in started(c)
          BY <1>2, <2>2
      <4>2. p2 \notin started(c)
          BY <1>4, <1>6, <2>2, <3>1
      <4> QED BY <1>6, <2>2, <3>1, <4>1, <4>2
    <3> QED BY <1>1, <1>6, <2>2, <3>1
  <2>3. CASE c \in open /\ p \in started(c)
    <3>1. p.req \in q[c] /\ p.gen = generation'[c]
        BY <1>4, <2>3
    <3>2. ASSUME NEW p2 \in active'[c], p2 \notin replayed', p2.req = p.req
          PROVE  p2 = p
      <4>1. p2 \notin act[c]
          BY <1>6, <3>1, <3>2
      <4>2. p2 \in started(c)
          BY <1>2, <2>3, <4>1
      <4> QED BY <1>4, <2>3, <3>2, <4>2
    <3> QED BY <1>1, <1>5, <2>3, <3>1, <3>2
  <2> QED BY <1>2, <2>1, <2>2, <2>3
<1>11. \A r \in Requests : epoch'[r] = 0 => called'[r] = 0 /\ sent'[r] = 0
  <2> SUFFICES ASSUME NEW r \in Requests, epoch'[r] = 0
               PROVE  called'[r] = 0 /\ sent'[r] = 0
      OBVIOUS
  <2>1. \A c \in open : r \notin q[c]
      BY <1>5
  <2> QED BY <1>3, <1>8, <2>1
<1>12. \A r \in Writes : sent'[r] <= 1
  <2> SUFFICES ASSUME NEW r \in Writes PROVE sent'[r] <= 1
      OBVIOUS
  <2>1. r \in Requests /\ sent[r] \in Nat /\ sent[r] <= 1
      BY DEF Requests
  <2>2. CASE \E c \in open : r \in q[c]
      BY <1>3, <1>5, <2>1, <2>2
  <2>3. CASE ~\E c \in open : r \in q[c]
      BY <1>3, <2>1, <2>3
  <2> QED BY <2>2, <2>3
<1>13. \A c \in Connectors : act[c] \subseteq active'[c]
    BY <1>2
<1>14. \A c \in Connectors : \A p \in active'[c] :
           p \in act[c] \/ p.manager = manager'[c]
    BY <1>2, <1>4
<1> QED BY <1>7, <1>9, <1>10, <1>11, <1>12, <1>13, <1>14 DEF Books

\* The finished handler keeps the books, and answers only a request of the
\* current generation.
LEMMA FinishedBooks ==
    ASSUME IInv, ~crashed, NEW c \in Connectors, NEW reply \in Replies,
           reply \in active[c] \/ (reply \in orphans /\ Home[reply.req] = c),
           UNCHANGED <<alive, generation, manager, epoch>>, Finished(c, reply)
    PROVE  /\ Kept' /\ Once'
           /\ orphans' \subseteq orphans /\ replayed' \subseteq replayed
           /\ reply \in active[c] => reply \notin replayed'
           /\ \A d \in Connectors :
                 active'[d] \subseteq active[d] /\ active[d] \ {reply} \subseteq active'[d]
           /\ \A p \in calling' \ calling : epoch[p.req] = generation[Home[p.req]]
<1> DEFINE act == [active EXCEPT ![c] = @ \ {reply}]
<1>1. /\ Waiting(queued, generation, epoch, called, sent)
      /\ InFlight(queued, active, replayed, generation, epoch, called)
      /\ \A p \in replayed : Home[p.req] \in restarting
      /\ \A r \in Requests : epoch[r] = 0 => called[r] = 0 /\ sent[r] = 0
      /\ restarting' = restarting
    BY DEF IInv, Kept, Books, Finished
<1>2. reply.req \in Requests /\ active \in [Connectors -> SUBSET Replies]
      /\ called \in [Requests -> Nat]
    BY DEF Replies, IInv, TypeOK
<1>3. \A d \in Connectors : act[d] = IF d = c THEN active[c] \ {reply} ELSE active[d]
    BY <1>2
<1>4. reply \in active[c] => Home[reply.req] = c /\ reply.gen = generation[c]
                             /\ epoch[reply.req] = generation[c] /\ epoch[reply.req] # 0
    BY <1>1 DEF InFlight
<1>5. reply \notin active[c] => reply.gen # generation[c]
  <2>1. \A p \in orphans : p.gen < generation[Home[p.req]]
      BY DEF IInv, Frames
  <2>2. generation[c] \in Nat /\ reply.gen \in Nat
      BY DEF IInv, TypeOK, Replies
  <2> QED BY <2>1, <2>2
<1>6. CASE reply.gen # generation[c]
  <2>1. UNCHANGED <<replayed, active, queued, sent, calling, called, epoch, generation>>
        /\ orphans' \subseteq orphans
      BY <1>6 DEF Finished
  <2>2. Kept' /\ Once'
      BY <1>1, <2>1 DEF Kept, IInv, Once, Books, Waiting, InFlight
  <2> QED BY <1>4, <1>6, <2>1, <2>2
<1>7. CASE reply.gen = generation[c] /\ reply \in replayed
  <2>1. reply \in active[c] /\ c \in restarting
      BY <1>1, <1>4, <1>5, <1>7
  <2>2. /\ replayed' = replayed \ {reply} /\ active' = act
        /\ UNCHANGED <<queued, sent, orphans, calling, called, epoch, generation>>
      BY <1>7, <2>1 DEF Finished
  <2>3. InFlight(queued, act, replayed', generation, epoch, called)
      BY <1>1, <1>3, <2>2 DEF InFlight
  <2>4. Kept' /\ Once'
      BY <1>1, <2>2, <2>3 DEF Kept, IInv, Once, Books, Waiting, InFlight
  <2> QED BY <1>3, <2>2, <2>4
<1>8. CASE reply.gen = generation[c] /\ reply \notin replayed
  <2>1. /\ reply \in active[c]
        /\ calling' = {reply} /\ active' = act
        /\ called' = [called EXCEPT ![reply.req] = @ + 1]
        /\ UNCHANGED <<replayed, queued, sent, orphans, epoch, generation>>
      BY <1>5, <1>8 DEF Finished
  <2>2. called[reply.req] = 0 /\ reply.req \notin queued[c]
        /\ \A p \in active[c] : p \notin replayed /\ p.req = reply.req => p = reply
      BY <1>1, <1>8, <2>1 DEF InFlight
  <2>3. \A r \in Requests : called'[r] = IF r = reply.req THEN 1 ELSE called[r]
      BY <1>2, <2>1, <2>2
  <2>4. Waiting(queued, generation, epoch, called', sent)
    <3> SUFFICES ASSUME NEW d \in Connectors, NEW r \in queued[d]
                 PROVE  /\ Home[r] = d /\ epoch[r] = generation[d]
                        /\ epoch[r] # 0 /\ called'[r] = 0
                        /\ r \in Writes => sent[r] = 0
        BY DEF Waiting
    <3>1. r \in Requests
        BY DEF IInv, TypeOK
    <3>2. /\ Home[r] = d /\ epoch[r] = generation[d]
          /\ epoch[r] # 0 /\ called[r] = 0 /\ (r \in Writes => sent[r] = 0)
        BY <1>1 DEF Waiting
    <3>3. r # reply.req
        BY <1>4, <2>1, <2>2, <3>2
    <3> QED BY <2>3, <3>1, <3>2, <3>3
  <2>5. InFlight(queued, act, replayed, generation, epoch, called')
    <3> SUFFICES ASSUME NEW d \in Connectors, NEW p \in act[d]
                 PROVE  /\ Home[p.req] = d /\ p.gen = generation[d]
                        /\ epoch[p.req] = generation[d] /\ epoch[p.req] # 0
                        /\ p \notin replayed =>
                              /\ called'[p.req] = 0 /\ p.req \notin queued[d]
                              /\ \A p2 \in act[d] :
                                    p2 \notin replayed /\ p2.req = p.req => p2 = p
        BY DEF InFlight
    <3>1. p \in active[d] /\ (p # reply \/ d # c)
        BY <1>3
    <3>2. p \in active[d] /\ p.req \in Requests
        BY <1>2, <1>3 DEF Replies
    <3>3. /\ Home[p.req] = d /\ p.gen = generation[d]
          /\ epoch[p.req] = generation[d] /\ epoch[p.req] # 0
          /\ p \notin replayed =>
                /\ called[p.req] = 0 /\ p.req \notin queued[d]
                /\ \A p2 \in active[d] :
                      p2 \notin replayed /\ p2.req = p.req => p2 = p
        BY <1>1, <3>2 DEF InFlight
    <3>4. p \notin replayed => p.req # reply.req
        BY <1>4, <2>1, <2>2, <3>1, <3>2, <3>3
    <3> QED BY <1>3, <2>3, <3>2, <3>3, <3>4
  <2>6. \A r \in Requests : epoch[r] = 0 => called'[r] = 0 /\ sent[r] = 0
      BY <1>1, <1>4, <2>1, <2>3
  <2>7. Kept'
      BY <1>1, <2>1, <2>4, <2>5, <2>6 DEF Kept, Books, Waiting, InFlight
  <2>8. Once'
      BY <2>1, <2>3 DEF IInv, Once
  <2> QED BY <1>3, <1>4, <1>8, <2>1, <2>7, <2>8
<1> QED BY <1>6, <1>7, <1>8

\* The books balance in a new process.
LEMMA InitKept == Init => IInv
<1> SUFFICES ASSUME Init PROVE IInv
    OBVIOUS
<1>1. TypeOK
    BY InitTyped
<1>2. Once /\ Frames
    BY DEF Init, Once, Frames, Requests
<1>3. Kept
    BY DEF Init, Kept, Books, Waiting, InFlight
<1> QED BY <1>1, <1>2, <1>3 DEF IInv

\* What processQueues keeps of the frames: it only adds replies of the manager in
\* use.
LEMMA ProcessKept ==
    ASSUME NEW q \in [Connectors -> SUBSET Requests],
           NEW act \in [Connectors -> SUBSET Replies],
           IInv, TypeOK', ProcessQueues(q, act),
           Books(q, act, replayed', restarting', generation', epoch', called', sent),
           UNCHANGED called
    PROVE  /\ Kept' /\ Once'
           /\ \A c \in Connectors : act[c] \subseteq active'[c]
           /\ \A c \in Connectors : \A p \in active'[c] :
                 p \in act[c] \/ p.manager = manager'[c]
<1>1. sent \in [Requests -> Nat] /\ alive' \subseteq Connectors
    BY DEF IInv, TypeOK
<1>2. \A r \in Writes : sent[r] <= 1
    BY DEF IInv, Once, Requests
<1>3. /\ Books(queued', active', replayed', restarting', generation',
               epoch', called', sent')
      /\ \A r \in Writes : sent'[r] <= 1
      /\ \A c \in Connectors : act[c] \subseteq active'[c]
      /\ \A c \in Connectors : \A p \in active'[c] :
            p \in act[c] \/ p.manager = manager'[c]
    BY <1>1, <1>2, ProcessBooks
<1>4. Once'
    BY <1>3 DEF IInv, Once
<1> QED BY <1>3, <1>4 DEF Kept

\* Every step keeps the invariant.
LEMMA StepKept == IInv /\ [Next]_vars => IInv'
<1> SUFFICES ASSUME IInv, [Next]_vars PROVE IInv'
    OBVIOUS
<1>t. TypeOK /\ TypeOK'
    BY StepTyped DEF IInv
<1>f. queued \in [Connectors -> SUBSET Requests] /\ active \in [Connectors -> SUBSET Replies]
    BY <1>t DEF TypeOK
<1>n. generation \in [Connectors -> Nat] /\ manager \in [Connectors -> Nat]
    BY <1>t DEF TypeOK
<1>r. aborts \subseteq Replies /\ orphans \subseteq Replies /\ replayed \subseteq Replies
    BY <1>t DEF TypeOK
<1>1. ASSUME NEW r \in Requests, Issue(r) PROVE IInv'
  <2> DEFINE c == Home[r]
             q == [queued EXCEPT ![c] = @ \cup {r}]
  <2>1. /\ ~crashed /\ c \in alive /\ epoch[r] = 0
        /\ epoch' = [epoch EXCEPT ![r] = generation[c]]
        /\ UNCHANGED <<alive, generation, manager, replayed, restarting>>
        /\ ProcessQueues(q, active)
        /\ UNCHANGED <<called, stack, network>>
      BY <1>1 DEF Issue, CallerRuns, Idle
  <2>2. c \in Connectors /\ q \in [Connectors -> SUBSET Requests]
        /\ \A d \in Connectors : q[d] = IF d = c THEN queued[c] \cup {r} ELSE queued[d]
      BY <1>f, <1>t, <2>1 DEF TypeOK
  <2>3. \A s \in Requests : epoch'[s] = IF s = r THEN generation[c] ELSE epoch[s]
      BY <1>t, <2>1 DEF TypeOK
  <2>4. /\ Waiting(queued, generation, epoch, called, sent)
        /\ InFlight(queued, active, replayed, generation, epoch, called)
        /\ \A p \in replayed : Home[p.req] \in restarting
        /\ \A s \in Requests : epoch[s] = 0 => called[s] = 0 /\ sent[s] = 0
        /\ generation[c] # 0
      BY <1>n, <2>1, <2>2 DEF IInv, Frames, Kept, Books
  <2> HIDE DEF q
  <2>5. Waiting(q, generation, epoch', called, sent)
    <3> SUFFICES ASSUME NEW d \in Connectors, NEW s \in q[d]
                 PROVE  /\ Home[s] = d /\ epoch'[s] = generation[d]
                        /\ epoch'[s] # 0 /\ called[s] = 0
                        /\ s \in Writes => sent[s] = 0
        BY DEF Waiting
    <3>1. s \in Requests
        BY <2>2
    <3>2. CASE s = r
      <4>1. d = c
        <5>1. CASE d = c
            BY <5>1
        <5>2. CASE d # c
          <6>1. r \in queued[d]
              BY <2>2, <3>2, <5>2
          <6> QED BY <2>1, <2>4, <6>1 DEF Waiting
        <5> QED BY <5>1, <5>2
      <4> QED BY <2>1, <2>3, <2>4, <3>2, <4>1
    <3>3. CASE s # r
      <4>1. s \in queued[d]
          BY <2>2, <3>3
      <4> QED BY <2>3, <2>4, <3>1, <3>3, <4>1 DEF Waiting
    <3> QED BY <3>2, <3>3
  <2>6. InFlight(q, active, replayed, generation, epoch', called)
    <3> SUFFICES ASSUME NEW d \in Connectors, NEW p \in active[d]
                 PROVE  /\ Home[p.req] = d /\ p.gen = generation[d]
                        /\ epoch'[p.req] = generation[d] /\ epoch'[p.req] # 0
                        /\ p \notin replayed =>
                              /\ called[p.req] = 0 /\ p.req \notin q[d]
                              /\ \A p2 \in active[d] :
                                    p2 \notin replayed /\ p2.req = p.req => p2 = p
        BY DEF InFlight
    <3>1. p.req \in Requests
        BY <1>f DEF Replies
    <3>2. /\ Home[p.req] = d /\ p.gen = generation[d]
          /\ epoch[p.req] = generation[d] /\ epoch[p.req] # 0
          /\ p \notin replayed =>
                /\ called[p.req] = 0 /\ p.req \notin queued[d]
                /\ \A p2 \in active[d] :
                      p2 \notin replayed /\ p2.req = p.req => p2 = p
        BY <2>4 DEF InFlight
    <3>3. p.req # r
        BY <2>1, <3>2
    <3> QED BY <2>2, <2>3, <3>1, <3>2, <3>3
  <2>7. Books(q, active, replayed', restarting', generation', epoch', called', sent)
      BY <2>1, <2>3, <2>4, <2>5, <2>6 DEF Books
  <2>8. /\ Kept' /\ Once'
        /\ \A d \in Connectors : active[d] \subseteq active'[d]
        /\ \A d \in Connectors : \A p \in active'[d] :
              (p \in active[d] \/ p.manager = manager'[d])
    <3>1. ProcessQueues(q, active) /\ called' = called
        BY <2>1 DEF q
    <3> QED BY <1>f, <1>t, <2>2, <2>7, <3>1, ProcessKept
  <2>9. Frames'
    <3>1. Frames
        BY <2>1 DEF IInv
    <3>2. UNCHANGED <<replayed, aborts, loop, manager, alive, orphans, generation>>
        BY <2>1 DEF stack, network
    <3> QED BY ONLY <1>n, <1>r, <2>8, <3>1, <3>2, TransportAssumption DEF Frames, Replies,
               TransportAssumption
  <2> QED BY <1>t, <2>8, <2>9 DEF IInv
<1>a. \A p \in aborts : ~crashed => loop = {Home[p.req]}
    BY DEF IInv, Frames
<1>2. ASSUME NEW c \in Connectors, NEW reply \in active[c] \cup orphans,
             ReplyFinished(c, reply)
      PROVE IInv'
  <2>1. /\ ~crashed /\ loop = {} /\ c \in alive
        /\ reply \in active[c] \/ (reply \in orphans /\ Home[reply.req] = c)
        /\ UNCHANGED <<alive, generation, manager>>
        /\ Finished(c, reply)
        /\ UNCHANGED <<snapshot, loop, loopGen, aborts, dead, crashed, routes,
                       restarts, resets, epoch>>
      BY <1>2 DEF ReplyFinished, Idle
  <2>2. reply \in Replies
      BY <1>f, <1>r
  <2>3. /\ Kept' /\ Once'
        /\ orphans' \subseteq orphans /\ replayed' \subseteq replayed
        /\ \A d \in Connectors : active'[d] \subseteq active[d]
      BY <2>1, <2>2, FinishedBooks
  <2>4. aborts = {} /\ Frames
      BY <1>a, <2>1 DEF IInv
  <2>5. Frames'
      BY <2>1, <2>3, <2>4 DEF Frames
  <2> QED BY <1>t, <2>3, <2>5 DEF IInv
<1>3. ASSUME NEW reply \in calling, HandlerReturns(reply) PROVE IInv'
  <2>1. /\ ~crashed
        /\ UNCHANGED <<alive, generation, manager, replayed, restarting>>
        /\ ProcessQueues(queued, active) \/ UNCHANGED <<queued, active, sent>>
        /\ UNCHANGED <<snapshot, loop, loopGen, aborts, network, epoch, called>>
      BY <1>3 DEF HandlerReturns
  <2>2. Frames /\ Kept
      BY <2>1 DEF IInv
  <2>3. CASE ProcessQueues(queued, active)
    <3>1. Books(queued, active, replayed', restarting', generation', epoch', called', sent)
        BY <2>1, <2>2 DEF Kept, Books, Waiting, InFlight
    <3>2. /\ Kept' /\ Once'
          /\ \A d \in Connectors : active[d] \subseteq active'[d]
          /\ \A d \in Connectors : \A p \in active'[d] :
                (p \in active[d] \/ p.manager = manager'[d])
        BY <1>f, <1>t, <2>1, <2>3, <3>1, ProcessKept
    <3>3. UNCHANGED <<replayed, aborts, loop, manager, alive, orphans, generation>>
        BY <2>1 DEF network
    <3>4. Frames'
        BY ONLY <1>n, <1>r, <2>2, <3>2, <3>3, TransportAssumption
           DEF Frames, Replies, TransportAssumption
    <3> QED BY <1>t, <3>2, <3>4 DEF IInv
  <2>4. CASE UNCHANGED <<queued, active, sent>>
      BY <1>t, <2>1, <2>2, <2>4
         DEF network, IInv, Once, Frames, Kept, Books, Waiting, InFlight
  <2> QED BY <2>1, <2>3, <2>4
<1>4. ASSUME NEW c \in Connectors, Reset(c) PROVE IInv'
  <2> DEFINE q == [queued EXCEPT ![c] = {}]
             act == [active EXCEPT ![c] = {}]
  <2>1. /\ ~crashed
        /\ generation' = [generation EXCEPT ![c] = @ + 1]
        /\ manager' = [manager EXCEPT ![c] = @ + 1]
        /\ restarting' = restarting \ {c}
        /\ replayed' = {p \in replayed : Home[p.req] # c}
        /\ orphans' = orphans \cup active[c]
        /\ alive' = alive
        /\ ProcessQueues(q, act)
        /\ UNCHANGED <<loop, aborts, crashed, epoch, called>>
      BY <1>4 DEF Reset, MayReset, CallerRuns, Idle, stack
  <2>2. /\ q \in [Connectors -> SUBSET Requests]
        /\ act \in [Connectors -> SUBSET Replies]
        /\ \A d \in Connectors : q[d] = IF d = c THEN {} ELSE queued[d]
        /\ \A d \in Connectors : act[d] = IF d = c THEN {} ELSE active[d]
      BY <1>f
  <2>3. /\ \A d \in Connectors :
              generation'[d] = IF d = c THEN generation[d] + 1 ELSE generation[d]
        /\ \A d \in Connectors :
              manager'[d] = IF d = c THEN manager[d] + 1 ELSE manager[d]
      BY <1>n, <2>1
  <2>4. /\ Waiting(queued, generation, epoch, called, sent)
        /\ InFlight(queued, active, replayed, generation, epoch, called)
        /\ \A p \in replayed : Home[p.req] \in restarting
        /\ \A s \in Requests : epoch[s] = 0 => called[s] = 0 /\ sent[s] = 0
        /\ Frames
      BY <2>1 DEF IInv, Kept, Books
  <2>5. ProcessQueues(q, act)
      BY <2>1
  <2> HIDE DEF q, act
  <2>6. Waiting(q, generation', epoch, called, sent)
      BY <2>2, <2>3, <2>4 DEF Waiting
  <2>7. InFlight(q, act, replayed', generation', epoch, called)
    <3> SUFFICES ASSUME NEW d \in Connectors, NEW p \in act[d]
                 PROVE  /\ Home[p.req] = d /\ p.gen = generation'[d]
                        /\ epoch[p.req] = generation'[d] /\ epoch[p.req] # 0
                        /\ p \notin replayed' =>
                              /\ called[p.req] = 0 /\ p.req \notin q[d]
                              /\ \A p2 \in act[d] :
                                    p2 \notin replayed' /\ p2.req = p.req => p2 = p
        BY DEF InFlight
    <3>1. d # c /\ act[d] = active[d] /\ q[d] = queued[d]
          /\ generation'[d] = generation[d]
        BY <2>2, <2>3
    <3>2. \A p2 \in active[d] : p2 \in replayed <=> p2 \in replayed'
        BY <2>1, <2>4, <3>1 DEF InFlight
    <3> QED BY <2>4, <3>1, <3>2 DEF InFlight
  <2>8. Books(q, act, replayed', restarting', generation', epoch', called', sent)
      BY <2>1, <2>4, <2>6, <2>7 DEF Books
  <2>9. /\ Kept' /\ Once'
        /\ \A d \in Connectors : act[d] \subseteq active'[d]
        /\ \A d \in Connectors : \A p \in active'[d] :
              (p \in act[d] \/ p.manager = manager'[d])
      BY <1>t, <2>1, <2>2, <2>5, <2>8, ProcessKept
  <2>10. Frames'
    <3>1. \A p \in replayed' : p \in aborts' /\ p.req \in Gets
        BY <2>1, <2>4 DEF Frames
    <3>2. ASSUME NEW p \in aborts', NEW d, d = Home[p.req]
          PROVE  /\ loop' = {d} /\ p.manager <= manager'[d]
                 /\ p.manager = manager'[d] /\ d \in alive' => p \in active'[d]
      <4>1. p \in aborts /\ d \in Connectors
          BY <1>t, <2>1, <2>4, <3>2 DEF Frames, TypeOK
      <4>2. /\ loop = {d} /\ p.manager <= manager[d]
            /\ p.manager = manager[d] /\ d \in alive => p \in active[d]
          BY <2>4, <3>2, <4>1 DEF Frames
      <4>3. p.manager \in Nat /\ manager[d] \in Nat
          BY <1>n, <1>r, <4>1 DEF Replies
      <4> QED BY <2>1, <2>2, <2>3, <2>9, <4>1, <4>2, <4>3
    <3>3. \A p \in orphans' : p.gen < generation'[Home[p.req]]
      <4> SUFFICES ASSUME NEW p \in orphans' PROVE p.gen < generation'[Home[p.req]]
          OBVIOUS
      <4>1. CASE p \in orphans
        <5>1. p \in Replies /\ p.gen \in Nat /\ Home[p.req] \in Connectors
            BY <1>r, <4>1, TransportAssumption DEF Replies, TransportAssumption
        <5>2. p.gen < generation[Home[p.req]]
            BY <2>4, <4>1 DEF Frames
        <5> QED BY <1>n, <2>3, <5>1, <5>2
      <4>2. CASE p \in active[c]
          BY <1>n, <2>3, <2>4, <4>2 DEF InFlight
      <4> QED BY <2>1, <4>1, <4>2
    <3>4. \A d \in Connectors : generation'[d] > 0
        BY <1>n, <2>3, <2>4 DEF Frames
    <3>5. \A d \in Connectors : \A p \in active'[d] : p.manager <= manager'[d]
      <4> SUFFICES ASSUME NEW d \in Connectors, NEW p \in active'[d]
                   PROVE  p.manager <= manager'[d]
          OBVIOUS
      <4>1. manager[d] \in Nat /\ manager'[d] \in Nat
          BY <1>n, <2>3
      <4>2. CASE p \in act[d]
        <5>1. p \in active[d] /\ d # c
            BY <2>2, <4>2
        <5> QED BY <2>3, <2>4, <5>1 DEF Frames
      <4> QED BY <2>9, <4>1, <4>2
    <3> QED BY <3>1, <3>2, <3>3, <3>4, <3>5 DEF Frames
  <2> QED BY <1>t, <2>9, <2>10 DEF IInv
<1>5. ASSUME NEW c \in Connectors, Destroy(c) PROVE IInv'
  <2> DEFINE q == [queued EXCEPT ![c] = {}]
             act == [active EXCEPT ![c] = {}]
  <2>1. /\ ~crashed
        /\ UNCHANGED <<generation, manager>>
        /\ restarting' = restarting \ {c}
        /\ replayed' = {p \in replayed : Home[p.req] # c}
        /\ orphans' \subseteq orphans
        /\ alive' = alive \ {c}
        /\ UNCHANGED <<loop, aborts, crashed, epoch, called>>
      BY <1>5 DEF Destroy, MayReset, CallerRuns, Idle, stack
  <2>2. /\ q \in [Connectors -> SUBSET Requests]
        /\ act \in [Connectors -> SUBSET Replies]
        /\ \A d \in Connectors : q[d] = IF d = c THEN {} ELSE queued[d]
        /\ \A d \in Connectors : act[d] = IF d = c THEN {} ELSE active[d]
      BY <1>f
  <2>3. ProcessQueues(q, act)
      BY <1>5 DEF Destroy
  <2>4. /\ Waiting(queued, generation, epoch, called, sent)
        /\ InFlight(queued, active, replayed, generation, epoch, called)
        /\ \A p \in replayed : Home[p.req] \in restarting
        /\ \A s \in Requests : epoch[s] = 0 => called[s] = 0 /\ sent[s] = 0
        /\ Frames
      BY <2>1 DEF IInv, Kept, Books
  <2> HIDE DEF q, act
  <2>5. Waiting(q, generation, epoch, called, sent)
      BY <2>2, <2>4 DEF Waiting
  <2>6. InFlight(q, act, replayed', generation, epoch, called)
    <3> SUFFICES ASSUME NEW d \in Connectors, NEW p \in act[d]
                 PROVE  /\ Home[p.req] = d /\ p.gen = generation[d]
                        /\ epoch[p.req] = generation[d] /\ epoch[p.req] # 0
                        /\ p \notin replayed' =>
                              /\ called[p.req] = 0 /\ p.req \notin q[d]
                              /\ \A p2 \in act[d] :
                                    p2 \notin replayed' /\ p2.req = p.req => p2 = p
        BY DEF InFlight
    <3>1. d # c /\ act[d] = active[d] /\ q[d] = queued[d]
        BY <2>2
    <3>2. \A p2 \in active[d] : p2 \in replayed <=> p2 \in replayed'
        BY <2>1, <2>4, <3>1 DEF InFlight
    <3> QED BY <2>4, <3>1, <3>2 DEF InFlight
  <2>7. Books(q, act, replayed', restarting', generation', epoch', called', sent)
      BY <2>1, <2>4, <2>5, <2>6 DEF Books
  <2>8. /\ Kept' /\ Once'
        /\ \A d \in Connectors : act[d] \subseteq active'[d]
        /\ \A d \in Connectors : \A p \in active'[d] :
              (p \in act[d] \/ p.manager = manager'[d])
      BY <1>t, <2>1, <2>2, <2>3, <2>7, ProcessKept
  <2>9. Frames'
    <3>1. \A p \in replayed' : p \in aborts' /\ p.req \in Gets
        BY <2>1, <2>4 DEF Frames
    <3>2. ASSUME NEW p \in aborts', NEW d, d = Home[p.req]
          PROVE  /\ loop' = {d} /\ p.manager <= manager'[d]
                 /\ p.manager = manager'[d] /\ d \in alive' => p \in active'[d]
      <4>1. p \in aborts /\ d \in Connectors
          BY <1>t, <2>1, <2>4, <3>2 DEF Frames, TypeOK
      <4>2. /\ loop = {d} /\ p.manager <= manager[d]
            /\ p.manager = manager[d] /\ d \in alive => p \in active[d]
          BY <2>4, <3>2, <4>1 DEF Frames
      <4> QED BY <2>1, <2>2, <2>8, <4>1, <4>2
    <3>3. \A p \in orphans' : p.gen < generation'[Home[p.req]]
        BY <2>1, <2>4 DEF Frames
    <3>4. \A d \in Connectors : generation'[d] > 0
        BY <2>1, <2>4 DEF Frames
    <3>5. \A d \in Connectors : \A p \in active'[d] : p.manager <= manager'[d]
        BY <1>n, <2>1, <2>2, <2>4, <2>8 DEF Frames
    <3> QED BY <3>1, <3>2, <3>3, <3>4, <3>5 DEF Frames
  <2> QED BY <1>t, <2>8, <2>9 DEF IInv
<1>6. ASSUME NEW c \in Connectors, RestartTransport(c) PROVE IInv'
  <2>1. /\ ~crashed /\ loop = {} /\ aborts = {} /\ Once /\ Frames /\ Kept
        /\ UNCHANGED <<orphans, epoch, called, sent>>
      BY <1>6, <1>a DEF RestartTransport, history, IInv
  <2>2. CASE c \notin alive
    <3>1. crashed' = TRUE
        BY <1>6, <2>2 DEF RestartTransport
    <3> QED BY <1>t, <2>1, <3>1 DEF IInv, Once
  <2>3. CASE c \in alive
    <3> DEFINE gets == {p \in active[c] : p.req \in Gets}
    <3>1. /\ restarting' = restarting \cup {c} /\ loop' = {c}
          /\ replayed' = replayed \cup gets
          /\ queued' = [queued EXCEPT ![c] = @ \cup {p.req : p \in gets}]
          /\ aborts' = active[c]
          /\ UNCHANGED <<alive, generation, manager, active>>
        BY <1>6, <2>3 DEF RestartTransport
    <3>2. replayed = {} /\ replayed' = gets
        BY <2>1, <3>1 DEF Frames
    <3>3. \A d \in Connectors :
              queued'[d] = IF d = c THEN queued[c] \cup {p.req : p \in gets} ELSE queued[d]
        BY <1>f, <3>1
    <3>4. /\ Waiting(queued, generation, epoch, called, sent)
          /\ InFlight(queued, active, {}, generation, epoch, called)
          /\ \A s \in Requests : epoch[s] = 0 => called[s] = 0 /\ sent[s] = 0
        BY <2>1, <3>2 DEF Kept, Books
    <3>5. \A p \in gets : /\ p \in active[c] /\ p.req \in Gets /\ p.req \notin Writes
                          /\ Home[p.req] = c
        BY <3>4, TransportAssumption DEF InFlight, TransportAssumption
    <3>6. \A p \in active[c] : p \in gets <=> p.req \in Gets
        OBVIOUS
    <3> HIDE DEF gets
    <3>7. Waiting(queued', generation, epoch, called, sent)
      <4> SUFFICES ASSUME NEW d \in Connectors, NEW s \in queued'[d]
                   PROVE  /\ Home[s] = d /\ epoch[s] = generation[d]
                          /\ epoch[s] # 0 /\ called[s] = 0
                          /\ s \in Writes => sent[s] = 0
          BY DEF Waiting
      <4>1. CASE s \in queued[d]
          BY <3>4, <4>1 DEF Waiting
      <4>2. CASE s \notin queued[d]
        <5>1. d = c /\ \E p \in gets : s = p.req
            BY <3>3, <4>2
        <5>2. PICK p \in gets : s = p.req
            BY <5>1
        <5> QED BY <3>4, <3>5, <5>1, <5>2 DEF InFlight
      <4> QED BY <4>1, <4>2
    <3>8. InFlight(queued', active, gets, generation, epoch, called)
      <4> SUFFICES ASSUME NEW d \in Connectors, NEW p \in active[d]
                   PROVE  /\ Home[p.req] = d /\ p.gen = generation[d]
                          /\ epoch[p.req] = generation[d] /\ epoch[p.req] # 0
                          /\ p \notin gets =>
                                /\ called[p.req] = 0 /\ p.req \notin queued'[d]
                                /\ \A p2 \in active[d] :
                                      p2 \notin gets /\ p2.req = p.req => p2 = p
          BY DEF InFlight
      <4>1. /\ Home[p.req] = d /\ p.gen = generation[d]
            /\ epoch[p.req] = generation[d] /\ epoch[p.req] # 0
            /\ called[p.req] = 0 /\ p.req \notin queued[d]
            /\ \A p2 \in active[d] : p2.req = p.req => p2 = p
          BY <3>4 DEF InFlight
      <4>2. ASSUME p.req \in queued'[d] PROVE p \in gets
        <5>1. d = c /\ \E p2 \in gets : p.req = p2.req
            BY <3>3, <4>1, <4>2
        <5> QED BY <3>5, <3>6, <5>1
      <4> QED BY <4>1, <4>2
    <3>9. Kept'
        BY <2>1, <3>1, <3>2, <3>4, <3>5, <3>7, <3>8 DEF Kept, Books
    <3>10. Frames'
      <4>1. \A p \in active[c] : Home[p.req] = c
          BY <3>4 DEF InFlight
      <4>2. Frames
          BY <2>1
      <4>3. UNCHANGED <<active, manager, generation, orphans>> /\ loop' = {c}
            /\ aborts' = active[c]
          BY <2>1, <3>1
      <4>4. \A p \in replayed' : p \in aborts' /\ p.req \in Gets
          BY <3>2, <3>5, <4>3
      <4>5. \A p \in aborts' :
                /\ loop' = {Home[p.req]} /\ p.manager <= manager'[Home[p.req]]
                /\ p.manager = manager'[Home[p.req]] /\ Home[p.req] \in alive'
                      => p \in active'[Home[p.req]]
          BY <4>1, <4>2, <4>3 DEF Frames
      <4> QED BY <4>2, <4>3, <4>4, <4>5 DEF Frames
    <3> QED BY <1>t, <2>1, <3>9, <3>10 DEF IInv, Once
  <2> QED BY <2>2, <2>3
<1>7. ASSUME NEW c \in Connectors, RestartDone(c) PROVE IInv'
  <2>1. /\ ~crashed /\ loop = {c} /\ aborts = {} /\ loop' = {} /\ aborts' = {}
        /\ Frames /\ Kept /\ Once
        /\ UNCHANGED <<orphans, epoch, called>>
      BY <1>7, <1>t DEF RestartDone, IInv, TypeOK
  <2>2. CASE c \notin alive
    <3>1. crashed' = TRUE /\ UNCHANGED <<sent, called>>
        BY <1>7, <2>1, <2>2 DEF RestartDone
    <3> QED BY <1>t, <2>1, <3>1 DEF IInv, Once
  <2>3. CASE c \in alive
    <3>1. /\ restarting' = restarting \ {c} /\ UNCHANGED <<alive, generation, replayed>>
        BY <1>7, <2>3 DEF RestartDone
    <3>2. replayed = {}
        BY <2>1 DEF Frames
    <3>3. Books(queued, active, replayed', restarting', generation', epoch', called', sent)
        BY <2>1, <3>1, <3>2 DEF Kept, Books
    <3>4. CASE generation[c] # loopGen
      <4>1. UNCHANGED <<manager, queued, active, sent>>
          BY <1>7, <2>3, <3>4 DEF RestartDone
      <4>2. Kept' /\ Once'
          BY <2>1, <3>3, <4>1 DEF Kept, Once
      <4>3. Frames'
          BY <2>1, <3>1, <3>2, <4>1 DEF Frames
      <4> QED BY <1>t, <4>2, <4>3 DEF IInv
    <3>5. CASE generation[c] = loopGen
      <4>1. manager' = [manager EXCEPT ![c] = @ + 1] /\ ProcessQueues(queued, active)
          BY <1>7, <2>3, <3>5 DEF RestartDone
      <4>2. /\ Kept' /\ Once'
            /\ \A d \in Connectors : active[d] \subseteq active'[d]
            /\ \A d \in Connectors : \A p \in active'[d] :
                  (p \in active[d] \/ p.manager = manager'[d])
          BY <1>f, <1>t, <2>1, <3>3, <4>1, ProcessKept
      <4>3. \A d \in Connectors : \A p \in active'[d] : p.manager <= manager'[d]
        <5> SUFFICES ASSUME NEW d \in Connectors, NEW p \in active'[d]
                     PROVE  p.manager <= manager'[d]
            OBVIOUS
        <5>1. manager[d] \in Nat /\ manager'[d] \in Nat /\ manager[d] <= manager'[d]
            BY <1>n, <4>1
        <5>2. CASE p \in active[d]
          <6>1. p.manager \in Nat /\ p.manager <= manager[d]
              BY <1>f, <2>1, <5>2 DEF Frames, Replies
          <6> QED BY <5>1, <6>1
        <5> QED BY <4>2, <5>1, <5>2
      <4>4. Frames'
          BY <2>1, <3>1, <3>2, <4>3 DEF Frames
      <4> QED BY <1>t, <4>2, <4>4 DEF IInv
    <3> QED BY <3>4, <3>5
  <2> QED BY <2>2, <2>3
<1>8. ASSUME NEW c \in Connectors, NEW reply \in aborts, AbortReply(c, reply)
      PROVE IInv'
  <2>1. /\ ~crashed /\ loop = {c} /\ aborts' = aborts \ {reply} /\ reply \in Replies
        /\ UNCHANGED <<alive, generation, manager, loop, epoch>>
        /\ Frames /\ Once
      BY <1>8, <1>r, <1>t DEF AbortReply, IInv, TypeOK
  <2>2. CASE c \notin alive \/ reply.manager # manager[c]
    <3>1. crashed' = TRUE /\ UNCHANGED <<sent, called>>
        BY <1>8, <2>2 DEF AbortReply
    <3> QED BY <1>t, <2>1, <3>1 DEF IInv, Once
  <2>3. CASE c \in alive /\ reply.manager = manager[c]
    <3>1. Finished(c, reply)
        BY <1>8, <2>3 DEF AbortReply
    <3>2. Home[reply.req] = c /\ reply \in active[c]
        BY <2>1, <2>3 DEF Frames
    <3>3. /\ Kept' /\ Once'
          /\ orphans' \subseteq orphans /\ replayed' \subseteq replayed
          /\ reply \notin replayed'
          /\ \A d \in Connectors :
                (active'[d] \subseteq active[d] /\ active[d] \ {reply} \subseteq active'[d])
        BY <2>1, <3>1, <3>2, FinishedBooks
    <3>4. \A p \in aborts : Home[p.req] = c
        BY <2>1 DEF Frames
    <3>5. Frames'
        BY <2>1, <3>3, <3>4 DEF Frames
    <3> QED BY <1>t, <3>3, <3>5 DEF IInv
  <2> QED BY <2>2, <2>3
<1>9. ASSUME RouteDies PROVE IInv'
    BY <1>9, <1>t DEF RouteDies, connectors, stack, history, IInv, Once, Frames, Kept, Books,
       Waiting, InFlight
<1>10. ASSUME RestartAllTransports PROVE IInv'
    BY <1>10, <1>t DEF RestartAllTransports, connectors, history, IInv, Once, Frames, Kept,
       Books, Waiting, InFlight
<1>11. ASSUME UNCHANGED vars PROVE IInv'
    BY <1>11, <1>t DEF vars, connectors, stack, network, history, IInv, Once, Frames, Kept,
       Books, Waiting, InFlight
<1> QED BY <1>1, <1>2, <1>3, <1>4, <1>5, <1>6, <1>7, <1>8, <1>9, <1>10, <1>11 DEF Next

\* The books balance in every reachable state.
THEOREM BooksBalance == Spec => []IInv
<1>1. Init => IInv
    BY InitKept
<1>2. IInv /\ [Next]_vars => IInv'
    BY StepKept
<1> QED BY <1>1, <1>2, PTL DEF Spec

\* No response handler is called twice, for any number of restarts.
THEOREM CalledAtMostOnce == Spec => []AnsweredOnce
<1>1. IInv => AnsweredOnce
    BY DEF IInv, Once, AnsweredOnce
<1> QED BY <1>1, BooksBalance, PTL

\* No request that writes is sent twice.
THEOREM SentAtMostOnce == Spec => []WrittenOnce
<1>1. IInv => WrittenOnce
    BY DEF IInv, Once, WrittenOnce, Requests
<1> QED BY <1>1, BooksBalance, PTL

\* A step of a state whose books balance runs no response handler for a request
\* of an earlier generation.
LEMMA StepAnswersCurrent ==
    IInv /\ [Next]_vars =>
        \A p \in calling' \ calling : epoch[p.req] = generation[Home[p.req]]
<1> SUFFICES ASSUME IInv, [Next]_vars
             PROVE  \A p \in calling' \ calling : epoch[p.req] = generation[Home[p.req]]
    OBVIOUS
<1>t. active \in [Connectors -> SUBSET Replies] /\ orphans \subseteq Replies
      /\ aborts \subseteq Replies
    BY DEF IInv, TypeOK
<1>1. ASSUME NEW c \in Connectors, NEW reply \in active[c] \cup orphans,
             ReplyFinished(c, reply)
      PROVE \A p \in calling' \ calling : epoch[p.req] = generation[Home[p.req]]
    BY <1>t, <1>1, FinishedBooks DEF ReplyFinished, Idle
<1>2. ASSUME NEW c \in Connectors, NEW reply \in aborts, AbortReply(c, reply)
      PROVE \A p \in calling' \ calling : epoch[p.req] = generation[Home[p.req]]
  <2>1. CASE c \notin alive \/ reply.manager # manager[c]
      BY <1>2, <2>1 DEF AbortReply
  <2>2. CASE c \in alive /\ reply.manager = manager[c]
    <3>1. /\ ~crashed /\ Finished(c, reply)
          /\ UNCHANGED <<alive, generation, manager, epoch>> /\ c \in loop
        BY <1>2, <2>2 DEF AbortReply
    <3>2. Home[reply.req] = c /\ reply \in active[c]
      <4>1. loop = {Home[reply.req]}
          BY <3>1 DEF IInv, Frames
      <4> QED BY <2>2, <3>1, <4>1 DEF IInv, Frames
    <3> QED BY <1>t, <3>1, <3>2, FinishedBooks
  <2> QED BY <2>1, <2>2
<1>3. CASE UNCHANGED calling
    BY <1>3
<1>4. CASE calling' = {}
    BY <1>4
<1>5. ASSUME NEW r \in Requests, Issue(r) PROVE UNCHANGED calling
    BY <1>5 DEF Issue, stack
<1>6. ASSUME NEW c \in Connectors,
             Reset(c) \/ Destroy(c) \/ RestartTransport(c) \/ RestartDone(c)
      PROVE UNCHANGED calling
    BY <1>6 DEF Reset, Destroy, RestartTransport, RestartDone, stack
<1>7. ASSUME NEW reply \in calling, HandlerReturns(reply) PROVE calling' = {}
    BY <1>7 DEF HandlerReturns
<1>8. ASSUME RouteDies \/ RestartAllTransports PROVE UNCHANGED calling
    BY <1>8 DEF RouteDies, RestartAllTransports, stack
<1>9. ASSUME UNCHANGED vars PROVE UNCHANGED calling
    BY <1>9 DEF vars, stack
<1> QED BY <1>1, <1>2, <1>3, <1>4, <1>5, <1>6, <1>7, <1>8, <1>9 DEF Next

\* No response handler runs for a request made before the last reset of its
\* connector, whatever the other handlers do.
THEOREM AnswersAreCurrent == Spec => NoStaleAnswer
<1>1. IInv /\ [Next]_vars =>
          [\A p \in calling' \ calling : epoch[p.req] = generation[Home[p.req]]]_vars
    BY StepAnswersCurrent
<1> QED BY <1>1, BooksBalance, PTL DEF Spec, NoStaleAnswer

=============================================================================
