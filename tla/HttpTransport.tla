--------------------------- MODULE HttpTransport ---------------------------
(***************************************************************************)
(* HTTPConnector: the requests of the connectors of the process, and       *)
(* restartAllTransports, which replaces every network manager after the    *)
(* route under them has changed.                                           *)
(*                                                                         *)
(* All of it runs on one thread.  QNetworkReply::abort() runs the finished *)
(* handler before it returns, and the finished handler runs the caller's   *)
(* response handler, which may call the connector again.  The loops of     *)
(* restartAllTransports and restartTransport are therefore steps of their  *)
(* own: between two of them a response handler runs.                       *)
(***************************************************************************)
EXTENDS Naturals, FiniteSets

CONSTANTS
    Connectors,       \* the HTTPConnectors of the process
    Gets, Writes,     \* the requests to be made: GETs, and the other methods
    Home,             \* the connector each of them is made on
    HandlerMayReset,  \* response handlers may reset or destroy a connector
    MaxRoutes,        \* bound: changes of the route
    MaxRestarts,      \* bound: restarts that no dead route asks for
    MaxResets         \* bound: resets and destructions

Requests == Gets \cup Writes

ASSUME TransportAssumption ==
    /\ Gets \cap Writes = {}
    /\ Home \in [Requests -> Connectors]
    /\ HandlerMayReset \in BOOLEAN
    /\ MaxRoutes \in Nat /\ MaxRestarts \in Nat /\ MaxResets \in Nat

VARIABLES
    alive,       \* connectors: those that exist
    generation,
    manager,     \* which QNetworkAccessManager of the connector is in use
    queued,      \* highPriorityRequests and lowPriorityRequests
    active,      \* activeReplies; those of a GET are activeGetRequests
    replayed,    \* replayedReplies
    restarting,  \* the connectors whose restartingTransport is set
    (* The frames on the stack. *)
    snapshot,    \* restartAllTransports: the connectors still to restart
    loop,        \* restartTransport: its connector, if it runs
    loopGen,     \* its restartGeneration
    aborts,      \* the replies it still has to abort
    calling,     \* the reply whose response handler runs, if one does
    (* External: the network, and the memory of the process. *)
    dead,        \* the connectors whose manager is bound to a dead route
    orphans,     \* replies of discarded managers that may still finish
    crashed,     \* a deleted object was used
    routes, restarts, resets,
    (* History. *)
    epoch,       \* the generation a request was made in
    sent,        \* how often it was given to a network manager
    called       \* how often its response handler was called

connectors == <<alive, generation, manager, queued, active, replayed, restarting>>
stack      == <<snapshot, loop, loopGen, aborts, calling>>
network    == <<dead, orphans, crashed, routes, restarts, resets>>
history    == <<epoch, sent, called>>
vars       == <<connectors, stack, network, history>>

Replies == [req : Requests, manager : Nat, gen : Nat]

TypeOK ==
    /\ alive \subseteq Connectors /\ dead \subseteq Connectors
    /\ generation \in [Connectors -> Nat] /\ manager \in [Connectors -> Nat]
    /\ queued \in [Connectors -> SUBSET Requests]
    /\ active \in [Connectors -> SUBSET Replies]
    /\ replayed \subseteq Replies /\ orphans \subseteq Replies
    /\ aborts \subseteq Replies /\ calling \subseteq Replies
    /\ snapshot \subseteq Connectors /\ loop \subseteq Connectors
    /\ restarting \subseteq loop \cap alive /\ \A c \in loop : loop = {c}
    /\ loopGen \in Nat /\ crashed \in BOOLEAN
    /\ routes \in Nat /\ restarts \in Nat /\ resets \in Nat
    /\ epoch \in [Requests -> Nat]
    /\ sent \in [Requests -> Nat] /\ called \in [Requests -> Nat]

Init ==
    /\ alive = Connectors
    /\ generation = [c \in Connectors |-> 1]
    /\ manager = [c \in Connectors |-> 1]
    /\ queued = [c \in Connectors |-> {}] /\ active = [c \in Connectors |-> {}]
    /\ replayed = {} /\ restarting = {}
    /\ snapshot = {} /\ loop = {} /\ loopGen = 0 /\ aborts = {} /\ calling = {}
    /\ dead = {} /\ orphans = {} /\ crashed = FALSE
    /\ routes = 0 /\ restarts = 0 /\ resets = 0
    /\ epoch = [r \in Requests |-> 0]
    /\ sent = [r \in Requests |-> 0] /\ called = [r \in Requests |-> 0]

\* The event loop runs: no frame of the program is on the stack.
Idle == snapshot = {} /\ loop = {} /\ calling = {} /\ ~crashed

\* The program's own code runs: from the event loop, or as a response handler.
CallerRuns == Idle \/ (calling # {} /\ ~crashed)

-----------------------------------------------------------------------------
(* Requests. *)

\* processQueues, when q and act are queued and active: a request waits only
\* while its connector restarts.  The order of the priorities is left out: the
\* network manager schedules what it is given.
ProcessQueues(q, act) ==
    LET open == alive' \ restarting' IN
    /\ queued' = [c \in Connectors |-> IF c \in open THEN {} ELSE q[c]]
    /\ active' = [c \in Connectors |->
                    IF c \in open
                    THEN act[c] \cup {[req |-> r, manager |-> manager'[c],
                                       gen |-> generation'[c]] : r \in q[c]}
                    ELSE act[c]]
    /\ sent' = [r \in Requests |->
                  IF \E c \in open : r \in q[c] THEN sent[r] + 1 ELSE sent[r]]

\* get, post, put and del: enqueue.
Issue(r) ==
    LET c == Home[r] IN
    /\ CallerRuns /\ c \in alive /\ epoch[r] = 0
    /\ epoch' = [epoch EXCEPT ![r] = generation[c]]
    /\ UNCHANGED <<alive, generation, manager, replayed, restarting>>
    /\ ProcessQueues([queued EXCEPT ![c] = @ \cup {r}], active)
    /\ UNCHANGED <<called, stack, network>>

\* Mutant of Finished: the generation is not compared.
UnguardedFinished(c, reply) ==
    /\ restarting' = restarting
    /\ LET act == [active EXCEPT ![c] = @ \ {reply}] IN
       IF reply \in replayed
       THEN /\ replayed' = replayed \ {reply}
            /\ IF c \in restarting
               THEN active' = act /\ UNCHANGED <<queued, sent>>
               ELSE ProcessQueues(queued, act)
            /\ UNCHANGED <<orphans, calling, called>>
       ELSE /\ calling' = {reply}
            /\ called' = [called EXCEPT ![reply.req] = @ + 1]
            /\ active' = act /\ orphans' = orphans \ {reply}
            /\ UNCHANGED <<replayed, queued, sent>>

\* Mutant of Finished: a replayed reply is answered too.
LoudFinished(c, reply) ==
    /\ restarting' = restarting
    /\ IF reply.gen # generation[c]
       THEN /\ orphans' = orphans \ {reply}
            /\ UNCHANGED <<replayed, active, queued, sent, calling, called>>
       ELSE /\ calling' = {reply}
            /\ called' = [called EXCEPT ![reply.req] = @ + 1]
            /\ active' = [active EXCEPT ![c] = @ \ {reply}]
            /\ replayed' = replayed \ {reply}
            /\ UNCHANGED <<queued, sent, orphans>>

\* The finished handler up to the response handler: a reply of an earlier
\* generation and one whose request is replayed are not answered.
Finished(c, reply) ==
    /\ restarting' = restarting
    /\ LET act == [active EXCEPT ![c] = @ \ {reply}] IN
       IF reply.gen # generation[c]
       THEN /\ orphans' = orphans \ {reply}
            /\ UNCHANGED <<replayed, active, queued, sent, calling, called>>
       ELSE IF reply \in replayed
       THEN /\ replayed' = replayed \ {reply}
            /\ IF c \in restarting
               THEN active' = act /\ UNCHANGED <<queued, sent>>
               ELSE ProcessQueues(queued, act)
            /\ UNCHANGED <<orphans, calling, called>>
       ELSE /\ calling' = {reply}
            /\ called' = [called EXCEPT ![reply.req] = @ + 1]
            /\ active' = act
            /\ UNCHANGED <<replayed, queued, sent, orphans>>

\* A reply finishes, with the server's answer or with an error.
ReplyFinished(c, reply) ==
    /\ Idle /\ c \in alive
    /\ \/ reply \in active[c] /\ c \notin dead
       \/ reply \in orphans /\ Home[reply.req] = c
    /\ UNCHANGED <<alive, generation, manager>>
    /\ Finished(c, reply)
    /\ UNCHANGED <<snapshot, loop, loopGen, aborts, dead, crashed, routes,
                   restarts, resets, epoch>>

\* The response handler returns to the finished handler.
HandlerReturns(reply) ==
    LET c == Home[reply.req] IN
    /\ reply \in calling /\ ~crashed
    /\ calling' = {}
    /\ UNCHANGED <<alive, generation, manager, replayed, restarting>>
    /\ IF c \in alive /\ reply.gen = generation[c] /\ c \notin restarting
       THEN ProcessQueues(queued, active)
       ELSE UNCHANGED <<queued, active, sent>>
    /\ UNCHANGED <<snapshot, loop, loopGen, aborts, network, epoch, called>>

\* The session, or the owner of a connector, ends: from the event loop, or from a
\* response handler.
MayReset ==
    /\ CallerRuns /\ (Idle \/ HandlerMayReset)
    /\ resets < MaxResets /\ resets' = resets + 1


\* reset: what was asked of the old generation is forgotten.
Reset(c) ==
    /\ MayReset /\ c \in alive
    /\ generation' = [generation EXCEPT ![c] = @ + 1]
    /\ manager' = [manager EXCEPT ![c] = @ + 1]
    /\ restarting' = restarting \ {c}
    /\ replayed' = {p \in replayed : Home[p.req] # c}
    /\ orphans' = orphans \cup active[c]
    /\ dead' = dead \ {c}
    /\ alive' = alive
    /\ ProcessQueues([queued EXCEPT ![c] = {}], [active EXCEPT ![c] = {}])
    /\ UNCHANGED <<stack, crashed, routes, restarts, epoch, called>>

\* ~HTTPConnector.
Destroy(c) ==
    /\ MayReset /\ c \in alive
    /\ alive' = alive \ {c} /\ dead' = dead \ {c}
    /\ restarting' = restarting \ {c}
    /\ replayed' = {p \in replayed : Home[p.req] # c}
    /\ orphans' = {p \in orphans : Home[p.req] # c}
    /\ UNCHANGED <<generation, manager>>
    /\ ProcessQueues([queued EXCEPT ![c] = {}], [active EXCEPT ![c] = {}])
    /\ UNCHANGED <<stack, crashed, routes, restarts, epoch, called>>

-----------------------------------------------------------------------------
(* The restart of the transports. *)

\* The route changes: the replies on it never finish.
RouteDies ==
    /\ Idle /\ routes < MaxRoutes /\ routes' = routes + 1
    /\ dead' = alive
    /\ UNCHANGED <<connectors, stack, orphans, crashed, restarts, resets, history>>

\* restartAllTransports: the WebSocket has reconnected.
RestartAllTransports ==
    /\ Idle
    /\ IF dead # {} THEN UNCHANGED restarts
       ELSE restarts < MaxRestarts /\ restarts' = restarts + 1
    /\ snapshot' = alive
    /\ UNCHANGED <<connectors, loop, loopGen, aborts, calling, dead, orphans,
                   crashed, routes, resets, history>>

\* Mutant of RestartTransport: the other methods are replayed too.
EagerRestartTransport(c) ==
    /\ loop = {} /\ calling = {} /\ ~crashed /\ c \in snapshot
    /\ snapshot' = snapshot \ {c}
    /\ IF c \notin alive
       THEN crashed' = TRUE /\ UNCHANGED <<connectors, loop, loopGen, aborts>>
       ELSE /\ restarting' = restarting \cup {c}
            /\ loop' = {c} /\ loopGen' = generation[c]
            /\ replayed' = replayed \cup active[c]
            /\ queued' = [queued EXCEPT ![c] = @ \cup {p.req : p \in active[c]}]
            /\ aborts' = active[c]
            /\ UNCHANGED <<alive, generation, manager, active, crashed>>
    /\ UNCHANGED <<calling, dead, orphans, routes, restarts, resets, history>>

\* restartTransport up to its loop: the GETs in flight are queued again.  The
\* pointer to a connector destroyed since the snapshot was taken dangles.  None
\* is restarting here, its flag is up only while this function runs.
RestartTransport(c) ==
    /\ loop = {} /\ calling = {} /\ ~crashed /\ c \in snapshot
    /\ snapshot' = snapshot \ {c}
    /\ IF c \notin alive
       THEN crashed' = TRUE /\ UNCHANGED <<connectors, loop, loopGen, aborts>>
       ELSE LET gets == {p \in active[c] : p.req \in Gets} IN
            /\ restarting' = restarting \cup {c}
            /\ loop' = {c} /\ loopGen' = generation[c]
            /\ replayed' = replayed \cup gets
            /\ queued' = [queued EXCEPT ![c] = @ \cup {p.req : p \in gets}]
            /\ aborts' = active[c]
            /\ UNCHANGED <<alive, generation, manager, active, crashed>>
    /\ UNCHANGED <<calling, dead, orphans, routes, restarts, resets, history>>

\* One round of the loop: the replies are those of the manager that was in use
\* when it began, and the manager deletes them when it is replaced.
AbortReply(c, reply) ==
    /\ c \in loop /\ calling = {} /\ ~crashed /\ reply \in aborts
    /\ aborts' = aborts \ {reply}
    /\ UNCHANGED <<alive, generation, manager>>
    /\ IF c \notin alive \/ reply.manager # manager[c]
       THEN /\ crashed' = TRUE
            /\ UNCHANGED <<queued, active, replayed, restarting, calling,
                           orphans, sent, called>>
       ELSE Finished(c, reply) /\ UNCHANGED crashed
    /\ UNCHANGED <<snapshot, loop, loopGen, dead, routes, restarts, resets, epoch>>

\* Mutant of RestartDone: restartingTransport stays set.
StuckRestartDone(c) ==
    /\ c \in loop /\ calling = {} /\ ~crashed /\ aborts = {}
    /\ loop' = {} /\ loopGen' = 0
    /\ UNCHANGED <<alive, generation, replayed, crashed, queued, active, sent, restarting>>
    /\ IF generation[c] # loopGen
       THEN UNCHANGED <<manager, dead>>
       ELSE manager' = [manager EXCEPT ![c] = @ + 1] /\ dead' = dead \ {c}
    /\ UNCHANGED <<snapshot, aborts, calling, orphans, routes, restarts, resets,
                   epoch, called>>

\* The end of restartTransport: unless a response handler has reset the
\* connector, it gets a new manager and starts what is queued.
RestartDone(c) ==
    /\ c \in loop /\ calling = {} /\ ~crashed /\ aborts = {}
    /\ loop' = {} /\ loopGen' = 0
    /\ IF c \notin alive
       THEN crashed' = TRUE /\ UNCHANGED <<connectors, dead, sent>>
       ELSE /\ restarting' = restarting \ {c}
            /\ UNCHANGED <<alive, generation, replayed, crashed>>
            /\ IF generation[c] # loopGen
               THEN UNCHANGED <<manager, dead, queued, active, sent>>
               ELSE /\ manager' = [manager EXCEPT ![c] = @ + 1]
                    /\ dead' = dead \ {c}
                    /\ ProcessQueues(queued, active)
    /\ UNCHANGED <<snapshot, aborts, calling, orphans, routes, restarts, resets,
                   epoch, called>>

-----------------------------------------------------------------------------
Next ==
    \/ \E r \in Requests : Issue(r)
    \/ \E c \in Connectors : \/ Reset(c) \/ Destroy(c)
                             \/ RestartTransport(c) \/ RestartDone(c)
                             \/ \E p \in active[c] \cup orphans : ReplyFinished(c, p)
                             \/ \E p \in aborts : AbortReply(c, p)
    \/ \E p \in calling : HandlerReturns(p)
    \/ RouteDies \/ RestartAllTransports

Spec == Init /\ [][Next]_vars

\* Code that has begun to run goes on, what is sent over a live route is answered,
\* and the WebSocket reconnects after the route has changed.
Fairness ==
    /\ \A c \in Connectors :
          /\ WF_vars(RestartTransport(c)) /\ WF_vars(RestartDone(c))
          /\ WF_vars(\E p \in aborts : AbortReply(c, p))
    /\ \A r \in Requests :
          WF_vars(\E p \in active[Home[r]] : p.req = r /\ ReplyFinished(Home[r], p))
    /\ WF_vars(\E p \in calling : HandlerReturns(p))
    /\ WF_vars(dead # {} /\ RestartAllTransports)

FairSpec == Spec /\ Fairness

-----------------------------------------------------------------------------
\* The connector still owes the answer to a request.
Owed(r) ==
    /\ epoch[r] # 0 /\ called[r] = 0
    /\ Home[r] \in alive /\ epoch[r] = generation[Home[r]]

\* However often transports are restarted while a request is queued, in flight or
\* being replayed, its response handler is called at most once.
AnsweredOnce == \A r \in Requests : called[r] <= 1

\* A request that changes something on the server is never sent twice: its
\* answer may be lost after the server has done it (restartTransport).
WrittenOnce == \A r \in Writes : sent[r] <= 1

\* No response handler runs for a request made before the last reset of its
\* connector: what it would touch belongs to the old session.
NoStaleAnswer ==
    [][\A p \in calling' \ calling : epoch[p.req] = generation[Home[p.req]]]_vars

\* Every request is answered, unless its connector is reset or destroyed: also
\* one that was bound to a route that died (or the process has crashed).
AllAnswered == \A r \in Requests : Owed(r) ~> (~Owed(r) \/ crashed)

\* A response handler "is allowed to synchronously reset or even destroy its UI
\* owner together with this connector" (the comment in setProcessReply).
\* Does not hold.
NoDeletedUse == ~crashed

=============================================================================
