------------------------------ MODULE AsyncServer ------------------------------
(***************************************************************************)
(* The asynchronous parallel server of src/chapter4/asyncParallel: Server  *)
(* (a pool of threads in m_ios.run()), Acceptor (a chain of async_accept   *)
(* operations ended by the flag m_isStopped) and Service (one object per   *)
(* connection, which deletes itself in onFinish).                          *)
(*                                                                         *)
(* A Service is identified with the connection it was created for.         *)
(***************************************************************************)

CONSTANTS
    Conns,      \* the connections clients ask for
    Talkers,    \* those whose client sends its request line or goes away
    IoThreads,  \* the threads of m_thread_pool
    NoConn

\* Server::Start asserts thread_pool_size > 0.
ASSUME ServerAssumption ==
    /\ IoThreads # {}
    /\ NoConn \notin Conns
    /\ Talkers \subseteq Conns

VARIABLES
    mainPc,       \* control state of the thread that owns the Server
    m_isStopped,
    acceptor,     \* "none", "listening" or "closed"
    iosStopped,   \* m_ios.stop() has been called
    client,       \* client[c]: when c was asked for, relative to Acceptor::Stop
    backlog,      \* the connections the kernel holds for the acceptor
    acceptOp,     \* the async_accept operation
    acceptConn,   \* the connection it accepted; NoConn when it failed
    service,      \* service[c]: "none", "alive" or "deleted"
    op,           \* the Service's latest operation: "none", "read" or "write"
    opState,      \* "none", "pending" (reactor), "ready" (queue) or "running"
    opEc,         \* the error code its handler will be given
    answered,     \* answered[c]: the whole response has been written
    ioPc, ioConn  \* control state of the threads of the pool

mainVars == <<mainPc, iosStopped>>
acceptVars == <<m_isStopped, acceptor, acceptOp, acceptConn>>
netVars == <<client, backlog>>
serviceVars == <<service, op, opState, opEc, answered>>
ioVars == <<ioPc, ioConn>>
vars == <<mainVars, acceptVars, netVars, serviceVars, ioVars>>

MainPcs == {"start", "spawn", "up", "stop", "join", "stopped", "destroyed"}
IoPcs == {"unborn", "run", "rearm", "process", "exited"}

Init ==
    /\ mainPc = "start"
    /\ iosStopped = FALSE
    /\ m_isStopped = FALSE
    /\ acceptor = "none"
    /\ acceptOp = "none"
    /\ acceptConn = NoConn
    /\ client = [c \in Conns |-> "absent"]
    /\ backlog = {}
    /\ service = [c \in Conns |-> "none"]
    /\ op = [c \in Conns |-> "none"]
    /\ opState = [c \in Conns |-> "none"]
    /\ opEc = [c \in Conns |-> "ok"]
    /\ answered = [c \in Conns |-> FALSE]
    /\ ioPc = [t \in IoThreads |-> "unborn"]
    /\ ioConn = [t \in IoThreads |-> NoConn]

-----------------------------------------------------------------------------
(***************************************************************************)
(* The thread that owns the Server.                                        *)
(***************************************************************************)

\* Server::Start up to acc->Start(): the acceptor listens and its first
\* async_accept is started, before any thread runs m_ios.
StartAcceptor ==
    /\ mainPc = "start"
    /\ acceptor' = "listening"
    /\ acceptOp' = "pending"
    /\ mainPc' = "spawn"
    /\ UNCHANGED <<iosStopped, m_isStopped, acceptConn, netVars, serviceVars, ioVars>>

\* One turn of the loop of Server::Start; the last one ends it.
SpawnThread(t) ==
    /\ mainPc = "spawn"
    /\ ioPc[t] = "unborn"
    /\ ioPc' = [ioPc EXCEPT ![t] = "run"]
    /\ mainPc' = IF \A r \in IoThreads \ {t} : ioPc[r] # "unborn"
                 THEN "up" ELSE "spawn"
    /\ UNCHANGED <<iosStopped, acceptVars, netVars, serviceVars, ioConn>>

\* Server::Stop: acc->Stop() only sets the flag.
StopAcceptor ==
    /\ mainPc = "up"
    /\ m_isStopped' = TRUE
    /\ mainPc' = "stop"
    /\ UNCHANGED <<iosStopped, acceptor, acceptOp, acceptConn, netVars,
                   serviceVars, ioVars>>

\* Mutant: m_ios.stop() is left out, the pool is expected to run dry.
StopWithoutIos ==
    /\ mainPc = "stop"
    /\ mainPc' = "join"
    /\ UNCHANGED <<iosStopped, acceptVars, netVars, serviceVars, ioVars>>

\* Server::Stop: m_ios.stop() lets the threads leave m_ios.run() with handlers
\* still queued and operations still pending.
StopIos ==
    /\ mainPc = "stop"
    /\ iosStopped' = TRUE
    /\ mainPc' = "join"
    /\ UNCHANGED <<acceptVars, netVars, serviceVars, ioVars>>

\* Server::Stop: every thread of the pool has been joined.
Join ==
    /\ mainPc = "join"
    /\ \A t \in IoThreads : ioPc[t] = "exited"
    /\ mainPc' = "stopped"
    /\ UNCHANGED <<iosStopped, acceptVars, netVars, serviceVars, ioVars>>

\* main leaves the block of srv: the acceptor is closed and m_ios destroys the
\* handlers it still has without calling them.
DestroyServer ==
    /\ mainPc = "stopped"
    /\ mainPc' = "destroyed"
    /\ acceptor' = "closed"
    /\ acceptOp' = "none"
    /\ acceptConn' = NoConn
    /\ backlog' = {}
    /\ opState' = [c \in Conns |-> "none"]
    /\ UNCHANGED <<iosStopped, m_isStopped, client, service, op, opEc, answered,
                   ioVars>>

-----------------------------------------------------------------------------
(***************************************************************************)
(* The clients and the operating system (external).                        *)
(***************************************************************************)

\* A client asks for a connection; the kernel queues it for the acceptor.
Connect(c) ==
    /\ client[c] = "absent"
    /\ acceptor = "listening"
    /\ client' = [client EXCEPT ![c] = IF m_isStopped THEN "late" ELSE "early"]
    /\ backlog' = backlog \cup {c}
    /\ UNCHANGED <<mainVars, acceptVars, serviceVars, ioVars>>

\* The async_accept operation takes a connection, or fails with an error that
\* leaves the backlog alone (no descriptors, connection aborted, ...).
AcceptOk(c) ==
    /\ acceptOp = "pending"
    /\ c \in backlog
    /\ acceptOp' = "ready"
    /\ acceptConn' = c
    /\ backlog' = backlog \ {c}
    /\ UNCHANGED <<mainVars, m_isStopped, acceptor, client, serviceVars, ioVars>>

AcceptError ==
    /\ acceptOp = "pending"
    /\ acceptOp' = "ready"
    /\ acceptConn' = NoConn
    /\ UNCHANGED <<mainVars, m_isStopped, acceptor, netVars, serviceVars, ioVars>>

\* The Service's pending read or write ends.
OpComplete(c, e) ==
    /\ opState[c] = "pending"
    /\ opState' = [opState EXCEPT ![c] = "ready"]
    /\ opEc' = [opEc EXCEPT ![c] = e]
    /\ answered' = IF op[c] = "write" /\ e = "ok"
                   THEN [answered EXCEPT ![c] = TRUE] ELSE answered
    /\ UNCHANGED <<mainVars, acceptVars, netVars, service, op, ioVars>>

-----------------------------------------------------------------------------
(***************************************************************************)
(* The threads of the pool.                                                *)
(***************************************************************************)

\* A thread in m_ios.run() may take a handler from the queue.
Idle(t) == ioPc[t] = "run" /\ ~iosStopped

\* new Service(sock) and its StartHandling: the request line is awaited.
StartHandling(c) ==
    /\ service' = [service EXCEPT ![c] = "alive"]
    /\ op' = [op EXCEPT ![c] = "read"]
    /\ opState' = [opState EXCEPT ![c] = "pending"]

\* Acceptor::onAccept up to its look at m_isStopped.
OnAccept(t) ==
    /\ Idle(t)
    /\ acceptOp = "ready"
    /\ acceptOp' = "none"
    /\ acceptConn' = NoConn
    /\ IF acceptConn # NoConn THEN StartHandling(acceptConn)
                              ELSE UNCHANGED <<service, op, opState>>
    /\ ioPc' = [ioPc EXCEPT ![t] = "rearm"]
    /\ UNCHANGED <<mainVars, m_isStopped, acceptor, netVars, opEc, answered, ioConn>>

\* Mutants: the acceptor is closed without a look at m_isStopped; the next accept
\* is started even when the acceptor is closed.
RearmNever == acceptor' = "closed" /\ UNCHANGED acceptOp
RearmAlways ==
    /\ acceptOp' = "pending"
    /\ acceptor' = IF m_isStopped THEN "closed" ELSE acceptor

\* The end of Acceptor::onAccept: InitAccept, or m_acceptor.close().
Rearm == IF m_isStopped
         THEN acceptor' = "closed" /\ UNCHANGED acceptOp
         ELSE acceptOp' = "pending" /\ UNCHANGED acceptor

OnAcceptEnd(t) ==
    /\ ioPc[t] = "rearm"
    /\ Rearm
    /\ ioPc' = [ioPc EXCEPT ![t] = "run"]
    /\ UNCHANGED <<mainVars, m_isStopped, acceptConn, netVars, serviceVars, ioConn>>

\* Mutant: onFinish forgets delete this.
FinishLeaks(c) == UNCHANGED service

\* Service::onFinish: delete this.
OnFinish(c) == service' = [service EXCEPT ![c] = "deleted"]

\* Mutant: the return after onFinish is missing.
RequestFallsThrough(t, c) ==
    /\ Idle(t)
    /\ opState[c] = "ready"
    /\ op[c] = "read"
    /\ opEc[c] # "ok"
    /\ opState' = [opState EXCEPT ![c] = "running"]
    /\ OnFinish(c)
    /\ ioPc' = [ioPc EXCEPT ![t] = "process"]
    /\ ioConn' = [ioConn EXCEPT ![t] = c]
    /\ UNCHANGED <<mainVars, acceptVars, netVars, op, opEc, answered>>

\* Service::onRequestReceived given an error: the Service deletes itself.
RequestFailed(t, c) ==
    /\ Idle(t)
    /\ opState[c] = "ready"
    /\ op[c] = "read"
    /\ opEc[c] # "ok"
    /\ opState' = [opState EXCEPT ![c] = "none"]
    /\ OnFinish(c)
    /\ UNCHANGED <<mainVars, acceptVars, netVars, op, opEc, answered, ioVars>>

\* Service::onRequestReceived given no error: ProcessRequest keeps the thread.
RequestReceived(t, c) ==
    /\ Idle(t)
    /\ opState[c] = "ready"
    /\ op[c] = "read"
    /\ opEc[c] = "ok"
    /\ opState' = [opState EXCEPT ![c] = "running"]
    /\ ioPc' = [ioPc EXCEPT ![t] = "process"]
    /\ ioConn' = [ioConn EXCEPT ![t] = c]
    /\ UNCHANGED <<mainVars, acceptVars, netVars, service, op, opEc, answered>>

\* ProcessRequest returns the response and async_write is started.
ProcessRequest(t) ==
    LET c == ioConn[t] IN
    /\ ioPc[t] = "process"
    /\ op' = [op EXCEPT ![c] = "write"]
    /\ opState' = [opState EXCEPT ![c] = "pending"]
    /\ ioPc' = [ioPc EXCEPT ![t] = "run"]
    /\ ioConn' = [ioConn EXCEPT ![t] = NoConn]
    /\ UNCHANGED <<mainVars, acceptVars, netVars, service, opEc, answered>>

\* Service::onResponseSent: with or without an error the Service deletes itself.
OnResponseSent(t, c) ==
    /\ Idle(t)
    /\ opState[c] = "ready"
    /\ op[c] = "write"
    /\ opState' = [opState EXCEPT ![c] = "none"]
    /\ OnFinish(c)
    /\ UNCHANGED <<mainVars, acceptVars, netVars, op, opEc, answered, ioVars>>

\* m_ios.run() returns once m_ios is stopped; the work guard m_work of the
\* Server keeps it from returning before.
IoExit(t) ==
    /\ ioPc[t] = "run"
    /\ iosStopped
    /\ ioPc' = [ioPc EXCEPT ![t] = "exited"]
    /\ UNCHANGED <<mainVars, acceptVars, netVars, serviceVars, ioConn>>

-----------------------------------------------------------------------------
\* Stop() in progress, and the start of the server, go on by themselves; when
\* Stop() is called is the application's choice.
MainStep == \/ StartAcceptor
            \/ \E t \in IoThreads : SpawnThread(t)
            \/ StopIos
            \/ Join
            \/ DestroyServer

AcceptStep == AcceptError \/ \E c \in Conns : AcceptOk(c)

OpEnds(c) == \E e \in {"ok", "error"} : OpComplete(c, e)

RunQueued(t, c) == RequestFailed(t, c) \/ RequestReceived(t, c) \/ OnResponseSent(t, c)

HandlerStep(t) == OnAcceptEnd(t) \/ ProcessRequest(t) \/ IoExit(t)

Next == \/ MainStep
        \/ StopAcceptor
        \/ AcceptStep
        \/ \E c \in Conns : Connect(c) \/ OpEnds(c)
        \/ \E t \in IoThreads : \/ OnAccept(t)
                                \/ HandlerStep(t)
                                \/ \E c \in Conns : RunQueued(t, c)

Spec == Init /\ [][Next]_vars

\* The owner of the Server and the threads of the pool keep running and m_ios
\* serves its queue in order; accepting succeeds in the end; the clients in
\* Talkers send their request and take the response or go away, the others may
\* stay connected in silence.
FairSpec ==
    /\ Spec
    /\ WF_vars(MainStep)
    /\ WF_vars(\E t \in IoThreads : OnAccept(t))
    /\ \A t \in IoThreads : WF_vars(HandlerStep(t))
    /\ \A c \in Conns :
           /\ WF_vars(\E t \in IoThreads : RunQueued(t, c))
           /\ SF_vars(AcceptOk(c))
    /\ \A c \in Talkers : WF_vars(OpEnds(c))

-----------------------------------------------------------------------------
(***************************************************************************)
(* Properties.                                                             *)
(***************************************************************************)

\* Every variable has its type.
TypeOK ==
    /\ mainPc \in MainPcs
    /\ iosStopped \in BOOLEAN
    /\ m_isStopped \in BOOLEAN
    /\ acceptor \in {"none", "listening", "closed"}
    /\ acceptOp \in {"none", "pending", "ready"}
    /\ acceptConn \in Conns \cup {NoConn}
    /\ client \in [Conns -> {"absent", "early", "late"}]
    /\ backlog \subseteq Conns
    /\ service \in [Conns -> {"none", "alive", "deleted"}]
    /\ op \in [Conns -> {"none", "read", "write"}]
    /\ opState \in [Conns -> {"none", "pending", "ready", "running"}]
    /\ opEc \in [Conns -> {"ok", "error"}]
    /\ answered \in [Conns -> BOOLEAN]
    /\ ioPc \in [IoThreads -> IoPcs]
    /\ ioConn \in [IoThreads -> Conns \cup {NoConn}]

\* The chain of accepts is neither broken nor doubled: while the acceptor
\* listens there is exactly one async_accept outstanding or one thread inside
\* onAccept, and a closed acceptor has neither.
OneAcceptChain ==
    LET rearming == {t \in IoThreads : ioPc[t] = "rearm"} IN
    /\ acceptor = "listening" =>
           \/ acceptOp # "none" /\ rearming = {}
           \/ acceptOp = "none" /\ \E t \in IoThreads : rearming = {t}
    /\ acceptor # "listening" => acceptOp = "none" /\ rearming = {}

\* A Service object is used only while it exists: no operation or handler that
\* holds its this pointer outlives delete this.
NoUseAfterDelete ==
    \A c \in Conns :
        opState[c] # "none" \/ (\E t \in IoThreads : ioConn[t] = c)
            => service[c] = "alive"

\* A Service that lives is in exactly one place: its operation is outstanding,
\* or one thread processes its request.  A Service with neither would never be
\* deleted; only the destruction of the Server leaves such Services behind.
LivingServiceIsInHand ==
    \A c \in Conns : service[c] = "alive" /\ mainPc # "destroyed" =>
        /\ opState[c] # "none"
        /\ opState[c] = "running" <=> \E t \in IoThreads : ioConn[t] = c
        /\ \A t1, t2 \in IoThreads : ioConn[t1] = c /\ ioConn[t2] = c => t1 = t2

\* A client whose connection was given up without an error got its response.
DeletedIsAnswered ==
    \A c \in Conns : service[c] = "deleted" /\ opEc[c] = "ok" => answered[c]

\* Server::Stop returns, whatever the clients do and although reads are pending.
StopReturns == mainPc = "stop" ~> mainPc \in {"stopped", "destroyed"}

\* A client that sends its request is served whatever the others do: silent
\* connections and failing accepts hold nobody else up, until m_ios is stopped.
TalkersAreServed ==
    \A c \in Talkers : client[c] = "early" ~> (service[c] = "deleted" \/ iosStopped)

\* The flag does end the chain: of the connections asked for after Acceptor::Stop
\* has returned at most one is given a Service.
OneLateAccept ==
    \A c, d \in Conns :
        client[c] = "late" /\ client[d] = "late" /\ service[c] # "none" /\ service[d] # "none"
            => c = d

=============================================================================
