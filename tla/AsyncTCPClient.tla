---------------------------- MODULE AsyncTCPClient ----------------------------
(***************************************************************************)
(* The asynchronous TCP client of src/chapter3/asyncTCPClientMT (and of    *)
(* src/chapter3/asyncTCPClient, which is the same program with a single    *)
(* I/O thread).                                                            *)
(*                                                                         *)
(* Application threads (Users) call emulateLongComputationOp,              *)
(* cancelRequest and close; the threads of the pool (IoThreads) run        *)
(* m_ios.run() and execute the completion handlers of the chain connect -> *)
(* write -> read of every session.  A session is guarded by its own mutex  *)
(* m_cancel_guard, the map of active sessions by m_active_sessions_guard.  *)
(*                                                                         *)
(* A critical section that cannot block inside is one step.  The two that  *)
(* can block while holding a mutex are split: cancelRequest waits for      *)
(* m_cancel_guard while it holds m_active_sessions_guard, and a handler    *)
(* that found its session cancelled waits for m_active_sessions_guard      *)
(* while it holds m_cancel_guard.                                          *)
(***************************************************************************)
EXTENDS Naturals

CONSTANTS
    Sessions,    \* one Session object per call of emulateLongComputationOp
    Ids,         \* the request identifiers
    IdOf,        \* IdOf[s]: the m_id the caller gave to session s
    IoThreads,   \* the threads of m_threads
    Users,       \* the application's threads
    MaxCancels,  \* bound: calls of cancelRequest that find a session, per id
    NoSession, NoThread

ASSUME ClientAssumption ==
    /\ IdOf \in [Sessions -> Ids]
    /\ MaxCancels \in Nat
    /\ NoSession \notin Sessions
    /\ NoThread \notin IoThreads \cup Users
    /\ IoThreads \cap Users = {}
    /\ IoThreads # {}

VARIABLES
    m_active_sessions,  \* the map id -> session
    guardOwner,         \* the user inside cancelRequest's critical section
    cancelOwner,        \* cancelOwner[s]: the I/O thread keeping m_cancel_guard
    m_was_cancelled,
    m_ec,
    m_response,         \* m_response[s]: the response line has been stored
    m_sock,             \* state of the session's socket
    op,                 \* the latest asynchronous operation of the session
    opState,            \* where that operation is
    opEc,               \* the error code its handler will be given
    ioPc, ioSession,    \* control state of the I/O threads
    userPc, userSession,\* control state of the application's threads
    m_work,             \* the executor work guard is alive
    cancelCalls,        \* cancelCalls[i]: calls cancelRequest(i) that found i
    calls,              \* calls[s]: how often m_callback was called
    verdict             \* the error code of the latest call of m_callback

sessionVars == <<m_was_cancelled, m_ec, m_response, m_sock>>
opVars   == <<op, opState, opEc>>
userVars == <<userPc, userSession>>
ioVars   == <<ioPc, ioSession>>
resultVars == <<calls, verdict>>
vars == <<m_active_sessions, guardOwner, cancelOwner, sessionVars, opVars,
          ioVars, userVars, m_work, cancelCalls, resultVars>>

ErrorCodes == {"ok", "error", "aborted"}
Ops == {"none", "connect", "write", "read"}

\* "pending": the reactor waits for the socket; "part": an inner completion of
\* a composed operation (async_write, async_read_until) is queued; "ready": the
\* handler is queued; "running": an I/O thread executes the handler.
OpStates == {"none", "pending", "part", "ready", "running"}
SockStates == {"unopened", "open", "connected", "shutdown"}
IoPcs == {"run", "lock", "shutdown", "erase", "callback", "exited"}
UserPcs == {"idle", "connect", "cancel", "join", "closed"}

Init ==
    /\ m_active_sessions = [i \in Ids |-> NoSession]
    /\ guardOwner = NoThread
    /\ cancelOwner = [s \in Sessions |-> NoThread]
    /\ m_was_cancelled = [s \in Sessions |-> FALSE]
    /\ m_ec = [s \in Sessions |-> "ok"]
    /\ m_response = [s \in Sessions |-> FALSE]
    /\ m_sock = [s \in Sessions |-> "unopened"]
    /\ op = [s \in Sessions |-> "none"]
    /\ opState = [s \in Sessions |-> "none"]
    /\ opEc = [s \in Sessions |-> "ok"]
    /\ ioPc = [t \in IoThreads |-> "run"]
    /\ ioSession = [t \in IoThreads |-> NoSession]
    /\ userPc = [u \in Users |-> "idle"]
    /\ userSession = [u \in Users |-> NoSession]
    /\ m_work = TRUE
    /\ cancelCalls = [i \in Ids |-> 0]
    /\ calls = [s \in Sessions |-> 0]
    /\ verdict = [s \in Sessions |-> "none"]

-----------------------------------------------------------------------------
(***************************************************************************)
(* The calls of the application.                                           *)
(***************************************************************************)

\* m_active_sessions[request_id] = session.
InsertSession(s) == m_active_sessions' = [m_active_sessions EXCEPT ![IdOf[s]] = s]

\* emulateLongComputationOp up to lock.unlock(): the session is created, its
\* socket opened and the session entered into the map, over a session that is
\* still there under the same id.  The caller may not start requests once it
\* has called close().
Emulate(u, s) ==
    /\ userPc[u] = "idle"
    /\ m_work
    /\ m_sock[s] = "unopened"
    /\ guardOwner = NoThread
    /\ m_sock' = [m_sock EXCEPT ![s] = "open"]
    /\ InsertSession(s)
    /\ userPc' = [userPc EXCEPT ![u] = "connect"]
    /\ userSession' = [userSession EXCEPT ![u] = s]
    /\ UNCHANGED <<guardOwner, cancelOwner, m_was_cancelled, m_ec, m_response,
                   opVars, ioVars, m_work, cancelCalls, resultVars>>

\* The operation o of session s is handed to the reactor.
StartOp(s, o) ==
    /\ op' = [op EXCEPT ![s] = o]
    /\ opState' = [opState EXCEPT ![s] = "pending"]

\* The rest of emulateLongComputationOp, outside the lock: a cancelRequest that
\* came in between found a socket with nothing to cancel.
AsyncConnect(u) ==
    /\ userPc[u] = "connect"
    /\ StartOp(userSession[u], "connect")
    /\ userPc' = [userPc EXCEPT ![u] = "idle"]
    /\ userSession' = [userSession EXCEPT ![u] = NoSession]
    /\ UNCHANGED <<m_active_sessions, guardOwner, cancelOwner, sessionVars,
                   opEc, ioVars, m_work, cancelCalls, resultVars>>

\* cancelRequest finds the id and keeps m_active_sessions_guard while it waits
\* for the session's m_cancel_guard (an id that is not found changes nothing).
CancelFind(u, i) ==
    /\ userPc[u] = "idle"
    /\ guardOwner = NoThread
    /\ m_active_sessions[i] # NoSession
    /\ cancelCalls[i] < MaxCancels
    /\ guardOwner' = u
    /\ cancelCalls' = [cancelCalls EXCEPT ![i] = @ + 1]
    /\ userPc' = [userPc EXCEPT ![u] = "cancel"]
    /\ userSession' = [userSession EXCEPT ![u] = m_active_sessions[i]]
    /\ UNCHANGED <<m_active_sessions, cancelOwner, sessionVars, opVars, ioVars,
                   m_work, resultVars>>

\* m_sock.cancel() reaches only an operation the reactor still waits for: its
\* handler is queued with operation_aborted.  An inner completion that is
\* already queued is not recalled.
CancelOps(s) ==
    IF opState[s] = "pending"
    THEN /\ opState' = [opState EXCEPT ![s] = "ready"]
         /\ opEc' = [opEc EXCEPT ![s] = "aborted"]
    ELSE UNCHANGED <<opState, opEc>>

\* cancelRequest, once it holds both mutexes, to its end.
CancelSession(u) ==
    LET s == userSession[u] IN
    /\ userPc[u] = "cancel"
    /\ cancelOwner[s] = NoThread
    /\ m_was_cancelled' = [m_was_cancelled EXCEPT ![s] = TRUE]
    /\ CancelOps(s)
    /\ guardOwner' = NoThread
    /\ userPc' = [userPc EXCEPT ![u] = "idle"]
    /\ userSession' = [userSession EXCEPT ![u] = NoSession]
    /\ UNCHANGED <<m_active_sessions, cancelOwner, m_ec, m_response, m_sock, op,
                   ioVars, m_work, cancelCalls, resultVars>>

\* Mutant: the work guard is kept.
CloseKeepsWork(u) ==
    /\ userPc[u] = "idle"
    /\ m_work
    /\ \A v \in Users : userPc[v] # "connect"
    /\ userPc' = [userPc EXCEPT ![u] = "join"]
    /\ UNCHANGED <<m_active_sessions, guardOwner, cancelOwner, sessionVars,
                   opVars, ioVars, userSession, m_work, cancelCalls, resultVars>>

\* close(): m_work.reset().  The caller closes once, after its calls of
\* emulateLongComputationOp have returned.
CloseReset(u) ==
    /\ userPc[u] = "idle"
    /\ m_work
    /\ \A v \in Users : userPc[v] # "connect"
    /\ m_work' = FALSE
    /\ userPc' = [userPc EXCEPT ![u] = "join"]
    /\ UNCHANGED <<m_active_sessions, guardOwner, cancelOwner, sessionVars,
                   opVars, ioVars, userSession, cancelCalls, resultVars>>

\* Mutant: close() does not wait for the threads.
CloseDetaches(u) ==
    /\ userPc[u] = "join"
    /\ userPc' = [userPc EXCEPT ![u] = "closed"]
    /\ UNCHANGED <<m_active_sessions, guardOwner, cancelOwner, sessionVars,
                   opVars, ioVars, userSession, m_work, cancelCalls, resultVars>>

\* close(): every thread has been joined.
CloseJoin(u) ==
    /\ userPc[u] = "join"
    /\ \A t \in IoThreads : ioPc[t] = "exited"
    /\ userPc' = [userPc EXCEPT ![u] = "closed"]
    /\ UNCHANGED <<m_active_sessions, guardOwner, cancelOwner, sessionVars,
                   opVars, ioVars, userSession, m_work, cancelCalls, resultVars>>

-----------------------------------------------------------------------------
(***************************************************************************)
(* The operating system and the peer (external).                           *)
(***************************************************************************)

\* The awaited operation of s finishes, successfully or with an error.
OpComplete(s, e) ==
    /\ opState[s] = "pending"
    /\ opState' = [opState EXCEPT ![s] = "ready"]
    /\ opEc' = [opEc EXCEPT ![s] = e]
    /\ m_sock' = IF op[s] = "connect" /\ e = "ok"
                 THEN [m_sock EXCEPT ![s] = "connected"] ELSE m_sock
    /\ UNCHANGED <<m_active_sessions, guardOwner, cancelOwner, m_was_cancelled,
                   m_ec, m_response, op, ioVars, userVars, m_work, cancelCalls,
                   resultVars>>

\* Part of the request was written, or part of the response line arrived.
OpPartial(s) ==
    /\ opState[s] = "pending"
    /\ op[s] \in {"write", "read"}
    /\ opState' = [opState EXCEPT ![s] = "part"]
    /\ UNCHANGED <<m_active_sessions, guardOwner, cancelOwner, sessionVars, op,
                   opEc, ioVars, userVars, m_work, cancelCalls, resultVars>>

-----------------------------------------------------------------------------
(***************************************************************************)
(* The I/O threads: m_ios.run().                                           *)
(***************************************************************************)

\* The inner completion of a composed operation only waits for the rest.
RunPartial(t, s) ==
    /\ ioPc[t] = "run"
    /\ opState[s] = "part"
    /\ opState' = [opState EXCEPT ![s] = "pending"]
    /\ UNCHANGED <<m_active_sessions, guardOwner, cancelOwner, sessionVars, op,
                   opEc, ioVars, userVars, m_work, cancelCalls, resultVars>>

\* Thread t dequeues the handler of operation o of session s and goes to pc.
Dispatch(t, s, o, pc) ==
    /\ ioPc[t] = "run"
    /\ opState[s] = "ready"
    /\ op[s] = o
    /\ opState' = [opState EXCEPT ![s] = "running"]
    /\ ioPc' = [ioPc EXCEPT ![t] = pc]
    /\ ioSession' = [ioSession EXCEPT ![t] = s]

\* Mutant: m_cancel_guard is locked before the error is looked at.
HandleErrorLocked(t, s, o) ==
    /\ opEc[s] # "ok"
    /\ cancelOwner[s] = NoThread
    /\ Dispatch(t, s, o, "shutdown")
    /\ m_ec' = [m_ec EXCEPT ![s] = opEc[s]]
    /\ cancelOwner' = [cancelOwner EXCEPT ![s] = t]
    /\ UNCHANGED <<m_active_sessions, guardOwner, m_was_cancelled, m_response,
                   m_sock, op, opEc, userVars, m_work, cancelCalls, resultVars>>

\* Mutant: a handler given an error returns without calling onRequestComplete.
HandleErrorDropped(t, s, o) ==
    /\ ioPc[t] = "run"
    /\ opState[s] = "ready"
    /\ op[s] = o
    /\ opEc[s] # "ok"
    /\ opState' = [opState EXCEPT ![s] = "none"]
    /\ m_ec' = [m_ec EXCEPT ![s] = opEc[s]]
    /\ UNCHANGED <<m_active_sessions, guardOwner, cancelOwner, m_was_cancelled,
                   m_response, m_sock, op, opEc, ioVars, userVars, m_work,
                   cancelCalls, resultVars>>

\* A handler given an error stores it and calls onRequestComplete.
HandleError(t, s, o) ==
    /\ opEc[s] # "ok"
    /\ Dispatch(t, s, o, "shutdown")
    /\ m_ec' = [m_ec EXCEPT ![s] = opEc[s]]
    /\ UNCHANGED <<m_active_sessions, guardOwner, cancelOwner, m_was_cancelled,
                   m_response, m_sock, op, opEc, userVars, m_work, cancelCalls,
                   resultVars>>

\* A connect or write handler given no error goes on to lock m_cancel_guard.
HandleOk(t, s, o) ==
    /\ opEc[s] = "ok"
    /\ Dispatch(t, s, o, "lock")
    /\ UNCHANGED <<m_active_sessions, guardOwner, cancelOwner, sessionVars, op,
                   opEc, userVars, m_work, cancelCalls, resultVars>>

\* The handler of async_connect, up to the lock.
ConnectHandler(t, s) == HandleError(t, s, "connect") \/ HandleOk(t, s, "connect")

\* The handler of async_write, up to the lock.
WriteHandler(t, s) == HandleError(t, s, "write") \/ HandleOk(t, s, "write")

\* The read handler given no error stores the response line and calls
\* onRequestComplete.
ReadResponse(t, s) ==
    /\ opEc[s] = "ok"
    /\ Dispatch(t, s, "read", "shutdown")
    /\ m_response' = [m_response EXCEPT ![s] = TRUE]
    /\ UNCHANGED <<m_active_sessions, guardOwner, cancelOwner, m_was_cancelled,
                   m_ec, m_sock, op, opEc, userVars, m_work, cancelCalls,
                   resultVars>>

\* The handler of async_read_until; it takes no lock.
ReadHandler(t, s) == HandleError(t, s, "read") \/ ReadResponse(t, s)

\* The handler found its session cancelled: it calls onRequestComplete and
\* keeps m_cancel_guard until it returns.
FoundCancelled(t) ==
    LET s == ioSession[t] IN
    /\ ioPc[t] = "lock"
    /\ cancelOwner[s] = NoThread
    /\ m_was_cancelled[s]
    /\ cancelOwner' = [cancelOwner EXCEPT ![s] = t]
    /\ ioPc' = [ioPc EXCEPT ![t] = "shutdown"]
    /\ UNCHANGED <<m_active_sessions, guardOwner, sessionVars, opVars,
                   ioSession, userVars, m_work, cancelCalls, resultVars>>

\* The handler found its session not cancelled: it starts the next operation
\* while it holds m_cancel_guard, and returns.
StartNext(t) ==
    LET s == ioSession[t] IN
    /\ ioPc[t] = "lock"
    /\ cancelOwner[s] = NoThread
    /\ ~m_was_cancelled[s]
    /\ StartOp(s, IF op[s] = "connect" THEN "write" ELSE "read")
    /\ ioPc' = [ioPc EXCEPT ![t] = "run"]
    /\ ioSession' = [ioSession EXCEPT ![t] = NoSession]
    /\ UNCHANGED <<m_active_sessions, guardOwner, cancelOwner, sessionVars,
                   opEc, userVars, m_work, cancelCalls, resultVars>>

\* onRequestComplete: m_sock.shutdown, whose error (not connected) is ignored.
Shutdown(t) ==
    LET s == ioSession[t] IN
    /\ ioPc[t] = "shutdown"
    /\ m_sock' = IF m_sock[s] = "connected"
                 THEN [m_sock EXCEPT ![s] = "shutdown"] ELSE m_sock
    /\ ioPc' = [ioPc EXCEPT ![t] = "erase"]
    /\ UNCHANGED <<m_active_sessions, guardOwner, cancelOwner, m_was_cancelled,
                   m_ec, m_response, opVars, ioSession, userVars, m_work,
                   cancelCalls, resultVars>>

\* Mutants: the session stays in the map; the whole map is cleared.
EraseNothing(s) == UNCHANGED m_active_sessions
EraseAll(s) == m_active_sessions' = [i \in Ids |-> NoSession]

\* m_active_sessions.erase(it) for the session's id, whichever session is there.
EraseSession(s) ==
    m_active_sessions' = [m_active_sessions EXCEPT ![IdOf[s]] = NoSession]

\* onRequestComplete: whatever session is under the id leaves the map.
Erase(t) ==
    LET s == ioSession[t] IN
    /\ ioPc[t] = "erase"
    /\ guardOwner = NoThread
    /\ EraseSession(s)
    /\ ioPc' = [ioPc EXCEPT ![t] = "callback"]
    /\ UNCHANGED <<guardOwner, cancelOwner, sessionVars, opVars, ioSession,
                   userVars, m_work, cancelCalls, resultVars>>

\* Mutant: the callback is given m_ec as it is.
CallbackEcPlain(s) == m_ec[s]

\* The error code onRequestComplete gives to the callback.
CallbackEc(s) == IF m_ec[s] = "ok" /\ m_was_cancelled[s] THEN "aborted" ELSE m_ec[s]

\* The handler of s returns with no operation outstanding.
HandlerReturns(s) == opState' = [opState EXCEPT ![s] = "none"] /\ UNCHANGED op

\* onRequestComplete calls m_callback and returns; the handler returns too and
\* releases m_cancel_guard if it holds it.
Callback(t) ==
    LET s == ioSession[t] IN
    /\ ioPc[t] = "callback"
    /\ verdict' = [verdict EXCEPT ![s] = CallbackEc(s)]
    /\ calls' = [calls EXCEPT ![s] = @ + 1]
    /\ cancelOwner' = [cancelOwner EXCEPT ![s] = NoThread]
    /\ HandlerReturns(s)
    /\ ioPc' = [ioPc EXCEPT ![t] = "run"]
    /\ ioSession' = [ioSession EXCEPT ![t] = NoSession]
    /\ UNCHANGED <<m_active_sessions, guardOwner, sessionVars, opEc, userVars,
                   m_work, cancelCalls>>

\* m_ios.run() returns: no work guard and no outstanding operation.
IoExit(t) ==
    /\ ioPc[t] = "run"
    /\ ~m_work
    /\ \A s \in Sessions : opState[s] = "none"
    /\ ioPc' = [ioPc EXCEPT ![t] = "exited"]
    /\ UNCHANGED <<m_active_sessions, guardOwner, cancelOwner, sessionVars,
                   opVars, ioSession, userVars, m_work, cancelCalls, resultVars>>

-----------------------------------------------------------------------------
\* Steps of calls in progress; which calls are made is the application's choice.
UserStep(u) == \/ AsyncConnect(u) \/ CancelSession(u) \/ CloseJoin(u)

UserNext(u) == \/ \E s \in Sessions : Emulate(u, s)
               \/ \E i \in Ids : CancelFind(u, i)
               \/ CloseReset(u)
               \/ UserStep(u)

\* A thread in m_ios.run() takes what is queued for session s.
RunQueued(t, s) == \/ RunPartial(t, s)
                   \/ ConnectHandler(t, s)
                   \/ WriteHandler(t, s)
                   \/ ReadHandler(t, s)

\* A thread goes on with the handler it executes, or leaves m_ios.run().
HandlerStep(t) == \/ FoundCancelled(t)
                  \/ StartNext(t)
                  \/ Shutdown(t)
                  \/ Erase(t)
                  \/ Callback(t)
                  \/ IoExit(t)

IoStep(t) == (\E s \in Sessions : RunQueued(t, s)) \/ HandlerStep(t)

OpEnds(s) == \E e \in {"ok", "error"} : OpComplete(s, e)

NetStep(s) == OpEnds(s) \/ OpPartial(s)

Next == \/ \E u \in Users : UserNext(u)
        \/ \E t \in IoThreads : IoStep(t)
        \/ \E s \in Sessions : NetStep(s)

Spec == Init /\ [][Next]_vars

\* A step of some thread of the program, in a call or in m_ios.run().
ProgramStep == \/ \E u \in Users : UserStep(u)
               \/ \E t \in IoThreads : IoStep(t)

\* Some thread that can run does run, and the peer answers, or the connection
\* breaks, after finitely many pieces.
FairSpec ==
    /\ Spec
    /\ WF_vars(ProgramStep)
    /\ \A s \in Sessions : SF_vars(OpEnds(s))

\* A peer that accepts the connection and takes the request but never sends the
\* end of a response line: nothing makes the read operation end.
SilentPeerSpec ==
    /\ Spec
    /\ WF_vars(ProgramStep)
    /\ \A s \in Sessions : SF_vars(op[s] # "read" /\ OpEnds(s))

-----------------------------------------------------------------------------
(***************************************************************************)
(* Properties.                                                             *)
(***************************************************************************)

Started(s) == m_sock[s] # "unopened"

\* The I/O thread t executes the handler of session s and is at one of pcs.
Handles(t, s, pcs) == ioPc[t] \in pcs /\ ioSession[t] = s

\* Every variable has its type.
TypeOK ==
    /\ m_active_sessions \in [Ids -> Sessions \cup {NoSession}]
    /\ guardOwner \in Users \cup {NoThread}
    /\ cancelOwner \in [Sessions -> IoThreads \cup {NoThread}]
    /\ m_was_cancelled \in [Sessions -> BOOLEAN]
    /\ m_ec \in [Sessions -> ErrorCodes]
    /\ m_response \in [Sessions -> BOOLEAN]
    /\ m_sock \in [Sessions -> SockStates]
    /\ op \in [Sessions -> Ops]
    /\ opState \in [Sessions -> OpStates]
    /\ opEc \in [Sessions -> ErrorCodes]
    /\ ioPc \in [IoThreads -> IoPcs]
    /\ ioSession \in [IoThreads -> Sessions \cup {NoSession}]
    /\ userPc \in [Users -> UserPcs]
    /\ userSession \in [Users -> Sessions \cup {NoSession}]
    /\ m_work \in BOOLEAN
    /\ cancelCalls \in [Ids -> 0 .. MaxCancels]
    /\ calls \in [Sessions -> Nat]
    /\ verdict \in [Sessions -> ErrorCodes \cup {"none"}]

\* onRequestComplete runs once per request: whatever the order of handlers,
\* errors and cancellations, m_callback is never called a second time.
CallbackOnce == \A s \in Sessions : calls[s] <= 1

\* The error code given to the callback tells the truth: success only with a
\* stored response and without a cancellation, aborted only after one.
VerdictFaithful ==
    \A s \in Sessions :
        /\ verdict[s] = "ok" => m_response[s] /\ ~m_was_cancelled[s]
        /\ verdict[s] = "aborted" => m_was_cancelled[s]

\* onRequestComplete reads m_was_cancelled without m_cancel_guard when it comes
\* from an error or from the read handler; no cancelRequest is then about to
\* write it, because the session was erased under m_active_sessions_guard.
NoFlagRace ==
    \A t \in IoThreads, u \in Users :
        ioPc[t] = "callback" /\ userPc[u] = "cancel" => ioSession[t] # userSession[u]

\* Once the callback has returned nothing refers to the session any more: the
\* last shared_ptr goes, with the mutex and the socket inside, and no thread,
\* queued operation, map entry or lock still uses them.
FinishedIsReleased ==
    \A s \in Sessions : calls[s] > 0 =>
        /\ \A i \in Ids : m_active_sessions[i] # s
        /\ \A u \in Users : userSession[u] # s
        /\ \A t \in IoThreads : ioSession[t] # s
        /\ opState[s] = "none"
        /\ cancelOwner[s] = NoThread
        /\ m_sock[s] # "connected"

\* With unique ids a request that has not completed can be found by
\* cancelRequest: it is in m_active_sessions until its own completion erases it.
ActiveIsCancellable ==
    \A s \in Sessions :
        /\ Started(s)
        /\ calls[s] = 0
        /\ \A t \in IoThreads : ~Handles(t, s, {"callback"})
        => m_active_sessions[IdOf[s]] = s

\* A handler keeps m_cancel_guard and waits for m_active_sessions_guard, whose
\* owner waits for that m_cancel_guard.
LockCycle(t, u) ==
    /\ ioPc[t] = "erase"
    /\ userPc[u] = "cancel"
    /\ guardOwner = u
    /\ cancelOwner[userSession[u]] = t

\* The two mutexes are taken in opposite orders by cancelRequest and by a
\* handler that completes a cancelled request; they can block each other only
\* when the same request is cancelled a second time.
LockCycleNeedsTwoCancels ==
    \A t \in IoThreads, u \in Users :
        LockCycle(t, u) => cancelCalls[IdOf[userSession[u]]] >= 2

\* When close() has returned every request has been answered: no handler is
\* left behind in m_ios when the I/O threads are gone.
CloseCompletesAll ==
    (\E u \in Users : userPc[u] = "closed")
        => \A s \in Sessions : Started(s) => calls[s] = 1

\* Every request is answered: m_callback is called whatever errors and
\* cancellations happen.
EveryRequestCompletes == \A s \in Sessions : Started(s) ~> calls[s] > 0

Deadlocked == \E t \in IoThreads, u \in Users : LockCycle(t, u)

\* The inverted lock order is the only thing that can keep a request from being
\* answered: without a lock cycle m_callback is called in the end.
AnsweredUnlessDeadlocked ==
    \A s \in Sessions : Started(s) ~> (calls[s] > 0 \/ Deadlocked)

\* close() returns, unless a lock cycle keeps an I/O thread for ever.
CloseReturns ==
    \A u \in Users : (userPc[u] = "join") ~> (userPc[u] = "closed" \/ Deadlocked)

\* cancelRequest ends the request, whatever the peer does.
CancelEndsRequest == \A s \in Sessions : m_was_cancelled[s] ~> calls[s] > 0

-----------------------------------------------------------------------------
(***************************************************************************)
(* The client implements RequestSpec.                                      *)
(***************************************************************************)

phase == [s \in Sessions |-> IF ~Started(s) THEN "idle"
                             ELSE IF calls[s] = 0 THEN "active" ELSE "done"]

closed == \E u \in Users : userPc[u] = "closed"

Request == INSTANCE RequestSpec WITH cancelled <- m_was_cancelled,
                                     answer <- verdict

\* Every step of the client is a step of RequestSpec or leaves it unchanged.
ImplementsRequest == Request!Spec

=============================================================================
