------------------------------ MODULE HTTPClient ------------------------------
(***************************************************************************)
(* The asynchronous HTTP client of src/chapter5/HTTPClient.                *)
(*                                                                         *)
(* The application's threads (Users) call HTTPRequest::execute and cancel  *)
(* and HTTPClient::close; the one I/O thread runs m_ios.run() and executes *)
(* the handlers of the chain resolve -> connect -> write -> status line -> *)
(* headers -> body of every request.                                       *)
(*                                                                         *)
(* Every critical section of m_cancel_mux is left before on_finish is      *)
(* called and nothing blocks inside it, so it is one step.  A handler is   *)
(* up to three: what it does before the lock, the critical section, and    *)
(* on_finish.                                                              *)
(***************************************************************************)
EXTENDS Naturals

CONSTANTS
    Requests,   \* the HTTPRequest objects
    Users,      \* the application's threads
    MayReset,   \* whether a server may reset a connection
    NoRequest

ASSUME HTTPClientAssumption ==
    /\ NoRequest \notin Requests
    /\ MayReset \in BOOLEAN

VARIABLES
    m_was_cancelled,
    m_sock,      \* state of the request's socket
    m_response,  \* the part of the response stored last
    op,          \* the latest asynchronous operation of the request
    opState,     \* where that operation is
    opEc,        \* the error code its handler will be given
    ioPc,        \* control state of the I/O thread
    ioReq,       \* the request whose handler the I/O thread executes
    ioEc,        \* the error code on_finish is called with
    userPc, userReq,
    m_work,      \* the executor work guard is alive
    calls,       \* calls[r]: how often m_callback was called
    verdict      \* the error code of the latest call of m_callback

requestVars == <<m_was_cancelled, m_sock, m_response>>
opVars == <<op, opState, opEc>>
ioVars == <<ioPc, ioReq, ioEc>>
userVars == <<userPc, userReq>>
resultVars == <<calls, verdict>>
vars == <<requestVars, opVars, ioVars, userVars, m_work, resultVars>>

\* The chain of operations, by the handler that starts the next one.
NextOp == [resolve |-> "connect", connect |-> "write", write |-> "status",
           status |-> "headers", headers |-> "body"]

Ops == {"none", "body"} \cup DOMAIN NextOp
ErrorCodes == {"ok", "error", "eof", "aborted", "invalid_response"}

\* "pending": the resolver or the reactor has not begun with it or waits for
\* the socket; "part": it is beyond recall - getaddrinfo runs, or an inner
\* completion of a composed operation is queued; "ready": the handler is
\* queued; "running": the I/O thread executes the handler.
OpStates == {"none", "pending", "part", "ready", "running"}

Init ==
    /\ m_was_cancelled = [r \in Requests |-> FALSE]
    /\ m_sock = [r \in Requests |-> "closed"]
    /\ m_response = [r \in Requests |-> "nothing"]
    /\ op = [r \in Requests |-> "none"]
    /\ opState = [r \in Requests |-> "none"]
    /\ opEc = [r \in Requests |-> "ok"]
    /\ ioPc = "run" /\ ioReq = NoRequest /\ ioEc = "ok"
    /\ userPc = [u \in Users |-> "idle"]
    /\ userReq = [u \in Users |-> NoRequest]
    /\ m_work = TRUE
    /\ calls = [r \in Requests |-> 0]
    /\ verdict = [r \in Requests |-> "none"]

-----------------------------------------------------------------------------
(***************************************************************************)
(* The calls of the application.                                           *)
(***************************************************************************)

\* r has been executed: an operation was started or on_finish entered.
Executed(r) == op[r] # "none" \/ calls[r] > 0 \/ \E u \in Users : userReq[u] = r

\* The operation o of request r is handed to the resolver or the reactor.
StartOp(r, o) ==
    /\ op' = [op EXCEPT ![r] = o]
    /\ opState' = [opState EXCEPT ![r] = "pending"]

\* execute() of a request that is not cancelled.  A request is executed once,
\* and not after close().
Execute(u, r) ==
    /\ userPc[u] = "idle" /\ m_work /\ ~Executed(r)
    /\ ~m_was_cancelled[r]
    /\ StartOp(r, "resolve")
    /\ UNCHANGED <<requestVars, opEc, ioVars, userVars, m_work,
                   resultVars>>

\* execute() of a request cancelled before: the caller goes on to on_finish.
ExecuteCancelled(u, r) ==
    /\ userPc[u] = "idle" /\ m_work /\ ~Executed(r)
    /\ m_was_cancelled[r]
    /\ userPc' = [userPc EXCEPT ![u] = "finish"]
    /\ userReq' = [userReq EXCEPT ![u] = r]
    /\ UNCHANGED <<requestVars, opVars, ioVars, m_work, resultVars>>

\* on_finish(operation_aborted) on the caller's thread.
FinishInExecute(u) ==
    LET r == userReq[u] IN
    /\ userPc[u] = "finish"
    /\ calls' = [calls EXCEPT ![r] = @ + 1]
    /\ verdict' = [verdict EXCEPT ![r] = "aborted"]
    /\ userPc' = [userPc EXCEPT ![u] = "idle"]
    /\ userReq' = [userReq EXCEPT ![u] = NoRequest]
    /\ UNCHANGED <<requestVars, opVars, ioVars, m_work>>

\* m_resolver.cancel() and m_sock.cancel() reach only what is pending.  The
\* inner connect of async_connect is aborted, and async_connect goes on with
\* the next endpoint when there is one.
CancelOps(r) ==
    IF opState[r] = "pending"
    THEN \/ /\ opState' = [opState EXCEPT ![r] = "ready"]
            /\ opEc' = [opEc EXCEPT ![r] = "aborted"]
         \/ /\ op[r] = "connect"
            /\ opState' = [opState EXCEPT ![r] = "part"]
            /\ UNCHANGED opEc
    ELSE UNCHANGED <<opState, opEc>>

\* cancel(); a second call finds the flag set and cancels again.
Cancel(u, r) ==
    /\ userPc[u] = "idle"
    /\ m_was_cancelled' = [m_was_cancelled EXCEPT ![r] = TRUE]
    /\ CancelOps(r)
    /\ UNCHANGED <<m_sock, m_response, op, ioVars, userVars, m_work,
                   resultVars>>

\* Mutant: the work guard is kept.
CloseKeepsWork(u) ==
    /\ userPc[u] = "idle" /\ m_work
    /\ userPc' = [userPc EXCEPT ![u] = "join"]
    /\ UNCHANGED <<requestVars, opVars, ioVars, userReq, m_work,
                   resultVars>>

\* close(): m_work.reset().  The caller closes once.
CloseReset(u) ==
    /\ userPc[u] = "idle" /\ m_work
    /\ m_work' = FALSE
    /\ userPc' = [userPc EXCEPT ![u] = "join"]
    /\ UNCHANGED <<requestVars, opVars, ioVars, userReq, resultVars>>

\* Mutant: close() does not wait for the I/O thread.
CloseDoesNotJoin(u) ==
    /\ userPc[u] = "join"
    /\ userPc' = [userPc EXCEPT ![u] = "closed"]
    /\ UNCHANGED <<requestVars, opVars, ioVars, userReq, m_work, resultVars>>

\* close(): the I/O thread has been joined.
CloseJoin(u) ==
    /\ userPc[u] = "join" /\ ioPc = "exited"
    /\ userPc' = [userPc EXCEPT ![u] = "closed"]
    /\ UNCHANGED <<requestVars, opVars, ioVars, userReq, m_work,
                   resultVars>>

-----------------------------------------------------------------------------
(***************************************************************************)
(* The resolver, the operating system and the server (external).           *)
(***************************************************************************)

\* What an operation may end with: async_read of the body goes on to the end
\* of the stream, and nothing succeeds on a connection that was reset.
Outcomes(r) ==
    CASE op[r] \in {"resolve", "connect", "write"} -> {"ok", "error"}
      [] op[r] \in {"status", "headers"} -> {"ok", "error", "eof"}
      [] op[r] = "body" -> {"error", "eof"}

\* The operation ends by itself; a resolution also while getaddrinfo runs.
OpComplete(r, e) ==
    /\ opState[r] = "pending" \/ (op[r] = "resolve" /\ opState[r] = "part")
    /\ e \in Outcomes(r)
    /\ m_sock[r] = "reset" => e = "error"
    /\ opState' = [opState EXCEPT ![r] = "ready"]
    /\ opEc' = [opEc EXCEPT ![r] = e]
    /\ m_sock' = IF op[r] = "connect" /\ e = "ok"
                 THEN [m_sock EXCEPT ![r] = "connected"] ELSE m_sock
    /\ UNCHANGED <<m_was_cancelled, m_response, op, ioVars, userVars, m_work, resultVars>>

\* getaddrinfo begins; an endpoint refuses; part of the data is transferred.
OpPartial(r) ==
    /\ opState[r] = "pending"
    /\ opState' = [opState EXCEPT ![r] = "part"]
    /\ UNCHANGED <<requestVars, op, opEc, ioVars, userVars, m_work,
                   resultVars>>

\* The server resets the connection.
Reset(r) ==
    /\ MayReset
    /\ m_sock[r] \in {"connected", "half_closed"}
    /\ m_sock' = [m_sock EXCEPT ![r] = "reset"]
    /\ UNCHANGED <<m_was_cancelled, m_response, opVars, ioVars, userVars, m_work, resultVars>>

-----------------------------------------------------------------------------
(***************************************************************************)
(* The I/O thread: m_ios.run().                                            *)
(***************************************************************************)

\* An inner completion of a composed operation only waits for the rest.
RunPartial(r) ==
    /\ ioPc = "run"
    /\ opState[r] = "part" /\ op[r] # "resolve"
    /\ opState' = [opState EXCEPT ![r] = "pending"]
    /\ UNCHANGED <<requestVars, op, opEc, ioVars, userVars, m_work,
                   resultVars>>

\* The I/O thread dequeues the handler of operation o of request r, goes to pc
\* and keeps e for on_finish.
Dispatch(r, o, pc, e) ==
    /\ ioPc = "run"
    /\ opState[r] = "ready" /\ op[r] = o
    /\ opState' = [opState EXCEPT ![r] = "running"]
    /\ ioPc' = pc /\ ioReq' = r /\ ioEc' = e
    /\ UNCHANGED <<m_was_cancelled, op, opEc, userVars, m_work, resultVars>>

\* Mutant: a handler given an error returns without on_finish.
HandlerFailsDropped(r, o) ==
    /\ opEc[r] # "ok"
    /\ ioPc = "run" /\ opState[r] = "ready" /\ op[r] = o
    /\ opState' = [opState EXCEPT ![r] = "none"]
    /\ UNCHANGED <<requestVars, op, opEc, ioVars, userVars, m_work, resultVars>>

\* A handler given an error goes to on_finish.
HandlerFails(r, o) ==
    /\ opEc[r] # "ok"
    /\ Dispatch(r, o, "finish", opEc[r])
    /\ UNCHANGED <<m_sock, m_response>>

\* A handler with nothing to do before it locks m_cancel_mux.
HandlerGoesOn(r, o) ==
    /\ opEc[r] = "ok"
    /\ Dispatch(r, o, "lock", "ok")
    /\ UNCHANGED <<m_sock, m_response>>

OnHostNameResolved(r) == HandlerFails(r, "resolve") \/ HandlerGoesOn(r, "resolve")

OnConnectionEstablished(r) == HandlerFails(r, "connect") \/ HandlerGoesOn(r, "connect")

\* on_request_sent: m_sock.shutdown(shutdown_send) ...
RequestSent(r) ==
    /\ opEc[r] = "ok" /\ m_sock[r] # "reset"
    /\ Dispatch(r, "write", "lock", "ok")
    /\ m_sock' = [m_sock EXCEPT ![r] = "half_closed"]
    /\ UNCHANGED m_response

\* ... which throws when the connection was reset after the write; nothing
\* catches the exception on the I/O thread, and std::terminate ends them all.
ShutdownThrows(r) ==
    /\ opEc[r] = "ok" /\ m_sock[r] = "reset"
    /\ ioPc = "run" /\ opState[r] = "ready" /\ op[r] = "write"
    /\ ioPc' = "terminated"
    /\ userPc' = [u \in Users |-> "terminated"]
    /\ UNCHANGED <<requestVars, opVars, ioReq, ioEc, userReq, m_work, resultVars>>

OnRequestSent(r) == \/ HandlerFails(r, "write")
                    \/ RequestSent(r)
                    \/ ShutdownThrows(r)

\* on_status_line_received: another protocol version or no number.
StatusInvalid(r) ==
    /\ opEc[r] = "ok"
    /\ Dispatch(r, "status", "finish", "invalid_response")
    /\ UNCHANGED <<m_sock, m_response>>

\* on_status_line_received: set_status_code and set_status_message.
StatusParsed(r) ==
    /\ opEc[r] = "ok"
    /\ Dispatch(r, "status", "lock", "ok")
    /\ m_response' = [m_response EXCEPT ![r] = "status"]
    /\ UNCHANGED m_sock

OnStatusLineReceived(r) == \/ HandlerFails(r, "status")
                           \/ StatusInvalid(r)
                           \/ StatusParsed(r)

\* on_headers_received: every header is stored.
HeadersParsed(r) ==
    /\ opEc[r] = "ok"
    /\ Dispatch(r, "headers", "lock", "ok")
    /\ m_response' = [m_response EXCEPT ![r] = "headers"]
    /\ UNCHANGED m_sock

\* Mutant: the end of the stream is taken for the end of the headers.
HeadersEndAtEof(r) ==
    \/ /\ opEc[r] = "eof"
       /\ Dispatch(r, "headers", "finish", "ok")
       /\ UNCHANGED <<m_sock, m_response>>
    \/ HeadersParsed(r)

\* on_headers_received.
OnHeadersReceived(r) == HandlerFails(r, "headers") \/ HeadersParsed(r)

\* Mutant: every error of the last read is taken for the end of the stream.
AllIsBody(r) ==
    /\ Dispatch(r, "body", "finish", "ok")
    /\ m_response' = IF opEc[r] = "eof"
                     THEN [m_response EXCEPT ![r] = "body"] ELSE m_response
    /\ UNCHANGED m_sock

\* on_response_body_received: the end of the stream is success; it takes no
\* lock and does not look at m_was_cancelled.
OnResponseBodyReceived(r) ==
    /\ Dispatch(r, "body", "finish", IF opEc[r] = "eof" THEN "ok" ELSE opEc[r])
    /\ m_response' = IF opEc[r] = "eof"
                     THEN [m_response EXCEPT ![r] = "body"] ELSE m_response
    /\ UNCHANGED m_sock

\* A handler found its request cancelled: it unlocks and goes to on_finish.
FoundCancelled ==
    /\ ioPc = "lock" /\ m_was_cancelled[ioReq]
    /\ ioPc' = "finish" /\ ioEc' = "aborted"
    /\ UNCHANGED <<requestVars, opVars, ioReq, userVars, m_work,
                   resultVars>>

\* The next operation of the chain; async_connect opens the socket.
StartChained(r) ==
    /\ StartOp(r, NextOp[op[r]])
    /\ m_sock' = IF op[r] = "resolve"
                 THEN [m_sock EXCEPT ![r] = "open"] ELSE m_sock

\* Mutant: the handler does not look at m_was_cancelled.
StartNextUnchecked ==
    /\ ioPc = "lock"
    /\ StartChained(ioReq)
    /\ ioPc' = "run" /\ ioReq' = NoRequest
    /\ UNCHANGED <<m_was_cancelled, m_response, opEc, ioEc, userVars, m_work, resultVars>>

\* A handler found its request not cancelled: it starts the next operation
\* while it holds m_cancel_mux, and returns.
StartNext ==
    /\ ioPc = "lock" /\ ~m_was_cancelled[ioReq]
    /\ StartChained(ioReq)
    /\ ioPc' = "run" /\ ioReq' = NoRequest
    /\ UNCHANGED <<m_was_cancelled, m_response, opEc, ioEc, userVars, m_work, resultVars>>

\* Mutant: the return after on_finish is missing.
HandlerFallsThrough(r) ==
    IF op[r] = "body" THEN opState' = [opState EXCEPT ![r] = "none"] /\ UNCHANGED op
    ELSE StartOp(r, NextOp[op[r]])

\* The handler of r returns with no operation outstanding.
HandlerReturns(r) == opState' = [opState EXCEPT ![r] = "none"] /\ UNCHANGED op

\* on_finish calls m_callback and the handler returns.
OnFinish ==
    /\ ioPc = "finish"
    /\ calls' = [calls EXCEPT ![ioReq] = @ + 1]
    /\ verdict' = [verdict EXCEPT ![ioReq] = ioEc]
    /\ HandlerReturns(ioReq)
    /\ ioPc' = "run" /\ ioReq' = NoRequest
    /\ UNCHANGED <<requestVars, opEc, ioEc, userVars, m_work>>

\* m_ios.run() returns: no work guard and no outstanding operation.
IoExit ==
    /\ ioPc = "run" /\ ~m_work
    /\ \A r \in Requests : opState[r] = "none"
    /\ ioPc' = "exited"
    /\ UNCHANGED <<requestVars, opVars, ioReq, ioEc, userVars, m_work, resultVars>>

-----------------------------------------------------------------------------
UserStep(u) == FinishInExecute(u) \/ CloseJoin(u)

UserNext(u) == \/ \E r \in Requests : \/ Execute(u, r)
                                      \/ ExecuteCancelled(u, r)
                                      \/ Cancel(u, r)
               \/ CloseReset(u)
               \/ UserStep(u)

\* The I/O thread takes what is queued for request r.
RunQueued(r) == \/ RunPartial(r)
                \/ OnHostNameResolved(r)
                \/ OnConnectionEstablished(r)
                \/ OnRequestSent(r)
                \/ OnStatusLineReceived(r)
                \/ OnHeadersReceived(r)
                \/ OnResponseBodyReceived(r)

HandlerStep == FoundCancelled \/ StartNext \/ OnFinish \/ IoExit

OpEnds(r) == \E e \in {"ok", "error", "eof"} : OpComplete(r, e)

NetStep(r) == OpEnds(r) \/ OpPartial(r) \/ Reset(r)

Next == \/ \E u \in Users : UserNext(u)
        \/ \E r \in Requests : RunQueued(r) \/ NetStep(r)
        \/ HandlerStep

Spec == Init /\ [][Next]_vars

\* A step of some thread of the program, in a call or in m_ios.run().
ProgramStep == \/ \E u \in Users : UserStep(u)
               \/ \E r \in Requests : RunQueued(r)
               \/ HandlerStep

\* Some thread that can run does run, and the resolver and the server end every
\* operation after finitely many pieces.
FairSpec ==
    /\ Spec
    /\ WF_vars(ProgramStep)
    /\ \A r \in Requests : SF_vars(OpEnds(r))

-----------------------------------------------------------------------------
(***************************************************************************)
(* Properties.                                                             *)
(***************************************************************************)

\* Every variable has its type.
TypeOK ==
    /\ m_was_cancelled \in [Requests -> BOOLEAN]
    /\ m_sock \in [Requests -> {"closed", "open", "connected", "half_closed", "reset"}]
    /\ m_response \in [Requests -> {"nothing", "status", "headers", "body"}]
    /\ op \in [Requests -> Ops]
    /\ opState \in [Requests -> OpStates]
    /\ opEc \in [Requests -> ErrorCodes]
    /\ ioPc \in {"run", "lock", "finish", "exited", "terminated"}
    /\ ioReq \in Requests \cup {NoRequest}
    /\ ioEc \in ErrorCodes
    /\ userPc \in [Users -> {"idle", "finish", "join", "closed", "terminated"}]
    /\ userReq \in [Users -> Requests \cup {NoRequest}]
    /\ m_work \in BOOLEAN
    /\ calls \in [Requests -> Nat]
    /\ verdict \in [Requests -> ErrorCodes \cup {"none"}]

\* The error code given to the callback tells the truth: success only with the
\* response read to its end, aborted only after a cancel, invalid_response only
\* with nothing of the response stored.
HttpVerdictFaithful ==
    \A r \in Requests :
        /\ verdict[r] = "ok" => m_response[r] = "body"
        /\ verdict[r] = "aborted" => m_was_cancelled[r]
        /\ verdict[r] = "invalid_response" => m_response[r] = "nothing"

\* cancel() and the handlers agree through m_cancel_mux: once cancel() has
\* returned no further operation of the request is started, so only a request
\* whose body was already being read can still end with success.
NoOperationAfterCancel ==
    [][\A r \in Requests : m_was_cancelled[r] => op'[r] = op[r]]_vars

\* The callback of a request is called once, and no handler of the request is
\* queued or running after it: the caller may destroy the HTTPRequest, whose this
\* pointer the handlers hold.
CallbackIsLast ==
    \A r \in Requests :
        /\ calls[r] <= 1
        /\ calls[r] > 0 => opState[r] = "none" /\ ioReq # r

\* When close() has returned every executed request has been answered.
HttpCloseCompletesAll ==
    (\E u \in Users : userPc[u] = "closed")
        => \A r \in Requests : op[r] # "none" => calls[r] = 1

\* An exception on the I/O thread is the only thing that can keep an executed
\* request from being answered.
HttpAnsweredUnlessTerminated ==
    \A r \in Requests : Executed(r) ~> (calls[r] > 0 \/ ioPc = "terminated")

\* close() returns or the process ends.
HttpCloseReturns ==
    \A u \in Users : (userPc[u] = "join") ~> (userPc[u] \in {"closed", "terminated"})

=============================================================================
