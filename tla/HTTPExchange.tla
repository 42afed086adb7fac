----------------------------- MODULE HTTPExchange -----------------------------
(***************************************************************************)
(* HTTPClient and HTTPService over the connections between them: main of   *)
(* src/chapter5/HTTPClient asks the server of src/chapter5/HTTPServer.     *)
(*                                                                         *)
(* Both components keep their own specification; here their environments   *)
(* are replaced by each other.  An operation on a socket ends with what    *)
(* the other side has put into the connection, and the end of a process    *)
(* closes its sockets.  A request travels in two pieces, the request line  *)
(* and the headers, a response in up to three, the status line, the block  *)
(* of headers with its blank line, and the body.                           *)
(***************************************************************************)
EXTENDS Naturals, Sequences

CONSTANTS
    Exchanges,  \* a request of the client and the connection it is sent on
    Users,      \* the threads of the client's application
    Resources,  \* what the requests may ask for: [resource, size]
    Capacity,   \* pieces of a response the connection holds
    MayStop,    \* whether the server may be stopped
    NoRequest

ASSUME ExchangeAssumption ==
    /\ Resources \subseteq
           [resource : {"file", "missing", "unreadable", "directory", "rejected"}, size : Nat]
    /\ Capacity \in Nat \ {0}
    /\ MayStop \in BOOLEAN
    /\ NoRequest \notin Exchanges

VARIABLES
    m_was_cancelled, m_sock, m_response, cOp, cOpState, cOpEc, ioPc, ioReq, ioEc,
    userPc, userReq, m_work, calls, verdict,          \* HTTPClient
    server, request, conn, service, sOp, sOpState, sOpEc, m_response_status_code,
    m_resource_size_bytes, m_response_headers, responses,  \* HTTPService
    up,      \* up[r]: pieces of the request in the connection
    down,    \* down[r]: pieces of the response in the connection
    taken,   \* taken[r]: pieces of the response the client has read
    gone,    \* the client's process has ended and its sockets are closed
    stopped  \* Server::Stop has been called and the server's process has ended

clientVars == <<m_was_cancelled, m_sock, m_response, cOp, cOpState, cOpEc, ioPc,
                ioReq, ioEc, userPc, userReq, m_work, calls, verdict>>
serverVars == <<server, request, conn, service, sOp, sOpState, sOpEc,
                m_response_status_code, m_resource_size_bytes, m_response_headers,
                responses>>
wireVars == <<up, down, taken, gone, stopped>>
vars == <<clientVars, serverVars, wireVars>>

\* What on_connection_established composes: a GET with a Host header.
Get(q) == [line |-> "whole", method |-> "GET", version |-> "HTTP/1.1",
           headers |-> "whole", resource |-> q.resource, size |-> q.size]

WireRequests == {Get(q) : q \in Resources}

C == INSTANCE HTTPClient WITH
        Requests <- Exchanges, MayReset <- TRUE,
        op <- cOp, opState <- cOpState, opEc <- cOpEc
S == INSTANCE HTTPService WITH
        Conns <- Exchanges, Requests <- WireRequests, MayReset <- TRUE,
        op <- sOp, opState <- sOpState, opEc <- sOpEc

Init ==
    /\ C!Init
    /\ S!Init
    /\ up = [r \in Exchanges |-> 0]
    /\ down = [r \in Exchanges |-> 0]
    /\ taken = [r \in Exchanges |-> 0]
    /\ gone = FALSE
    /\ stopped = FALSE

-----------------------------------------------------------------------------
(***************************************************************************)
(* The connection.                                                         *)
(***************************************************************************)
Response(r) == responses[r][1]

\* The buffers of send_response: the body is left out when it is empty.
Pieces(r) == IF Response(r).body > 0 THEN 3 ELSE 2

\* Mutant: the client looks for the end of the headers from the status line on.
HeadersFoundAlways(r) == down[r] >= 2

\* "\r\n\r\n" is in the stream: send_response ends the headers with "\r\n", and
\* the "\r\n" before it belongs to a header.  Without a header it belonged to the
\* status line, which the client has already taken out of its buffer.
HeadersFound(r) == down[r] >= 2 /\ Response(r).content_length # <<>>

\* The server's end of the connection is closed, in order.
Ended(r) == service[r] = "deleted" \/ (server = "terminated" /\ service[r] # "none")

Reads == {"status", "headers", "body"}

\* What the client's operation on r ends with as things stand.
ClientSees(r) ==
    IF m_sock[r] = "reset" THEN {"error"}
    ELSE CASE cOp[r] \in {"resolve", "connect"} -> {"ok", "error"}
           [] cOp[r] = "write" -> {"ok"}
           [] cOp[r] = "status" /\ down[r] >= 1 -> {"ok"}
           [] cOp[r] = "headers" /\ HeadersFound(r) -> {"ok"}
           [] OTHER -> IF Ended(r) THEN {"eof"} ELSE {}

\* The client's operation ends; a write has sent everything, a read has taken
\* what was there.
ClientOpEnds(r) ==
    /\ \E e \in ClientSees(r) :
           /\ C!OpComplete(r, e)
           /\ cOp[r] = "connect" /\ e = "ok" => server = "up"
    /\ up' = IF cOp[r] = "write" /\ m_sock[r] # "reset"
             THEN [up EXCEPT ![r] = 2] ELSE up
    /\ taken' = IF cOp[r] \in Reads THEN [taken EXCEPT ![r] = down[r]] ELSE taken
    /\ UNCHANGED <<serverVars, down, gone, stopped>>

\* A piece of the client's operation is done.
ClientPartial(r) ==
    /\ C!OpPartial(r)
    /\ \/ cOp[r] \in {"resolve", "connect"} /\ UNCHANGED <<up, taken>>
       \/ /\ cOp[r] = "write" /\ up[r] = 0
          /\ up' = [up EXCEPT ![r] = 1]
          /\ UNCHANGED taken
       \/ /\ cOp[r] \in Reads /\ taken[r] < down[r]
          /\ taken' = [taken EXCEPT ![r] = down[r]]
          /\ UNCHANGED up
    /\ UNCHANGED <<serverVars, down, gone, stopped>>

\* The server's process has ended and answers with a reset on a connection it
\* had not closed in order.
ServerResets(r) ==
    /\ server = "terminated" /\ service[r] # "deleted"
    /\ C!Reset(r)
    /\ UNCHANGED <<serverVars, wireVars>>

\* The kernel has made the connection and the Acceptor gives it a Service.
Accepted(r) ==
    /\ m_sock[r] \in {"connected", "half_closed"}
    /\ S!StartHandling(r)
    /\ UNCHANGED <<clientVars, wireVars>>

\* The Service's operation ends.
ServerOpEnds(r) ==
    /\ \/ conn[r] = "reset"
       \/ sOp[r] = "line" /\ (up[r] >= 1 \/ gone)
       \/ sOp[r] = "headers" /\ (up[r] = 2 \/ gone)
       \/ sOp[r] = "write" /\ down[r] = Pieces(r)
    /\ S!OpComplete(r)
    /\ UNCHANGED <<clientVars, wireVars>>

\* async_write puts the next piece of the response into the connection, which
\* has no room for it while the client does not read.
Transmit(r) ==
    /\ server = "up" /\ sOp[r] = "write" /\ sOpState[r] = "pending" /\ conn[r] = "up"
    /\ ~gone
    /\ down[r] < Pieces(r) /\ down[r] - taken[r] < Capacity
    /\ down' = [down EXCEPT ![r] = @ + 1]
    /\ UNCHANGED <<clientVars, serverVars, up, taken, gone, stopped>>

\* A client that closed its socket before it had read the whole response answers
\* the rest of it with a reset.
ClientResets(r) ==
    /\ gone /\ sOp[r] = "write" /\ taken[r] < Pieces(r)
    /\ S!Reset(r)
    /\ UNCHANGED <<clientVars, wireVars>>

-----------------------------------------------------------------------------
(***************************************************************************)
(* The processes.                                                          *)
(***************************************************************************)

\* The status line of the server always parses.
RunClient(r) == C!RunQueued(r) /\ ioEc' # "invalid_response"

ClientStep == /\ \/ \E u \in Users : C!UserStep(u)
                 \/ \E r \in Exchanges : RunClient(r)
                 \/ C!HandlerStep
              /\ UNCHANGED <<serverVars, wireVars>>

ApplicationCalls(u) ==
    /\ \/ \E r \in Exchanges : \/ C!Execute(u, r)
                               \/ C!ExecuteCancelled(u, r)
                               \/ C!Cancel(u, r)
       \/ C!CloseReset(u)
    /\ UNCHANGED <<serverVars, wireVars>>

\* main of the client returns after close(): a request it has not sent whole is
\* cut short.
ClientLeaves ==
    /\ ~gone /\ \E u \in Users : userPc[u] = "closed"
    /\ gone' = TRUE
    /\ request' = [r \in Exchanges |->
           [request[r] EXCEPT !.line = IF up[r] = 0 THEN "cut" ELSE @,
                              !.headers = IF up[r] < 2 THEN "cut" ELSE @]]
    /\ UNCHANGED <<clientVars, server, conn, service, sOp, sOpState, sOpEc,
                   m_response_status_code, m_resource_size_bytes, m_response_headers,
                   responses, up, down, taken, stopped>>

RunServer(r) == S!Handler(r) /\ UNCHANGED <<clientVars, wireVars>>

\* Server::Stop drops the handlers and main of the server returns: what was not
\* yet written of a response never is.
StopServer ==
    /\ MayStop /\ server = "up"
    /\ server' = "terminated"
    /\ stopped' = TRUE
    /\ UNCHANGED <<clientVars, request, conn, service, sOp, sOpState, sOpEc,
                   m_response_status_code, m_resource_size_bytes, m_response_headers,
                   responses, up, down, taken, gone>>

ServerStep(r) == \/ Accepted(r)
                 \/ ServerOpEnds(r)
                 \/ Transmit(r)
                 \/ ClientResets(r)
                 \/ RunServer(r)

Next == \/ ClientStep \/ ClientLeaves \/ StopServer
        \/ \E u \in Users : ApplicationCalls(u)
        \/ \E r \in Exchanges : \/ ClientOpEnds(r) \/ ClientPartial(r)
                                \/ ServerResets(r) \/ ServerStep(r)

Spec == Init /\ [][Next]_vars

\* The threads and the connections of both processes make progress; the
\* application need not call anything and the server need not be stopped.
FairSpec ==
    /\ Spec
    /\ WF_vars(ClientStep)
    /\ \A r \in Exchanges : /\ SF_vars(ClientOpEnds(r))
                            /\ WF_vars(ServerResets(r))
                            /\ WF_vars(ServerStep(r))

-----------------------------------------------------------------------------
(***************************************************************************)
(* Properties.                                                             *)
(***************************************************************************)

\* The counters of the connection have their types and order; the components'
\* own type invariants are checked with the components.
TypeOK ==
    /\ up \in [Exchanges -> 0 .. 2]
    /\ down \in [Exchanges -> 0 .. 3]
    /\ taken \in [Exchanges -> 0 .. 3]
    /\ \A r \in Exchanges : taken[r] <= down[r]
    /\ gone \in BOOLEAN /\ stopped \in BOOLEAN

\* "has completed" is reported only for a resource that was found, and then the
\* client has all of it, or the server's process ended in the middle: the end
\* of the stream is success whatever content-length said.
CompletedIsWhole ==
    \A r \in Exchanges : verdict[r] = "ok" =>
        /\ responses[r] # <<>> /\ Response(r).status = 200
        /\ taken[r] = Pieces(r) \/ server = "terminated"

\* Every status but 200 reaches the callback as end of file, never as a
\* response: with nothing cancelled and nobody stopped the callback is given eof
\* exactly when the server's response has no header.
HeaderlessIsEof ==
    \A r \in Exchanges :
        calls[r] = 1 /\ ~m_was_cancelled[r] /\ server = "up" /\ responses[r] # <<>> =>
            (verdict[r] = "eof" <=> Response(r).status # 200)

\* The server answers what the client asked for: a Service never gives up a
\* request that the client sends whole, and never answers one it does not.
AskedIsAnswered ==
    \A r \in Exchanges :
        /\ responses[r] # <<>> => up[r] = 2
        /\ service[r] = "deleted" /\ up[r] = 2 => responses[r] # <<>>

\* A request that was sent whole, asks for something process_request throws on,
\* and is not answered.
Unanswerable(r) ==
    /\ request[r].resource \in {"directory", "rejected"}
    /\ up[r] = 2 /\ responses[r] = <<>>

\* The server's process ends on its own only because a request was cancelled and
\* its client has left, so that shutdown throws, or because of a request whose
\* resource lets process_request throw; the client's only because the server's
\* process had ended.  An exchange about a file that nobody interferes with ends
\* neither.
ThrowHasCause ==
    /\ server = "terminated" /\ ~stopped =>
           \/ gone /\ \E r \in Exchanges : m_was_cancelled[r]
           \/ \E r \in Exchanges : Unanswerable(r)
    /\ ioPc = "terminated" => server = "terminated"

\* An executed request is answered by its callback, unless an exception ends the
\* client.
ExchangeEnds ==
    \A r \in Exchanges : C!Executed(r) ~> (calls[r] > 0 \/ ioPc = "terminated")

=============================================================================
