------------------------------ MODULE HTTPService ------------------------------
(***************************************************************************)
(* The Service of the HTTP server, src/chapter5/HTTPServer: one object per *)
(* accepted connection, which reads the request line, reads the headers,   *)
(* looks up the resource, writes one response and deletes itself.  Server  *)
(* and Acceptor have the structure of src/chapter4/asyncParallel, which is *)
(* the module AsyncServer; here a connection is simply accepted.           *)
(*                                                                         *)
(* A handler touches nothing but its own Service, so it is one step; the   *)
(* handlers of different connections interleave.  What they share is the   *)
(* process: an exception that leaves a handler leaves m_ios.run() too.     *)
(***************************************************************************)
EXTENDS Naturals, Sequences

CONSTANTS
    Conns,     \* the connections
    Requests,  \* the requests clients send
    MayReset   \* whether a client may reset its connection

\* A request as the handlers tell requests apart.  "long": more than the 4096
\* bytes of m_request without the delimiter; "cut": the stream ends before the
\* delimiter.  A request without any header is cut too: the first half of its
\* "\r\n\r\n" was taken together with the request line.  The resource is a file, is
\* "missing", "unreadable" (open fails), a "directory" (open succeeds), or
\* "rejected": stat fails otherwise than with "not there", as for a name that is
\* too long, a directory that may not be searched or a loop of links.
RequestShapes ==
    [line : {"whole", "long", "cut"}, method : {"GET", "other"},
     version : {"HTTP/1.1", "other"}, headers : {"whole", "long", "cut"},
     resource : {"file", "missing", "unreadable", "directory", "rejected"}, size : Nat]

ASSUME ServiceAssumption == Requests \subseteq RequestShapes /\ MayReset \in BOOLEAN

\* http_status_table.
StatusTable == {200, 404, 413, 500, 501, 505}

VARIABLES
    server,    \* "up", or "terminated" by an exception in a handler
    request,   \* request[c]: what the client of c sends
    conn,      \* "none", "up" or "reset"
    service,   \* "none", "alive" or "deleted"
    op,        \* the latest operation: "none", "line", "headers" or "write"
    opState,   \* "none", "pending" (reactor) or "ready" (queue)
    opEc,      \* the error code its handler will be given
    m_response_status_code,
    m_resource_size_bytes,
    m_response_headers,  \* the values of content-length appended so far
    responses  \* responses[c]: the responses handed to async_write

opVars == <<op, opState, opEc>>
dataVars == <<m_response_status_code, m_resource_size_bytes, m_response_headers>>
vars == <<server, request, conn, service, opVars, dataVars, responses>>

Init ==
    /\ server = "up"
    /\ request \in [Conns -> Requests]
    /\ conn = [c \in Conns |-> "none"]
    /\ service = [c \in Conns |-> "none"]
    /\ op = [c \in Conns |-> "none"]
    /\ opState = [c \in Conns |-> "none"]
    /\ opEc = [c \in Conns |-> "ok"]
    /\ m_response_status_code = [c \in Conns |-> 200]
    /\ m_resource_size_bytes = [c \in Conns |-> 0]
    /\ m_response_headers = [c \in Conns |-> <<>>]
    /\ responses = [c \in Conns |-> <<>>]

-----------------------------------------------------------------------------
StartOp(c, o) ==
    /\ op' = [op EXCEPT ![c] = o]
    /\ opState' = [opState EXCEPT ![c] = "pending"]

\* onAccept: a new Service, and its start_handling.
StartHandling(c) ==
    /\ server = "up" /\ conn[c] = "none"
    /\ conn' = [conn EXCEPT ![c] = "up"]
    /\ service' = [service EXCEPT ![c] = "alive"]
    /\ StartOp(c, "line")
    /\ UNCHANGED <<server, request, opEc, dataVars, responses>>

(***************************************************************************)
(* The operating system and the clients (external).                        *)
(***************************************************************************)

\* What the operation of c ends with on a connection that is up:
\* async_read_until gives not_found when m_request is full.
Outcome(c) ==
    LET ends == [whole |-> "ok", long |-> "not_found", cut |-> "error"] IN
    CASE op[c] = "line" -> ends[request[c].line]
      [] op[c] = "headers" -> ends[request[c].headers]
      [] OTHER -> "ok"

OpComplete(c) ==
    /\ opState[c] = "pending"
    /\ opState' = [opState EXCEPT ![c] = "ready"]
    /\ opEc' = [opEc EXCEPT ![c] = IF conn[c] = "reset" THEN "error" ELSE Outcome(c)]
    /\ UNCHANGED <<server, request, conn, service, op, dataVars, responses>>

\* The client resets the connection.
Reset(c) ==
    /\ MayReset /\ conn[c] = "up" /\ service[c] = "alive"
    /\ conn' = [conn EXCEPT ![c] = "reset"]
    /\ UNCHANGED <<server, request, service, opVars, dataVars, responses>>

-----------------------------------------------------------------------------
(***************************************************************************)
(* The handlers.                                                           *)
(***************************************************************************)

\* A thread of the pool takes the handler of operation o, given error code e.
Dispatch(c, o, e) ==
    /\ server = "up"
    /\ opState[c] = "ready" /\ op[c] = o /\ opEc[c] = e
    /\ UNCHANGED <<request, conn, opEc>>

\* Mutant: delete this is left out.
FinishNot(c) ==
    /\ opState' = [opState EXCEPT ![c] = "none"]
    /\ UNCHANGED <<server, service, op, dataVars, responses>>

\* on_finish: delete this.
OnFinish(c) ==
    /\ service' = [service EXCEPT ![c] = "deleted"]
    /\ opState' = [opState EXCEPT ![c] = "none"]
    /\ UNCHANGED <<server, op, dataVars, responses>>

\* An exception leaves the handler, m_ios.run() and its thread.
Terminate(c) ==
    /\ server' = "terminated"
    /\ UNCHANGED <<service, op, opState, dataVars, responses>>

\* send_response of a Service with the given status, content-length headers and
\* resource size.  shutdown(shutdown_receive) throws on a connection that was
\* reset, http_status_table.at for a status the table does not have.
SendResponse(c, status, headers, size) ==
    IF conn[c] = "reset" \/ status \notin StatusTable
    THEN Terminate(c)
    ELSE /\ m_response_status_code' = [m_response_status_code EXCEPT ![c] = status]
         /\ m_response_headers' = [m_response_headers EXCEPT ![c] = headers]
         /\ m_resource_size_bytes' = [m_resource_size_bytes EXCEPT ![c] = size]
         /\ responses' = [responses EXCEPT ![c] = Append(@,
                [status |-> status, content_length |-> headers, body |-> size])]
         /\ StartOp(c, "write")
         /\ UNCHANGED <<server, service>>

\* A response without a resource: an early return of a handler.
SendStatus(c, status) ==
    SendResponse(c, status, m_response_headers[c], m_resource_size_bytes[c])

\* Mutant: a request that is too long is treated like any other error.
ReadFailsAlike(c, o) ==
    (Dispatch(c, o, "not_found") \/ Dispatch(c, o, "error")) /\ OnFinish(c)

\* The first lines of the two handlers of async_read_until: a request that is
\* too long is answered, any other error ends the Service.
ReadFails(c, o) ==
    \/ Dispatch(c, o, "not_found") /\ SendStatus(c, 413)
    \/ Dispatch(c, o, "error") /\ OnFinish(c)

\* Mutant: the version is looked at before the method.
LineReceivedSwapped(c) ==
    LET q == request[c] IN
    /\ Dispatch(c, "line", "ok")
    /\ \/ q.version # "HTTP/1.1" /\ SendStatus(c, 505)
       \/ q.version = "HTTP/1.1" /\ q.method # "GET" /\ SendStatus(c, 501)
       \/ /\ q.method = "GET" /\ q.version = "HTTP/1.1"
          /\ StartOp(c, "headers")
          /\ UNCHANGED <<server, service, dataVars, responses>>

\* Mutant: a resource that is missing is answered before the headers are read.
LineReceivedEarly(c) ==
    LET q == request[c] IN
    /\ Dispatch(c, "line", "ok")
    /\ \/ q.resource = "missing" /\ SendStatus(c, 404)
       \/ /\ q.resource # "missing"
          /\ StartOp(c, "headers")
          /\ UNCHANGED <<server, service, dataVars, responses>>

\* The rest of on_request_line_received: the method, then the version.
LineReceived(c) ==
    LET q == request[c] IN
    /\ Dispatch(c, "line", "ok")
    /\ \/ q.method # "GET" /\ SendStatus(c, 501)
       \/ q.method = "GET" /\ q.version # "HTTP/1.1" /\ SendStatus(c, 505)
       \/ /\ q.method = "GET" /\ q.version = "HTTP/1.1"
          /\ StartOp(c, "headers")
          /\ UNCHANGED <<server, service, dataVars, responses>>

OnRequestLineReceived(c) == ReadFails(c, "line") \/ LineReceived(c)

\* Mutant: a status the table does not have.
ProcessForbidden(c) ==
    LET q == request[c] IN
    \/ q.resource \in {"rejected", "directory"} /\ Terminate(c)
    \/ q.resource = "missing" /\ SendStatus(c, 404)
    \/ q.resource = "unreadable" /\ SendStatus(c, 403)
    \/ /\ q.resource \in {"file", "directory"}
       /\ SendResponse(c, m_response_status_code[c],
                       Append(m_response_headers[c], q.size), q.size)

\* process_request and the send_response that follows it.  exists() throws for a
\* rejected path.  For a directory tellg() is what the file system makes of the
\* end of one: -1 or a huge number, for which make_unique throws, or some small
\* number, and then as many zero bytes are sent with status 200.
ProcessRequest(c) ==
    LET q == request[c] IN
    \/ q.resource \in {"rejected", "directory"} /\ Terminate(c)
    \/ q.resource = "missing" /\ SendStatus(c, 404)
    \/ q.resource = "unreadable" /\ SendStatus(c, 500)
    \/ /\ q.resource \in {"file", "directory"}
       /\ SendResponse(c, m_response_status_code[c],
                       Append(m_response_headers[c], q.size), q.size)

\* The rest of on_headers_received.
HeadersReceived(c) == Dispatch(c, "headers", "ok") /\ ProcessRequest(c)

OnHeadersReceived(c) == ReadFails(c, "headers") \/ HeadersReceived(c)

\* on_response_sent, with or without an error: shutdown(shutdown_both) throws
\* on a connection that was reset, otherwise the Service is deleted.
OnResponseSent(c) ==
    /\ \E e \in {"ok", "error"} : Dispatch(c, "write", e)
    /\ IF conn[c] = "reset" THEN Terminate(c) ELSE OnFinish(c)

Handler(c) == \/ OnRequestLineReceived(c)
              \/ OnHeadersReceived(c)
              \/ OnResponseSent(c)

Next == \E c \in Conns : \/ StartHandling(c)
                         \/ OpComplete(c)
                         \/ Reset(c)
                         \/ Handler(c)

Spec == Init /\ [][Next]_vars

\* Every queued handler is run by the pool, and every client sends its request,
\* goes away, and takes the response.
FairSpec == Spec /\ \A c \in Conns : WF_vars(OpComplete(c)) /\ WF_vars(Handler(c))

-----------------------------------------------------------------------------
(***************************************************************************)
(* Properties.                                                             *)
(***************************************************************************)

\* The status a request deserves; 0 where the stream ends too early for one, or
\* the look at the resource throws.
ExpectedStatus(q) ==
    CASE q.line = "cut" -> 0
      [] q.line = "long" -> 413
      [] q.line = "whole" /\ q.method # "GET" -> 501
      [] q.line = "whole" /\ q.method = "GET" /\ q.version # "HTTP/1.1" -> 505
      [] OTHER -> IF q.headers = "cut" THEN 0
                  ELSE IF q.headers = "long" THEN 413
                  ELSE [file |-> 200, directory |-> 200, missing |-> 404,
                        unreadable |-> 500, rejected |-> 0][q.resource]

\* Every variable has its type.
TypeOK ==
    /\ server \in {"up", "terminated"}
    /\ request \in [Conns -> Requests]
    /\ conn \in [Conns -> {"none", "up", "reset"}]
    /\ service \in [Conns -> {"none", "alive", "deleted"}]
    /\ op \in [Conns -> {"none", "line", "headers", "write"}]
    /\ opState \in [Conns -> {"none", "pending", "ready"}]
    /\ opEc \in [Conns -> {"ok", "error", "not_found"}]
    /\ m_response_status_code \in [Conns -> StatusTable]
    /\ m_resource_size_bytes \in [Conns -> Nat]
    /\ m_response_headers \in [Conns -> Seq(Nat)]
    /\ responses \in [Conns -> Seq([status : Nat, content_length : Seq(Nat), body : Nat])]

\* Of the many returns of the handlers each client gets at most one response, and
\* it is the one the request deserves: the status of its first defect, a
\* content-length header exactly with status 200, and as many bytes of the
\* resource as it announces.
ResponseIsRight ==
    \A c \in Conns :
        /\ Len(responses[c]) <= 1
        /\ \A i \in DOMAIN responses[c] :
               LET a == responses[c][i]
                   q == request[c] IN
               /\ a.status = ExpectedStatus(q)
               /\ a.body = IF a.status = 200 THEN q.size ELSE 0
               /\ a.content_length = IF a.status = 200 THEN <<q.size>> ELSE <<>>

\* delete this comes last: no operation is outstanding whose handler holds the
\* this pointer of a deleted Service, and if its connection was not reset the
\* Service has answered a request that deserves an answer.
DeleteIsLast ==
    \A c \in Conns : service[c] = "deleted" =>
        /\ opState[c] = "none"
        /\ conn[c] = "up" /\ ExpectedStatus(request[c]) # 0 => Len(responses[c]) = 1

\* An exception may leave the handlers of this Service: that of shutdown, once the
\* connection was reset, or that of exists or make_unique, when a whole GET asks
\* for a resource that has none of the answers of process_request.
MayThrow(c) ==
    /\ service[c] = "alive"
    /\ \/ conn[c] = "reset"
       \/ /\ op[c] = "headers" /\ request[c].headers = "whole"
          /\ request[c].resource \in {"directory", "rejected"}

\* Every Service is cleaned up, unless an exception ends the process, and then
\* some client's reset or resource is the reason; nothing else is
\* (http_status_table has every status the handlers set).
FinishesUnlessTerminated ==
    \A c \in Conns :
        (service[c] = "alive") ~> \/ service[c] = "deleted"
                                  \/ server = "terminated" /\ \E d \in Conns : MayThrow(d)

================================================================================
