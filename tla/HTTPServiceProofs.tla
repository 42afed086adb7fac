-------------------------- MODULE HTTPServiceProofs --------------------------
(***************************************************************************)
(* The safety properties of HTTPService for any number of connections and  *)
(* any requests.  Handlers touch only their own Service, so the invariant  *)
(* is stated connection by connection; what an action does to the          *)
(* connection it is about is the work, the others are Untouched.           *)
(***************************************************************************)
EXTENDS HTTPService, TLAPS

\* A response is the one the request q deserves.
RightResponse(a, q) ==
    /\ a.status = ExpectedStatus(q)
    /\ a.body = IF a.status = 200 THEN q.size ELSE 0
    /\ a.content_length = IF a.status = 200 THEN <<q.size>> ELSE <<>>

\* A Service has an outstanding operation exactly while it lives.
LifeInv(c) ==
    /\ service[c] = "none" <=> conn[c] = "none"
    /\ service[c] = "none" <=> op[c] = "none"
    /\ service[c] = "alive" <=> opState[c] # "none"

\* The members are as they were constructed until send_response is called.
FreshInv(c) ==
    op[c] # "write" =>
        /\ responses[c] = <<>>
        /\ m_response_status_code[c] = 200
        /\ m_resource_size_bytes[c] = 0
        /\ m_response_headers[c] = <<>>

\* Whoever reads the headers has found nothing wrong with the request line.
LineInv(c) ==
    op[c] = "headers" =>
        /\ request[c].line = "whole"
        /\ request[c].method = "GET"
        /\ request[c].version = "HTTP/1.1"

\* The error code of a queued handler says what became of the request.
ReadyInv(c) ==
    opState[c] = "ready" => \/ conn[c] = "reset" /\ opEc[c] = "error"
                            \/ opEc[c] = Outcome(c)

\* async_write is given one response, the right one.
AnswerInv(c) ==
    op[c] = "write" => /\ Len(responses[c]) = 1
                       /\ RightResponse(responses[c][1], request[c])

\* A Service that ended without an answer owed none, or its client was gone.
DeletedInv(c) ==
    service[c] = "deleted" /\ conn[c] = "up" /\ op[c] # "write" =>
        ExpectedStatus(request[c]) = 0

ConnInv(c) == /\ LifeInv(c)
              /\ FreshInv(c)
              /\ LineInv(c)
              /\ ReadyInv(c)
              /\ AnswerInv(c)
              /\ DeletedInv(c)

\* The process has ended only where a Service could let an exception out: its
\* connection was reset, or its request asks for what process_request throws on.
TerminatedByThrow == server = "terminated" => \E c \in Conns : MayThrow(c)

\* The inductive invariant.
HInv == /\ TypeOK
        /\ \A c \in Conns : ConnInv(c)
        /\ TerminatedByThrow

-----------------------------------------------------------------------------
(***************************************************************************)
(* Facts about the operators.                                              *)
(***************************************************************************)

\* The status a request deserves, defect by defect in the order of the handlers.
LEMMA ExpectedStatusCases ==
    ASSUME NEW q \in RequestShapes
    PROVE  /\ q.line = "cut" => ExpectedStatus(q) = 0
           /\ q.line = "long" => ExpectedStatus(q) = 413
           /\ q.line = "whole" /\ q.method # "GET" => ExpectedStatus(q) = 501
           /\ q.line = "whole" /\ q.method = "GET" /\ q.version # "HTTP/1.1" =>
                  ExpectedStatus(q) = 505
           /\ q.line = "whole" /\ q.method = "GET" /\ q.version = "HTTP/1.1" =>
                  /\ q.headers = "cut" => ExpectedStatus(q) = 0
                  /\ q.headers = "long" => ExpectedStatus(q) = 413
                  /\ q.headers = "whole" =>
                         /\ q.resource = "file" => ExpectedStatus(q) = 200
                         /\ q.resource = "missing" => ExpectedStatus(q) = 404
                         /\ q.resource = "unreadable" => ExpectedStatus(q) = 500
                         /\ q.resource = "directory" => ExpectedStatus(q) = 200
    BY DEF RequestShapes, ExpectedStatus

\* What the operations of a Service end with.
LEMMA OutcomeCases ==
    ASSUME TypeOK, NEW c \in Conns
    PROVE  /\ op[c] = "line" =>
                  /\ request[c].line = "whole" <=> Outcome(c) = "ok"
                  /\ request[c].line = "long" <=> Outcome(c) = "not_found"
                  /\ request[c].line = "cut" <=> Outcome(c) = "error"
           /\ op[c] = "headers" =>
                  /\ request[c].headers = "whole" <=> Outcome(c) = "ok"
                  /\ request[c].headers = "long" <=> Outcome(c) = "not_found"
                  /\ request[c].headers = "cut" <=> Outcome(c) = "error"
           /\ op[c] \notin {"line", "headers"} => Outcome(c) = "ok"
           /\ Outcome(c) \in {"ok", "error", "not_found"}
<1>1. request[c] \in RequestShapes
    BY ServiceAssumption DEF TypeOK
<1> QED
    BY <1>1 DEF RequestShapes, Outcome

\* What the invariant says of a connection depends on nothing else.
LEMMA Untouched ==
    ASSUME NEW d \in Conns, ConnInv(d),
           UNCHANGED <<request[d], conn[d], service[d], op[d], opState[d], opEc[d],
                       m_response_status_code[d], m_resource_size_bytes[d],
                       m_response_headers[d], responses[d]>>
    PROVE  ConnInv(d)'
    BY DEF ConnInv, LifeInv, FreshInv, LineInv, ReadyInv, Outcome, AnswerInv,
           DeletedInv

\* An action about connection c keeps the invariant when it keeps the types, what
\* is said of c, and leaves the other connections alone.
LEMMA OneConnection ==
    ASSUME HInv, NEW c \in Conns, TypeOK', ConnInv(c)', TerminatedByThrow',
           \A d \in Conns \ {c} :
               UNCHANGED <<request[d], conn[d], service[d], op[d], opState[d], opEc[d],
                           m_response_status_code[d], m_resource_size_bytes[d],
                           m_response_headers[d], responses[d]>>
    PROVE  HInv'
<1>1. ASSUME NEW d \in Conns \ {c} PROVE ConnInv(d)'
    BY Untouched DEF HInv
<1> QED
    BY <1>1 DEF HInv

-----------------------------------------------------------------------------
(***************************************************************************)
(* Every action preserves HInv.                                            *)
(***************************************************************************)

\* The initial states satisfy the invariant.
LEMMA InitHInv == Init => HInv
<1> SUFFICES ASSUME Init PROVE HInv
    OBVIOUS
<1>1. TypeOK
    <2>1. /\ m_response_headers \in [Conns -> Seq(Nat)]
          /\ responses \in [Conns -> Seq([status : Nat, content_length : Seq(Nat), body : Nat])]
        BY DEF Init
    <2> QED
        BY <2>1 DEF Init, TypeOK, StatusTable
<1>2. ASSUME NEW c \in Conns PROVE ConnInv(c)
    BY DEF Init, ConnInv, LifeInv, FreshInv, LineInv, ReadyInv, AnswerInv, DeletedInv
<1> QED
    BY <1>1, <1>2 DEF Init, HInv, TerminatedByThrow

\* A new Service starts to read the request line.
LEMMA StartHandlingPreserves ==
    ASSUME HInv, NEW c \in Conns, StartHandling(c)
    PROVE  HInv'
<1> USE DEF StartHandling, StartOp, dataVars
<1>1. TypeOK'
    BY DEF HInv, TypeOK
<1>2. ConnInv(c)'
    BY DEF HInv, TypeOK, ConnInv, LifeInv, FreshInv, LineInv, ReadyInv, AnswerInv, DeletedInv
<1>3. TerminatedByThrow'
    BY DEF TerminatedByThrow
<1> QED
    BY <1>1, <1>2, <1>3, OneConnection DEF HInv, TypeOK

\* An operation ends with what the request and the connection give.
LEMMA OpCompletePreserves ==
    ASSUME HInv, NEW c \in Conns, OpComplete(c)
    PROVE  HInv'
<1> USE DEF OpComplete, dataVars
<1>1. TypeOK'
    BY OutcomeCases DEF HInv, TypeOK
<1>2. ConnInv(c)'
    <2>1. Outcome(c)' = Outcome(c)
        BY DEF Outcome
    <2> QED
        BY <2>1 DEF HInv, TypeOK, ConnInv, LifeInv, FreshInv, LineInv, ReadyInv, AnswerInv,
                    DeletedInv
<1>3. TerminatedByThrow'
    BY DEF HInv, TerminatedByThrow, MayThrow
<1> QED
    BY <1>1, <1>2, <1>3, OneConnection DEF HInv, TypeOK

\* A reset leaves the error code of a queued handler as it is.
LEMMA ResetPreserves ==
    ASSUME HInv, NEW c \in Conns, Reset(c)
    PROVE  HInv'
<1> USE DEF Reset, dataVars, opVars
<1>1. TypeOK'
    BY DEF HInv, TypeOK
<1>2. ConnInv(c)'
    <2>1. Outcome(c)' = Outcome(c)
        BY DEF Outcome
    <2> QED
        BY <2>1 DEF HInv, TypeOK, ConnInv, LifeInv, FreshInv, LineInv, ReadyInv, AnswerInv,
                    DeletedInv
<1>3. TerminatedByThrow'
    BY DEF HInv, TypeOK, TerminatedByThrow, MayThrow
<1> QED
    BY <1>1, <1>2, <1>3, OneConnection DEF HInv, TypeOK

\* An exception ends the process; it needs a Service that may throw.
LEMMA TerminatePreserves ==
    ASSUME HInv, NEW c \in Conns, Terminate(c), MayThrow(c),
           UNCHANGED <<request, conn, opEc>>
    PROVE  HInv'
<1> USE DEF Terminate, dataVars
<1>1. TypeOK'
    BY DEF HInv, TypeOK
<1>2. ConnInv(c)'
    BY Untouched DEF HInv
<1>3. TerminatedByThrow'
    BY DEF TerminatedByThrow, MayThrow
<1> QED
    BY <1>1, <1>2, <1>3, OneConnection

\* A Service may delete itself once it has answered, owes nothing, or its client
\* has reset the connection.
LEMMA FinishPreserves ==
    ASSUME HInv, NEW c \in Conns, OnFinish(c), UNCHANGED <<request, conn, opEc>>,
           server = "up", opState[c] = "ready",
           conn[c] = "up" /\ op[c] # "write" => ExpectedStatus(request[c]) = 0
    PROVE  HInv'
<1> USE DEF OnFinish, dataVars
<1>1. TypeOK'
    BY DEF HInv, TypeOK
<1>2. ConnInv(c)'
    <2>1. (FreshInv(c) /\ LineInv(c) /\ AnswerInv(c))'
        BY DEF HInv, ConnInv, FreshInv, LineInv, AnswerInv
    <2>2. (LifeInv(c) /\ ReadyInv(c))'
        BY DEF HInv, TypeOK, ConnInv, LifeInv, ReadyInv
    <2>3. DeletedInv(c)'
        BY DEF DeletedInv
    <2> QED
        BY <2>1, <2>2, <2>3 DEF ConnInv
<1>3. TerminatedByThrow'
    BY DEF HInv, TerminatedByThrow
<1> QED
    BY <1>1, <1>2, <1>3, OneConnection DEF HInv, TypeOK

\* send_response is called with the right status, headers and size, by a handler
\* that has not answered yet.
LEMMA SendPreserves ==
    ASSUME HInv, NEW c \in Conns, NEW status \in StatusTable, NEW headers \in Seq(Nat),
           NEW size \in Nat, SendResponse(c, status, headers, size),
           UNCHANGED <<request, conn, opEc>>,
           server = "up", opState[c] = "ready", op[c] # "write",
           RightResponse([status |-> status, content_length |-> headers, body |-> size],
                         request[c])
    PROVE  HInv'
<1> DEFINE a == [status |-> status, content_length |-> headers, body |-> size]
<1>1. CASE conn[c] = "reset"
    BY <1>1, TerminatePreserves DEF SendResponse, HInv, ConnInv, LifeInv, MayThrow
<1>2. CASE conn[c] # "reset"
    <2>1. /\ m_response_status_code' = [m_response_status_code EXCEPT ![c] = status]
          /\ m_response_headers' = [m_response_headers EXCEPT ![c] = headers]
          /\ m_resource_size_bytes' = [m_resource_size_bytes EXCEPT ![c] = size]
          /\ responses' = [responses EXCEPT ![c] = Append(responses[c], a)]
          /\ op' = [op EXCEPT ![c] = "write"]
          /\ opState' = [opState EXCEPT ![c] = "pending"]
          /\ UNCHANGED <<server, service>>
        BY <1>2 DEF SendResponse, StartOp, HInv, TypeOK
    <2>2. a \in [status : Nat, content_length : Seq(Nat), body : Nat]
        BY DEF StatusTable
    <2>3. responses[c] = <<>>
        BY DEF HInv, ConnInv, FreshInv
    <2>4. Append(responses[c], a) = <<a>>
        BY <2>3
    <2> HIDE DEF a
    <2>5. TypeOK'
        <3>1. responses' \in [Conns -> Seq([status : Nat, content_length : Seq(Nat), body : Nat])]
            BY <2>1, <2>2, <2>4 DEF HInv, TypeOK
        <3> QED
            BY <3>1, <2>1 DEF HInv, TypeOK
    <2>6. AnswerInv(c)'
        <3>1. responses'[c] = <<a>>
            BY <2>1, <2>4 DEF HInv, TypeOK
        <3> QED
            BY <3>1 DEF AnswerInv, RightResponse, a
    <2>7. (LifeInv(c) /\ FreshInv(c) /\ LineInv(c) /\ ReadyInv(c) /\ DeletedInv(c))'
        BY <2>1 DEF HInv, TypeOK, ConnInv, LifeInv, FreshInv, LineInv, ReadyInv, DeletedInv
    <2>8. TerminatedByThrow'
        BY <2>1 DEF HInv, TerminatedByThrow
    <2> QED
        BY <2>1, <2>5, <2>6, <2>7, <2>8, OneConnection DEF HInv, TypeOK, ConnInv
<1> QED
    BY <1>1, <1>2

\* An early return answers with a status and nothing else.
LEMMA SendStatusPreserves ==
    ASSUME HInv, NEW c \in Conns, NEW status \in StatusTable \ {200}, SendStatus(c, status),
           UNCHANGED <<request, conn, opEc>>, server = "up", opState[c] = "ready",
           op[c] # "write", status = ExpectedStatus(request[c])
    PROVE  HInv'
<1>1. m_response_headers[c] = <<>> /\ m_resource_size_bytes[c] = 0
    BY DEF HInv, ConnInv, FreshInv
<1>2. RightResponse([status |-> status, content_length |-> m_response_headers[c],
                     body |-> m_resource_size_bytes[c]], request[c])
    BY <1>1 DEF RightResponse
<1>3. m_response_headers[c] \in Seq(Nat) /\ m_resource_size_bytes[c] \in Nat
    BY DEF HInv, TypeOK
<1> QED
    BY <1>2, <1>3, SendPreserves DEF SendStatus

\* A request that is too long or cut.
LEMMA ReadFailsPreserves ==
    ASSUME HInv, NEW c \in Conns, NEW o \in {"line", "headers"}, ReadFails(c, o)
    PROVE  HInv'
<1> USE DEF Dispatch
<1>1. request[c] \in RequestShapes
    BY ServiceAssumption DEF HInv, TypeOK
<1>2. ReadyInv(c) /\ LineInv(c)
    BY DEF HInv, ConnInv
<1>3. CASE Dispatch(c, o, "not_found") /\ SendStatus(c, 413)
    <2>1. ExpectedStatus(request[c]) = 413
        BY <1>1, <1>2, <1>3, ExpectedStatusCases, OutcomeCases DEF HInv, ReadyInv, LineInv
    <2> QED
        BY <1>3, <2>1, SendStatusPreserves DEF StatusTable
<1>4. CASE Dispatch(c, o, "error") /\ OnFinish(c)
    <2>1. conn[c] = "up" => ExpectedStatus(request[c]) = 0
        BY <1>1, <1>2, <1>4, ExpectedStatusCases, OutcomeCases DEF HInv, ReadyInv, LineInv
    <2> QED
        BY <1>4, <2>1, FinishPreserves
<1> QED
    BY <1>3, <1>4 DEF ReadFails

\* The request line is taken: the method is looked at, then the version.
LEMMA LineReceivedPreserves ==
    ASSUME HInv, NEW c \in Conns, LineReceived(c)
    PROVE  HInv'
<1> USE DEF Dispatch
<1>1. request[c] \in RequestShapes
    BY ServiceAssumption DEF HInv, TypeOK
<1>2. request[c].line = "whole"
    BY OutcomeCases DEF LineReceived, HInv, ConnInv, ReadyInv
<1>3. CASE request[c].method # "GET" /\ SendStatus(c, 501)
    BY <1>1, <1>2, <1>3, ExpectedStatusCases, SendStatusPreserves DEF LineReceived, StatusTable
<1>4. CASE request[c].method = "GET" /\ request[c].version # "HTTP/1.1" /\ SendStatus(c, 505)
    BY <1>1, <1>2, <1>4, ExpectedStatusCases, SendStatusPreserves DEF LineReceived, StatusTable
<1>5. CASE /\ request[c].method = "GET" /\ request[c].version = "HTTP/1.1"
           /\ StartOp(c, "headers")
           /\ UNCHANGED <<server, service, dataVars, responses>>
    <2> USE <1>5 DEF LineReceived, StartOp, dataVars
    <2>1. TypeOK'
        BY DEF HInv, TypeOK
    <2>2. ConnInv(c)'
        BY <1>2 DEF HInv, TypeOK, ConnInv, LifeInv, FreshInv, LineInv, ReadyInv,
                    AnswerInv, DeletedInv
    <2>3. TerminatedByThrow'
        BY DEF HInv, TerminatedByThrow
    <2> QED
        BY <2>1, <2>2, <2>3, OneConnection DEF HInv, TypeOK
<1> QED
    BY <1>3, <1>4, <1>5 DEF LineReceived

\* The headers are taken and the resource is looked up.
LEMMA HeadersReceivedPreserves ==
    ASSUME HInv, NEW c \in Conns, HeadersReceived(c)
    PROVE  HInv'
<1> USE DEF HeadersReceived, Dispatch
<1> DEFINE q == request[c]
<1>1. q \in RequestShapes
    BY ServiceAssumption DEF HInv, TypeOK
<1>2. q.headers = "whole"
    BY OutcomeCases DEF HInv, ConnInv, ReadyInv
<1>3. q.line = "whole" /\ q.method = "GET" /\ q.version = "HTTP/1.1"
    BY DEF HInv, ConnInv, LineInv
<1>4. CASE q.resource = "missing" /\ SendStatus(c, 404)
    BY <1>1, <1>2, <1>3, <1>4, ExpectedStatusCases, SendStatusPreserves DEF StatusTable
<1>5. CASE q.resource = "unreadable" /\ SendStatus(c, 500)
    BY <1>1, <1>2, <1>3, <1>5, ExpectedStatusCases, SendStatusPreserves DEF StatusTable
<1>6. CASE /\ q.resource \in {"file", "directory"}
           /\ SendResponse(c, m_response_status_code[c],
                           Append(m_response_headers[c], q.size), q.size)
    <2>1. m_response_status_code[c] = 200 /\ m_response_headers[c] = <<>>
        BY DEF HInv, ConnInv, FreshInv
    <2>2. q.size \in Nat
        BY <1>1 DEF RequestShapes
    <2>3. Append(m_response_headers[c], q.size) = <<q.size>> /\ <<q.size>> \in Seq(Nat)
        BY <2>1, <2>2
    <2>4. ExpectedStatus(q) = 200
        BY <1>1, <1>2, <1>3, <1>6, ExpectedStatusCases
    <2>5. RightResponse([status |-> 200, content_length |-> <<q.size>>, body |-> q.size], q)
        BY <2>4 DEF RightResponse
    <2>6. SendResponse(c, 200, <<q.size>>, q.size)
        BY <1>6, <2>1, <2>3
    <2>7. /\ UNCHANGED <<request, conn, opEc>>
          /\ server = "up" /\ opState[c] = "ready" /\ op[c] = "headers"
        OBVIOUS
    <2>8. 200 \in StatusTable
        BY DEF StatusTable
    <2> QED
        BY ONLY HInv, c \in Conns, <2>2, <2>3, <2>5, <2>6, <2>7, <2>8, SendPreserves
<1>7. CASE q.resource \in {"rejected", "directory"} /\ Terminate(c)
    <2>1. MayThrow(c)
        BY <1>2, <1>7 DEF HInv, ConnInv, LifeInv, MayThrow
    <2> QED
        BY <1>7, <2>1, TerminatePreserves
<1> QED
    BY <1>4, <1>5, <1>6, <1>7 DEF ProcessRequest

\* The response has been sent, or the connection was lost while it was.
LEMMA ResponseSentPreserves ==
    ASSUME HInv, NEW c \in Conns, OnResponseSent(c)
    PROVE  HInv'
<1> USE DEF OnResponseSent, Dispatch
<1>1. CASE conn[c] = "reset"
    BY <1>1, TerminatePreserves DEF HInv, ConnInv, LifeInv, MayThrow
<1>2. CASE conn[c] # "reset"
    BY <1>2, FinishPreserves
<1> QED
    BY <1>1, <1>2

-----------------------------------------------------------------------------
\* The invariant holds in every reachable state.
THEOREM ServiceInvariant == Spec => []HInv
<1>1. HInv /\ [Next]_vars => HInv'
    <2> SUFFICES ASSUME HInv, [Next]_vars PROVE HInv'
        OBVIOUS
    <2>1. ASSUME NEW c \in Conns, StartHandling(c) PROVE HInv'
        BY <2>1, StartHandlingPreserves
    <2>2. ASSUME NEW c \in Conns, OpComplete(c) PROVE HInv'
        BY <2>2, OpCompletePreserves
    <2>3. ASSUME NEW c \in Conns, Reset(c) PROVE HInv'
        BY <2>3, ResetPreserves
    <2>4. ASSUME NEW c \in Conns, Handler(c) PROVE HInv'
        <3>1. \E o \in {"line", "headers"} : ReadFails(c, o)
              \/ LineReceived(c) \/ HeadersReceived(c) \/ OnResponseSent(c)
            BY <2>4 DEF Handler, OnRequestLineReceived, OnHeadersReceived
        <3> QED
            BY <3>1, ReadFailsPreserves, LineReceivedPreserves, HeadersReceivedPreserves,
               ResponseSentPreserves
    <2>5. CASE UNCHANGED vars
        <3> USE <2>5 DEF vars, opVars, dataVars
        <3>1. TypeOK' /\ TerminatedByThrow'
            BY DEF HInv, TypeOK, TerminatedByThrow, MayThrow
        <3>2. ASSUME NEW d \in Conns PROVE ConnInv(d)'
            BY Untouched DEF HInv
        <3> QED
            BY <3>1, <3>2 DEF HInv
    <2> QED
        BY <2>1, <2>2, <2>3, <2>4, <2>5 DEF Next
<1> QED
    BY <1>1, InitHInv, PTL DEF Spec

\* The variables of the Services keep their types.
THEOREM ServiceTypeCorrect == Spec => []TypeOK
<1>1. HInv => TypeOK
    BY DEF HInv
<1> QED
    BY <1>1, ServiceInvariant, PTL

\* For any number of connections and any requests a client gets at most one
\* response, and the one its request deserves.
THEOREM ServiceResponseIsRight == Spec => []ResponseIsRight
<1>1. HInv => ResponseIsRight
    <2> SUFFICES ASSUME HInv, NEW c \in Conns
                 PROVE  /\ Len(responses[c]) <= 1
                        /\ \A i \in DOMAIN responses[c] :
                               RightResponse(responses[c][i], request[c])
        BY DEF ResponseIsRight, RightResponse
    <2>1. CASE op[c] = "write"
        <3>1. Len(responses[c]) = 1 /\ RightResponse(responses[c][1], request[c])
            BY <2>1 DEF HInv, ConnInv, AnswerInv
        <3>2. DOMAIN responses[c] = 1 .. Len(responses[c])
            BY DEF HInv, TypeOK
        <3> QED
            BY <3>1, <3>2
    <2>2. CASE op[c] # "write"
        BY <2>2 DEF HInv, ConnInv, FreshInv
    <2> QED
        BY <2>1, <2>2
<1> QED
    BY <1>1, ServiceInvariant, PTL

\* For any number of connections a Service deletes itself last: no operation is
\* outstanding, and whoever deserved an answer has been given one.
THEOREM ServiceDeleteIsLast == Spec => []DeleteIsLast
<1>1. HInv => DeleteIsLast
    BY DEF HInv, ConnInv, LifeInv, AnswerInv, DeletedInv, DeleteIsLast
<1> QED
    BY <1>1, ServiceInvariant, PTL

\* The process ends only where a connection was reset, so that shutdown throws, or
\* where a whole GET asks for a directory or a rejected path, and then while that
\* Service is alive; http_status_table has every status the handlers set.
THEOREM ServiceTerminatedByThrow == Spec => []TerminatedByThrow
<1>1. HInv => TerminatedByThrow
    BY DEF HInv
<1> QED
    BY <1>1, ServiceInvariant, PTL

=============================================================================
