-------------------------- MODULE HTTPExchangeProofs --------------------------
(***************************************************************************)
(* The safety properties of HTTPExchange for any number of exchanges,      *)
(* application threads and resources, and any capacity of the connections. *)
(*                                                                         *)
(* The client sees only what the server may do to it, so every step is a   *)
(* step of HTTPClient or none of its, and the client's own invariant holds *)
(* here too.  On top of it, one invariant per exchange for the server's    *)
(* side, one for the client's, and one about the two processes.            *)
(***************************************************************************)
EXTENDS HTTPExchange, TLAPS

CP == INSTANCE HTTPClientProofs WITH
         Requests <- Exchanges, MayReset <- TRUE,
         op <- cOp, opState <- cOpState, opEc <- cOpEc

-----------------------------------------------------------------------------
(***************************************************************************)
(* The invariant: the server's side.                                       *)
(***************************************************************************)

\* Every variable of the server has its type; the requests are the ones the
\* client sends, or what is left of them when it leaves.
ServerTypeOK ==
    /\ server \in {"up", "terminated"}
    /\ request \in [Exchanges -> S!RequestShapes]
    /\ conn \in [Exchanges -> {"none", "up", "reset"}]
    /\ service \in [Exchanges -> {"none", "alive", "deleted"}]
    /\ sOp \in [Exchanges -> {"none", "line", "headers", "write"}]
    /\ sOpState \in [Exchanges -> {"none", "pending", "ready"}]
    /\ sOpEc \in [Exchanges -> {"ok", "error", "not_found"}]
    /\ m_response_status_code \in [Exchanges -> S!StatusTable]
    /\ m_resource_size_bytes \in [Exchanges -> Nat]
    /\ m_response_headers \in [Exchanges -> Seq(Nat)]
    /\ responses \in [Exchanges -> Seq([status : Nat, content_length : Seq(Nat),
                                        body : Nat])]

\* The request is a GET, and it is cut short only by a client that left first.
AskInv(r) ==
    /\ request[r].method = "GET" /\ request[r].version = "HTTP/1.1"
    /\ request[r].line = IF gone /\ up[r] = 0 THEN "cut" ELSE "whole"
    /\ request[r].headers = IF gone /\ up[r] < 2 THEN "cut" ELSE "whole"

\* A Service has an outstanding operation exactly while it lives.
LifeInv(r) ==
    /\ service[r] = "none" <=> conn[r] = "none"
    /\ service[r] = "none" <=> sOp[r] = "none"
    /\ service[r] = "alive" <=> sOpState[r] # "none"

\* Nothing has been sent, and nothing of the response set, before send_response;
\* a client answers with a reset only what is sent to it.
FreshInv(r) ==
    sOp[r] # "write" =>
        /\ responses[r] = <<>> /\ down[r] = 0 /\ conn[r] # "reset"
        /\ m_response_status_code[r] = 200
        /\ m_resource_size_bytes[r] = 0
        /\ m_response_headers[r] = <<>>

\* A read of the Service has ended with what the client has put into the
\* connection, or because the client left without sending it.
ReadInv(r) ==
    /\ sOp[r] = "headers" => up[r] >= 1
    /\ sOpState[r] = "ready" /\ sOp[r] \in {"line", "headers"} =>
           \/ sOpEc[r] = "ok" /\ (sOp[r] = "line" => up[r] >= 1)
                              /\ (sOp[r] = "headers" => up[r] = 2)
           \/ sOpEc[r] = "error" /\ gone /\ up[r] < 2

\* One response to a whole request, and a header in it exactly with status 200.
AnswerInv(r) ==
    sOp[r] = "write" =>
        /\ up[r] = 2
        /\ Len(responses[r]) = 1
        /\ Response(r).status = 200 <=> Response(r).content_length # <<>>
        /\ down[r] <= Pieces(r)
        /\ sOpState[r] = "ready" /\ conn[r] # "reset" => down[r] = Pieces(r)

\* A deleted Service has sent its whole response, or its client left early.
DeletedInv(r) ==
    service[r] = "deleted" =>
        IF sOp[r] = "write" THEN down[r] = Pieces(r) ELSE gone /\ up[r] < 2

ServerInv(r) ==
    /\ AskInv(r)
    /\ LifeInv(r)
    /\ FreshInv(r)
    /\ ReadInv(r)
    /\ AnswerInv(r)
    /\ DeletedInv(r)

-----------------------------------------------------------------------------
(***************************************************************************)
(* The invariant: the client's side, and the two processes.                *)
(***************************************************************************)

\* The client has read the response to its end.
ReadWhole(r) ==
    service[r] = "deleted" /\ responses[r] # <<>> /\ taken[r] = Pieces(r)

\* What it takes for the callback of r to be given the error code e.
EndsWith(r, e) ==
    /\ e \in {"ok", "error", "eof", "aborted"}
    /\ e = "ok" => cOp[r] = "body" /\ (server = "terminated" \/ ReadWhole(r))
    /\ e = "error" => \/ server = "terminated"
                      \/ cOp[r] \in {"resolve", "connect"}
    /\ e = "eof" => \/ server = "terminated"
                    \/ ReadWhole(r) /\ Response(r).content_length = <<>>
    /\ e = "aborted" => m_was_cancelled[r]

\* How far the exchange is when the client has reached an operation.
FlowInv(r) ==
    /\ cOp[r] \in {"none", "resolve", "connect"} => up[r] = 0
    /\ cOp[r] \in Reads => up[r] = 2
    /\ cOp[r] \in {"headers", "body"} => down[r] >= 1
    /\ cOp[r] = "body" => HeadersFound(r)
    /\ m_sock[r] = "reset" => server = "terminated"

\* What the success of the operation means, and the next one starts from.
Succeeded(r) ==
    /\ cOp[r] = "write" => up[r] = 2
    /\ cOp[r] = "status" => down[r] >= 1
    /\ cOp[r] = "headers" => HeadersFound(r)

\* A queued handler will be told the truth.
QueuedInv(r) ==
    cOpState[r] = "ready" =>
        /\ cOpEc[r] = "ok" => Succeeded(r)
        /\ cOpEc[r] # "ok" => EndsWith(r, IF cOp[r] = "body" /\ cOpEc[r] = "eof"
                                          THEN "ok" ELSE cOpEc[r])

\* So does the I/O thread know it, and the application.
HandledInv(r) ==
    /\ ioPc = "lock" /\ ioReq = r => Succeeded(r)
    /\ ioPc = "finish" /\ ioReq = r => EndsWith(r, ioEc)
    /\ calls[r] > 0 => EndsWith(r, verdict[r])

ClientInv(r) == FlowInv(r) /\ QueuedInv(r) /\ HandledInv(r)

\* Who may end a process: a connection is reset by a client that has left a
\* response unread, and only a cancelled request leaves one unread; otherwise it
\* takes a resource that process_request throws on.
ProcessInv ==
    /\ gone => \E u \in Users : userPc[u] = "closed"
    /\ ioPc = "terminated" => server = "terminated"
    /\ \A r \in Exchanges : conn[r] = "reset" /\ server = "up" =>
           gone /\ m_was_cancelled[r]
    /\ server = "terminated" /\ ~stopped =>
           \/ gone /\ \E r \in Exchanges : m_was_cancelled[r]
           \/ \E r \in Exchanges : Unanswerable(r)

\* The inductive invariant.
EInv == /\ CP!CInv
        /\ TypeOK
        /\ ServerTypeOK
        /\ \A r \in Exchanges : ServerInv(r)
        /\ \A r \in Exchanges : ClientInv(r)
        /\ ProcessInv

-----------------------------------------------------------------------------
(***************************************************************************)
(* The exchange implements the client's specification.                     *)
(***************************************************************************)

\* What a client's operation ends with is an outcome of an operation.
LEMMA ClientSeesOutcome ==
    ASSUME NEW r \in Exchanges
    PROVE  ClientSees(r) \subseteq {"ok", "error", "eof"}
    BY DEF ClientSees

\* Every step of the exchange is one of the client or leaves the client alone.
LEMMA ExchangeStepIsClientStep ==
    ASSUME [Next]_vars
    PROVE  [C!Next]_(C!vars)
<1> USE DEF C!vars, C!requestVars, C!opVars, C!ioVars, C!userVars, C!resultVars, clientVars
<1>1. CASE ClientStep
    BY <1>1 DEF ClientStep, RunClient, C!Next, C!UserNext
<1>2. ASSUME NEW u \in Users, ApplicationCalls(u) PROVE C!Next
    BY <1>2 DEF ApplicationCalls, C!Next, C!UserNext
<1>3. ASSUME NEW r \in Exchanges, ClientOpEnds(r) PROVE C!Next
  <2>1. PICK e \in ClientSees(r) : C!OpComplete(r, e)
    BY <1>3 DEF ClientOpEnds
  <2> QED
    BY <2>1, ClientSeesOutcome DEF C!Next, C!NetStep, C!OpEnds
<1>4. ASSUME NEW r \in Exchanges, ClientPartial(r) \/ ServerResets(r) PROVE C!Next
    BY <1>4 DEF ClientPartial, ServerResets, C!Next, C!NetStep
<1>5. ASSUME NEW r \in Exchanges, ServerStep(r) PROVE UNCHANGED clientVars
    BY <1>5 DEF ServerStep, Accepted, ServerOpEnds, Transmit, ClientResets, RunServer
<1>6. CASE ClientLeaves \/ StopServer \/ UNCHANGED vars
    BY <1>6 DEF ClientLeaves, StopServer, vars
<1> QED
    BY <1>1, <1>2, <1>3, <1>4, <1>5, <1>6 DEF Next

\* The client of the exchange is the client of HTTPClient, its server the one
\* and only environment it has: what HTTPClientProofs proves of the client for
\* every environment holds in every exchange.
THEOREM ExchangeImplementsClient == Spec => C!Spec
<1>1. Init => C!Init
    BY DEF Init
<1>2. [Next]_vars => [C!Next]_(C!vars)
    BY ExchangeStepIsClientStep
<1> QED
    BY <1>1, <1>2, PTL DEF Spec, C!Spec

\* HTTPClientProofs is about the same client.
LEMMA SameClient ==
    ASSUME [C!Next]_(C!vars)
    PROVE  [CP!Next]_(CP!vars)
<1> USE
        DEF C!vars, CP!vars, C!requestVars, CP!requestVars, C!opVars, CP!opVars,
            C!ioVars, CP!ioVars, C!userVars, CP!userVars, C!resultVars,
            CP!resultVars
<1>1. ASSUME NEW u \in Users, C!UserNext(u) PROVE CP!UserNext(u)
    BY <1>1
        DEF C!UserNext, CP!UserNext, C!UserStep, CP!UserStep, C!Execute,
            CP!Execute, C!ExecuteCancelled, CP!ExecuteCancelled,
            C!FinishInExecute, CP!FinishInExecute, C!Cancel, CP!Cancel,
            C!CancelOps, CP!CancelOps, C!CloseReset, CP!CloseReset, C!CloseJoin,
            CP!CloseJoin, C!Executed, CP!Executed, C!StartOp, CP!StartOp
<1>2. ASSUME NEW r \in Exchanges, C!NetStep(r) PROVE CP!NetStep(r)
    BY <1>2
        DEF C!NetStep, CP!NetStep, C!OpEnds, CP!OpEnds, C!OpComplete,
            CP!OpComplete, C!Outcomes, CP!Outcomes, C!OpPartial, CP!OpPartial,
            C!Reset, CP!Reset
<1>3. ASSUME NEW r \in Exchanges, C!RunQueued(r) PROVE CP!RunQueued(r)
    BY <1>3
        DEF C!RunQueued, CP!RunQueued, C!RunPartial, CP!RunPartial,
            C!OnHostNameResolved, CP!OnHostNameResolved,
            C!OnConnectionEstablished, CP!OnConnectionEstablished,
            C!OnRequestSent, CP!OnRequestSent, C!OnStatusLineReceived,
            CP!OnStatusLineReceived, C!OnHeadersReceived, CP!OnHeadersReceived,
            C!OnResponseBodyReceived, CP!OnResponseBodyReceived, C!HandlerFails,
            CP!HandlerFails, C!HandlerGoesOn, CP!HandlerGoesOn, C!RequestSent,
            CP!RequestSent, C!ShutdownThrows, CP!ShutdownThrows,
            C!StatusInvalid, CP!StatusInvalid, C!StatusParsed, CP!StatusParsed,
            C!HeadersParsed, CP!HeadersParsed, C!Dispatch, CP!Dispatch
<1>4. ASSUME C!HandlerStep PROVE CP!HandlerStep
    BY <1>4
        DEF C!HandlerStep, CP!HandlerStep, C!FoundCancelled, CP!FoundCancelled,
            C!StartNext, CP!StartNext, C!StartChained, CP!StartChained,
            C!StartOp, CP!StartOp, C!NextOp, CP!NextOp, C!OnFinish, CP!OnFinish,
            C!HandlerReturns, CP!HandlerReturns, C!IoExit, CP!IoExit
<1> QED
    BY <1>1, <1>2, <1>3, <1>4 DEF C!Next, CP!Next

\* The client's invariant is kept by every step of the exchange.
LEMMA ClientInvariantKept ==
    ASSUME CP!CInv, [Next]_vars
    PROVE  CP!CInv'
    BY ExchangeStepIsClientStep, SameClient, CP!NextPreserves, ExchangeAssumption

-----------------------------------------------------------------------------
(***************************************************************************)
(* Facts about the invariant.                                              *)
(***************************************************************************)

\* Every variable of the client has its type.
LEMMA ClientTypes ==
    ASSUME CP!CInv
    PROVE  /\ m_was_cancelled \in [Exchanges -> BOOLEAN]
           /\ m_sock \in [Exchanges -> {"closed", "open", "connected", "half_closed", "reset"}]
           /\ cOp \in [Exchanges -> {"none", "resolve", "connect", "write"} \cup Reads]
           /\ cOpState \in [Exchanges -> {"none", "pending", "part", "ready", "running"}]
           /\ cOpEc \in [Exchanges -> {"ok", "error", "eof", "aborted", "invalid_response"}]
           /\ ioReq \in Exchanges \cup {NoRequest}
           /\ userPc \in [Users -> {"idle", "finish", "join", "closed", "terminated"}]
           /\ userReq \in [Users -> Exchanges \cup {NoRequest}]
           /\ calls \in [Exchanges -> Nat]
           /\ verdict \in [Exchanges -> {"ok", "error", "eof", "aborted",
                                         "invalid_response", "none"}]
<1>1. CP!Ops = {"none", "resolve", "connect", "write"} \cup Reads
    BY DEF CP!Ops, CP!NextOp, Reads
<1>2. CP!TypeOK
    BY DEF CP!CInv
<1> QED
    BY <1>1, <1>2 DEF CP!TypeOK, CP!OpStates, CP!ErrorCodes

\* A client that has left waits for nothing and has nothing to do.
LEMMA GoneIsQuiet ==
    ASSUME CP!CInv, ProcessInv, gone
    PROVE  /\ ioPc = "exited" /\ ~m_work
           /\ \A r \in Exchanges : cOpState[r] = "none"
           /\ \A r \in Exchanges : cOp[r] # "none" => calls[r] = 1
    BY DEF CP!CInv, CP!CloseInv, CP!OpInv, ProcessInv

\* A sequence of length one.
LEMMA OneElement ==
    ASSUME NEW T, NEW s \in Seq(T), Len(s) = 1
    PROVE  s # <<>> /\ s[1] \in T
<1>1. Len(<<>>) = 0
    OBVIOUS
<1> QED
    BY <1>1

\* Where there is something of a response in the connection there is one.
LEMMA DownIsAnswer ==
    ASSUME ServerTypeOK, NEW r \in Exchanges, ServerInv(r), down[r] >= 1 \/ responses[r] # <<>>
    PROVE  /\ sOp[r] = "write"
           /\ Len(responses[r]) = 1 /\ responses[r] # <<>>
           /\ Response(r) \in [status : Nat, content_length : Seq(Nat), body : Nat]
<1>1. sOp[r] = "write"
    BY DEF ServerInv, FreshInv
<1>2. Len(responses[r]) = 1
    BY <1>1 DEF ServerInv, AnswerInv
<1>3. responses[r] \in Seq([status : Nat, content_length : Seq(Nat), body : Nat])
    BY DEF ServerTypeOK
<1>4. /\ responses[r] # <<>>
      /\ responses[r][1] \in [status : Nat, content_length : Seq(Nat), body : Nat]
    BY <1>2, <1>3, OneElement
<1> QED
    BY <1>1, <1>2, <1>4 DEF Response

\* The server's side of an exchange that a step leaves alone, but for what the
\* client adds to its request.
LEMMA ServerKept ==
    ASSUME NEW r \in Exchanges, ServerInv(r),
           request'[r] = request[r], conn'[r] = conn[r], service'[r] = service[r],
           sOp'[r] = sOp[r], sOpState'[r] = sOpState[r], sOpEc'[r] = sOpEc[r],
           m_response_status_code'[r] = m_response_status_code[r],
           m_resource_size_bytes'[r] = m_resource_size_bytes[r],
           m_response_headers'[r] = m_response_headers[r],
           responses'[r] = responses[r], down'[r] = down[r], gone' = gone,
           up[r] \in 0 .. 2, up'[r] \in 0 .. 2, up'[r] >= up[r],
           gone => up'[r] = up[r]
    PROVE  ServerInv(r)'
<1>1. AskInv(r)' /\ LifeInv(r)' /\ FreshInv(r)'
    BY DEF ServerInv, AskInv, LifeInv, FreshInv
<1>2. ReadInv(r)'
    BY DEF ServerInv, ReadInv
<1>3. AnswerInv(r)' /\ DeletedInv(r)'
    BY DEF ServerInv, AnswerInv, DeletedInv, Response, Pieces
<1> QED
    BY <1>1, <1>2, <1>3 DEF ServerInv

\* The client's side of an exchange about which a step tells the client nothing
\* new: the server may go on with its response meanwhile.
LEMMA ClientKept ==
    ASSUME ServerTypeOK, TypeOK, NEW r \in Exchanges, ServerInv(r), ClientInv(r),
           m_was_cancelled[r] => m_was_cancelled'[r],
           cOp'[r] = cOp[r],
           cOpState'[r] = "ready" => cOpState[r] = "ready" /\ cOpEc'[r] = cOpEc[r],
           ioPc' = "lock" /\ ioReq' = r => ioPc = "lock" /\ ioReq = r,
           ioPc' = "finish" /\ ioReq' = r =>
               ioPc = "finish" /\ ioReq = r /\ ioEc' = ioEc,
           calls'[r] > 0 => calls[r] > 0 /\ verdict'[r] = verdict[r],
           m_sock'[r] = "reset" => m_sock[r] = "reset" \/ server = "terminated",
           up'[r] = up[r], taken'[r] = taken[r],
           down'[r] \in Nat, down'[r] >= down[r],
           responses[r] # <<>> => responses'[r] = responses[r],
           service[r] = "deleted" => service'[r] = "deleted",
           server = "terminated" => server' = "terminated"
    PROVE  ClientInv(r)'
<1>1. down[r] \in Nat
    BY DEF TypeOK
<1>2. ReadWhole(r) => /\ ReadWhole(r)'
                      /\ Response(r)' = Response(r)
    BY DEF ReadWhole, Response, Pieces
<1>3. HeadersFound(r) => HeadersFound(r)'
    BY <1>1, DownIsAnswer DEF HeadersFound, Response
<1>4. \A e : EndsWith(r, e) => EndsWith(r, e)'
    BY <1>2 DEF EndsWith
<1>5. Succeeded(r) => Succeeded(r)'
    BY <1>1, <1>3 DEF Succeeded
<1>6. FlowInv(r)'
    BY <1>1, <1>3 DEF ClientInv, FlowInv
<1>7. QueuedInv(r)'
  <2>1. CASE cOpState'[r] # "ready"
    BY <2>1 DEF QueuedInv
  <2>2. CASE cOpState'[r] = "ready"
    <3>1. cOpEc[r] = "ok" => Succeeded(r)
        BY <2>2 DEF ClientInv, QueuedInv
    <3>2. cOpEc[r] # "ok" => EndsWith(r, IF cOp[r] = "body" /\ cOpEc[r] = "eof"
                                         THEN "ok" ELSE cOpEc[r])
        BY <2>2 DEF ClientInv, QueuedInv
    <3>3. (cOpEc[r] # "ok" => EndsWith(r, IF cOp[r] = "body" /\ cOpEc[r] = "eof"
                                          THEN "ok" ELSE cOpEc[r]))'
        BY <3>2, <1>4, <2>2
    <3> QED
        BY <3>1, <3>3, <1>5, <2>2 DEF QueuedInv
  <2> QED
    BY <2>1, <2>2
<1>8. HandledInv(r)'
  <2>1. (ioPc = "lock" /\ ioReq = r => Succeeded(r))'
    BY <1>5 DEF ClientInv, HandledInv
  <2>2. (ioPc = "finish" /\ ioReq = r => EndsWith(r, ioEc))'
    BY <1>4 DEF ClientInv, HandledInv
  <2>3. (calls[r] > 0 => EndsWith(r, verdict[r]))'
    BY <1>4 DEF ClientInv, HandledInv
  <2> QED
    BY <2>1, <2>2, <2>3 DEF HandledInv
<1> QED
    BY <1>6, <1>7, <1>8 DEF ClientInv

\* The initial state satisfies the invariant.
LEMMA InitEInv == Init => EInv
<1> SUFFICES ASSUME Init PROVE EInv
    OBVIOUS
<1> USE ExchangeAssumption DEF Init
<1>1. CP!CInv
  <2>1. CP!Init
    BY DEF C!Init, CP!Init
  <2> QED
    BY <2>1, CP!InitCInv
<1>2. TypeOK
  <2>1. \A r \in Exchanges : up[r] = 0 /\ down[r] = 0 /\ taken[r] = 0
    OBVIOUS
  <2>2. up \in [Exchanges -> 0 .. 2] /\ down \in [Exchanges -> 0 .. 3]
    OBVIOUS
  <2>3. taken \in [Exchanges -> 0 .. 3]
    OBVIOUS
  <2>4. gone \in BOOLEAN /\ stopped \in BOOLEAN
    OBVIOUS
  <2> QED
    BY <2>1, <2>2, <2>3, <2>4 DEF TypeOK
<1>3. \A q \in WireRequests : /\ q \in S!RequestShapes
                              /\ q.method = "GET" /\ q.version = "HTTP/1.1"
                              /\ q.line = "whole" /\ q.headers = "whole"
    BY DEF WireRequests, Get, S!RequestShapes
<1>4. request \in [Exchanges -> WireRequests]
    BY DEF S!Init
<1>5. ServerTypeOK
  <2>1. request \in [Exchanges -> S!RequestShapes]
    BY <1>3, <1>4
  <2>2. m_response_headers \in [Exchanges -> Seq(Nat)]
    BY DEF S!Init
  <2>3. responses \in [Exchanges -> Seq([status : Nat, content_length : Seq(Nat), body : Nat])]
    BY DEF S!Init
  <2> QED
    BY <2>1, <2>2, <2>3 DEF S!Init, ServerTypeOK, S!StatusTable
<1>6. ASSUME NEW r \in Exchanges PROVE ServerInv(r)
  <2>1. AskInv(r)
    BY <1>3, <1>4 DEF AskInv
  <2> QED
    BY <2>1 DEF S!Init, ServerInv, LifeInv, FreshInv, ReadInv, AnswerInv, DeletedInv
<1>7. ASSUME NEW r \in Exchanges PROVE ClientInv(r)
    BY DEF C!Init, ClientInv, FlowInv, QueuedInv, HandledInv, Reads
<1>8. ProcessInv
    BY DEF C!Init, S!Init, ProcessInv
<1> QED
    BY <1>1, <1>2, <1>5, <1>6, <1>7, <1>8 DEF EInv

-----------------------------------------------------------------------------
(***************************************************************************)
(* The steps of the client's threads leave the server and the connections  *)
(* alone: what has to be shown of one is ClientMoves.                      *)
(***************************************************************************)

ClientMoves ==
    /\ \A q \in Exchanges : ClientInv(q)'
    /\ \A q \in Exchanges : m_was_cancelled[q] => m_was_cancelled'[q]
    /\ gone => \A u \in Users : userPc[u] = "closed" => userPc'[u] = "closed"
    /\ ioPc' = "terminated" => server = "terminated"

\* ClientMoves is enough.
LEMMA ClientMovesEnough ==
    ASSUME EInv, [Next]_vars, UNCHANGED <<serverVars, wireVars>>, ClientMoves
    PROVE  EInv'
<1> USE DEF serverVars, wireVars
<1>1. CP!CInv'
    BY ClientInvariantKept DEF EInv
<1>2. TypeOK' /\ ServerTypeOK'
    BY DEF EInv, TypeOK, ServerTypeOK
<1>3. \A r \in Exchanges : ServerInv(r)'
    BY ServerKept DEF EInv, TypeOK
<1>4. ProcessInv'
    BY DEF EInv, ProcessInv, Unanswerable, ClientMoves
<1> QED
    BY <1>1, <1>2, <1>3, <1>4 DEF EInv, ClientMoves

\* The exchanges a client's step is not about.
LEMMA OtherExchange ==
    ASSUME EInv, UNCHANGED <<serverVars, wireVars>>, NEW q \in Exchanges,
           m_was_cancelled[q] => m_was_cancelled'[q],
           cOp'[q] = cOp[q],
           cOpState'[q] = "ready" => cOpState[q] = "ready" /\ cOpEc'[q] = cOpEc[q],
           ioPc' = "lock" /\ ioReq' = q => ioPc = "lock" /\ ioReq = q,
           ioPc' = "finish" /\ ioReq' = q =>
               ioPc = "finish" /\ ioReq = q /\ ioEc' = ioEc,
           calls'[q] > 0 => calls[q] > 0 /\ verdict'[q] = verdict[q],
           m_sock'[q] = "reset" => m_sock[q] = "reset"
    PROVE  ClientInv(q)'
    BY ClientKept DEF EInv, TypeOK, serverVars, wireVars

\* A step of the client changes neither the meaning of a success nor, but for
\* the latest operation and the cancellation, that of an end.
LEMMA MeaningKept ==
    ASSUME UNCHANGED <<serverVars, wireVars>>, NEW r \in Exchanges,
           cOp'[r] = cOp[r], m_was_cancelled[r] => m_was_cancelled'[r]
    PROVE  /\ Succeeded(r) => Succeeded(r)'
           /\ \A e : EndsWith(r, e) => EndsWith(r, e)'
           /\ FlowInv(r) /\ (m_sock'[r] = "reset" => m_sock[r] = "reset") => FlowInv(r)'
    BY DEF Succeeded, EndsWith, FlowInv, ReadWhole, HeadersFound, Response, Pieces,
           serverVars, wireVars

\* execute() starts the first operation.
LEMMA ExecuteMoves ==
    ASSUME EInv, NEW u \in Users, NEW r \in Exchanges, C!Execute(u, r),
           UNCHANGED <<serverVars, wireVars>>
    PROVE  ClientMoves
<1> USE DEF C!Execute, C!StartOp, C!Executed, C!requestVars, C!ioVars, C!userVars,
            C!resultVars
<1>1. CP!CInv
    BY DEF EInv
<1>2. ASSUME NEW q \in Exchanges, q # r PROVE ClientInv(q)'
    BY <1>1, <1>2, ClientTypes, OtherExchange
<1>3. ClientInv(r)'
  <2>1. cOp[r] = "none" /\ calls[r] = 0 /\ cOpState[r] = "none" /\ ioReq # r
    BY <1>1, ClientTypes DEF CP!CInv, CP!OpInv, CP!IoInv
  <2>2. cOp'[r] = "resolve" /\ cOpState'[r] = "pending"
    BY <1>1, ClientTypes
  <2>3. FlowInv(r)'
    BY <2>1, <2>2 DEF EInv, ClientInv, FlowInv, Reads, serverVars, wireVars
  <2> QED
    BY <2>1, <2>2, <2>3 DEF ClientInv, QueuedInv, HandledInv
<1>4. ioPc' = "terminated" => server = "terminated"
    BY DEF EInv, ProcessInv
<1> QED
    BY <1>2, <1>3, <1>4 DEF ClientMoves

\* execute() of a cancelled request tells no exchange anything.
LEMMA ExecuteCancelledMoves ==
    ASSUME EInv, NEW u \in Users, NEW r \in Exchanges, C!ExecuteCancelled(u, r),
           UNCHANGED <<serverVars, wireVars>>
    PROVE  ClientMoves
<1> USE DEF C!ExecuteCancelled, C!requestVars, C!opVars, C!ioVars, C!resultVars
<1>1. CP!CInv
    BY DEF EInv
<1>2. ASSUME NEW q \in Exchanges PROVE ClientInv(q)'
    BY OtherExchange
<1>3. ioPc' = "terminated" => server = "terminated"
    BY DEF EInv, ProcessInv
<1>4. \A w \in Users : userPc[w] = "closed" => userPc'[w] = "closed"
    BY <1>1, ClientTypes
<1> QED
    BY <1>2, <1>3, <1>4 DEF ClientMoves

\* Neither does close(), from its call to its return.
LEMMA CloseMoves ==
    ASSUME EInv, NEW u \in Users, C!CloseReset(u) \/ C!CloseJoin(u),
           UNCHANGED <<serverVars, wireVars>>
    PROVE  ClientMoves
<1> USE DEF C!CloseReset, C!CloseJoin, C!requestVars, C!opVars, C!ioVars, C!resultVars
<1>1. CP!CInv
    BY DEF EInv
<1>2. ASSUME NEW q \in Exchanges PROVE ClientInv(q)'
    BY OtherExchange
<1>3. ioPc' = "terminated" => server = "terminated"
    BY DEF EInv, ProcessInv
<1>4. \A w \in Users : userPc[w] = "closed" => userPc'[w] = "closed"
    BY <1>1, ClientTypes
<1> QED
    BY <1>2, <1>3, <1>4 DEF ClientMoves

\* on_finish on the caller's thread.
LEMMA FinishInExecuteMoves ==
    ASSUME EInv, NEW u \in Users, C!FinishInExecute(u), UNCHANGED <<serverVars, wireVars>>
    PROVE  ClientMoves
<1> USE DEF C!FinishInExecute, C!requestVars, C!opVars, C!ioVars
<1>1. CP!CInv
    BY DEF EInv
<1>2. PICK r \in Exchanges : r = userReq[u] /\ m_was_cancelled[r]
    BY <1>1, ClientTypes DEF CP!CInv, CP!UserInv
<1>3. ASSUME NEW q \in Exchanges, q # r PROVE ClientInv(q)'
    BY <1>1, <1>2, <1>3, ClientTypes, OtherExchange
<1>4. ClientInv(r)'
  <2>1. verdict'[r] = "aborted"
    BY <1>1, <1>2, ClientTypes
  <2>2. EndsWith(r, "aborted")
    BY <1>2 DEF EndsWith
  <2>3. ClientInv(r)
    BY <1>2 DEF EInv
  <2>4. /\ Succeeded(r) => Succeeded(r)'
        /\ \A e : EndsWith(r, e) => EndsWith(r, e)'
        /\ FlowInv(r)'
    BY <1>2, <2>3, MeaningKept DEF ClientInv
  <2>5. QueuedInv(r)'
    BY <2>3, <2>4 DEF ClientInv, QueuedInv
  <2>6. HandledInv(r)'
    BY <2>1, <2>2, <2>3, <2>4 DEF ClientInv, HandledInv
  <2> QED
    BY <2>4, <2>5, <2>6 DEF ClientInv
<1>5. ioPc' = "terminated" => server = "terminated"
    BY DEF EInv, ProcessInv
<1>6. \A w \in Users : userPc[w] = "closed" => userPc'[w] = "closed"
    BY <1>1, ClientTypes
<1> QED
    BY <1>3, <1>4, <1>5, <1>6 DEF ClientMoves

\* cancel() gives the handler of a pending operation operation_aborted.
LEMMA CancelMoves ==
    ASSUME EInv, NEW u \in Users, NEW r \in Exchanges, C!Cancel(u, r),
           UNCHANGED <<serverVars, wireVars>>
    PROVE  ClientMoves
<1> USE DEF C!Cancel, C!ioVars, C!userVars, C!resultVars
<1>1. CP!CInv
    BY DEF EInv
<1>2. /\ \A q \in Exchanges : m_was_cancelled[q] => m_was_cancelled'[q]
      /\ m_was_cancelled'[r]
    BY <1>1, ClientTypes
<1>3. ASSUME NEW q \in Exchanges, q # r PROVE ClientInv(q)'
  <2>1. cOpState'[q] = cOpState[q] /\ cOpEc'[q] = cOpEc[q]
    BY <1>1, <1>3, ClientTypes DEF C!CancelOps
  <2> QED
    BY <1>2, <2>1, OtherExchange
<1>4. ClientInv(r)'
  <2>1. ClientInv(r)
    BY DEF EInv
  <2>2. /\ Succeeded(r) => Succeeded(r)'
        /\ \A e : EndsWith(r, e) => EndsWith(r, e)'
        /\ FlowInv(r)'
    BY <1>2, <2>1, MeaningKept DEF ClientInv
  <2>3. QueuedInv(r)'
    <3>1. CASE cOpState'[r] = "ready" /\ cOpEc'[r] = "aborted"
        BY <3>1, <1>2 DEF QueuedInv, EndsWith
    <3>2. CASE cOpState'[r] = "part"
        BY <3>2 DEF QueuedInv
    <3>3. CASE cOpState' = cOpState /\ cOpEc' = cOpEc
        BY <3>3, <2>1, <2>2 DEF ClientInv, QueuedInv
    <3> QED
        BY <1>1, <3>1, <3>2, <3>3, ClientTypes DEF C!CancelOps
  <2>4. HandledInv(r)'
    BY <2>1, <2>2 DEF ClientInv, HandledInv
  <2> QED
    BY <2>2, <2>3, <2>4 DEF ClientInv
<1>5. ioPc' = "terminated" => server = "terminated"
    BY DEF EInv, ProcessInv
<1> QED
    BY <1>2, <1>3, <1>4, <1>5 DEF ClientMoves

\* A handler that goes on knows what its success means.
LEMMA DispatchLockMoves ==
    ASSUME EInv, NEW r \in Exchanges, NEW o,
           cOpEc[r] = "ok", C!Dispatch(r, o, "lock", "ok"),
           \A q \in Exchanges : m_sock'[q] = "reset" => m_sock[q] = "reset",
           UNCHANGED <<serverVars, wireVars>>
    PROVE  ClientMoves
<1> USE DEF C!Dispatch, C!userVars, C!resultVars
<1>1. CP!CInv
    BY DEF EInv
<1>2. ASSUME NEW q \in Exchanges, q # r PROVE ClientInv(q)'
    BY <1>1, <1>2, ClientTypes, OtherExchange
<1>3. ClientInv(r)'
  <2>1. ClientInv(r)
    BY DEF EInv
  <2>2. /\ Succeeded(r) => Succeeded(r)'
        /\ \A e : EndsWith(r, e) => EndsWith(r, e)'
        /\ FlowInv(r)'
    BY <2>1, MeaningKept DEF ClientInv
  <2>3. QueuedInv(r)'
    BY <1>1, ClientTypes DEF QueuedInv
  <2>4. Succeeded(r)
    BY <2>1 DEF ClientInv, QueuedInv
  <2>5. HandledInv(r)'
    BY <2>1, <2>2, <2>4 DEF ClientInv, HandledInv
  <2> QED
    BY <2>2, <2>3, <2>5 DEF ClientInv
<1> QED
    BY <1>2, <1>3 DEF ClientMoves

\* A handler that goes to on_finish takes an error code with it that is true.
LEMMA DispatchFinishMoves ==
    ASSUME EInv, NEW r \in Exchanges, NEW o, NEW e,
           EndsWith(r, e), C!Dispatch(r, o, "finish", e),
           \A q \in Exchanges : m_sock'[q] = "reset" => m_sock[q] = "reset",
           UNCHANGED <<serverVars, wireVars>>
    PROVE  ClientMoves
<1> USE DEF C!Dispatch, C!userVars, C!resultVars
<1>1. CP!CInv
    BY DEF EInv
<1>2. ASSUME NEW q \in Exchanges, q # r PROVE ClientInv(q)'
    BY <1>1, <1>2, ClientTypes, OtherExchange
<1>3. ClientInv(r)'
  <2>1. ClientInv(r)
    BY DEF EInv
  <2>2. /\ Succeeded(r) => Succeeded(r)'
        /\ \A d : EndsWith(r, d) => EndsWith(r, d)'
        /\ FlowInv(r)'
    BY <2>1, MeaningKept DEF ClientInv
  <2>3. QueuedInv(r)'
    BY <1>1, ClientTypes DEF QueuedInv
  <2>4. HandledInv(r)'
    BY <2>1, <2>2 DEF ClientInv, HandledInv
  <2> QED
    BY <2>2, <2>3, <2>4 DEF ClientInv
<1> QED
    BY <1>2, <1>3 DEF ClientMoves

\* The I/O thread takes what is queued for r.
LEMMA RunClientMoves ==
    ASSUME EInv, NEW r \in Exchanges, RunClient(r), UNCHANGED <<serverVars, wireVars>>
    PROVE  ClientMoves
<1>1. CP!CInv
    BY DEF EInv
<1>2. QueuedInv(r)
    BY DEF EInv, ClientInv
<1>3. CASE C!RunPartial(r)
  <2> USE <1>3 DEF C!RunPartial, C!requestVars, C!ioVars, C!userVars, C!resultVars
  <2>1. ASSUME NEW q \in Exchanges PROVE ClientInv(q)'
    BY <1>1, ClientTypes, OtherExchange
  <2> QED
    BY <2>1 DEF ClientMoves
<1>4. ASSUME NEW o \in {"resolve", "connect", "write", "status", "headers"},
             C!HandlerFails(r, o)
      PROVE  ClientMoves
  <2>1. EndsWith(r, cOpEc[r])
    BY <1>2, <1>4 DEF QueuedInv, C!HandlerFails, C!Dispatch
  <2> QED
    BY <1>4, <2>1, DispatchFinishMoves DEF C!HandlerFails
<1>5. ASSUME NEW o, C!HandlerGoesOn(r, o) PROVE ClientMoves
    BY <1>5, DispatchLockMoves DEF C!HandlerGoesOn
<1>6. CASE C!RequestSent(r)
  <2>1. \A q \in Exchanges : m_sock'[q] = "reset" => m_sock[q] = "reset"
    BY <1>1, <1>6, ClientTypes DEF C!RequestSent
  <2> QED
    BY <1>6, <2>1, DispatchLockMoves DEF C!RequestSent
<1>7. CASE C!ShutdownThrows(r)
  <2> USE <1>7 DEF C!ShutdownThrows, C!requestVars, C!opVars, C!resultVars
  <2>1. ASSUME NEW q \in Exchanges PROVE ClientInv(q)'
    BY OtherExchange
  <2>2. server = "terminated"
    BY DEF EInv, ClientInv, FlowInv
  <2>3. ~gone
    BY GoneIsQuiet DEF EInv
  <2> QED
    BY <2>1, <2>2, <2>3 DEF ClientMoves
<1>8. CASE C!StatusInvalid(r)
    BY <1>8 DEF C!StatusInvalid, C!Dispatch, RunClient
<1>9. CASE C!StatusParsed(r) \/ C!HeadersParsed(r)
    BY <1>9, DispatchLockMoves DEF C!StatusParsed, C!HeadersParsed
<1>10. CASE C!OnResponseBodyReceived(r)
  <2> DEFINE e == IF cOpEc[r] = "eof" THEN "ok" ELSE cOpEc[r]
  <2>1. cOp[r] = "body" /\ cOpState[r] = "ready" /\ cOpEc[r] # "ok"
    BY <1>1, <1>10 DEF C!OnResponseBodyReceived, C!Dispatch, CP!CInv, CP!OpEcInv
  <2>2. EndsWith(r, e)
    BY <1>2, <2>1 DEF QueuedInv
  <2>3. C!Dispatch(r, "body", "finish", e) /\ UNCHANGED m_sock
    BY <1>10 DEF C!OnResponseBodyReceived
  <2> HIDE DEF e
  <2> QED
    BY <2>2, <2>3, DispatchFinishMoves
<1> QED
    BY <1>3, <1>4, <1>5, <1>6, <1>7, <1>8, <1>9, <1>10
    DEF RunClient, C!RunQueued, C!OnHostNameResolved, C!OnConnectionEstablished,
        C!OnRequestSent, C!OnStatusLineReceived, C!OnHeadersReceived

\* A handler found its request cancelled.
LEMMA FoundCancelledMoves ==
    ASSUME EInv, C!FoundCancelled, UNCHANGED <<serverVars, wireVars>>
    PROVE  ClientMoves
<1> USE DEF C!FoundCancelled, C!requestVars, C!opVars, C!userVars, C!resultVars
<1>1. CP!CInv
    BY DEF EInv
<1>2. PICK r \in Exchanges : r = ioReq
    BY <1>1, ClientTypes DEF CP!CInv, CP!IoInv
<1>3. ASSUME NEW q \in Exchanges, q # r PROVE ClientInv(q)'
    BY <1>2, <1>3, OtherExchange
<1>4. ClientInv(r)'
  <2>1. ClientInv(r)
    BY DEF EInv
  <2>2. /\ Succeeded(r) => Succeeded(r)'
        /\ \A e : EndsWith(r, e) => EndsWith(r, e)'
        /\ FlowInv(r)'
    BY <2>1, MeaningKept DEF ClientInv
  <2>3. QueuedInv(r)'
    BY <2>1, <2>2 DEF ClientInv, QueuedInv
  <2>4. EndsWith(r, "aborted")
    BY <1>2 DEF EndsWith
  <2>5. HandledInv(r)'
    BY <2>1, <2>2, <2>4 DEF ClientInv, HandledInv
  <2> QED
    BY <2>2, <2>3, <2>5 DEF ClientInv
<1> QED
    BY <1>3, <1>4 DEF ClientMoves

\* A handler starts the next operation from the success of the last.
LEMMA StartNextMoves ==
    ASSUME EInv, C!StartNext, UNCHANGED <<serverVars, wireVars>>
    PROVE  ClientMoves
<1> USE DEF C!StartNext, C!StartChained, C!StartOp, C!userVars, C!resultVars
<1>1. CP!CInv
    BY DEF EInv
<1>2. PICK r \in Exchanges : r = ioReq
    BY <1>1, ClientTypes DEF CP!CInv, CP!IoInv
<1>3. ASSUME NEW q \in Exchanges, q # r PROVE ClientInv(q)'
    BY <1>1, <1>2, <1>3, ClientTypes, OtherExchange
<1>4. ClientInv(r)'
  <2>1. ClientInv(r) /\ Succeeded(r)
    BY <1>2 DEF EInv, ClientInv, HandledInv
  <2>2. calls[r] = 0
    BY <1>1, <1>2 DEF CP!CInv, CP!IoInv, CP!OpInv
  <2>3. cOpState'[r] = "pending" /\ cOp'[r] = C!NextOp[cOp[r]]
    BY <1>1, <1>2, ClientTypes
  <2>4. \/ cOp[r] = "resolve" /\ cOp'[r] = "connect"
        \/ cOp[r] = "connect" /\ cOp'[r] = "write"
        \/ cOp[r] = "write" /\ cOp'[r] = "status"
        \/ cOp[r] = "status" /\ cOp'[r] = "headers"
        \/ cOp[r] = "headers" /\ cOp'[r] = "body"
    BY <1>1, <1>2, <2>3 DEF CP!CInv, CP!IoInv, CP!NextOp, C!NextOp
  <2>5. m_sock'[r] = "reset" => m_sock[r] = "reset"
    BY <1>1, <1>2, ClientTypes
  <2>6. HeadersFound(r) => HeadersFound(r)' /\ down[r] >= 1
    BY DEF EInv, TypeOK, HeadersFound, Response, serverVars, wireVars
  <2>7. FlowInv(r)'
    BY <2>1, <2>4, <2>5, <2>6
    DEF ClientInv, FlowInv, Succeeded, Reads, serverVars, wireVars
  <2> QED
    BY <2>2, <2>3, <2>7 DEF ClientInv, QueuedInv, HandledInv
<1> QED
    BY <1>3, <1>4 DEF ClientMoves

\* on_finish on the I/O thread.
LEMMA OnFinishMoves ==
    ASSUME EInv, C!OnFinish, UNCHANGED <<serverVars, wireVars>>
    PROVE  ClientMoves
<1> USE DEF C!OnFinish, C!HandlerReturns, C!requestVars, C!userVars
<1>1. CP!CInv
    BY DEF EInv
<1>2. PICK r \in Exchanges : r = ioReq
    BY <1>1, ClientTypes DEF CP!CInv, CP!IoInv
<1>3. ASSUME NEW q \in Exchanges, q # r PROVE ClientInv(q)'
    BY <1>1, <1>2, <1>3, ClientTypes, OtherExchange
<1>4. ClientInv(r)'
  <2>1. FlowInv(r) /\ EndsWith(r, ioEc)
    BY <1>2 DEF EInv, ClientInv, HandledInv
  <2>2. /\ \A e : EndsWith(r, e) => EndsWith(r, e)'
        /\ FlowInv(r)'
    BY <2>1, MeaningKept
  <2>3. verdict'[r] = ioEc /\ cOpState'[r] = "none"
    BY <1>1, <1>2, ClientTypes
  <2>4. EndsWith(r, verdict[r])'
    BY <2>1, <2>2, <2>3
  <2> QED
    BY <2>2, <2>3, <2>4 DEF ClientInv, QueuedInv, HandledInv
<1> QED
    BY <1>3, <1>4 DEF ClientMoves

\* m_ios.run() returns.
LEMMA IoExitMoves ==
    ASSUME EInv, C!IoExit, UNCHANGED <<serverVars, wireVars>>
    PROVE  ClientMoves
<1> USE DEF C!IoExit, C!requestVars, C!opVars, C!userVars, C!resultVars
<1>1. ASSUME NEW q \in Exchanges PROVE ClientInv(q)'
    BY OtherExchange
<1> QED
    BY <1>1 DEF ClientMoves

\* A step of a thread of the client.
LEMMA ClientStepPreserves ==
    ASSUME EInv, ClientStep
    PROVE  EInv'
<1>1. UNCHANGED <<serverVars, wireVars>>
    BY DEF ClientStep
<1>2. ASSUME NEW u \in Users, C!UserStep(u) PROVE ClientMoves
  <2>1. CASE C!FinishInExecute(u)
    BY <1>1, <2>1, FinishInExecuteMoves
  <2>2. CASE C!CloseJoin(u)
    BY <1>1, <2>2, CloseMoves
  <2> QED
    BY <1>2, <2>1, <2>2 DEF C!UserStep
<1>3. ASSUME NEW r \in Exchanges, RunClient(r) PROVE ClientMoves
    BY <1>1, <1>3, RunClientMoves
<1>4. ASSUME C!HandlerStep PROVE ClientMoves
  <2>1. CASE C!FoundCancelled
    BY <1>1, <2>1, FoundCancelledMoves
  <2>2. CASE C!StartNext
    BY <1>1, <2>2, StartNextMoves
  <2>3. CASE C!OnFinish
    BY <1>1, <2>3, OnFinishMoves
  <2>4. CASE C!IoExit
    BY <1>1, <2>4, IoExitMoves
  <2> QED
    BY <1>4, <2>1, <2>2, <2>3, <2>4 DEF C!HandlerStep
<1> QED
    BY <1>1, <1>2, <1>3, <1>4, ClientMovesEnough DEF ClientStep, Next

\* A call of the application.
LEMMA ApplicationCallsPreserves ==
    ASSUME EInv, NEW u \in Users, ApplicationCalls(u)
    PROVE  EInv'
<1>1. UNCHANGED <<serverVars, wireVars>>
    BY DEF ApplicationCalls
<1>2. ASSUME NEW r \in Exchanges, C!Execute(u, r) PROVE ClientMoves
    BY <1>1, <1>2, ExecuteMoves
<1>3. ASSUME NEW r \in Exchanges, C!ExecuteCancelled(u, r) PROVE ClientMoves
    BY <1>1, <1>3, ExecuteCancelledMoves
<1>4. ASSUME NEW r \in Exchanges, C!Cancel(u, r) PROVE ClientMoves
    BY <1>1, <1>4, CancelMoves
<1>5. ASSUME C!CloseReset(u) PROVE ClientMoves
  <2>1. C!CloseReset(u) \/ C!CloseJoin(u)
    BY <1>5
  <2> QED
    BY <1>1, <2>1, CloseMoves
<1>6. ClientMoves
    BY <1>2, <1>3, <1>4, <1>5 DEF ApplicationCalls
<1> QED
    BY <1>1, <1>6, ClientMovesEnough DEF Next

-----------------------------------------------------------------------------
(***************************************************************************)
(* The client's operations in the connections.                             *)
(***************************************************************************)

\* What an operation has ended with says how things stand.
LEMMA ClientSeesCases ==
    ASSUME NEW r \in Exchanges, NEW e \in ClientSees(r)
    PROVE  /\ e = "ok" => /\ m_sock[r] # "reset"
                          /\ cOp[r] = "status" => down[r] >= 1
                          /\ cOp[r] = "headers" => HeadersFound(r)
           /\ e = "error" => m_sock[r] = "reset" \/ cOp[r] \in {"resolve", "connect"}
           /\ e = "eof" => /\ Ended(r)
                           /\ cOp[r] \notin {"resolve", "connect", "write"}
                           /\ cOp[r] = "status" => ~(down[r] >= 1)
                           /\ cOp[r] = "headers" => ~HeadersFound(r)
<1>1. CASE m_sock[r] = "reset"
  <2>1. ClientSees(r) = {"error"}
    BY <1>1 DEF ClientSees
  <2> QED
    BY <1>1, <2>1
<1>2. CASE m_sock[r] # "reset" /\ cOp[r] \in {"resolve", "connect", "write"}
    BY <1>2 DEF ClientSees
<1>3. CASE m_sock[r] # "reset" /\ cOp[r] = "status"
    BY <1>3 DEF ClientSees
<1>4. CASE m_sock[r] # "reset" /\ cOp[r] = "headers"
    BY <1>4 DEF ClientSees
<1>5. CASE m_sock[r] # "reset"
           /\ cOp[r] \notin {"resolve", "connect", "write", "status", "headers"}
    BY <1>5 DEF ClientSees
<1> QED
    BY <1>1, <1>2, <1>3, <1>4, <1>5

\* A server that has closed the connection of a whole request in order has put
\* its whole response into it.
LEMMA DeletedIsSent ==
    ASSUME EInv, NEW r \in Exchanges, service[r] = "deleted", up[r] = 2
    PROVE  responses[r] # <<>> /\ down[r] = Pieces(r) /\ down[r] >= 2 /\ down[r] >= 1
<1>1. ServerInv(r) /\ ServerTypeOK
    BY DEF EInv
<1>2. sOp[r] = "write" /\ down[r] = Pieces(r)
    BY <1>1 DEF ServerInv, DeletedInv
<1>3. down[r] >= 2 /\ down[r] >= 1
    BY <1>2 DEF Pieces
<1> QED
    BY <1>1, <1>2, <1>3, DownIsAnswer

\* A client's operation that is outstanding has no other part of the client
\* waiting for it, and the client has not left.
LEMMA Outstanding ==
    ASSUME EInv, NEW r \in Exchanges, cOpState[r] \in {"pending", "part"}
    PROVE  ~gone /\ calls[r] = 0 /\ ioReq # r
<1>1. CP!CInv /\ ProcessInv
    BY DEF EInv
<1> QED
    BY <1>1, GoneIsQuiet DEF CP!CInv, CP!OpInv, CP!IoInv

\* The client's operation ends.
LEMMA ClientOpEndsPreserves ==
    ASSUME EInv, NEW r \in Exchanges, ClientOpEnds(r)
    PROVE  EInv'
<1>1. PICK e \in ClientSees(r) : C!OpComplete(r, e)
    BY DEF ClientOpEnds
<1> USE <1>1 DEF ClientOpEnds, C!OpComplete, C!ioVars, C!userVars, C!resultVars, serverVars
<1>2. CP!CInv /\ CP!CInv'
    BY ClientInvariantKept DEF EInv, Next
<1>3. TypeOK /\ ServerTypeOK /\ ServerInv(r) /\ ClientInv(r)
    BY DEF EInv
<1>4. ~gone /\ calls[r] = 0 /\ ioReq # r
    BY Outstanding
<1>5. /\ up' \in [Exchanges -> 0 .. 2]
      /\ \A q \in Exchanges : up'[q] >= up[q] /\ (q # r => up'[q] = up[q])
      /\ cOp[r] # "write" => up' = up
      /\ cOp[r] = "write" /\ m_sock[r] # "reset" => up'[r] = 2
    BY <1>3 DEF TypeOK
<1>6. /\ taken' \in [Exchanges -> 0 .. 3]
      /\ \A q \in Exchanges : taken'[q] <= down[q] /\ (q # r => taken'[q] = taken[q])
      /\ cOp[r] \in Reads => taken'[r] = down[r]
    BY <1>3 DEF TypeOK
<1>7. TypeOK' /\ ServerTypeOK'
    BY <1>3, <1>5, <1>6 DEF TypeOK, ServerTypeOK
<1>8. \A q \in Exchanges : ServerInv(q)'
    BY <1>3, <1>4, <1>5, ServerKept DEF EInv, TypeOK
<1>9. ASSUME NEW q \in Exchanges, q # r PROVE ClientInv(q)'
  <2>1. /\ cOpState'[q] = cOpState[q] /\ cOpEc'[q] = cOpEc[q]
        /\ m_sock'[q] = m_sock[q]
    BY <1>2, <1>9, ClientTypes
  <2>2. up'[q] = up[q] /\ taken'[q] = taken[q]
    BY <1>5, <1>6, <1>9
  <2>3. down[q] \in Nat
    BY <1>3 DEF TypeOK
  <2> QED
    BY <2>1, <2>2, <2>3, ClientKept DEF EInv
<1>10. ClientInv(r)'
  <2>1. cOpEc'[r] = e
    BY <1>2, ClientTypes
  <2>2. m_sock'[r] = "reset" => m_sock[r] = "reset"
    BY <1>2, ClientTypes
  <2>3. cOp[r] \in {"none", "resolve", "connect", "write"} \cup Reads
    BY <1>2, ClientTypes
  <2>4. /\ HeadersFound(r)' = HeadersFound(r)
        /\ Response(r)' = Response(r) /\ Pieces(r)' = Pieces(r)
    BY DEF HeadersFound, Response, Pieces
  <2>5. FlowInv(r)'
    BY <1>3, <1>5, <2>2, <2>4 DEF ClientInv, FlowInv, Reads
  <2>6. CASE e = "ok"
    <3>1. Succeeded(r)'
        BY <1>5, <2>4, <2>6, ClientSeesCases DEF Succeeded
    <3> QED
        BY <1>4, <2>1, <2>5, <2>6, <3>1 DEF ClientInv, QueuedInv, HandledInv
  <2>7. CASE e = "error"
    <3>1. server = "terminated" \/ cOp[r] \in {"resolve", "connect"}
        BY <1>3, <2>7, ClientSeesCases DEF ClientInv, FlowInv
    <3>2. EndsWith(r, "error")'
        BY <3>1 DEF EndsWith
    <3> QED
        BY <1>4, <2>1, <2>5, <2>7, <3>2 DEF ClientInv, QueuedInv, HandledInv
  <2>8. CASE e = "eof"
    <3>1. /\ Ended(r) /\ cOp[r] \notin {"resolve", "connect", "write"}
          /\ cOp[r] = "status" => ~(down[r] >= 1)
          /\ cOp[r] = "headers" => ~HeadersFound(r)
        BY <2>8, ClientSeesCases
    <3>2. cOp[r] \in Reads
        BY <1>2, <2>3, <3>1 DEF CP!CInv, CP!OpInv
    <3>3. up[r] = 2
        BY <1>3, <3>2 DEF ClientInv, FlowInv
    <3>4. CASE server = "terminated"
      <4>1. EndsWith(r, "eof")' /\ (cOp[r] = "body" => EndsWith(r, "ok")')
        BY <3>4 DEF EndsWith
      <4> QED
        BY <1>4, <2>1, <2>5, <2>8, <4>1 DEF ClientInv, QueuedInv, HandledInv
    <3>5. CASE server # "terminated"
      <4>1. service[r] = "deleted"
        BY <3>1, <3>5 DEF Ended
      <4>2. responses[r] # <<>> /\ down[r] = Pieces(r) /\ down[r] >= 2 /\ down[r] >= 1
        BY <3>3, <4>1, DeletedIsSent
      <4>3. ReadWhole(r)'
        BY <1>6, <2>4, <3>2, <4>1, <4>2 DEF ReadWhole
      <4>4. cOp[r] = "body" => EndsWith(r, "ok")'
        BY <4>3 DEF EndsWith
      <4>5. cOp[r] # "body" => EndsWith(r, "eof")'
        <5>1. cOp[r] # "body" => cOp[r] = "headers"
            BY <3>1, <3>2, <4>2 DEF Reads
        <5>2. cOp[r] # "body" => Response(r).content_length = <<>>
            BY <3>1, <4>2, <5>1 DEF HeadersFound
        <5> QED
            BY <2>4, <4>3, <5>2 DEF EndsWith
      <4> QED
        BY <1>4, <2>1, <2>5, <2>8, <4>4, <4>5 DEF ClientInv, QueuedInv, HandledInv
    <3> QED
        BY <3>4, <3>5
  <2> QED
    BY <2>6, <2>7, <2>8, ClientSeesOutcome
<1>11. ProcessInv'
  <2>1. ASSUME NEW q \in Exchanges, Unanswerable(q) PROVE Unanswerable(q)'
    BY <1>3, <1>5, <2>1 DEF TypeOK, Unanswerable
  <2> QED
    BY <2>1 DEF EInv, ProcessInv
<1> QED
    BY <1>2, <1>7, <1>8, <1>9, <1>10, <1>11 DEF EInv

\* A piece of the client's operation is done.
LEMMA ClientPartialPreserves ==
    ASSUME EInv, NEW r \in Exchanges, ClientPartial(r)
    PROVE  EInv'
<1> USE DEF ClientPartial, C!OpPartial, C!requestVars, C!ioVars, C!userVars,
            C!resultVars, serverVars
<1>1. CP!CInv /\ CP!CInv'
    BY ClientInvariantKept DEF EInv, Next
<1>2. TypeOK /\ ServerTypeOK /\ ServerInv(r) /\ ClientInv(r)
    BY DEF EInv
<1>3. ~gone /\ calls[r] = 0 /\ ioReq # r
    BY Outstanding
<1>4. /\ up' \in [Exchanges -> 0 .. 2]
      /\ \A q \in Exchanges : up'[q] >= up[q] /\ (q # r => up'[q] = up[q])
      /\ cOp[r] # "write" => up' = up
    BY <1>2 DEF TypeOK, Reads
<1>5. /\ taken' \in [Exchanges -> 0 .. 3]
      /\ \A q \in Exchanges : taken'[q] <= down[q] /\ (q # r => taken'[q] = taken[q])
    BY <1>2 DEF TypeOK
<1>6. TypeOK' /\ ServerTypeOK'
    BY <1>2, <1>4, <1>5 DEF TypeOK, ServerTypeOK
<1>7. \A q \in Exchanges : ServerInv(q)'
    BY <1>2, <1>3, <1>4, ServerKept DEF EInv, TypeOK
<1>8. ASSUME NEW q \in Exchanges, q # r PROVE ClientInv(q)'
  <2>1. cOpState'[q] = cOpState[q]
    BY <1>1, <1>8, ClientTypes
  <2>2. up'[q] = up[q] /\ taken'[q] = taken[q]
    BY <1>4, <1>5, <1>8
  <2>3. down[q] \in Nat
    BY <1>2 DEF TypeOK
  <2> QED
    BY <2>1, <2>2, <2>3, ClientKept DEF EInv
<1>9. ClientInv(r)'
  <2>1. cOpState'[r] = "part"
    BY <1>1, ClientTypes
  <2>2. FlowInv(r)'
    BY <1>2, <1>4 DEF ClientInv, FlowInv, HeadersFound, Response, Reads
  <2> QED
    BY <1>3, <2>1, <2>2 DEF ClientInv, QueuedInv, HandledInv
<1>10. ProcessInv'
  <2>1. ASSUME NEW q \in Exchanges, Unanswerable(q) PROVE Unanswerable(q)'
    BY <1>2, <1>4, <2>1 DEF TypeOK, Unanswerable
  <2> QED
    BY <2>1 DEF EInv, ProcessInv
<1> QED
    BY <1>1, <1>6, <1>7, <1>8, <1>9, <1>10 DEF EInv

\* The server's process has ended and resets a connection.
LEMMA ServerResetsPreserves ==
    ASSUME EInv, NEW r \in Exchanges, ServerResets(r)
    PROVE  EInv'
<1> USE DEF ServerResets, C!Reset, C!opVars, C!ioVars, C!userVars, C!resultVars,
            serverVars, wireVars
<1>1. CP!CInv /\ CP!CInv'
    BY ClientInvariantKept DEF EInv, Next
<1>2. TypeOK' /\ ServerTypeOK'
    BY DEF EInv, TypeOK, ServerTypeOK
<1>3. \A q \in Exchanges : ServerInv(q)'
    BY ServerKept DEF EInv, TypeOK
<1>4. \A q \in Exchanges : ClientInv(q)'
    BY ClientKept DEF EInv, TypeOK
<1>5. ProcessInv'
    BY DEF EInv, ProcessInv, Unanswerable
<1> QED
    BY <1>1, <1>2, <1>3, <1>4, <1>5 DEF EInv

-----------------------------------------------------------------------------
(***************************************************************************)
(* The steps of the server leave the client and its request alone: what    *)
(* has to be shown of one for exchange r is ServerMoves(r).                *)
(***************************************************************************)

ServerMoves(r) ==
    /\ TypeOK' /\ ServerTypeOK' /\ ServerInv(r)' /\ ProcessInv'
    /\ \A q \in Exchanges \ {r} :
           /\ request'[q] = request[q] /\ conn'[q] = conn[q] /\ service'[q] = service[q]
           /\ sOp'[q] = sOp[q] /\ sOpState'[q] = sOpState[q] /\ sOpEc'[q] = sOpEc[q]
           /\ m_response_status_code'[q] = m_response_status_code[q]
           /\ m_resource_size_bytes'[q] = m_resource_size_bytes[q]
           /\ m_response_headers'[q] = m_response_headers[q]
           /\ responses'[q] = responses[q] /\ down'[q] = down[q]
    /\ down'[r] >= down[r]
    /\ responses[r] # <<>> => responses'[r] = responses[r]
    /\ service[r] = "deleted" => service'[r] = "deleted"
    /\ server = "terminated" => server' = "terminated"

\* ServerMoves is enough.
LEMMA ServerMovesEnough ==
    ASSUME EInv, NEW r \in Exchanges, ServerStep(r), ServerMoves(r),
           UNCHANGED <<clientVars, up, taken, gone, stopped>>
    PROVE  EInv'
<1> USE DEF ServerMoves, clientVars
<1>1. CP!CInv'
    BY ClientInvariantKept DEF EInv, Next
<1>2. ASSUME NEW q \in Exchanges PROVE ServerInv(q)'
  <2>1. CASE q = r
    BY <2>1
  <2>2. CASE q # r
    <3>1. ServerInv(q) /\ up[q] \in 0 .. 2
        BY DEF EInv, TypeOK
    <3> QED
        BY <2>2, <3>1, ServerKept
  <2> QED
    BY <2>1, <2>2
<1>3. ASSUME NEW q \in Exchanges PROVE ClientInv(q)'
  <2>1. TypeOK /\ ServerTypeOK /\ ServerInv(q) /\ ClientInv(q)
    BY DEF EInv
  <2>2. down[q] \in Nat /\ down'[q] \in Nat /\ down'[q] >= down[q]
    BY <2>1 DEF TypeOK
  <2> QED
    BY <2>1, <2>2, ClientKept
<1> QED
    BY <1>1, <1>2, <1>3 DEF EInv

\* A connection is accepted.
LEMMA AcceptedPreserves ==
    ASSUME EInv, NEW r \in Exchanges, Accepted(r)
    PROVE  EInv'
<1> USE DEF Accepted, S!StartHandling, S!StartOp, S!dataVars, wireVars
<1>1. TypeOK /\ ServerTypeOK /\ ServerInv(r) /\ ProcessInv
    BY DEF EInv
<1>2. /\ conn' = [conn EXCEPT ![r] = "up"] /\ service' = [service EXCEPT ![r] = "alive"]
      /\ sOp' = [sOp EXCEPT ![r] = "line"] /\ sOpState' = [sOpState EXCEPT ![r] = "pending"]
    OBVIOUS
<1>3. ServerTypeOK'
    BY <1>1, <1>2 DEF ServerTypeOK
<1>4. TypeOK' /\ ProcessInv'
    BY <1>1 DEF TypeOK, ServerTypeOK, ProcessInv, Unanswerable, clientVars
<1>5. ServerInv(r)'
  <2>1. /\ conn'[r] = "up" /\ service'[r] = "alive"
        /\ sOp'[r] = "line" /\ sOpState'[r] = "pending"
    BY <1>1, <1>2 DEF ServerTypeOK
  <2>2. sOp[r] = "none"
    BY <1>1 DEF ServerInv, LifeInv
  <2> QED
    BY <1>1, <2>1, <2>2
    DEF ServerInv, AskInv, LifeInv, FreshInv, ReadInv, AnswerInv, DeletedInv
<1>6. \A q \in Exchanges \ {r} :
          /\ conn'[q] = conn[q] /\ service'[q] = service[q]
          /\ sOp'[q] = sOp[q] /\ sOpState'[q] = sOpState[q]
    BY <1>1, <1>2 DEF ServerTypeOK
<1>7. down[r] \in Nat /\ service[r] = "none"
    BY <1>1 DEF TypeOK, ServerInv, LifeInv
<1>8. ServerMoves(r)
    BY <1>3, <1>4, <1>5, <1>6, <1>7 DEF ServerMoves
<1> QED
    BY <1>8, ServerMovesEnough DEF ServerStep

\* What the Service's operation ends with on a connection that was not reset.
LEMMA ReadOutcome ==
    ASSUME NEW r \in Exchanges, AskInv(r), TypeOK, ReadInv(r),
           sOp[r] \in {"line", "headers"},
           \/ sOp[r] = "line" /\ (up[r] >= 1 \/ gone)
           \/ sOp[r] = "headers" /\ (up[r] = 2 \/ gone)
    PROVE  \/ S!Outcome(r) = "ok" /\ (sOp[r] = "line" => up[r] >= 1)
                                  /\ (sOp[r] = "headers" => up[r] = 2)
           \/ S!Outcome(r) = "error" /\ gone /\ up[r] < 2
<1>1. up[r] \in 0 .. 2
    BY DEF TypeOK
<1>2. CASE sOp[r] = "line"
  <2>1. S!Outcome(r) = [whole |-> "ok", long |-> "not_found", cut |-> "error"][request[r].line]
    BY <1>2 DEF S!Outcome
  <2> QED
    BY <1>1, <1>2, <2>1 DEF AskInv
<1>3. CASE sOp[r] = "headers"
  <2>1. S!Outcome(r) = [whole |-> "ok", long |-> "not_found", cut |-> "error"][request[r].headers]
    BY <1>3 DEF S!Outcome
  <2> QED
    BY <1>1, <1>3, <2>1 DEF AskInv
<1> QED
    BY <1>2, <1>3

\* The Service's operation ends.
LEMMA ServerOpEndsPreserves ==
    ASSUME EInv, NEW r \in Exchanges, ServerOpEnds(r)
    PROVE  EInv'
<1> USE DEF ServerOpEnds, S!OpComplete, S!dataVars, wireVars
<1>1. TypeOK /\ ServerTypeOK /\ ServerInv(r) /\ ProcessInv
    BY DEF EInv
<1> DEFINE e == IF conn[r] = "reset" THEN "error" ELSE S!Outcome(r)
<1>2. sOpState' = [sOpState EXCEPT ![r] = "ready"] /\ sOpEc' = [sOpEc EXCEPT ![r] = e]
    OBVIOUS
<1>3. sOp[r] \in {"line", "headers", "write"} /\ service[r] = "alive"
    BY <1>1 DEF ServerInv, LifeInv, ServerTypeOK
<1>4. sOp[r] \in {"line", "headers"} =>
          \/ e = "ok" /\ (sOp[r] = "line" => up[r] >= 1) /\ (sOp[r] = "headers" => up[r] = 2)
          \/ e = "error" /\ gone /\ up[r] < 2
    BY <1>1, ReadOutcome DEF ServerInv, FreshInv
<1>5. sOp[r] = "write" => e \in {"ok", "error"}
    BY DEF S!Outcome
<1>6. e \in {"ok", "error"}
    BY <1>3, <1>4, <1>5
<1> HIDE DEF e
<1>7. ServerTypeOK'
    BY <1>1, <1>2, <1>6 DEF ServerTypeOK
<1>8. TypeOK' /\ ProcessInv'
    BY <1>1 DEF TypeOK, ProcessInv, Unanswerable, clientVars
<1>9. ServerInv(r)'
  <2>1. sOpState'[r] = "ready" /\ sOpEc'[r] = e /\ sOpState[r] = "pending"
    BY <1>1, <1>2 DEF ServerTypeOK
  <2>2. AskInv(r)' /\ LifeInv(r)' /\ FreshInv(r)'
    BY <1>1, <1>3, <2>1 DEF ServerInv, AskInv, LifeInv, FreshInv
  <2>3. ReadInv(r)'
    BY <1>1, <1>4, <2>1 DEF ServerInv, ReadInv
  <2>4. AnswerInv(r)' /\ DeletedInv(r)'
    BY <1>1, <1>3, <2>1 DEF ServerInv, AnswerInv, DeletedInv, Pieces, Response
  <2> QED
    BY <2>2, <2>3, <2>4 DEF ServerInv
<1>10. \A q \in Exchanges \ {r} : sOpState'[q] = sOpState[q] /\ sOpEc'[q] = sOpEc[q]
    BY <1>1, <1>2 DEF ServerTypeOK
<1>11. down[r] \in Nat
    BY <1>1 DEF TypeOK
<1>12. ServerMoves(r)
    BY <1>7, <1>8, <1>9, <1>10, <1>11 DEF ServerMoves
<1> QED
    BY <1>12, ServerMovesEnough DEF ServerStep

\* The next piece of the response.
LEMMA TransmitPreserves ==
    ASSUME EInv, NEW r \in Exchanges, Transmit(r)
    PROVE  EInv'
<1> USE DEF Transmit, serverVars
<1>1. TypeOK /\ ServerTypeOK /\ ServerInv(r) /\ ProcessInv
    BY DEF EInv
<1>2. Pieces(r) \in {2, 3} /\ down[r] \in 0 .. 3
    BY <1>1 DEF Pieces, TypeOK
<1>3. /\ down' \in [Exchanges -> 0 .. 3] /\ down'[r] = down[r] + 1
      /\ \A q \in Exchanges \ {r} : down'[q] = down[q]
    BY <1>1, <1>2 DEF TypeOK
<1>4. TypeOK'
  <2>1. \A q \in Exchanges : taken[q] <= down'[q]
    BY <1>1, <1>2, <1>3 DEF TypeOK
  <2> QED
    BY <1>1, <1>3, <2>1 DEF TypeOK
<1>5. ServerTypeOK' /\ ProcessInv'
    BY <1>1 DEF ServerTypeOK, ProcessInv, Unanswerable, clientVars
<1>6. ServerInv(r)'
  <2>1. AskInv(r)' /\ LifeInv(r)' /\ FreshInv(r)' /\ ReadInv(r)'
    BY <1>1 DEF ServerInv, AskInv, LifeInv, FreshInv, ReadInv
  <2>2. AnswerInv(r)' /\ DeletedInv(r)'
    BY <1>1, <1>2, <1>3 DEF ServerInv, LifeInv, AnswerInv, DeletedInv, Pieces, Response
  <2> QED
    BY <2>1, <2>2 DEF ServerInv
<1>7. ServerMoves(r)
    BY <1>2, <1>3, <1>4, <1>5, <1>6 DEF ServerMoves
<1> QED
    BY <1>7, ServerMovesEnough DEF ServerStep

\* Only a request that was cancelled has a response that its client, gone, has
\* not read to the end.
LEMMA UnreadIsCancelled ==
    ASSUME EInv, NEW r \in Exchanges, gone, server = "up",
           sOp[r] = "write", taken[r] < Pieces(r)
    PROVE  m_was_cancelled[r]
<1>1. ServerInv(r) /\ ClientInv(r) /\ CP!CInv /\ ProcessInv
    BY DEF EInv
<1>2. up[r] = 2 /\ Pieces(r) \in Nat
    BY <1>1 DEF ServerInv, AnswerInv, Pieces
<1>3. cOp[r] \notin {"none", "resolve", "connect"}
    BY <1>1, <1>2 DEF ClientInv, FlowInv
<1>4. calls[r] = 1
    BY <1>1, <1>3, GoneIsQuiet
<1>5. EndsWith(r, verdict[r])
    BY <1>1, <1>4 DEF ClientInv, HandledInv
<1>6. ~ReadWhole(r)
    BY <1>2 DEF ReadWhole, EInv, TypeOK
<1> QED
    BY <1>3, <1>5, <1>6 DEF EndsWith

\* The client has left and answers the response with a reset.
LEMMA ClientResetsPreserves ==
    ASSUME EInv, NEW r \in Exchanges, ClientResets(r)
    PROVE  EInv'
<1> USE DEF ClientResets, S!Reset, S!opVars, S!dataVars, wireVars
<1>1. TypeOK /\ ServerTypeOK /\ ServerInv(r) /\ ProcessInv
    BY DEF EInv
<1>2. conn' \in [Exchanges -> {"none", "up", "reset"}] /\ conn'[r] = "reset"
      /\ \A q \in Exchanges \ {r} : conn'[q] = conn[q]
    BY <1>1 DEF ServerTypeOK
<1>3. TypeOK' /\ ServerTypeOK'
    BY <1>1, <1>2 DEF TypeOK, ServerTypeOK
<1>4. server = "up" => m_was_cancelled[r]
    BY UnreadIsCancelled
<1>5. ProcessInv'
    BY <1>1, <1>2, <1>4 DEF ProcessInv, Unanswerable, clientVars
<1>6. ServerInv(r)'
    BY <1>1, <1>2 DEF ServerInv, AskInv, LifeInv, FreshInv, ReadInv, AnswerInv,
                      DeletedInv, Pieces, Response
<1>7. ServerMoves(r)
    BY <1>1, <1>2, <1>3, <1>5, <1>6 DEF ServerMoves, TypeOK
<1> QED
    BY <1>7, ServerMovesEnough DEF ServerStep

\* on_finish of a Service whose response is sent, or whose client left early.
LEMMA FinishMoves ==
    ASSUME EInv, NEW r \in Exchanges, S!OnFinish(r), UNCHANGED <<request, conn, sOpEc>>,
           UNCHANGED <<clientVars, wireVars>>,
           IF sOp[r] = "write" THEN down[r] = Pieces(r) ELSE gone /\ up[r] < 2,
           service[r] = "alive"
    PROVE  ServerMoves(r)
<1> USE DEF S!OnFinish, S!dataVars, wireVars
<1>1. TypeOK /\ ServerTypeOK /\ ServerInv(r) /\ ProcessInv
    BY DEF EInv
<1>2. /\ service'[r] = "deleted" /\ sOpState'[r] = "none"
      /\ \A q \in Exchanges \ {r} : service'[q] = service[q] /\ sOpState'[q] = sOpState[q]
    BY <1>1 DEF ServerTypeOK
<1>3. TypeOK' /\ ProcessInv'
    BY <1>1 DEF TypeOK, ProcessInv, Unanswerable, clientVars
<1>4. ServerTypeOK'
    BY <1>1 DEF ServerTypeOK
<1>5. ServerInv(r)'
  <2>1. AskInv(r)' /\ LifeInv(r)' /\ FreshInv(r)' /\ ReadInv(r)'
    BY <1>1, <1>2 DEF ServerInv, AskInv, LifeInv, FreshInv, ReadInv
  <2>2. AnswerInv(r)' /\ DeletedInv(r)'
    BY <1>1, <1>2 DEF ServerInv, AnswerInv, DeletedInv, Pieces, Response
  <2> QED
    BY <2>1, <2>2 DEF ServerInv
<1>6. down[r] \in Nat
    BY <1>1 DEF TypeOK
<1> QED
    BY <1>2, <1>3, <1>4, <1>5, <1>6 DEF ServerMoves

\* A read of the Service fails only when the client has left early.
LEMMA ReadFailsMoves ==
    ASSUME EInv, NEW r \in Exchanges, NEW o \in {"line", "headers"}, S!ReadFails(r, o),
           UNCHANGED <<clientVars, wireVars>>
    PROVE  ServerMoves(r)
<1>1. ServerInv(r) /\ ServerTypeOK
    BY DEF EInv
<1>2. sOp[r] = o /\ sOpState[r] = "ready" /\ sOpEc[r] \in {"not_found", "error"}
    BY DEF S!ReadFails, S!Dispatch
<1>3. sOpEc[r] = "error" /\ gone /\ up[r] < 2
    BY <1>1, <1>2 DEF ServerInv, ReadInv
<1>4. S!OnFinish(r) /\ UNCHANGED <<request, conn, sOpEc>>
    BY <1>3 DEF S!ReadFails, S!Dispatch
<1>5. service[r] = "alive" /\ sOp[r] # "write"
    BY <1>1, <1>2 DEF ServerInv, LifeInv
<1> QED
    BY <1>3, <1>4, <1>5, FinishMoves

\* The request line is received: a GET is followed by its headers.
LEMMA LineReceivedMoves ==
    ASSUME EInv, NEW r \in Exchanges, S!LineReceived(r), UNCHANGED <<clientVars, wireVars>>
    PROVE  ServerMoves(r)
<1> USE DEF wireVars
<1>1. TypeOK /\ ServerTypeOK /\ ServerInv(r) /\ ProcessInv
    BY DEF EInv
<1>2. S!Dispatch(r, "line", "ok")
    BY DEF S!LineReceived
<1>3. S!StartOp(r, "headers") /\ UNCHANGED <<server, service, S!dataVars, responses>>
    BY <1>1 DEF S!LineReceived, ServerInv, AskInv
<1> USE <1>2, <1>3 DEF S!Dispatch, S!StartOp, S!dataVars
<1>4. /\ sOp'[r] = "headers" /\ sOpState'[r] = "pending"
      /\ \A q \in Exchanges \ {r} : sOp'[q] = sOp[q] /\ sOpState'[q] = sOpState[q]
    BY <1>1 DEF ServerTypeOK
<1>5. TypeOK' /\ ProcessInv'
    BY <1>1 DEF TypeOK, ProcessInv, Unanswerable, clientVars
<1>6. ServerTypeOK'
    BY <1>1 DEF ServerTypeOK
<1>7. ServerInv(r)'
  <2>1. AskInv(r)' /\ LifeInv(r)' /\ FreshInv(r)'
    BY <1>1, <1>4 DEF ServerInv, AskInv, LifeInv, FreshInv
  <2>2. ReadInv(r)'
    BY <1>1, <1>4 DEF ServerInv, ReadInv
  <2>3. AnswerInv(r)' /\ DeletedInv(r)'
    BY <1>1, <1>4 DEF ServerInv, LifeInv, AnswerInv, DeletedInv
  <2> QED
    BY <2>1, <2>2, <2>3 DEF ServerInv
<1>8. down[r] \in Nat
    BY <1>1 DEF TypeOK
<1> QED
    BY <1>4, <1>5, <1>6, <1>7, <1>8 DEF ServerMoves

\* The first response of a Service.
LEMMA FirstResponse ==
    ASSUME NEW T, NEW a \in T
    PROVE  Append(<<>>, a) \in Seq(T) /\ Len(Append(<<>>, a)) = 1 /\ Append(<<>>, a)[1] = a
    OBVIOUS

\* send_response of a Service that has a whole request.
LEMMA SendMoves ==
    ASSUME EInv, NEW r \in Exchanges, S!Dispatch(r, "headers", "ok"),
           UNCHANGED <<clientVars, wireVars>>
    PROVE  \A status \in {200, 404, 500}, headers \in Seq(Nat), size \in Nat :
               /\ status = 200 <=> headers # <<>>
               /\ S!SendResponse(r, status, headers, size)
               => ServerMoves(r)
<1> SUFFICES ASSUME NEW status \in {200, 404, 500}, NEW headers \in Seq(Nat),
                    NEW size \in Nat, status = 200 <=> headers # <<>>,
                    S!SendResponse(r, status, headers, size)
             PROVE  ServerMoves(r)
    OBVIOUS
<1> USE DEF wireVars, S!Dispatch
<1>1. TypeOK /\ ServerTypeOK /\ ServerInv(r) /\ ProcessInv
    BY DEF EInv
<1>2. /\ responses[r] = <<>> /\ down[r] = 0 /\ conn[r] # "reset" /\ up[r] = 2
      /\ service[r] = "alive"
    BY <1>1 DEF ServerInv, FreshInv, ReadInv, LifeInv
<1> DEFINE a == [status |-> status, content_length |-> headers, body |-> size]
           A == [status : Nat, content_length : Seq(Nat), body : Nat]
<1>3. /\ m_response_status_code' = [m_response_status_code EXCEPT ![r] = status]
      /\ m_response_headers' = [m_response_headers EXCEPT ![r] = headers]
      /\ m_resource_size_bytes' = [m_resource_size_bytes EXCEPT ![r] = size]
      /\ responses' = [responses EXCEPT ![r] = Append(@, a)]
      /\ sOp' = [sOp EXCEPT ![r] = "write"]
      /\ sOpState' = [sOpState EXCEPT ![r] = "pending"]
      /\ UNCHANGED <<server, service>>
    BY <1>2 DEF S!SendResponse, S!StatusTable, S!StartOp
<1>4. a \in A /\ a.status = status /\ a.content_length = headers /\ a.body = size
    OBVIOUS
<1>5. Append(<<>>, a) \in Seq(A) /\ Len(Append(<<>>, a)) = 1 /\ Append(<<>>, a)[1] = a
    BY <1>4, FirstResponse
<1> HIDE DEF a
<1>6. /\ responses' \in [Exchanges -> Seq(A)]
      /\ responses'[r] = Append(<<>>, a)
      /\ \A q \in Exchanges \ {r} : responses'[q] = responses[q]
    BY <1>1, <1>2, <1>3, <1>5 DEF ServerTypeOK
<1>7. /\ sOp'[r] = "write" /\ sOpState'[r] = "pending"
      /\ \A q \in Exchanges \ {r} :
             /\ sOp'[q] = sOp[q] /\ sOpState'[q] = sOpState[q]
             /\ m_response_status_code'[q] = m_response_status_code[q]
             /\ m_resource_size_bytes'[q] = m_resource_size_bytes[q]
             /\ m_response_headers'[q] = m_response_headers[q]
    BY <1>1, <1>3 DEF ServerTypeOK
<1>8. TypeOK' /\ ProcessInv'
    BY <1>1, <1>3 DEF TypeOK, ProcessInv, Unanswerable, clientVars
<1>9. ServerTypeOK'
  <2>1. /\ m_response_headers' \in [Exchanges -> Seq(Nat)]
        /\ m_resource_size_bytes' \in [Exchanges -> Nat]
        /\ m_response_status_code' \in [Exchanges -> S!StatusTable]
    BY <1>1, <1>3 DEF ServerTypeOK, S!StatusTable
  <2>2. /\ sOp' \in [Exchanges -> {"none", "line", "headers", "write"}]
        /\ sOpState' \in [Exchanges -> {"none", "pending", "ready"}]
    BY <1>1, <1>3 DEF ServerTypeOK
  <2> QED
    BY <1>1, <1>3, <1>6, <2>1, <2>2 DEF ServerTypeOK
<1>10. ServerInv(r)'
  <2>1. AskInv(r)' /\ LifeInv(r)' /\ FreshInv(r)' /\ ReadInv(r)'
    BY <1>1, <1>2, <1>3, <1>7 DEF ServerInv, AskInv, LifeInv, FreshInv, ReadInv
  <2>2. Response(r)' = a /\ Len(responses'[r]) = 1
    BY <1>5, <1>6 DEF Response
  <2>3. Pieces(r)' \in {2, 3}
    BY DEF Pieces
  <2>4. AnswerInv(r)'
    BY <1>2, <1>4, <1>7, <2>2, <2>3 DEF AnswerInv
  <2>5. DeletedInv(r)'
    BY <1>2, <1>3 DEF DeletedInv
  <2> QED
    BY <2>1, <2>4, <2>5 DEF ServerInv
<1>11. down[r] \in Nat
    BY <1>1 DEF TypeOK
<1> QED
    BY <1>2, <1>3, <1>6, <1>7, <1>8, <1>9, <1>10, <1>11 DEF ServerMoves

\* The headers are received and the resource is looked up.
LEMMA HeadersReceivedMoves ==
    ASSUME EInv, NEW r \in Exchanges, S!HeadersReceived(r), UNCHANGED <<clientVars, wireVars>>
    PROVE  ServerMoves(r)
<1>1. ServerInv(r) /\ ServerTypeOK
    BY DEF EInv
<1>2. S!Dispatch(r, "headers", "ok")
    BY DEF S!HeadersReceived
<1>3. /\ m_response_status_code[r] = 200
      /\ m_resource_size_bytes[r] = 0
      /\ m_response_headers[r] = <<>>
    BY <1>1, <1>2 DEF ServerInv, FreshInv, S!Dispatch
<1>4. request[r].size \in Nat
    BY <1>1 DEF ServerTypeOK, S!RequestShapes
<1>5. \/ S!SendResponse(r, 404, <<>>, 0)
      \/ S!SendResponse(r, 500, <<>>, 0)
      \/ S!SendResponse(r, 200, Append(<<>>, request[r].size), request[r].size)
      \/ S!Terminate(r) /\ request[r].resource \in {"directory", "rejected"}
    BY <1>3 DEF S!HeadersReceived, S!ProcessRequest, S!SendStatus
<1>6. <<>> \in Seq(Nat) /\ 0 \in Nat
    OBVIOUS
<1>7. Append(<<>>, request[r].size) \in Seq(Nat) /\ Append(<<>>, request[r].size) # <<>>
    BY <1>4, FirstResponse, OneElement
<1>8. CASE S!SendResponse(r, 404, <<>>, 0)
  <2>1. PICK status : status = 404
    OBVIOUS
  <2>2. PICK headers : headers = <<>>
    OBVIOUS
  <2>3. PICK size : size = 0
    OBVIOUS
  <2>4. S!SendResponse(r, status, headers, size)
    BY <1>8, <2>1, <2>2, <2>3
  <2>5. status \in {200, 404, 500} /\ headers \in Seq(Nat) /\ size \in Nat
    BY <1>6, <2>1, <2>2, <2>3
  <2>6. status = 200 <=> headers # <<>>
    BY <1>6, <2>1, <2>2
  <2> QED
    BY <1>2, <2>4, <2>5, <2>6, SendMoves
<1>9. CASE S!SendResponse(r, 500, <<>>, 0)
  <2>1. PICK status : status = 500
    OBVIOUS
  <2>2. PICK headers : headers = <<>>
    OBVIOUS
  <2>3. PICK size : size = 0
    OBVIOUS
  <2>4. S!SendResponse(r, status, headers, size)
    BY <1>9, <2>1, <2>2, <2>3
  <2>5. status \in {200, 404, 500} /\ headers \in Seq(Nat) /\ size \in Nat
    BY <1>6, <2>1, <2>2, <2>3
  <2>6. status = 200 <=> headers # <<>>
    BY <1>6, <2>1, <2>2
  <2> QED
    BY <1>2, <2>4, <2>5, <2>6, SendMoves
<1>10. CASE S!SendResponse(r, 200, Append(<<>>, request[r].size), request[r].size)
  <2>1. PICK status : status = 200
    OBVIOUS
  <2>2. PICK headers : headers = Append(<<>>, request[r].size)
    OBVIOUS
  <2>3. PICK size : size = request[r].size
    OBVIOUS
  <2>4. S!SendResponse(r, status, headers, size)
    BY <1>10, <2>1, <2>2, <2>3
  <2>5. status \in {200, 404, 500} /\ headers \in Seq(Nat) /\ size \in Nat
    BY <1>4, <1>7, <2>1, <2>2, <2>3
  <2>6. status = 200 <=> headers # <<>>
    BY <1>4, <1>7, <2>1, <2>2
  <2> QED
    BY <1>2, <2>4, <2>5, <2>6, SendMoves
<1>11. CASE S!Terminate(r) /\ request[r].resource \in {"directory", "rejected"}
  <2> USE <1>2, <1>11 DEF S!Dispatch, S!Terminate, S!dataVars, wireVars
  <2>1. TypeOK /\ ProcessInv
    BY DEF EInv
  <2>2. Unanswerable(r)
    BY <1>1 DEF ServerInv, FreshInv, ReadInv, Unanswerable
  <2>3. TypeOK' /\ ServerTypeOK'
    BY <1>1, <2>1 DEF TypeOK, ServerTypeOK
  <2>4. ProcessInv'
    BY <2>1, <2>2 DEF ProcessInv, Unanswerable, clientVars
  <2>5. ServerInv(r)' /\ down[r] \in Nat
    BY <1>1, <2>1, ServerKept DEF TypeOK
  <2> QED
    BY <2>3, <2>4, <2>5 DEF ServerMoves
<1> QED
    BY <1>5, <1>8, <1>9, <1>10, <1>11

\* The response is sent; on a connection that was reset shutdown throws.
LEMMA ResponseSentMoves ==
    ASSUME EInv, NEW r \in Exchanges, S!OnResponseSent(r), UNCHANGED <<clientVars, wireVars>>
    PROVE  ServerMoves(r)
<1>1. TypeOK /\ ServerTypeOK /\ ServerInv(r) /\ ProcessInv
    BY DEF EInv
<1>2. /\ server = "up" /\ sOp[r] = "write" /\ sOpState[r] = "ready"
      /\ UNCHANGED <<request, conn, sOpEc>>
    BY DEF S!OnResponseSent, S!Dispatch
<1>3. service[r] = "alive"
    BY <1>1, <1>2 DEF ServerInv, LifeInv
<1>4. CASE conn[r] # "reset"
  <2>1. S!OnFinish(r)
    BY <1>4 DEF S!OnResponseSent
  <2>2. down[r] = Pieces(r)
    BY <1>1, <1>2, <1>4 DEF ServerInv, AnswerInv
  <2> QED
    BY <1>2, <1>3, <2>1, <2>2, FinishMoves
<1>5. CASE conn[r] = "reset"
  <2>1. S!Terminate(r)
    BY <1>5 DEF S!OnResponseSent
  <2> USE <1>2, <2>1 DEF S!Terminate, S!dataVars, wireVars
  <2>2. gone /\ m_was_cancelled[r]
    BY <1>1, <1>5 DEF ProcessInv
  <2>3. TypeOK' /\ ServerTypeOK'
    BY <1>1 DEF TypeOK, ServerTypeOK
  <2>4. ProcessInv'
    BY <1>1, <2>2 DEF ProcessInv, Unanswerable, clientVars
  <2>5. ServerInv(r)' /\ down[r] \in Nat
    BY <1>1, ServerKept DEF TypeOK
  <2> QED
    BY <2>3, <2>4, <2>5 DEF ServerMoves
<1> QED
    BY <1>4, <1>5

\* A handler of the Service.
LEMMA RunServerPreserves ==
    ASSUME EInv, NEW r \in Exchanges, RunServer(r)
    PROVE  EInv'
<1>1. UNCHANGED <<clientVars, wireVars>>
    BY DEF RunServer
<1>2. ServerMoves(r)
  <2>1. CASE S!ReadFails(r, "line")
    BY <1>1, <2>1, ReadFailsMoves
  <2>2. CASE S!ReadFails(r, "headers")
    BY <1>1, <2>2, ReadFailsMoves
  <2>3. CASE S!LineReceived(r)
    BY <1>1, <2>3, LineReceivedMoves
  <2>4. CASE S!HeadersReceived(r)
    BY <1>1, <2>4, HeadersReceivedMoves
  <2>5. CASE S!OnResponseSent(r)
    BY <1>1, <2>5, ResponseSentMoves
  <2> QED
    BY <2>1, <2>2, <2>3, <2>4, <2>5
    DEF RunServer, S!Handler, S!OnRequestLineReceived, S!OnHeadersReceived
<1> QED
    BY <1>1, <1>2, ServerMovesEnough DEF ServerStep, wireVars

-----------------------------------------------------------------------------
(***************************************************************************)
(* The end of a process.                                                   *)
(***************************************************************************)

\* main of the client returns: what it has not sent is cut off its requests.
LEMMA ClientLeavesPreserves ==
    ASSUME EInv, ClientLeaves
    PROVE  EInv'
<1>0. \A r \in Exchanges : down[r] \in Nat /\ down[r] >= down[r]
  <2>1. down \in [Exchanges -> 0 .. 3]
    BY DEF EInv, TypeOK
  <2> QED
    BY <2>1
<1> USE DEF ClientLeaves, clientVars
<1>1. CP!CInv'
    BY ClientInvariantKept DEF EInv, Next
<1>2. TypeOK /\ ServerTypeOK /\ ProcessInv
    BY DEF EInv
<1>3. TypeOK'
    BY <1>2 DEF TypeOK
<1>4. ASSUME NEW r \in Exchanges
      PROVE  /\ request'[r] \in S!RequestShapes
             /\ request'[r].method = request[r].method
             /\ request'[r].version = request[r].version
             /\ request'[r].resource = request[r].resource
             /\ request'[r].line = IF up[r] = 0 THEN "cut" ELSE request[r].line
             /\ request'[r].headers = IF up[r] < 2 THEN "cut" ELSE request[r].headers
  <2>1. request[r] \in S!RequestShapes
    BY <1>2 DEF ServerTypeOK
  <2>2. request'[r] = [request[r] EXCEPT !.line = IF up[r] = 0 THEN "cut" ELSE @,
                                         !.headers = IF up[r] < 2 THEN "cut" ELSE @]
    OBVIOUS
  <2> QED
    BY <2>1, <2>2 DEF S!RequestShapes
<1>5. ServerTypeOK'
  <2>1. request' \in [Exchanges -> S!RequestShapes]
    BY <1>4
  <2> QED
    BY <1>2, <2>1 DEF ServerTypeOK
<1>6. ASSUME NEW r \in Exchanges PROVE ServerInv(r)'
  <2>1. ServerInv(r)
    BY DEF EInv
  <2>2. AskInv(r)'
    BY <1>4, <2>1 DEF ServerInv, AskInv
  <2>3. LifeInv(r)' /\ FreshInv(r)' /\ ReadInv(r)'
    BY <2>1 DEF ServerInv, LifeInv, FreshInv, ReadInv
  <2>4. AnswerInv(r)' /\ DeletedInv(r)'
    BY <2>1 DEF ServerInv, AnswerInv, DeletedInv, Pieces, Response
  <2> QED
    BY <2>2, <2>3, <2>4 DEF ServerInv
<1>7. ASSUME NEW r \in Exchanges PROVE ClientInv(r)'
  <2>1. ServerInv(r) /\ ClientInv(r)
    BY DEF EInv
  <2> QED
    BY <1>0, <1>2, <2>1, ClientKept
<1>8. ProcessInv'
  <2>1. ASSUME NEW q \in Exchanges, Unanswerable(q) PROVE Unanswerable(q)'
    BY <1>4, <2>1 DEF Unanswerable
  <2> QED
    BY <1>2, <2>1 DEF ProcessInv
<1> QED
    BY <1>1, <1>3, <1>5, <1>6, <1>7, <1>8 DEF EInv

\* Server::Stop, and main of the server returns.
LEMMA StopServerPreserves ==
    ASSUME EInv, StopServer
    PROVE  EInv'
<1> USE DEF StopServer, clientVars
<1>1. CP!CInv'
    BY ClientInvariantKept DEF EInv, Next
<1>2. TypeOK /\ ServerTypeOK /\ ProcessInv
    BY DEF EInv
<1>3. TypeOK' /\ ServerTypeOK' /\ ProcessInv'
    BY <1>2 DEF TypeOK, ServerTypeOK, ProcessInv, Unanswerable
<1>4. ASSUME NEW r \in Exchanges PROVE ServerInv(r)' /\ ClientInv(r)'
  <2>1. /\ ServerInv(r) /\ ClientInv(r) /\ down[r] \in Nat /\ down[r] >= down[r]
        /\ up[r] \in 0 .. 2
    BY <1>2 DEF EInv, TypeOK
  <2>2. ServerInv(r)'
    BY <2>1, ServerKept
  <2>3. ClientInv(r)'
    BY <1>2, <2>1, ClientKept
  <2> QED
    BY <2>2, <2>3
<1> QED
    BY <1>1, <1>3, <1>4 DEF EInv

-----------------------------------------------------------------------------
(***************************************************************************)
(* The theorems.                                                           *)
(***************************************************************************)

\* EInv is an invariant of the exchange.
THEOREM ExchangeInvariant == Spec => []EInv
<1>1. Init => EInv
    BY InitEInv
<1>2. EInv /\ [Next]_vars => EInv'
  <2> SUFFICES ASSUME EInv, [Next]_vars PROVE EInv'
    OBVIOUS
  <2>1. CASE ClientStep
    BY <2>1, ClientStepPreserves
  <2>2. CASE ClientLeaves
    BY <2>2, ClientLeavesPreserves
  <2>3. CASE StopServer
    BY <2>3, StopServerPreserves
  <2>4. ASSUME NEW u \in Users, ApplicationCalls(u) PROVE EInv'
    BY <2>4, ApplicationCallsPreserves
  <2>5. ASSUME NEW r \in Exchanges, ClientOpEnds(r) PROVE EInv'
    BY <2>5, ClientOpEndsPreserves
  <2>6. ASSUME NEW r \in Exchanges, ClientPartial(r) PROVE EInv'
    BY <2>6, ClientPartialPreserves
  <2>7. ASSUME NEW r \in Exchanges, ServerResets(r) PROVE EInv'
    BY <2>7, ServerResetsPreserves
  <2>8. ASSUME NEW r \in Exchanges, ServerStep(r) PROVE EInv'
    <3>1. CASE Accepted(r)
        BY <3>1, AcceptedPreserves
    <3>2. CASE ServerOpEnds(r)
        BY <3>2, ServerOpEndsPreserves
    <3>3. CASE Transmit(r)
        BY <3>3, TransmitPreserves
    <3>4. CASE ClientResets(r)
        BY <3>4, ClientResetsPreserves
    <3>5. CASE RunServer(r)
        BY <3>5, RunServerPreserves
    <3> QED
        BY <2>8, <3>1, <3>2, <3>3, <3>4, <3>5 DEF ServerStep
  <2>9. CASE UNCHANGED vars
    <3> USE <2>9 DEF vars, clientVars
    <3>1. UNCHANGED <<serverVars, wireVars>>
        OBVIOUS
    <3>2. \A q \in Exchanges : ClientInv(q)'
        BY <3>1, OtherExchange
    <3>3. ClientMoves
        BY <3>2 DEF ClientMoves, EInv, ProcessInv
    <3> QED
        BY <3>1, <3>3, ClientMovesEnough
  <2> QED
    BY <2>1, <2>2, <2>3, <2>4, <2>5, <2>6, <2>7, <2>8, <2>9 DEF Next
<1> QED
    BY <1>1, <1>2, PTL DEF Spec

\* The counters of the connections have their types, and the client never reads
\* more than is there.
THEOREM ExchangeTypeCorrect == Spec => []TypeOK
<1>1. EInv => TypeOK
    BY DEF EInv
<1> QED
    BY <1>1, ExchangeInvariant, PTL

\* The Service answers exactly what the client asks for: on_headers_received
\* runs on a request that is whole, and on_finish without an answer only where
\* the client left before it had sent one.
THEOREM ExchangeAskedIsAnswered == Spec => []AskedIsAnswered
<1>1. EInv => AskedIsAnswered
  <2> SUFFICES ASSUME EInv, NEW r \in Exchanges
               PROVE  /\ responses[r] # <<>> => up[r] = 2
                      /\ service[r] = "deleted" /\ up[r] = 2 => responses[r] # <<>>
    BY DEF AskedIsAnswered
  <2>1. ServerTypeOK /\ ServerInv(r)
    BY DEF EInv
  <2>2. responses[r] # <<>> => up[r] = 2
    BY <2>1 DEF ServerInv, FreshInv, AnswerInv
  <2> QED
    BY <2>2, DeletedIsSent
<1> QED
    BY <1>1, ExchangeInvariant, PTL

\* on_response_body_received takes the end of the stream for success, and still
\* reports it only for status 200 with everything read, or of a server whose
\* process has ended.
THEOREM ExchangeCompletedIsWhole == Spec => []CompletedIsWhole
<1>1. EInv => CompletedIsWhole
  <2> SUFFICES ASSUME EInv, NEW r \in Exchanges, verdict[r] = "ok"
               PROVE  /\ responses[r] # <<>> /\ Response(r).status = 200
                      /\ taken[r] = Pieces(r) \/ server = "terminated"
    BY DEF CompletedIsWhole
  <2>1. ServerTypeOK /\ ServerInv(r) /\ ClientInv(r) /\ CP!CInv
    BY DEF EInv
  <2>2. calls[r] > 0
    BY <2>1 DEF CP!CInv, CP!VerdictInv
  <2>3. cOp[r] = "body" /\ (server = "terminated" \/ ReadWhole(r))
    BY <2>1, <2>2 DEF ClientInv, HandledInv, EndsWith
  <2>4. down[r] >= 1 /\ Response(r).content_length # <<>>
    BY <2>1, <2>3 DEF ClientInv, FlowInv, HeadersFound
  <2>5. sOp[r] = "write" /\ responses[r] # <<>>
    BY <2>1, <2>4, DownIsAnswer
  <2> QED
    BY <2>1, <2>3, <2>4, <2>5 DEF ServerInv, AnswerInv, ReadWhole
<1> QED
    BY <1>1, ExchangeInvariant, PTL

\* send_response writes no header but with status 200, and on_headers_received
\* of the client is given eof for a response without one.
THEOREM ExchangeHeaderlessIsEof == Spec => []HeaderlessIsEof
<1>1. EInv => HeaderlessIsEof
  <2> SUFFICES ASSUME EInv, NEW r \in Exchanges, calls[r] = 1, ~m_was_cancelled[r],
                      server = "up", responses[r] # <<>>
               PROVE  verdict[r] = "eof" <=> Response(r).status # 200
    BY DEF HeaderlessIsEof
  <2>1. ServerTypeOK /\ ServerInv(r) /\ ClientInv(r)
    BY DEF EInv
  <2>2. sOp[r] = "write"
    BY <2>1, DownIsAnswer
  <2>3. up[r] = 2 /\ (Response(r).status = 200 <=> Response(r).content_length # <<>>)
    BY <2>1, <2>2 DEF ServerInv, AnswerInv
  <2>4. cOp[r] \notin {"resolve", "connect"}
    BY <2>1, <2>3 DEF ClientInv, FlowInv
  <2>5. EndsWith(r, verdict[r])
    BY <2>1 DEF ClientInv, HandledInv
  <2>6. \/ verdict[r] = "ok" /\ cOp[r] = "body"
        \/ verdict[r] = "eof" /\ Response(r).content_length = <<>>
    BY <2>4, <2>5 DEF EndsWith
  <2>7. cOp[r] = "body" => Response(r).content_length # <<>>
    BY <2>1 DEF ClientInv, FlowInv, HeadersFound
  <2> QED
    BY <2>3, <2>6, <2>7
<1> QED
    BY <1>1, ExchangeInvariant, PTL

\* The server ends on its own only after a cancel, for HTTPRequest::cancel is the
\* one call that lets a client leave a response unread, or over a directory or a
\* rejected path, which process_request throws on; the client's shutdown throws
\* only after the server has ended.
THEOREM ExchangeThrowHasCause == Spec => []ThrowHasCause
<1>1. EInv => ThrowHasCause
    BY DEF EInv, ProcessInv, ThrowHasCause
<1> QED
    BY <1>1, ExchangeInvariant, PTL

=============================================================================
