------------------------------ MODULE SyncServer ------------------------------
(***************************************************************************)
(* The synchronous servers and the clients that talk to them, all on port  *)
(* 3333.  The server process runs one of                                   *)
(*   "iterative"  chapter4/syncIterative: one thread accepts and serves    *)
(*   "tls"        chapter5/syncSSLServer: the same after a handshake       *)
(*   "parallel"   chapter4/syncParallel: a detached thread per connection  *)
(*   "shutdown"   chapter2/sockShutdownServer: main serves one connection  *)
(* and a client process one of                                             *)
(*   "request"    the client written for that server: syncTCPClient,       *)
(*                syncSSLClient or sockShutdownClient                      *)
(*   "cancel"     chapter2/cancellingAsyncOperations: connects and leaves  *)
(*   "silent"     connects and never sends anything (not in src/)          *)
(* Every call blocks its thread; a step is one call that may block.        *)
(***************************************************************************)
EXTENDS Naturals, Sequences, FiniteSets

CONSTANTS Clients, Kinds, Programs

ASSUME SyncAssumption ==
    /\ Kinds \subseteq {"iterative", "tls", "parallel", "shutdown"}
    /\ Programs \subseteq {"request", "cancel", "silent"}

VARIABLES
    kind, prog,  \* which programs run
    mainPc,      \* main of the server: "up", "join", "stopped", "destroyed", "ended"
    m_stop,
    runPc,       \* Server::Run: "listen", "loop", "accept", "serve", "exited"
    listening, backlog,
    svc,         \* svc[c]: control state of HandleClient for c
    late,        \* the clients accepted after Stop set m_stop
    killed,      \* the server process was ended from outside
    cpc,         \* control state of the client processes
    outcome,     \* what the client reports: "none", "response" or "error"
    handled,     \* how often the handler of async_connect was called
    cancelled,   \* sock->cancel() has been called
    established, \* the kernel has made the connection
    request, cEnd,  \* client to server: the whole request, the end of the stream
    response, sEnd  \* server to client: the whole response, "open", "fin" or "rst"

programVars == <<kind, prog>>
mainVars == <<mainPc, m_stop>>
runVars == <<runPc, listening, backlog, late>>
clientVars == <<cpc, outcome, handled, cancelled>>
netVars == <<established, request, cEnd, response, sEnd>>
vars == <<programVars, mainVars, runVars, svc, killed, clientVars, netVars>>

Init ==
    /\ kind \in Kinds
    /\ prog \in [Clients -> Programs]
    /\ mainPc = IF kind = "shutdown" THEN "join" ELSE "up"
    /\ m_stop = FALSE
    /\ runPc = "listen"
    /\ listening = FALSE /\ backlog = <<>>
    /\ svc = [c \in Clients |-> "none"]
    /\ late = {}
    /\ killed = FALSE
    /\ cpc = [c \in Clients |-> "start"]
    /\ outcome = [c \in Clients |-> "none"]
    /\ handled = [c \in Clients |-> 0]
    /\ cancelled = [c \in Clients |-> FALSE]
    /\ established = [c \in Clients |-> FALSE]
    /\ request = [c \in Clients |-> FALSE]
    /\ cEnd = [c \in Clients |-> FALSE]
    /\ response = [c \in Clients |-> FALSE]
    /\ sEnd = [c \in Clients |-> "open"]

-----------------------------------------------------------------------------
(***************************************************************************)
(* The server process.                                                     *)
(***************************************************************************)
Active(c) == svc[c] \in {"handshake", "read", "write", "finish"}
Alive == mainPc # "ended"

\* The process ends: its threads are gone, its sockets are closed by the kernel,
\* with a reset where something was left unread.
EndProcess(byKill) ==
    /\ mainPc' = "ended"
    /\ killed' = byKill
    /\ runPc' = "exited"
    /\ listening' = FALSE /\ backlog' = <<>>
    /\ svc' = [c \in Clients |-> IF Active(c) THEN "lost" ELSE svc[c]]
    /\ \E ends \in [Clients -> {"fin", "rst"}] :
           sEnd' = [c \in Clients |->
                       IF ~established[c] \/ sEnd[c] # "open" THEN sEnd[c]
                       ELSE IF Active(c) THEN ends[c] ELSE "rst"]
    /\ UNCHANGED <<programVars, m_stop, late, clientVars, established, request, cEnd,
                   response>>

\* Run returns (in "shutdown" the block of main ends): the acceptor is destroyed
\* and the connections it had not taken are reset.
ExitRun ==
    /\ runPc' = "exited"
    /\ listening' = FALSE /\ backlog' = <<>>

ResetBacklog(ends) ==
    [c \in Clients |-> IF \E i \in DOMAIN backlog : backlog[i] = c THEN "rst" ELSE ends[c]]

\* An error that nothing in Run catches: in a thread it ends the process, in
\* "shutdown" main catches it.
RunThrows ==
    IF kind = "shutdown"
    THEN /\ ExitRun
         /\ sEnd' = ResetBacklog(sEnd)
         /\ UNCHANGED <<programVars, mainVars, svc, late, killed, clientVars,
                        established, request, cEnd, response>>
    ELSE EndProcess(FALSE)

\* The constructor of Acceptor binds and listens, or the port is taken.
Listen ==
    /\ Alive /\ runPc = "listen"
    /\ \/ /\ listening' = TRUE
          /\ runPc' = IF kind = "shutdown" THEN "accept" ELSE "loop"
          /\ UNCHANGED <<programVars, mainVars, backlog, late, svc, killed,
                         clientVars, netVars>>
       \/ RunThrows

\* Mutant: the flag is not looked at again.
RunForEver ==
    /\ Alive /\ runPc = "loop"
    /\ runPc' = "accept"
    /\ UNCHANGED <<programVars, mainVars, listening, backlog, late, svc, killed,
                   clientVars, netVars>>

\* while (!m_stop.load())
CheckStop ==
    /\ Alive /\ runPc = "loop"
    /\ IF m_stop THEN ExitRun /\ sEnd' = ResetBacklog(sEnd)
                 ELSE runPc' = "accept" /\ UNCHANGED <<listening, backlog, sEnd>>
    /\ UNCHANGED <<programVars, mainVars, late, svc, killed, clientVars,
                   established, request, cEnd, response>>

\* accept() takes the first connection, and HandleClient begins at pc.
TakeClient(pc, next) ==
    /\ Alive /\ runPc = "accept" /\ backlog # <<>>
    /\ svc' = [svc EXCEPT ![Head(backlog)] = pc]
    /\ backlog' = Tail(backlog)
    /\ late' = IF m_stop THEN late \cup {Head(backlog)} ELSE late
    /\ runPc' = next
    /\ UNCHANGED <<programVars, mainVars, listening, killed, clientVars, netVars>>

\* Acceptor::Accept of syncIterative: the thread itself serves the client.
Accept == kind = "iterative" /\ TakeClient("read", "serve")

\* Acceptor::accept of syncSSLServer.
AcceptTLS == kind = "tls" /\ TakeClient("handshake", "serve")

\* Acceptor::Accept and StartHandligClient of syncParallel: a detached thread
\* serves the client and Run goes on.
AcceptDetached == kind = "parallel" /\ TakeClient("read", "loop")

\* main of sockShutdownServer.
AcceptOnce == kind = "shutdown" /\ TakeClient("read", "serve")

\* accept() throws.
AcceptFails == Alive /\ runPc = "accept" /\ RunThrows

\* HandleClient for c goes on to pc.
GoesTo(c, pc) ==
    /\ svc' = [svc EXCEPT ![c] = pc]
    /\ UNCHANGED <<programVars, mainVars, runVars, killed, clientVars,
                   established, request, cEnd, sEnd>>

\* handshake(): both sides take part, or the client is gone.
Handshake(c) ==
    /\ Alive /\ svc[c] = "handshake"
    /\ \/ cpc[c] = "handshake" /\ GoesTo(c, "read")
       \/ cEnd[c] /\ GoesTo(c, "finish")
    /\ UNCHANGED response

\* Mutant: the end of the stream before the line is not an error.
ReadLineForEver(c) ==
    /\ Alive /\ svc[c] = "read" /\ kind # "shutdown"
    /\ request[c] /\ GoesTo(c, "write")
    /\ UNCHANGED response

\* read_until of the line, or the end of the stream before it.
ReadLine(c) ==
    /\ Alive /\ svc[c] = "read" /\ kind # "shutdown"
    /\ \/ request[c] /\ GoesTo(c, "write")
       \/ cEnd[c] /\ ~request[c] /\ GoesTo(c, "finish")
    /\ UNCHANGED response

\* sockShutdownServer reads to the end of the stream; any other error, which only
\* a client that has left can cause, is thrown out of processRequest.
ReadToEnd(c) ==
    /\ Alive /\ svc[c] = "read" /\ kind = "shutdown"
    /\ \/ cEnd[c] /\ GoesTo(c, "write")
       \/ cpc[c] = "ended" /\ GoesTo(c, "finish")
    /\ UNCHANGED response

\* Mutant: the response is left out.
WriteNothing(c) ==
    /\ Alive /\ svc[c] = "write"
    /\ GoesTo(c, "finish")
    /\ UNCHANGED response

\* write() of the response; it may fail when the client has left.
WriteResponse(c) ==
    /\ Alive /\ svc[c] = "write"
    /\ GoesTo(c, "finish")
    /\ \/ response' = [response EXCEPT ![c] = TRUE]
       \/ cpc[c] = "ended" /\ UNCHANGED response

\* HandleClient returns and its socket is closed.  The thread goes on with the
\* loop; the detached thread of syncParallel deletes its Service and ends; main
\* of sockShutdownServer shuts down and leaves its block.
FinishClient(c) ==
    /\ Alive /\ svc[c] = "finish"
    /\ svc' = [svc EXCEPT ![c] = "done"]
    /\ LET closed == [sEnd EXCEPT ![c] = "fin"] IN
       \/ /\ kind = "parallel"
          /\ sEnd' = closed
          /\ UNCHANGED <<runPc, listening, backlog>>
       \/ /\ kind \in {"iterative", "tls"}
          /\ runPc' = "loop"
          /\ sEnd' = closed
          /\ UNCHANGED <<listening, backlog>>
       \/ /\ kind = "shutdown"
          /\ ExitRun
          /\ sEnd' = ResetBacklog(closed)
    /\ UNCHANGED <<programVars, mainVars, late, killed, clientVars, established,
                   request, cEnd, response>>

MainGoesTo(pc) ==
    /\ mainPc' = pc
    /\ UNCHANGED <<programVars, runVars, svc, killed, clientVars, netVars>>

\* Server::Stop: m_stop.store(true).
StopFlag == mainPc = "up" /\ m_stop' = TRUE /\ MainGoesTo("join")

\* Mutant: the thread is not waited for.
StopWithoutJoin == mainPc = "join" /\ MainGoesTo("stopped") /\ UNCHANGED m_stop

\* Server::Stop: m_thread->join().
StopJoin ==
    mainPc = "join" /\ runPc = "exited" /\ MainGoesTo("stopped") /\ UNCHANGED m_stop

\* The block of srv ends, and its m_ios with it.
DestroyServer == mainPc = "stopped" /\ MainGoesTo("destroyed") /\ UNCHANGED m_stop

\* main returns.
MainReturns == mainPc = "destroyed" /\ EndProcess(FALSE)

\* A detached thread that uses its socket after m_ios was destroyed: the
\* behaviour is undefined, and may be that of Handshake ... FinishClient or a crash.
UseAfterDestroy == mainPc = "destroyed" /\ (\E c \in Clients : Active(c)) /\ EndProcess(FALSE)

\* The process is killed from outside.
Kill == Alive /\ EndProcess(TRUE)

-----------------------------------------------------------------------------
(***************************************************************************)
(* The client processes.                                                   *)
(***************************************************************************)
ClientGoesTo(c, pc) ==
    /\ cpc' = [cpc EXCEPT ![c] = pc]
    /\ UNCHANGED <<programVars, mainVars, listening, runPc, late, svc, killed,
                   handled, cancelled, response, sEnd>>

\* A client ends with what it reports; its socket is closed.
ClientEnds(c, result) ==
    /\ outcome' = [outcome EXCEPT ![c] = result]
    /\ cEnd' = [cEnd EXCEPT ![c] = TRUE]
    /\ ClientGoesTo(c, "ended")
    /\ UNCHANGED <<backlog, established, request>>

\* connect() of the "request" and the silent clients: refused unless the server
\* listens.  SyncSSLClient goes on to the handshake.
Connect(c) ==
    /\ cpc[c] = "start" /\ prog[c] # "cancel"
    /\ \/ ~listening /\ ClientEnds(c, "error")
       \/ /\ listening
          /\ backlog' = Append(backlog, c)
          /\ established' = [established EXCEPT ![c] = TRUE]
          /\ ClientGoesTo(c, IF prog[c] = "silent" THEN "silent"
                             ELSE IF kind = "tls" THEN "handshake" ELSE "send")
          /\ UNCHANGED <<outcome, request, cEnd>>

\* SyncSSLClient::connect: the handshake ends when the server has done its part;
\* on_peer_verify accepts every certificate.
HandshakeTLS(c) ==
    /\ cpc[c] = "handshake"
    /\ \/ /\ svc[c] \notin {"none", "handshake"}
          /\ sEnd[c] = "open"
          /\ ClientGoesTo(c, "send")
          /\ UNCHANGED <<backlog, established, outcome, request, cEnd>>
       \/ sEnd[c] # "open" /\ ClientEnds(c, "error")

\* sendRequest: write() of the line.  It fails on a connection that is reset.
SendRequest(c) ==
    /\ cpc[c] = "send"
    /\ \/ /\ request' = [request EXCEPT ![c] = TRUE]
          /\ ClientGoesTo(c, IF kind = "shutdown" THEN "halfclose" ELSE "receive")
          /\ UNCHANGED <<backlog, established, outcome, cEnd>>
       \/ sEnd[c] = "rst" /\ ClientEnds(c, "error")

\* Mutant: the sending side is left open.
NoHalfClose(c) ==
    /\ cpc[c] = "halfclose"
    /\ ClientGoesTo(c, "receive")
    /\ UNCHANGED <<backlog, established, outcome, request, cEnd>>

\* communicate() of sockShutdownClient: shutdown(shutdown_send).
HalfClose(c) ==
    /\ cpc[c] = "halfclose"
    /\ \/ /\ cEnd' = [cEnd EXCEPT ![c] = TRUE]
          /\ ClientGoesTo(c, "receive")
          /\ UNCHANGED <<backlog, established, outcome, request>>
       \/ sEnd[c] = "rst" /\ ClientEnds(c, "error")

\* receiveResponse: read_until of the line, or the stream ends before it.
ReceiveResponse(c) ==
    /\ cpc[c] = "receive" /\ kind # "shutdown"
    /\ \/ /\ response[c]
          /\ outcome' = [outcome EXCEPT ![c] = "response"]
          /\ ClientGoesTo(c, "close")
          /\ UNCHANGED <<backlog, established, request, cEnd>>
       \/ sEnd[c] # "open" /\ ~response[c] /\ ClientEnds(c, "error")
       \/ sEnd[c] = "rst" /\ ClientEnds(c, "error")

\* communicate() of sockShutdownClient: the end of the stream is the end of the
\* response, any other error is thrown.
ReadToEof(c) ==
    /\ cpc[c] = "receive" /\ kind = "shutdown"
    /\ \/ sEnd[c] = "fin" /\ ClientEnds(c, "response")
       \/ sEnd[c] = "rst" /\ ClientEnds(c, "error")

\* close() of SyncTCPClient: shutdown and close; an error ends it as well.
Close(c) ==
    /\ cpc[c] = "close" /\ kind # "tls"
    /\ ClientEnds(c, outcome[c])

\* close() of SyncSSLClient: the TLS shutdown waits for the server's end of the
\* stream; errors are ignored.
CloseTLS(c) ==
    /\ cpc[c] = "close" /\ kind = "tls"
    /\ sEnd[c] # "open"
    /\ ClientEnds(c, outcome[c])

-----------------------------------------------------------------------------
(***************************************************************************)
(* cancellingAsyncOperations: async_connect, a worker thread that runs the *)
(* handler, and main, which cancels after a delay and joins.               *)
(***************************************************************************)
CancelClientStep(c) ==
    /\ prog[c] = "cancel"
    /\ UNCHANGED <<programVars, mainVars, listening, runPc, late, svc, killed,
                   outcome, request, response, sEnd>>

\* async_connect.
AsyncConnect(c) ==
    /\ cpc[c] = "start" /\ CancelClientStep(c)
    /\ cpc' = [cpc EXCEPT ![c] = "pending"]
    /\ UNCHANGED <<backlog, handled, cancelled, established, cEnd>>

\* The kernel makes the connection, also after the operation was cancelled.
Establish(c) ==
    /\ cpc[c] \in {"pending", "ready", "handled"} /\ ~established[c] /\ listening
    /\ CancelClientStep(c)
    /\ established' = [established EXCEPT ![c] = TRUE]
    /\ backlog' = Append(backlog, c)
    /\ UNCHANGED <<cpc, handled, cancelled, cEnd>>

\* The reactor queues the handler: connected or refused.
ConnectReady(c) ==
    /\ cpc[c] = "pending" /\ (established[c] \/ ~listening) /\ CancelClientStep(c)
    /\ cpc' = [cpc EXCEPT ![c] = "ready"]
    /\ UNCHANGED <<backlog, handled, cancelled, established, cEnd>>

\* Mutant: the io_context is stopped and with it the queued handler dropped.
StopConnect(c) ==
    /\ cpc[c] \in {"pending", "ready", "handled"} /\ ~cancelled[c] /\ CancelClientStep(c)
    /\ cancelled' = [cancelled EXCEPT ![c] = TRUE]
    /\ cpc' = [cpc EXCEPT ![c] = "handled"]
    /\ UNCHANGED <<backlog, handled, established, cEnd>>

\* sock->cancel() queues the handler of an operation that is still pending.
CancelConnect(c) ==
    /\ cpc[c] \in {"pending", "ready", "handled"} /\ ~cancelled[c] /\ CancelClientStep(c)
    /\ cancelled' = [cancelled EXCEPT ![c] = TRUE]
    /\ cpc' = IF cpc[c] = "pending" THEN [cpc EXCEPT ![c] = "ready"] ELSE cpc
    /\ UNCHANGED <<backlog, handled, established, cEnd>>

\* The worker thread runs the handler.
ConnectHandler(c) ==
    /\ cpc[c] = "ready" /\ CancelClientStep(c)
    /\ cpc' = [cpc EXCEPT ![c] = "handled"]
    /\ handled' = [handled EXCEPT ![c] = @ + 1]
    /\ UNCHANGED <<backlog, cancelled, established, cEnd>>

\* The worker has run out of work, main joins it and returns.
JoinWorker(c) ==
    /\ cpc[c] = "handled" /\ cancelled[c] /\ CancelClientStep(c)
    /\ cpc' = [cpc EXCEPT ![c] = "ended"]
    /\ cEnd' = [cEnd EXCEPT ![c] = TRUE]
    /\ UNCHANGED <<backlog, handled, cancelled, established>>

-----------------------------------------------------------------------------
RunStep == Listen \/ CheckStop \/ Accept \/ AcceptTLS \/ AcceptDetached \/ AcceptOnce
ServiceStep(c) == \/ Handshake(c)
                  \/ ReadLine(c)
                  \/ ReadToEnd(c)
                  \/ WriteResponse(c)
                  \/ FinishClient(c)
MainStep == StopJoin \/ DestroyServer \/ MainReturns
RequestStep(c) == \/ HandshakeTLS(c)
                  \/ SendRequest(c)
                  \/ HalfClose(c)
                  \/ ReceiveResponse(c)
                  \/ ReadToEof(c)
                  \/ Close(c)
                  \/ CloseTLS(c)
CancelStep(c) == ConnectReady(c) \/ CancelConnect(c) \/ ConnectHandler(c) \/ JoinWorker(c)

Next == \/ RunStep \/ AcceptFails \/ MainStep \/ StopFlag \/ UseAfterDestroy \/ Kill
        \/ \E c \in Clients : \/ ServiceStep(c)
                              \/ Connect(c) \/ RequestStep(c)
                              \/ AsyncConnect(c) \/ Establish(c) \/ CancelStep(c)

Spec == Init /\ [][Next]_vars

\* Every thread of the server that is not blocked runs, and so does every client
\* once it has connected.  Nobody has to connect, to stop the server or to fail.
FairSpec ==
    /\ Spec
    /\ WF_vars(RunStep) /\ WF_vars(MainStep)
    /\ \A c \in Clients : /\ WF_vars(ServiceStep(c))
                          /\ WF_vars(RequestStep(c))
                          /\ WF_vars(CancelStep(c))

-----------------------------------------------------------------------------
(***************************************************************************)
(* Properties.                                                             *)
(***************************************************************************)

\* Every variable has its type.
TypeOK ==
    /\ kind \in Kinds /\ prog \in [Clients -> Programs]
    /\ mainPc \in {"up", "join", "stopped", "destroyed", "ended"}
    /\ m_stop \in BOOLEAN /\ listening \in BOOLEAN /\ killed \in BOOLEAN
    /\ runPc \in {"listen", "loop", "accept", "serve", "exited"}
    /\ backlog \in Seq(Clients) /\ late \subseteq Clients
    /\ svc \in [Clients -> {"none", "handshake", "read", "write", "finish", "done", "lost"}]
    /\ cpc \in [Clients -> {"start", "handshake", "send", "halfclose", "receive", "close",
                            "silent", "pending", "ready", "handled", "ended"}]
    /\ outcome \in [Clients -> {"none", "response", "error"}]
    /\ handled \in [Clients -> Nat]
    /\ cancelled \in [Clients -> BOOLEAN] /\ established \in [Clients -> BOOLEAN]
    /\ request \in [Clients -> BOOLEAN] /\ cEnd \in [Clients -> BOOLEAN]
    /\ response \in [Clients -> BOOLEAN]
    /\ sEnd \in [Clients -> {"open", "fin", "rst"}]

\* A client that reports a response was sent the whole one, to its own request.
\* For the client that reads a line this holds whatever becomes of the server; for
\* the one that reads to the end of the stream it takes a server that is not
\* killed, although its comment claims it without that (EofIsWhole).
ResponseIsWhole ==
    \A c \in Clients : outcome[c] = "response" =>
        \/ response[c] /\ request[c]
        \/ kind = "shutdown" /\ killed

\* What communicate() of sockShutdownClient says where it meets the end of the
\* stream: "Whole response message has been received."
EofIsWhole ==
    \A c \in Clients : kind = "shutdown" /\ outcome[c] = "response" => response[c]

\* After Stop has set m_stop one more connection may be accepted and served, by
\* the accept() the thread is blocked in or about to enter; never a second one.
OneLateClient == Cardinality(late) <= 1

\* The io_context outlives every thread that uses it, except the detached
\* threads of syncParallel, which nobody waits for.
ContextOutlivesThreads ==
    mainPc = "destroyed" /\ kind # "parallel" =>
        runPc = "exited" /\ \A c \in Clients : ~Active(c)

\* When cancellingAsyncOperations returns, the handler of its async_connect has
\* been called exactly once, whichever of the connection and cancel() was first.
ConnectHandledOnce ==
    \A c \in Clients :
        /\ handled[c] <= 1
        /\ prog[c] = "cancel" /\ cpc[c] = "ended" => handled[c] = 1

\* The thread that serves is blocked by a client that never sends.
HeldUp == kind # "parallel" /\ \E c \in Clients : prog[c] = "silent" /\ Active(c)

\* A client that has connected ends, with a response or an error: neither waits
\* for the other's end of stream or handshake for ever.  Only in front of a
\* server that serves in turn a silent client may hold it up, and then for ever.
ClientsEnd ==
    \A c \in Clients :
        (prog[c] = "request" /\ established[c]) ~> (cpc[c] = "ended" \/ []HeldUp)

\* Stop returns, unless the thread stays in an accept() that no further client
\* ends or stays behind a silent client.
StopReturns ==
    mainPc = "join" ~> \/ mainPc \in {"stopped", "destroyed", "ended"}
                       \/ [](runPc = "accept" /\ backlog = <<>>)
                       \/ []HeldUp

=============================================================================
