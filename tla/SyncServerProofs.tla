--------------------------- MODULE SyncServerProofs ---------------------------
(***************************************************************************)
(* The safety properties of SyncServer for every server and any number of  *)
(* clients.  The invariant says what the control state of Server::Run      *)
(* means for the clients it has accepted, and what has been sent when a    *)
(* client or a HandleClient has come to a certain point.                   *)
(***************************************************************************)
EXTENDS SyncServer, FiniteSetTheorems, TLAPS

\* main has joined the thread of Run before it goes on; a process that ended has
\* no threads.
MainInv ==
    /\ mainPc \in {"stopped", "destroyed", "ended"} => runPc = "exited"
    /\ mainPc = "ended" => \A c \in Clients : ~Active(c)
    /\ killed => mainPc = "ended"

\* Except in syncParallel the thread of Run serves the clients itself, one by one.
ServeInv ==
    kind # "parallel" =>
        /\ \A c \in Clients : Active(c) => runPc = "serve"
        /\ \A c, d \in Clients : Active(c) /\ Active(d) => c = d

\* Before accept() nobody was late, and m_stop is looked at after it.
LateInv ==
    /\ ~m_stop \/ runPc \in {"listen", "accept"} => late = {}
    /\ \A c, d \in late : c = d

\* The handler of async_connect has been called when its client is past it.
HandledInv ==
    \A c \in Clients :
        /\ prog[c] = "cancel" => cpc[c] \in {"start", "pending", "ready", "handled", "ended"}
        /\ prog[c] # "cancel" => cpc[c] \notin {"pending", "ready", "handled"}
        /\ handled[c] = IF prog[c] = "cancel" /\ cpc[c] \in {"handled", "ended"} THEN 1 ELSE 0

\* A client that waits for the response has sent its request, and a server that
\* reads a line answers nothing else.
RequestInv ==
    \A c \in Clients :
        /\ cpc[c] \in {"halfclose", "receive", "close"} => request[c]
        /\ kind # "shutdown" => /\ svc[c] = "write" => request[c]
                                /\ response[c] => request[c]

\* sockShutdownServer closes in order only after it has answered, unless the
\* client has left or the process was killed.
FinInv ==
    kind = "shutdown" =>
        \A c \in Clients :
            /\ svc[c] # "handshake"
            /\ svc[c] = "finish" => response[c] \/ cpc[c] = "ended"
            /\ sEnd[c] = "fin" => response[c] \/ cpc[c] = "ended" \/ killed

\* The inductive invariant.
YInv == /\ TypeOK
        /\ MainInv
        /\ ServeInv
        /\ LateInv
        /\ HandledInv
        /\ RequestInv
        /\ FinInv
        /\ ResponseIsWhole

-----------------------------------------------------------------------------
(***************************************************************************)
(* Facts about the operators.                                              *)
(***************************************************************************)

\* Resetting the connections of the backlog closes none of them in order.
LEMMA ResetBacklogCases ==
    \A ends \in [Clients -> {"open", "fin", "rst"}] :
        /\ ResetBacklog(ends) \in [Clients -> {"open", "fin", "rst"}]
        /\ \A c \in Clients : ResetBacklog(ends)[c] = "fin" => ends[c] = "fin"
    BY DEF ResetBacklog

\* The backlog of an acceptor that is gone is empty.
LEMMA EmptyBacklog == <<>> \in Seq(Clients)
    OBVIOUS

-----------------------------------------------------------------------------
(***************************************************************************)
(* Every action preserves YInv: one lemma per action, one step per         *)
(* conjunct the action can disturb, and one step for those it cannot.      *)
(***************************************************************************)

\* The initial states satisfy the invariant.
LEMMA InitYInv == Init => YInv
<1> SUFFICES ASSUME Init PROVE YInv
    OBVIOUS
<1> USE DEF Init
<1>1. TypeOK
    <2>1. /\ backlog \in Seq(Clients)
          /\ handled \in [Clients -> Nat]
          /\ mainPc \in {"up", "join", "stopped", "destroyed", "ended"}
        BY EmptyBacklog
    <2>2. /\ cpc \in [Clients -> {"start", "handshake", "send", "halfclose", "receive", "close",
                                  "silent", "pending", "ready", "handled", "ended"}]
          /\ svc \in [Clients -> {"none", "handshake", "read", "write", "finish", "done",
                                  "lost"}]
        OBVIOUS
    <2> QED
        BY <2>1, <2>2 DEF TypeOK
<1>2. MainInv /\ ServeInv /\ LateInv /\ HandledInv
    BY DEF MainInv, ServeInv, LateInv, HandledInv, Active
<1>3. RequestInv /\ FinInv /\ ResponseIsWhole
    BY DEF RequestInv, FinInv, ResponseIsWhole
<1> QED
    BY <1>1, <1>2, <1>3 DEF YInv

\* The process ends.  An end that is not a kill finds no client of
\* sockShutdownServer in hand.
LEMMA EndProcessPreserves ==
    ASSUME YInv, NEW b \in BOOLEAN, EndProcess(b), Alive,
           kind = "shutdown" => b \/ \A c \in Clients : ~Active(c)
    PROVE  YInv'
<1> USE DEF YInv, programVars, EndProcess, Alive, clientVars
<1>1. TypeOK'
    <2> PICK ends \in [Clients -> {"fin", "rst"}] :
               sEnd' = [c \in Clients |->
                           IF ~established[c] \/ sEnd[c] # "open" THEN sEnd[c]
                           ELSE IF Active(c) THEN ends[c] ELSE "rst"]
        OBVIOUS
    <2>1. sEnd' \in [Clients -> {"open", "fin", "rst"}]
        BY DEF TypeOK
    <2>2. svc' \in [Clients -> {"none", "handshake", "read", "write", "finish", "done", "lost"}]
        BY DEF TypeOK
    <2> QED
        BY <2>1, <2>2, EmptyBacklog DEF TypeOK
<1>2. (HandledInv /\ RequestInv)'
    BY DEF HandledInv, RequestInv
<1>3. MainInv'
    BY DEF TypeOK, MainInv, Active
<1>4. ServeInv'
    BY DEF TypeOK, ServeInv, Active
<1>5. LateInv'
    BY DEF TypeOK, LateInv
<1>6. FinInv'
    BY DEF TypeOK, FinInv, MainInv, Active
<1>7. ResponseIsWhole'
    BY DEF TypeOK, ResponseIsWhole, MainInv
<1> QED
    BY <1>1, <1>2, <1>3, <1>4, <1>5, <1>6, <1>7

\* An error in Run, before a client is in hand.
LEMMA RunThrowsPreserves ==
    ASSUME YInv, RunThrows, Alive, runPc \in {"listen", "accept"}
    PROVE  YInv'
<1>1. CASE kind # "shutdown"
    BY <1>1, EndProcessPreserves DEF RunThrows
<1>2. CASE kind = "shutdown"
    <2> USE <1>2 DEF YInv, RunThrows, ExitRun, Alive, programVars, mainVars, clientVars
    <2>0. /\ sEnd' \in [Clients -> {"open", "fin", "rst"}]
          /\ \A c \in Clients : sEnd'[c] = "fin" => sEnd[c] = "fin"
        <3>1. sEnd' = ResetBacklog(sEnd)
            OBVIOUS
        <3>2. sEnd \in [Clients -> {"open", "fin", "rst"}]
            BY DEF TypeOK
        <3> QED
            BY ONLY <3>1, <3>2, ResetBacklogCases
    <2>1. TypeOK'
        BY <2>0, EmptyBacklog DEF TypeOK
    <2>2. (HandledInv /\ RequestInv /\ ResponseIsWhole)'
        BY DEF HandledInv, RequestInv, ResponseIsWhole
    <2>3. (MainInv /\ ServeInv /\ LateInv)'
        BY DEF TypeOK, MainInv, ServeInv, LateInv, Active
    <2>4. FinInv'
        BY <2>0 DEF TypeOK, FinInv
    <2> QED
        BY <2>1, <2>2, <2>3, <2>4
<1> QED
    BY <1>1, <1>2

\* The acceptor listens, or the port is taken.
LEMMA ListenPreserves ==
    ASSUME YInv, Listen
    PROVE  YInv'
<1>1. CASE RunThrows
    BY <1>1, RunThrowsPreserves DEF Listen
<1>2. CASE ~RunThrows
    <2> USE <1>2 DEF YInv, Listen, Alive, programVars, mainVars, clientVars, netVars
    <2>1. TypeOK'
        BY DEF TypeOK
    <2>2. (HandledInv /\ RequestInv /\ FinInv /\ ResponseIsWhole)'
        BY DEF HandledInv, RequestInv, FinInv, ResponseIsWhole
    <2>3. (MainInv /\ ServeInv /\ LateInv)'
        BY DEF TypeOK, MainInv, ServeInv, LateInv, Active
    <2> QED
        BY <2>1, <2>2, <2>3
<1> QED
    BY <1>1, <1>2

\* Run looks at m_stop.
LEMMA CheckStopPreserves ==
    ASSUME YInv, CheckStop
    PROVE  YInv'
<1> USE DEF YInv, programVars, CheckStop, ExitRun, Alive, mainVars, clientVars
<1>1. TypeOK'
    <2>1. sEnd' \in [Clients -> {"open", "fin", "rst"}]
        BY ResetBacklogCases DEF TypeOK
    <2>2. backlog' \in Seq(Clients)
        BY EmptyBacklog DEF TypeOK
    <2> QED
        BY <2>1, <2>2 DEF TypeOK
<1>2. (HandledInv /\ RequestInv /\ ResponseIsWhole)'
    BY DEF HandledInv, RequestInv, ResponseIsWhole
<1>3. MainInv'
    BY DEF TypeOK, MainInv, Active
<1>4. ServeInv'
    BY DEF TypeOK, ServeInv, Active
<1>5. LateInv'
    BY DEF TypeOK, LateInv
<1>6. FinInv'
    BY ResetBacklogCases DEF TypeOK, FinInv
<1> QED
    BY <1>1, <1>2, <1>3, <1>4, <1>5, <1>6

\* A client is accepted; except in syncParallel the thread of Run goes on to serve it.
LEMMA TakeClientPreserves ==
    ASSUME YInv, NEW pc \in {"handshake", "read"}, NEW next \in {"serve", "loop"},
           TakeClient(pc, next), pc = "handshake" => kind = "tls",
           kind # "parallel" => next = "serve"
    PROVE  YInv'
<1> USE DEF YInv, programVars, TakeClient, Alive, mainVars, clientVars, netVars
<1>1. TypeOK'
    BY DEF TypeOK
<1>2. (HandledInv /\ ResponseIsWhole)'
    BY DEF HandledInv, ResponseIsWhole
<1>3. MainInv'
    BY DEF TypeOK, MainInv, Active
<1>4. ServeInv'
    BY DEF TypeOK, ServeInv, Active
<1>5. LateInv'
    BY DEF TypeOK, LateInv
<1>6. RequestInv'
    BY DEF TypeOK, RequestInv
<1>7. FinInv'
    BY DEF TypeOK, FinInv
<1> QED
    BY <1>1, <1>2, <1>3, <1>4, <1>5, <1>6, <1>7

\* The TLS handshake.
LEMMA HandshakePreserves ==
    ASSUME YInv, NEW c \in Clients, Handshake(c)
    PROVE  YInv'
<1> USE DEF YInv, programVars, Handshake, GoesTo, Alive, mainVars, runVars, clientVars
<1>1. TypeOK'
    BY DEF TypeOK
<1>2. (LateInv /\ HandledInv /\ ResponseIsWhole)'
    BY DEF LateInv, HandledInv, ResponseIsWhole
<1>3. MainInv'
    BY DEF TypeOK, MainInv, Active
<1>4. ServeInv'
    <2>1. \A d \in Clients : Active(d)' => Active(d)
        BY DEF TypeOK, Active
    <2> QED
        BY <2>1 DEF ServeInv
<1>5. RequestInv'
    BY DEF TypeOK, RequestInv
<1>6. FinInv'
    BY DEF TypeOK, FinInv
<1> QED
    BY <1>1, <1>2, <1>3, <1>4, <1>5, <1>6

\* The request line is read.
LEMMA ReadLinePreserves ==
    ASSUME YInv, NEW c \in Clients, ReadLine(c)
    PROVE  YInv'
<1> USE DEF YInv, programVars, ReadLine, GoesTo, Alive, mainVars, runVars, clientVars
<1>1. TypeOK'
    BY DEF TypeOK
<1>2. (LateInv /\ HandledInv /\ ResponseIsWhole)'
    BY DEF LateInv, HandledInv, ResponseIsWhole
<1>3. MainInv'
    BY DEF TypeOK, MainInv, Active
<1>4. ServeInv'
    <2>1. \A d \in Clients : Active(d)' => Active(d)
        BY DEF TypeOK, Active
    <2> QED
        BY <2>1 DEF ServeInv
<1>5. RequestInv'
    BY DEF TypeOK, RequestInv
<1>6. FinInv'
    BY DEF TypeOK, FinInv
<1> QED
    BY <1>1, <1>2, <1>3, <1>4, <1>5, <1>6

\* sockShutdownServer reads to the end of the stream.
LEMMA ReadToEndPreserves ==
    ASSUME YInv, NEW c \in Clients, ReadToEnd(c)
    PROVE  YInv'
<1> USE DEF YInv, programVars, ReadToEnd, GoesTo, Alive, mainVars, runVars, clientVars
<1>1. TypeOK'
    BY DEF TypeOK
<1>2. (LateInv /\ HandledInv /\ ResponseIsWhole)'
    BY DEF LateInv, HandledInv, ResponseIsWhole
<1>3. MainInv'
    BY DEF TypeOK, MainInv, Active
<1>4. ServeInv'
    <2>1. \A d \in Clients : Active(d)' => Active(d)
        BY DEF TypeOK, Active
    <2> QED
        BY <2>1 DEF ServeInv
<1>5. RequestInv'
    BY DEF TypeOK, RequestInv
<1>6. FinInv'
    BY DEF TypeOK, FinInv
<1> QED
    BY <1>1, <1>2, <1>3, <1>4, <1>5, <1>6

\* The response is written.
LEMMA WriteResponsePreserves ==
    ASSUME YInv, NEW c \in Clients, WriteResponse(c)
    PROVE  YInv'
<1> USE DEF YInv, programVars, WriteResponse, GoesTo, Alive, mainVars, runVars,
           clientVars
<1>1. TypeOK'
    BY DEF TypeOK
<1>2. (LateInv /\ HandledInv)'
    BY DEF LateInv, HandledInv
<1>3. MainInv'
    BY DEF TypeOK, MainInv, Active
<1>4. ServeInv'
    <2>1. \A d \in Clients : Active(d)' => Active(d)
        BY DEF TypeOK, Active
    <2> QED
        BY <2>1 DEF ServeInv
<1>5. RequestInv'
    BY DEF TypeOK, RequestInv
<1>6. FinInv'
    BY DEF TypeOK, FinInv
<1>7. ResponseIsWhole'
    BY DEF TypeOK, ResponseIsWhole
<1> QED
    BY <1>1, <1>2, <1>3, <1>4, <1>5, <1>6, <1>7

\* HandleClient returns.
LEMMA FinishClientPreserves ==
    ASSUME YInv, NEW c \in Clients, FinishClient(c)
    PROVE  YInv'
<1> USE DEF YInv, programVars, FinishClient, ExitRun, Alive, mainVars, clientVars
<1>1. TypeOK'
    <2>1. [sEnd EXCEPT ![c] = "fin"] \in [Clients -> {"open", "fin", "rst"}]
        BY DEF TypeOK
    <2>2. sEnd' \in [Clients -> {"open", "fin", "rst"}]
        <3>1. CASE kind = "shutdown"
            <4>1. sEnd' = ResetBacklog([sEnd EXCEPT ![c] = "fin"])
                BY <3>1
            <4> QED
                BY ONLY <2>1, <4>1, ResetBacklogCases
        <3>2. CASE kind # "shutdown"
            BY <2>1, <3>2
        <3> QED
            BY <3>1, <3>2
    <2>3. backlog' \in Seq(Clients)
        BY EmptyBacklog DEF TypeOK
    <2> QED
        BY <2>2, <2>3 DEF TypeOK
<1>2. (HandledInv /\ ResponseIsWhole)'
    BY DEF HandledInv, ResponseIsWhole
<1>3. MainInv'
    BY DEF TypeOK, MainInv, Active, ServeInv
<1>4. ServeInv'
    BY DEF TypeOK, ServeInv, Active
<1>5. LateInv'
    BY DEF TypeOK, LateInv
<1>6. RequestInv'
    BY DEF TypeOK, RequestInv
<1>7. FinInv'
    <2> SUFFICES ASSUME kind = "shutdown" PROVE FinInv'
        BY DEF FinInv
    <2> DEFINE closed == [sEnd EXCEPT ![c] = "fin"]
    <2>1. closed \in [Clients -> {"open", "fin", "rst"}]
        BY DEF TypeOK
    <2>2. \A d \in Clients : sEnd'[d] = "fin" => closed[d] = "fin"
        BY <2>1, ResetBacklogCases
    <2>3. \A d \in Clients : closed[d] = "fin" => d = c \/ sEnd[d] = "fin"
        BY DEF TypeOK
    <2> QED
        BY <2>2, <2>3 DEF TypeOK, FinInv
<1> QED
    BY <1>1, <1>2, <1>3, <1>4, <1>5, <1>6, <1>7

\* Stop sets m_stop.
LEMMA StopFlagPreserves ==
    ASSUME YInv, StopFlag
    PROVE  YInv'
<1> USE DEF YInv, programVars, StopFlag, MainGoesTo, runVars, clientVars, netVars
<1>1. TypeOK'
    BY DEF TypeOK
<1>2. (ServeInv /\ HandledInv /\ RequestInv /\ FinInv /\ ResponseIsWhole)'
    BY DEF ServeInv, Active, HandledInv, RequestInv, FinInv, ResponseIsWhole
<1>3. MainInv'
    BY DEF TypeOK, MainInv, Active
<1>4. LateInv'
    BY DEF TypeOK, LateInv
<1> QED
    BY <1>1, <1>2, <1>3, <1>4

\* Stop has joined the thread of Run.
LEMMA StopJoinPreserves ==
    ASSUME YInv, StopJoin
    PROVE  YInv'
<1> USE DEF YInv, programVars, StopJoin, MainGoesTo, runVars, clientVars, netVars
<1>1. TypeOK'
    BY DEF TypeOK
<1>2. (ServeInv /\ LateInv /\ HandledInv /\ RequestInv /\ FinInv /\ ResponseIsWhole)'
    BY DEF ServeInv, Active, LateInv, HandledInv, RequestInv, FinInv, ResponseIsWhole
<1>3. MainInv'
    BY DEF TypeOK, MainInv, Active
<1> QED
    BY <1>1, <1>2, <1>3

\* The Server is destroyed.
LEMMA DestroyServerPreserves ==
    ASSUME YInv, DestroyServer
    PROVE  YInv'
<1> USE DEF YInv, programVars, DestroyServer, MainGoesTo, runVars, clientVars, netVars
<1>1. TypeOK'
    BY DEF TypeOK
<1>2. (ServeInv /\ LateInv /\ HandledInv /\ RequestInv /\ FinInv /\ ResponseIsWhole)'
    BY DEF ServeInv, Active, LateInv, HandledInv, RequestInv, FinInv, ResponseIsWhole
<1>3. MainInv'
    BY DEF TypeOK, MainInv, Active
<1> QED
    BY <1>1, <1>2, <1>3

\* The handler of async_connect does not care where the other clients go.
LEMMA HandledKept ==
    ASSUME TypeOK, HandledInv, NEW c \in Clients, prog[c] # "cancel",
           NEW pc, pc \notin {"pending", "ready", "handled"},
           cpc' = [cpc EXCEPT ![c] = pc], prog' = prog, handled' = handled
    PROVE  HandledInv'
<1>1. cpc'[c] = pc /\ \A d \in Clients : d # c => cpc'[d] = cpc[d]
    BY DEF TypeOK
<1>2. ASSUME NEW d \in Clients, d # c
      PROVE  /\ (prog[d] = "cancel" => cpc[d] \in {"start", "pending", "ready", "handled", "ended"})'
             /\ (prog[d] # "cancel" => cpc[d] \notin {"pending", "ready", "handled"})'
             /\ (handled[d] = IF prog[d] = "cancel" /\ cpc[d] \in {"handled", "ended"}
                              THEN 1 ELSE 0)'
    BY <1>1, <1>2 DEF HandledInv
<1>3. handled[c] = 0
    BY DEF HandledInv
<1> QED
    BY <1>1, <1>2, <1>3 DEF HandledInv

\* A client that is not cancellingAsyncOperations ends; it reports a response only
\* with good reason.
LEMMA ClientEndsPreserves ==
    ASSUME YInv, NEW c \in Clients, NEW result \in {"none", "response", "error"},
           ClientEnds(c, result), prog[c] # "cancel", cpc[c] # "ended",
           result = "response" =>
               (response[c] /\ request[c]) \/ (kind = "shutdown" /\ killed)
    PROVE  YInv'
<1> USE DEF YInv, programVars, ClientEnds, ClientGoesTo, mainVars
<1>1. TypeOK'
    BY DEF TypeOK
<1>2. (MainInv /\ ServeInv /\ LateInv)'
    BY DEF MainInv, Active, ServeInv, LateInv
<1>3. HandledInv'
  <2>1. cpc' = [cpc EXCEPT ![c] = "ended"] /\ prog' = prog /\ handled' = handled
    OBVIOUS
  <2> QED
    BY <2>1, HandledKept
<1>4. RequestInv'
    BY DEF TypeOK, RequestInv
<1>5. FinInv'
    BY DEF TypeOK, FinInv
<1>6. ResponseIsWhole'
    BY DEF TypeOK, ResponseIsWhole
<1> QED
    BY <1>1, <1>2, <1>3, <1>4, <1>5, <1>6

\* Neither of the client programs is cancellingAsyncOperations once it is past
\* connect().
LEMMA NotCancelling ==
    ASSUME YInv, NEW c \in Clients,
           cpc[c] \in {"handshake", "send", "halfclose", "receive", "close", "silent"}
    PROVE  prog[c] # "cancel"
    BY DEF YInv, HandledInv

\* connect() is refused or makes a connection.
LEMMA ConnectPreserves ==
    ASSUME YInv, NEW c \in Clients, Connect(c)
    PROVE  YInv'
<1>1. CASE ClientEnds(c, "error")
    BY <1>1, ClientEndsPreserves, NotCancelling DEF Connect
<1>2. CASE ~ClientEnds(c, "error")
    <2> USE <1>2 DEF YInv, Connect, ClientGoesTo, programVars, mainVars
    <2>0. \E pc \in {"silent", "handshake", "send"} : cpc' = [cpc EXCEPT ![c] = pc]
        OBVIOUS
    <2>1. TypeOK'
        <3>1. backlog' \in Seq(Clients)
            <4>1. backlog' = Append(backlog, c) /\ backlog \in Seq(Clients)
                BY DEF TypeOK
            <4> QED
                BY <4>1
        <3> QED
            BY <2>0, <3>1 DEF TypeOK
    <2>2. (MainInv /\ ServeInv /\ LateInv /\ ResponseIsWhole)'
        BY DEF MainInv, Active, ServeInv, LateInv, ResponseIsWhole
    <2>3. HandledInv'
        <3>1. PICK pc \in {"silent", "handshake", "send"} : cpc' = [cpc EXCEPT ![c] = pc]
            BY <2>0
        <3>2. prog[c] # "cancel" /\ prog' = prog /\ handled' = handled
            OBVIOUS
        <3> QED
            BY <3>1, <3>2, HandledKept
    <2>4. RequestInv'
        BY DEF TypeOK, RequestInv
    <2>5. FinInv'
        BY DEF TypeOK, FinInv
    <2> QED
        BY <2>1, <2>2, <2>3, <2>4, <2>5
<1> QED
    BY <1>1, <1>2

\* The client ends its part of the handshake.
LEMMA HandshakeTLSPreserves ==
    ASSUME YInv, NEW c \in Clients, HandshakeTLS(c)
    PROVE  YInv'
<1>1. CASE ClientEnds(c, "error")
    BY <1>1, ClientEndsPreserves, NotCancelling DEF HandshakeTLS
<1>2. CASE ~ClientEnds(c, "error")
    <2> USE <1>2 DEF YInv, HandshakeTLS, ClientGoesTo, programVars, mainVars
    <2>1. TypeOK'
        BY DEF TypeOK
    <2>2. (MainInv /\ ServeInv /\ LateInv /\ ResponseIsWhole)'
        BY DEF MainInv, Active, ServeInv, LateInv, ResponseIsWhole
    <2>3. HandledInv'
        <3>1. prog[c] # "cancel"
            BY NotCancelling
        <3>2. cpc' = [cpc EXCEPT ![c] = "send"] /\ prog' = prog /\ handled' = handled
            OBVIOUS
        <3> QED
            BY <3>1, <3>2, HandledKept
    <2>4. RequestInv'
        BY DEF TypeOK, RequestInv
    <2>5. FinInv'
        BY DEF TypeOK, FinInv
    <2> QED
        BY <2>1, <2>2, <2>3, <2>4, <2>5
<1> QED
    BY <1>1, <1>2

\* The request is sent.
LEMMA SendRequestPreserves ==
    ASSUME YInv, NEW c \in Clients, SendRequest(c)
    PROVE  YInv'
<1>1. CASE ClientEnds(c, "error")
    BY <1>1, ClientEndsPreserves, NotCancelling DEF SendRequest
<1>2. CASE ~ClientEnds(c, "error")
    <2> USE <1>2 DEF YInv, SendRequest, ClientGoesTo, programVars, mainVars
    <2>1. TypeOK'
        BY DEF TypeOK
    <2>2. (MainInv /\ ServeInv /\ LateInv)'
        BY DEF MainInv, Active, ServeInv, LateInv
    <2>3. HandledInv'
        <3>1. prog[c] # "cancel"
            BY NotCancelling
        <3>2. PICK pc \in {"halfclose", "receive"} :
                  cpc' = [cpc EXCEPT ![c] = pc] /\ prog' = prog /\ handled' = handled
            OBVIOUS
        <3> QED
            BY <3>1, <3>2, HandledKept
    <2>4. RequestInv'
        BY DEF TypeOK, RequestInv
    <2>5. FinInv'
        BY DEF TypeOK, FinInv
    <2>6. ResponseIsWhole'
        BY DEF TypeOK, ResponseIsWhole
    <2> QED
        BY <2>1, <2>2, <2>3, <2>4, <2>5, <2>6
<1> QED
    BY <1>1, <1>2

\* The client shuts down its sending side.
LEMMA HalfClosePreserves ==
    ASSUME YInv, NEW c \in Clients, HalfClose(c)
    PROVE  YInv'
<1>1. CASE ClientEnds(c, "error")
    BY <1>1, ClientEndsPreserves, NotCancelling DEF HalfClose
<1>2. CASE ~ClientEnds(c, "error")
    <2> USE <1>2 DEF YInv, HalfClose, ClientGoesTo, programVars, mainVars
    <2>1. TypeOK'
        BY DEF TypeOK
    <2>2. (MainInv /\ ServeInv /\ LateInv /\ ResponseIsWhole)'
        BY DEF MainInv, Active, ServeInv, LateInv, ResponseIsWhole
    <2>3. HandledInv'
        <3>1. prog[c] # "cancel"
            BY NotCancelling
        <3>2. cpc' = [cpc EXCEPT ![c] = "receive"] /\ prog' = prog /\ handled' = handled
            OBVIOUS
        <3> QED
            BY <3>1, <3>2, HandledKept
    <2>4. RequestInv'
        BY DEF TypeOK, RequestInv
    <2>5. FinInv'
        BY DEF TypeOK, FinInv
    <2> QED
        BY <2>1, <2>2, <2>3, <2>4, <2>5
<1> QED
    BY <1>1, <1>2

\* The response line is read.
LEMMA ReceiveResponsePreserves ==
    ASSUME YInv, NEW c \in Clients, ReceiveResponse(c)
    PROVE  YInv'
<1>1. CASE ClientEnds(c, "error")
    BY <1>1, ClientEndsPreserves, NotCancelling DEF ReceiveResponse
<1>2. CASE ~ClientEnds(c, "error")
    <2> USE <1>2 DEF YInv, ReceiveResponse, ClientGoesTo, programVars, mainVars
    <2>0. /\ cpc[c] = "receive" /\ response[c] /\ request[c]
          /\ kind # "shutdown"
          /\ cpc' = [cpc EXCEPT ![c] = "close"]
          /\ outcome' = [outcome EXCEPT ![c] = "response"]
          /\ UNCHANGED <<kind, prog, handled, request, response>>
        BY DEF RequestInv
    <2>1. TypeOK'
        BY DEF TypeOK
    <2>2. (MainInv /\ ServeInv /\ LateInv)'
        BY DEF MainInv, Active, ServeInv, LateInv
    <2>3. HandledInv'
        <3>1. prog[c] # "cancel"
            BY <2>0, NotCancelling
        <3> QED
            BY <2>0, <3>1, HandledKept
    <2>4. RequestInv'
        BY DEF TypeOK, RequestInv
    <2>5. FinInv'
        BY DEF TypeOK, FinInv
    <2>6. ResponseIsWhole'
        BY <2>0 DEF TypeOK, ResponseIsWhole
    <2> QED
        BY <2>1, <2>2, <2>3, <2>4, <2>5, <2>6
<1> QED
    BY <1>1, <1>2

\* The client of sockShutdownServer reads to the end of the stream.
LEMMA ReadToEofPreserves ==
    ASSUME YInv, NEW c \in Clients, ReadToEof(c)
    PROVE  YInv'
<1>1. sEnd[c] = "fin" => (response[c] /\ request[c]) \/ (kind = "shutdown" /\ killed)
    BY DEF YInv, RequestInv, FinInv, ReadToEof
<1> QED
    BY <1>1, ClientEndsPreserves, NotCancelling DEF ReadToEof

\* The client closes with what it has.
LEMMA ClosePreserves ==
    ASSUME YInv, NEW c \in Clients, Close(c) \/ CloseTLS(c)
    PROVE  YInv'
<1>1. outcome[c] = "response" => (response[c] /\ request[c]) \/ (kind = "shutdown" /\ killed)
    BY DEF YInv, ResponseIsWhole
<1>2. outcome[c] \in {"none", "response", "error"}
    BY DEF YInv, TypeOK
<1> QED
    BY <1>1, <1>2, ClientEndsPreserves, NotCancelling DEF Close, CloseTLS

\* async_connect is called.
LEMMA AsyncConnectPreserves ==
    ASSUME YInv, NEW c \in Clients, AsyncConnect(c)
    PROVE  YInv'
<1> USE DEF YInv, programVars, AsyncConnect, CancelClientStep, mainVars
<1>1. TypeOK'
    BY DEF TypeOK
<1>2. (MainInv /\ ServeInv /\ LateInv /\ ResponseIsWhole)'
    BY DEF MainInv, Active, ServeInv, LateInv, ResponseIsWhole
<1>3. HandledInv'
    BY DEF TypeOK, HandledInv
<1>4. RequestInv'
    BY DEF TypeOK, RequestInv
<1>5. FinInv'
    BY DEF TypeOK, FinInv
<1> QED
    BY <1>1, <1>2, <1>3, <1>4, <1>5

\* The kernel makes the connection.
LEMMA EstablishPreserves ==
    ASSUME YInv, NEW c \in Clients, Establish(c)
    PROVE  YInv'
<1> USE DEF YInv, programVars, Establish, CancelClientStep, mainVars
<1>1. TypeOK'
    BY DEF TypeOK
<1>2. (MainInv /\ ServeInv /\ LateInv /\ HandledInv /\ RequestInv /\ FinInv /\ ResponseIsWhole)'
    BY DEF MainInv, Active, ServeInv, LateInv, HandledInv, RequestInv, FinInv,
           ResponseIsWhole
<1> QED
    BY <1>1, <1>2

\* The reactor queues the handler of async_connect.
LEMMA ConnectReadyPreserves ==
    ASSUME YInv, NEW c \in Clients, ConnectReady(c)
    PROVE  YInv'
<1> USE DEF YInv, programVars, ConnectReady, CancelClientStep, mainVars
<1>1. TypeOK'
    BY DEF TypeOK
<1>2. (MainInv /\ ServeInv /\ LateInv /\ ResponseIsWhole)'
    BY DEF MainInv, Active, ServeInv, LateInv, ResponseIsWhole
<1>3. HandledInv'
    BY DEF TypeOK, HandledInv
<1>4. RequestInv'
    BY DEF TypeOK, RequestInv
<1>5. FinInv'
    BY DEF TypeOK, FinInv
<1> QED
    BY <1>1, <1>2, <1>3, <1>4, <1>5

\* cancel() queues the handler of a pending async_connect.
LEMMA CancelConnectPreserves ==
    ASSUME YInv, NEW c \in Clients, CancelConnect(c)
    PROVE  YInv'
<1> USE DEF YInv, programVars, CancelConnect, CancelClientStep, mainVars
<1>1. TypeOK'
    BY DEF TypeOK
<1>2. (MainInv /\ ServeInv /\ LateInv /\ ResponseIsWhole)'
    BY DEF MainInv, Active, ServeInv, LateInv, ResponseIsWhole
<1>3. HandledInv'
    BY DEF TypeOK, HandledInv
<1>4. RequestInv'
    BY DEF TypeOK, RequestInv
<1>5. FinInv'
    BY DEF TypeOK, FinInv
<1> QED
    BY <1>1, <1>2, <1>3, <1>4, <1>5

\* The worker thread runs the handler.
LEMMA ConnectHandlerPreserves ==
    ASSUME YInv, NEW c \in Clients, ConnectHandler(c)
    PROVE  YInv'
<1> USE DEF YInv, programVars, ConnectHandler, CancelClientStep, mainVars
<1>1. TypeOK'
    BY DEF TypeOK
<1>2. (MainInv /\ ServeInv /\ LateInv /\ ResponseIsWhole)'
    BY DEF MainInv, Active, ServeInv, LateInv, ResponseIsWhole
<1>3. HandledInv'
    BY DEF TypeOK, HandledInv
<1>4. RequestInv'
    BY DEF TypeOK, RequestInv
<1>5. FinInv'
    BY DEF TypeOK, FinInv
<1> QED
    BY <1>1, <1>2, <1>3, <1>4, <1>5

\* main of cancellingAsyncOperations returns.
LEMMA JoinWorkerPreserves ==
    ASSUME YInv, NEW c \in Clients, JoinWorker(c)
    PROVE  YInv'
<1> USE DEF YInv, programVars, JoinWorker, CancelClientStep, mainVars
<1>1. TypeOK'
    BY DEF TypeOK
<1>2. (MainInv /\ ServeInv /\ LateInv /\ ResponseIsWhole)'
    BY DEF MainInv, Active, ServeInv, LateInv, ResponseIsWhole
<1>3. HandledInv'
    BY DEF TypeOK, HandledInv
<1>4. RequestInv'
    BY DEF TypeOK, RequestInv
<1>5. FinInv'
    BY DEF TypeOK, FinInv
<1> QED
    BY <1>1, <1>2, <1>3, <1>4, <1>5

-----------------------------------------------------------------------------
\* Every step preserves the invariant.
LEMMA NextPreserves ==
    ASSUME YInv, [Next]_vars
    PROVE  YInv'
<1>1. ASSUME RunStep PROVE YInv'
    BY <1>1, ListenPreserves, CheckStopPreserves, TakeClientPreserves
       DEF RunStep, Accept, AcceptTLS, AcceptDetached, AcceptOnce
<1>2. ASSUME AcceptFails PROVE YInv'
    BY <1>2, RunThrowsPreserves DEF AcceptFails
<1>3. ASSUME MainStep PROVE YInv'
    <2>1. CASE MainReturns
        <3>1. kind = "shutdown" => \A c \in Clients : ~Active(c)
            BY <2>1 DEF YInv, MainInv, ServeInv, MainReturns
        <3> QED
            BY <2>1, <3>1, EndProcessPreserves DEF MainReturns, Alive
    <2> QED
        BY <1>3, <2>1, StopJoinPreserves, DestroyServerPreserves DEF MainStep
<1>4. ASSUME StopFlag PROVE YInv'
    BY <1>4, StopFlagPreserves
<1>5. ASSUME UseAfterDestroy PROVE YInv'
    <2>1. kind = "parallel"
        BY <1>5 DEF YInv, MainInv, ServeInv, UseAfterDestroy
    <2> QED
        BY <1>5, <2>1, EndProcessPreserves DEF UseAfterDestroy, Alive
<1>6. ASSUME Kill PROVE YInv'
    BY <1>6, EndProcessPreserves DEF Kill
<1>7. ASSUME NEW c \in Clients, ServiceStep(c) PROVE YInv'
    BY <1>7, HandshakePreserves, ReadLinePreserves, ReadToEndPreserves,
       WriteResponsePreserves, FinishClientPreserves DEF ServiceStep
<1>8. ASSUME NEW c \in Clients, Connect(c) \/ RequestStep(c) PROVE YInv'
    BY <1>8, ConnectPreserves, HandshakeTLSPreserves, SendRequestPreserves,
       HalfClosePreserves, ReceiveResponsePreserves, ReadToEofPreserves, ClosePreserves
       DEF RequestStep
<1>9. ASSUME NEW c \in Clients, AsyncConnect(c) \/ Establish(c) \/ CancelStep(c) PROVE YInv'
    BY <1>9, AsyncConnectPreserves, EstablishPreserves, ConnectReadyPreserves,
       CancelConnectPreserves, ConnectHandlerPreserves, JoinWorkerPreserves DEF CancelStep
<1>10. ASSUME UNCHANGED vars PROVE YInv'
    <2> USE <1>10 DEF YInv, vars, programVars, mainVars, runVars, clientVars, netVars
    <2>1. (TypeOK /\ MainInv /\ ServeInv /\ LateInv)'
        BY DEF TypeOK, MainInv, ServeInv, LateInv, Active
    <2>2. (HandledInv /\ RequestInv /\ FinInv /\ ResponseIsWhole)'
        BY DEF HandledInv, RequestInv, FinInv, ResponseIsWhole
    <2> QED
        BY <2>1, <2>2
<1> QED
    BY <1>1, <1>2, <1>3, <1>4, <1>5, <1>6, <1>7, <1>8, <1>9, <1>10 DEF Next

\* The invariant holds in every reachable state.
THEOREM SyncInvariant == Spec => []YInv
<1>1. YInv /\ [Next]_vars => YInv'
    BY NextPreserves
<1> QED
    BY <1>1, InitYInv, PTL DEF Spec

\* The variables of the servers and their clients keep their types.
THEOREM SyncTypeCorrect == Spec => []TypeOK
<1>1. YInv => TypeOK
    BY DEF YInv
<1> QED
    BY <1>1, SyncInvariant, PTL

\* For every server and any number of clients a response that is reported was
\* sent whole, unless the half-close client met a killed server.
THEOREM SyncResponseIsWhole == Spec => []ResponseIsWhole
<1>1. YInv => ResponseIsWhole
    BY DEF YInv
<1> QED
    BY <1>1, SyncInvariant, PTL

\* For every server and any number of clients at most one is accepted after Stop.
THEOREM SyncOneLateClient == Spec => []OneLateClient
<1>1. YInv => OneLateClient
    <2> SUFFICES ASSUME YInv PROVE Cardinality(late) <= 1
        BY DEF OneLateClient
    <2>1. CASE late = {}
        BY <2>1, FS_EmptySet
    <2>2. CASE late # {}
        <3>1. PICK c : late = {c}
            BY <2>2 DEF YInv, LateInv
        <3>2. Cardinality({c}) = 1
            BY FS_Singleton
        <3> QED
            BY <3>1, <3>2
    <2> QED
        BY <2>1, <2>2
<1> QED
    BY <1>1, SyncInvariant, PTL

\* The io_context outlives the threads that use it, but for those of syncParallel.
THEOREM SyncContextOutlivesThreads == Spec => []ContextOutlivesThreads
<1>1. YInv => ContextOutlivesThreads
    BY DEF YInv, MainInv, ServeInv, ContextOutlivesThreads
<1> QED
    BY <1>1, SyncInvariant, PTL

\* The handler of async_connect is called once, whoever was first.
THEOREM SyncConnectHandledOnce == Spec => []ConnectHandledOnce
<1>1. YInv => ConnectHandledOnce
    BY DEF YInv, HandledInv, ConnectHandledOnce
<1> QED
    BY <1>1, SyncInvariant, PTL

=============================================================================
