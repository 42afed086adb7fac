-------------------------- MODULE AsyncServerProofs --------------------------
(***************************************************************************)
(* The safety properties of AsyncServer for any number of connections and  *)
(* threads.  The invariant follows a connection from the client to the     *)
(* backlog, the accept operation and its Service, each of which has it at  *)
(* most once, and a Service from operation to handler.                     *)
(***************************************************************************)
EXTENDS AsyncServer, TLAPS

\* The accept chain, thread by thread.
ChainInv ==
    /\ \A t \in IoThreads : ioPc[t] = "rearm" =>
           acceptor = "listening" /\ acceptOp = "none"
    /\ \A t, r \in IoThreads : ioPc[t] = "rearm" /\ ioPc[r] = "rearm" => t = r
    /\ acceptor = "listening" /\ acceptOp = "none" =>
           \E t \in IoThreads : ioPc[t] = "rearm"
    /\ acceptOp # "none" => acceptor = "listening"
    /\ acceptConn # NoConn => acceptOp = "ready"

\* The owner of the Server has started the acceptor, and joined the threads.
MainInv ==
    /\ mainPc = "start" <=> acceptor = "none"
    /\ mainPc \in {"stopped", "destroyed"} =>
           \A t \in IoThreads : ioPc[t] = "exited"

\* A connection has no Service before it has been accepted.
ArrivalInv ==
    \A c \in Conns :
        /\ client[c] = "absent" =>
               c \notin backlog /\ acceptConn # c /\ service[c] = "none"
        /\ c \in backlog => acceptConn # c /\ service[c] = "none"
        /\ acceptConn = c => service[c] = "none"

\* An operation belongs to a living Service, and a living Service has one.
OpInv ==
    \A c \in Conns :
        /\ opState[c] # "none" => service[c] = "alive"
        /\ service[c] = "alive" /\ mainPc # "destroyed" => opState[c] # "none"

\* A thread has a connection exactly while it processes the request.
IoInv ==
    \A t \in IoThreads :
        /\ ioPc[t] = "process" <=> ioConn[t] # NoConn
        /\ ioConn[t] # NoConn => opState[ioConn[t]] = "running"

\* No two threads process the same request.
IoDistinct ==
    \A t, r \in IoThreads : ioConn[t] = ioConn[r] /\ ioConn[t] # NoConn => t = r

\* A handler that runs is run by some thread.
RunningInv ==
    \A c \in Conns :
        opState[c] = "running" => \E t \in IoThreads : ioConn[t] = c

\* Success of the last operation of a Service means an answered client.
AnswerInv ==
    \A c \in Conns :
        /\ opState[c] = "ready" /\ op[c] = "write" /\ opEc[c] = "ok" => answered[c]
        /\ service[c] = "deleted" /\ opEc[c] = "ok" => answered[c]

\* The inductive invariant.
SInv == /\ TypeOK
        /\ ChainInv
        /\ MainInv
        /\ ArrivalInv
        /\ OpInv
        /\ IoInv
        /\ IoDistinct
        /\ RunningInv
        /\ AnswerInv

-----------------------------------------------------------------------------
(***************************************************************************)
(* Every action preserves SInv: one lemma per action, one step per conjunct *)
(* the action can disturb, and one step for those it cannot.                *)
(***************************************************************************)

\* SInv is preserved when the acceptor is started.
LEMMA StartAcceptorPreserves ==
    ASSUME SInv, StartAcceptor
    PROVE  SInv'
<1> USE DEF SInv, StartAcceptor, netVars, serviceVars, ioVars
<1>1. TypeOK'
    BY DEF TypeOK, MainPcs
<1>2. (ArrivalInv /\ IoInv /\ IoDistinct /\ RunningInv /\ AnswerInv)'
    BY DEF ArrivalInv, IoInv, IoDistinct, RunningInv, AnswerInv
<1>3. ChainInv'
    BY DEF ChainInv, MainInv
<1>4. MainInv'
    BY DEF MainInv
<1>5. OpInv'
    BY DEF OpInv
<1> QED
    BY <1>1, <1>2, <1>3, <1>4, <1>5

\* SInv is preserved when a thread of the pool is started.
LEMMA SpawnThreadPreserves ==
    ASSUME SInv, NEW t \in IoThreads, SpawnThread(t)
    PROVE  SInv'
<1> USE DEF SInv, SpawnThread, acceptVars, netVars, serviceVars
<1>1. TypeOK'
    BY DEF TypeOK, MainPcs, IoPcs
<1>2. (ArrivalInv /\ IoDistinct /\ RunningInv /\ AnswerInv)'
    BY DEF ArrivalInv, IoDistinct, RunningInv, AnswerInv
<1>3. ChainInv'
    BY DEF ChainInv
<1>4. MainInv'
    BY DEF MainInv
<1>5. OpInv'
    BY DEF OpInv
<1>6. IoInv'
    BY DEF IoInv
<1> QED
    BY <1>1, <1>2, <1>3, <1>4, <1>5, <1>6

\* SInv is preserved when Acceptor::Stop sets its flag.
LEMMA StopAcceptorPreserves ==
    ASSUME SInv, StopAcceptor
    PROVE  SInv'
<1> USE DEF SInv, StopAcceptor, netVars, serviceVars, ioVars
<1>1. TypeOK'
    BY DEF TypeOK, MainPcs
<1>2. (ChainInv /\ ArrivalInv /\ IoInv
         /\ IoDistinct /\ RunningInv /\ AnswerInv)'
    BY DEF ChainInv, ArrivalInv, IoInv, IoDistinct, RunningInv, AnswerInv
<1>3. MainInv'
    BY DEF MainInv
<1>4. OpInv'
    BY DEF OpInv
<1> QED
    BY <1>1, <1>2, <1>3, <1>4

\* SInv is preserved when m_ios is stopped.
LEMMA StopIosPreserves ==
    ASSUME SInv, StopIos
    PROVE  SInv'
<1> USE DEF SInv, StopIos, acceptVars, netVars, serviceVars, ioVars
<1>1. TypeOK'
    BY DEF TypeOK, MainPcs
<1>2. (ChainInv /\ ArrivalInv /\ IoInv
         /\ IoDistinct /\ RunningInv /\ AnswerInv)'
    BY DEF ChainInv, ArrivalInv, IoInv, IoDistinct, RunningInv, AnswerInv
<1>3. MainInv'
    BY DEF MainInv
<1>4. OpInv'
    BY DEF OpInv
<1> QED
    BY <1>1, <1>2, <1>3, <1>4

\* SInv is preserved when the threads have been joined.
LEMMA JoinPreserves ==
    ASSUME SInv, Join
    PROVE  SInv'
<1> USE DEF SInv, Join, acceptVars, netVars, serviceVars, ioVars
<1>1. TypeOK'
    BY DEF TypeOK, MainPcs
<1>2. (ChainInv /\ ArrivalInv /\ IoInv
         /\ IoDistinct /\ RunningInv /\ AnswerInv)'
    BY DEF ChainInv, ArrivalInv, IoInv, IoDistinct, RunningInv, AnswerInv
<1>3. MainInv'
    BY DEF MainInv
<1>4. OpInv'
    BY DEF OpInv
<1> QED
    BY <1>1, <1>2, <1>3, <1>4

\* SInv is preserved when the Server is destroyed.
LEMMA DestroyServerPreserves ==
    ASSUME SInv, DestroyServer
    PROVE  SInv'
<1> USE DEF SInv, DestroyServer, ioVars
<1>1. TypeOK'
    BY DEF TypeOK, MainPcs
<1>2. IoDistinct'
    BY DEF IoDistinct
<1>3. ChainInv'
    BY DEF ChainInv, MainInv
<1>4. MainInv'
    BY DEF MainInv
<1>5. ArrivalInv'
    BY ServerAssumption DEF ArrivalInv
<1>6. OpInv'
    BY DEF OpInv
<1>7. IoInv'
    BY DEF IoInv, MainInv
<1>8. RunningInv'
    BY DEF RunningInv
<1>9. AnswerInv'
    BY DEF AnswerInv
<1> QED
    BY <1>1, <1>2, <1>3, <1>4, <1>5, <1>6, <1>7, <1>8, <1>9

\* SInv is preserved when a client asks for a connection.
LEMMA ConnectPreserves ==
    ASSUME SInv, NEW c \in Conns, Connect(c)
    PROVE  SInv'
<1> USE DEF SInv, Connect, mainVars, acceptVars, serviceVars, ioVars
<1>1. TypeOK'
    BY DEF TypeOK
<1>2. (ChainInv /\ MainInv /\ OpInv
         /\ IoInv /\ IoDistinct /\ RunningInv /\ AnswerInv)'
    BY DEF ChainInv, MainInv, OpInv, IoInv, IoDistinct, RunningInv, AnswerInv
<1>3. ArrivalInv'
    BY DEF ArrivalInv, TypeOK
<1> QED
    BY <1>1, <1>2, <1>3

\* SInv is preserved when the accept operation takes a connection.
LEMMA AcceptOkPreserves ==
    ASSUME SInv, NEW c \in Conns, AcceptOk(c)
    PROVE  SInv'
<1> USE DEF SInv, AcceptOk, mainVars, serviceVars, ioVars
<1>1. TypeOK'
    BY DEF TypeOK
<1>2. (MainInv /\ OpInv /\ IoInv /\ IoDistinct /\ RunningInv /\ AnswerInv)'
    BY DEF MainInv, OpInv, IoInv, IoDistinct, RunningInv, AnswerInv
<1>3. ChainInv'
    BY DEF ChainInv
<1>4. ArrivalInv'
    BY DEF ArrivalInv
<1> QED
    BY <1>1, <1>2, <1>3, <1>4

\* SInv is preserved when the accept operation fails.
LEMMA AcceptErrorPreserves ==
    ASSUME SInv, AcceptError
    PROVE  SInv'
<1> USE DEF SInv, AcceptError, mainVars, netVars, serviceVars, ioVars
<1>1. TypeOK'
    BY DEF TypeOK
<1>2. (MainInv /\ OpInv /\ IoInv /\ IoDistinct /\ RunningInv /\ AnswerInv)'
    BY DEF MainInv, OpInv, IoInv, IoDistinct, RunningInv, AnswerInv
<1>3. ChainInv'
    BY DEF ChainInv
<1>4. ArrivalInv'
    BY ServerAssumption DEF ArrivalInv
<1> QED
    BY <1>1, <1>2, <1>3, <1>4

\* SInv is preserved when a read or write ends.
LEMMA OpCompletePreserves ==
    ASSUME SInv, NEW c \in Conns, NEW e \in {"ok", "error"}, OpComplete(c, e)
    PROVE  SInv'
<1> USE DEF SInv, OpComplete, mainVars, acceptVars, netVars, ioVars
<1>1. TypeOK'
    BY DEF TypeOK
<1>2. (ChainInv /\ MainInv /\ ArrivalInv /\ IoDistinct)'
    BY DEF ChainInv, MainInv, ArrivalInv, IoDistinct
<1>3. OpInv'
    BY DEF OpInv
<1>4. IoInv'
    BY DEF IoInv
<1>5. RunningInv'
    BY DEF RunningInv
<1>6. AnswerInv'
    BY DEF AnswerInv, OpInv, TypeOK
<1> QED
    BY <1>1, <1>2, <1>3, <1>4, <1>5, <1>6

\* SInv is preserved when onAccept creates a Service.
LEMMA OnAcceptPreserves ==
    ASSUME SInv, NEW t \in IoThreads, OnAccept(t)
    PROVE  SInv'
<1> USE DEF SInv, OnAccept, Idle, StartHandling, mainVars, netVars
<1>1. TypeOK'
    BY DEF TypeOK, IoPcs
<1>2. IoDistinct'
    BY DEF IoDistinct
<1>3. ChainInv'
    BY DEF ChainInv, TypeOK
<1>4. MainInv'
    BY DEF MainInv
<1>5. ArrivalInv'
    BY ServerAssumption DEF ArrivalInv, TypeOK
<1>6. OpInv'
    BY DEF OpInv, TypeOK
<1>7. IoInv'
    BY DEF IoInv, ArrivalInv, OpInv, TypeOK
<1>8. RunningInv'
    BY DEF RunningInv, TypeOK
<1>9. AnswerInv'
    BY DEF AnswerInv, TypeOK
<1> QED
    BY <1>1, <1>2, <1>3, <1>4, <1>5, <1>6, <1>7, <1>8, <1>9

\* SInv is preserved when onAccept starts the next accept or closes.
LEMMA OnAcceptEndPreserves ==
    ASSUME SInv, NEW t \in IoThreads, OnAcceptEnd(t)
    PROVE  SInv'
<1> USE DEF SInv, OnAcceptEnd, Rearm, mainVars, netVars, serviceVars
<1>1. TypeOK'
    BY DEF TypeOK, IoPcs
<1>2. (ArrivalInv /\ OpInv /\ IoDistinct /\ RunningInv /\ AnswerInv)'
    BY DEF ArrivalInv, OpInv, IoDistinct, RunningInv, AnswerInv
<1>3. ChainInv'
    BY DEF ChainInv, TypeOK
<1>4. MainInv'
    BY DEF MainInv, ChainInv
<1>5. IoInv'
    BY DEF IoInv
<1> QED
    BY <1>1, <1>2, <1>3, <1>4, <1>5

\* SInv is preserved when a Service is given a read error.
LEMMA RequestFailedPreserves ==
    ASSUME SInv, NEW t \in IoThreads, NEW c \in Conns, RequestFailed(t, c)
    PROVE  SInv'
<1> USE DEF SInv, RequestFailed, Idle, OnFinish, mainVars, acceptVars, netVars,
        ioVars
<1>1. TypeOK'
    BY DEF TypeOK
<1>2. (ChainInv /\ MainInv /\ IoDistinct)'
    BY DEF ChainInv, MainInv, IoDistinct
<1>3. ArrivalInv'
    BY DEF ArrivalInv, OpInv
<1>4. OpInv'
    BY DEF OpInv, TypeOK
<1>5. IoInv'
    BY DEF IoInv
<1>6. RunningInv'
    BY DEF RunningInv
<1>7. AnswerInv'
    BY DEF AnswerInv
<1> QED
    BY <1>1, <1>2, <1>3, <1>4, <1>5, <1>6, <1>7

\* SInv is preserved when a Service is given its request.
LEMMA RequestReceivedPreserves ==
    ASSUME SInv, NEW t \in IoThreads, NEW c \in Conns, RequestReceived(t, c)
    PROVE  SInv'
<1> USE DEF SInv, RequestReceived, Idle, mainVars, acceptVars, netVars
<1>1. TypeOK'
    BY DEF TypeOK, IoPcs
<1>2. ArrivalInv'
    BY DEF ArrivalInv
<1>3. ChainInv'
    BY DEF ChainInv
<1>4. MainInv'
    BY DEF MainInv
<1>5. OpInv'
    BY DEF OpInv
<1>6. IoInv'
    BY ServerAssumption DEF IoInv, TypeOK
<1>7. IoDistinct'
    BY DEF IoDistinct, IoInv
<1>8. RunningInv'
    BY ServerAssumption DEF RunningInv, IoInv, TypeOK
<1>9. AnswerInv'
    BY DEF AnswerInv
<1> QED
    BY <1>1, <1>2, <1>3, <1>4, <1>5, <1>6, <1>7, <1>8, <1>9

\* SInv is preserved when a Service starts to write its response.
LEMMA ProcessRequestPreserves ==
    ASSUME SInv, NEW t \in IoThreads, ProcessRequest(t)
    PROVE  SInv'
<1> USE DEF SInv, ProcessRequest, mainVars, acceptVars, netVars
<1>1. TypeOK'
    BY DEF TypeOK, IoPcs, IoInv
<1>2. ArrivalInv'
    BY DEF ArrivalInv
<1>3. ChainInv'
    BY DEF ChainInv
<1>4. MainInv'
    BY DEF MainInv
<1>5. OpInv'
    BY DEF OpInv, IoInv
<1>6. IoInv'
    BY DEF IoInv, IoDistinct, TypeOK
<1>7. IoDistinct'
    BY DEF IoDistinct
<1>8. RunningInv'
    BY DEF RunningInv, TypeOK
<1>9. AnswerInv'
    BY DEF AnswerInv, TypeOK
<1> QED
    BY <1>1, <1>2, <1>3, <1>4, <1>5, <1>6, <1>7, <1>8, <1>9

\* SInv is preserved when a Service has written its response.
LEMMA OnResponseSentPreserves ==
    ASSUME SInv, NEW t \in IoThreads, NEW c \in Conns, OnResponseSent(t, c)
    PROVE  SInv'
<1> USE DEF SInv, OnResponseSent, Idle, OnFinish, mainVars, acceptVars,
        netVars, ioVars
<1>1. TypeOK'
    BY DEF TypeOK
<1>2. (ChainInv /\ MainInv /\ IoDistinct)'
    BY DEF ChainInv, MainInv, IoDistinct
<1>3. ArrivalInv'
    BY DEF ArrivalInv, OpInv
<1>4. OpInv'
    BY DEF OpInv, TypeOK
<1>5. IoInv'
    BY DEF IoInv
<1>6. RunningInv'
    BY DEF RunningInv
<1>7. AnswerInv'
    BY DEF AnswerInv
<1> QED
    BY <1>1, <1>2, <1>3, <1>4, <1>5, <1>6, <1>7

\* SInv is preserved when m_ios.run() returns.
LEMMA IoExitPreserves ==
    ASSUME SInv, NEW t \in IoThreads, IoExit(t)
    PROVE  SInv'
<1> USE DEF SInv, IoExit, mainVars, acceptVars, netVars, serviceVars
<1>1. TypeOK'
    BY DEF TypeOK, IoPcs
<1>2. (ArrivalInv /\ OpInv /\ IoDistinct /\ RunningInv /\ AnswerInv)'
    BY DEF ArrivalInv, OpInv, IoDistinct, RunningInv, AnswerInv
<1>3. ChainInv'
    BY DEF ChainInv
<1>4. MainInv'
    BY DEF MainInv
<1>5. IoInv'
    BY DEF IoInv
<1> QED
    BY <1>1, <1>2, <1>3, <1>4, <1>5

-----------------------------------------------------------------------------
(***************************************************************************)
(* The theorems.                                                           *)
(***************************************************************************)

\* SInv holds before Server::Start.
LEMMA InitSInv == Init => SInv
<1> SUFFICES ASSUME Init PROVE SInv
    OBVIOUS
<1> USE DEF Init
<1>1. TypeOK
    BY DEF TypeOK, MainPcs, IoPcs
<1>2. ChainInv /\ MainInv /\ ArrivalInv
    BY ServerAssumption DEF ChainInv, MainInv, ArrivalInv
<1>3. OpInv /\ IoInv /\ IoDistinct /\ RunningInv /\ AnswerInv
    BY DEF OpInv, IoInv, IoDistinct, RunningInv, AnswerInv
<1> QED
    BY <1>1, <1>2, <1>3 DEF SInv

\* Every step of the server preserves SInv.
LEMMA NextSInv == SInv /\ [Next]_vars => SInv'
<1> SUFFICES ASSUME SInv, [Next]_vars PROVE SInv'
    OBVIOUS
<1>1. CASE MainStep \/ StopAcceptor
    BY <1>1, StartAcceptorPreserves, SpawnThreadPreserves, StopAcceptorPreserves,
        StopIosPreserves, JoinPreserves, DestroyServerPreserves DEF MainStep
<1>2. CASE AcceptStep
    BY <1>2, AcceptOkPreserves, AcceptErrorPreserves DEF AcceptStep
<1>3. ASSUME NEW c \in Conns, Connect(c) \/ OpEnds(c) PROVE SInv'
    BY <1>3, ConnectPreserves, OpCompletePreserves DEF OpEnds
<1>4. ASSUME NEW t \in IoThreads, OnAccept(t) \/ HandlerStep(t) PROVE SInv'
    BY <1>4, OnAcceptPreserves, OnAcceptEndPreserves, ProcessRequestPreserves,
        IoExitPreserves DEF HandlerStep
<1>5. ASSUME NEW t \in IoThreads, NEW c \in Conns, RunQueued(t, c) PROVE SInv'
    BY <1>5, RequestFailedPreserves, RequestReceivedPreserves,
        OnResponseSentPreserves DEF RunQueued
<1>6. CASE UNCHANGED vars
    BY <1>6 DEF vars, mainVars, acceptVars, netVars, serviceVars, ioVars, SInv,
        TypeOK, ChainInv, MainInv, ArrivalInv, OpInv, IoInv, IoDistinct,
        RunningInv, AnswerInv
<1> QED
    BY <1>1, <1>2, <1>3, <1>4, <1>5, <1>6 DEF Next

\* The inductive invariant holds in every reachable state.
THEOREM ServerInvariant == Spec => []SInv
    BY InitSInv, NextSInv, PTL DEF Spec

\* Every variable of the server keeps its type.
THEOREM ServerTypeCorrect == Spec => []TypeOK
<1>1. SInv => TypeOK
    BY DEF SInv
<1> QED
    BY <1>1, ServerInvariant, PTL

\* There is exactly one accept in progress while the acceptor listens, and none
\* once it is closed.
THEOREM ServerOneAcceptChain == Spec => []OneAcceptChain
<1>1. SInv => OneAcceptChain
    BY DEF SInv, ChainInv, OneAcceptChain
<1> QED
    BY <1>1, ServerInvariant, PTL

\* No operation or handler outlives the Service it belongs to.
THEOREM ServerNoUseAfterDelete == Spec => []NoUseAfterDelete
<1>1. SInv => NoUseAfterDelete
    BY ServerAssumption DEF SInv, OpInv, IoInv, NoUseAfterDelete
<1> QED
    BY <1>1, ServerInvariant, PTL

\* Until the Server is destroyed a living Service is in exactly one place.
THEOREM ServerLivingServiceIsInHand == Spec => []LivingServiceIsInHand
<1>1. SInv => LivingServiceIsInHand
    BY ServerAssumption
        DEF SInv, OpInv, IoInv, IoDistinct, RunningInv, LivingServiceIsInHand
<1> QED
    BY <1>1, ServerInvariant, PTL

\* A Service that ended without an error has answered its client.
THEOREM ServerDeletedIsAnswered == Spec => []DeletedIsAnswered
<1>1. SInv => DeletedIsAnswered
    BY DEF SInv, AnswerInv, DeletedIsAnswered
<1> QED
    BY <1>1, ServerInvariant, PTL

-----------------------------------------------------------------------------
(***************************************************************************)
(* After Acceptor::Stop at most one more connection is given a Service.    *)
(***************************************************************************)

\* A late connection finds m_isStopped set, and the onAccept that gives it a
\* Service is the last link of the chain.
LateInv ==
    /\ \A c \in Conns : acceptor = "none" => client[c] = "absent"
    /\ \A c \in Conns : client[c] = "late" => m_isStopped
    /\ \A c \in Conns : client[c] = "late" /\ service[c] # "none" => acceptOp = "none"
    /\ OneLateAccept

\* Every step preserves it.
LEMMA NextLateInv == SInv /\ LateInv /\ [Next]_vars => LateInv'
<1> SUFFICES ASSUME SInv, LateInv, [Next]_vars PROVE LateInv'
    OBVIOUS
<1> USE DEF LateInv, OneLateAccept
<1>1. CASE StartAcceptor
    BY <1>1 DEF SInv, MainInv, TypeOK, StartAcceptor, netVars, serviceVars
<1>2. ASSUME NEW t \in IoThreads, SpawnThread(t) PROVE LateInv'
    BY <1>2 DEF SpawnThread, acceptVars, netVars, serviceVars
<1>3. CASE StopAcceptor \/ StopIos \/ Join
    BY <1>3 DEF StopAcceptor, StopIos, Join, acceptVars, netVars, serviceVars
<1>4. CASE DestroyServer
    BY <1>4 DEF DestroyServer
<1>5. ASSUME NEW c \in Conns, Connect(c) PROVE LateInv'
    <2>1. service[c] = "none"
        BY <1>5 DEF Connect, SInv, ArrivalInv
    <2> QED
        BY <1>5, <2>1 DEF Connect, SInv, TypeOK, acceptVars, serviceVars
<1>6. CASE AcceptError \/ \E c \in Conns : AcceptOk(c)
    BY <1>6 DEF AcceptError, AcceptOk, netVars, serviceVars
<1>7. ASSUME NEW c \in Conns, OpEnds(c) PROVE LateInv'
    BY <1>7 DEF OpEnds, OpComplete, acceptVars, netVars
<1>8. ASSUME NEW t \in IoThreads, OnAccept(t) PROVE LateInv'
    <2>1. \A c \in Conns : client[c] = "late" => service[c] = "none"
        BY <1>8 DEF OnAccept
    <2>2. \A c \in Conns : service'[c] # "none" => service[c] # "none" \/ c = acceptConn
        BY <1>8 DEF OnAccept, StartHandling, SInv, TypeOK
    <2> QED
        BY <1>8, <2>1, <2>2 DEF OnAccept, netVars
<1>9. ASSUME NEW t \in IoThreads, OnAcceptEnd(t) PROVE LateInv'
    BY <1>9 DEF OnAcceptEnd, Rearm, SInv, ChainInv, netVars, serviceVars
<1>10. ASSUME NEW t \in IoThreads, ProcessRequest(t) \/ IoExit(t) PROVE LateInv'
    BY <1>10 DEF ProcessRequest, IoExit, acceptVars, netVars, serviceVars
<1>11. ASSUME NEW t \in IoThreads, NEW c \in Conns, RunQueued(t, c) PROVE LateInv'
    <2>1. \A d \in Conns : service'[d] # "none" => service[d] # "none"
        BY <1>11 DEF RunQueued, RequestFailed, RequestReceived, OnResponseSent, OnFinish,
                     SInv, TypeOK, OpInv
    <2>2. UNCHANGED <<m_isStopped, acceptor, acceptOp, client>>
        BY <1>11 DEF RunQueued, RequestFailed, RequestReceived, OnResponseSent, acceptVars,
                     netVars
    <2> QED
        BY <2>1, <2>2
<1>12. CASE UNCHANGED vars
    BY <1>12 DEF vars, acceptVars, netVars, serviceVars
<1> QED
    BY <1>1, <1>2, <1>3, <1>4, <1>5, <1>6, <1>7, <1>8, <1>9, <1>10, <1>11, <1>12
       DEF Next, MainStep, AcceptStep, HandlerStep

\* For any number of clients and threads at most one connection that was asked
\* for after Acceptor::Stop had returned is given a Service.
THEOREM ServerOneLateAccept == Spec => []OneLateAccept
<1>1. Init => LateInv
    BY DEF Init, LateInv, OneLateAccept
<1>2. LateInv => OneLateAccept
    BY DEF LateInv
<1> QED
    BY <1>1, <1>2, NextLateInv, ServerInvariant, PTL DEF Spec

=============================================================================
