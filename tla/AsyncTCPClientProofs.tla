------------------------- MODULE AsyncTCPClientProofs -------------------------
(***************************************************************************)
(* The safety properties of AsyncTCPClient for any number of requests,     *)
(* threads, identifiers (unique or not) and cancellations.                 *)
(*                                                                         *)
(* None of the properties is inductive.  What they rest on is the custody  *)
(* of a session: from emulateLongComputationOp to the end of its callback  *)
(* a session is in the hands of exactly one party - the caller that has    *)
(* not yet called async_connect, the reactor or queue of m_ios, or the one *)
(* I/O thread that runs its handler - and it leaves the map of active      *)
(* sessions before its callback is called.                                 *)
(***************************************************************************)
EXTENDS AsyncTCPClient, TLAPS

Handling == {"lock", "shutdown", "erase", "callback"}

\* An entry of the map is a started session, under its own id.
MapInv ==
    \A i \in Ids : m_active_sessions[i] # NoSession =>
        /\ IdOf[m_active_sessions[i]] = i
        /\ m_sock[m_active_sessions[i]] # "unopened"

\* A call in progress of an application thread: cancelRequest owns the map's
\* mutex and its session is still in the map; emulateLongComputationOp has not
\* given its session to the reactor yet, and close() has not been called.
UserInv ==
    \A u \in Users :
        /\ userPc[u] \in {"connect", "cancel"} <=> userSession[u] # NoSession
        /\ userPc[u] = "cancel" <=> guardOwner = u
        /\ userPc[u] = "cancel" =>
               m_active_sessions[IdOf[userSession[u]]] = userSession[u]
        /\ userPc[u] = "connect" =>
               /\ m_work
               /\ m_sock[userSession[u]] # "unopened"
               /\ op[userSession[u]] = "none"
               /\ calls[userSession[u]] = 0
        /\ userPc[u] \in {"join", "closed"} => ~m_work

\* Two calls of emulateLongComputationOp work on two sessions.
ConnectInv ==
    \A u, v \in Users :
        /\ userPc[u] = "connect"
        /\ userPc[v] = "connect"
        /\ userSession[u] = userSession[v]
        => u = v

\* An I/O thread has a session exactly while it executes a handler.
IoInv ==
    \A t \in IoThreads :
        /\ ioPc[t] \in Handling <=> ioSession[t] # NoSession
        /\ ioSession[t] # NoSession => opState[ioSession[t]] = "running"

\* No two I/O threads execute handlers of the same session.
IoDistinct ==
    \A t1, t2 \in IoThreads :
        ioSession[t1] = ioSession[t2] /\ ioSession[t1] # NoSession => t1 = t2

\* The life of a session: untouched before it is started, in the hands of its
\* caller or of m_ios while it is active, with nothing outstanding afterwards.
SessionInv ==
    \A s \in Sessions :
        /\ m_sock[s] = "unopened" =>
               op[s] = "none" /\ calls[s] = 0 /\ ~m_was_cancelled[s]
        /\ opState[s] # "none" => op[s] # "none" /\ calls[s] = 0
        /\ op[s] = "none" => opState[s] = "none"
        /\ calls[s] = 0 => verdict[s] = "none"
        /\ calls[s] \in {0, 1}
        /\ calls[s] = 1 => m_sock[s] # "connected"

\* An active session that m_ios does not have is about to be connected.
CustodyInv ==
    \A s \in Sessions :
        /\ m_sock[s] # "unopened"
        /\ calls[s] = 0
        /\ opState[s] = "none"
        => \E u \in Users : userPc[u] = "connect" /\ userSession[u] = s

\* A session is gone from the map when its callback is called, and its socket
\* is shut down before.
ErasedInv ==
    /\ \A s \in Sessions : calls[s] = 1 => m_active_sessions[IdOf[s]] # s
    /\ \A t \in IoThreads : ioPc[t] = "callback" =>
           m_active_sessions[IdOf[ioSession[t]]] # ioSession[t]
    /\ \A t \in IoThreads : ioPc[t] \in {"erase", "callback"} =>
           m_sock[ioSession[t]] # "connected"

\* m_cancel_guard is kept only by the thread that completes the request, and
\* only when it found the request cancelled.
CancelGuardInv ==
    \A s \in Sessions : cancelOwner[s] # NoThread =>
        /\ ioSession[cancelOwner[s]] = s
        /\ ioPc[cancelOwner[s]] \in {"shutdown", "erase", "callback"}
        /\ m_was_cancelled[s]

\* Where the error codes come from.
EcInv ==
    /\ \A s \in Sessions :
           /\ opEc[s] = "aborted" => m_was_cancelled[s]
           /\ m_ec[s] = "aborted" => m_was_cancelled[s]
           /\ verdict[s] = "ok" => m_response[s] /\ ~m_was_cancelled[s]
           /\ verdict[s] = "aborted" => m_was_cancelled[s]
    /\ \A t \in IoThreads : ioPc[t] \in {"shutdown", "erase", "callback"} =>
           \/ m_ec[ioSession[t]] # "ok"
           \/ m_response[ioSession[t]]
           \/ m_was_cancelled[ioSession[t]]

\* How many calls of cancelRequest have found the id of a session.
CancelCountInv ==
    /\ \A s \in Sessions : m_was_cancelled[s] => cancelCalls[IdOf[s]] >= 1
    /\ \A u \in Users : userPc[u] = "cancel" =>
           /\ cancelCalls[IdOf[userSession[u]]] >= 1
           /\ m_was_cancelled[userSession[u]] =>
                  cancelCalls[IdOf[userSession[u]]] >= 2

\* I/O threads leave m_ios.run() only when there is nothing left to run.
CloseInv ==
    /\ \A t \in IoThreads : ioPc[t] = "exited" =>
           ~m_work /\ \A s \in Sessions : opState[s] = "none"
    /\ \A u \in Users : userPc[u] = "closed" =>
           \A t \in IoThreads : ioPc[t] = "exited"

\* The inductive invariant.
IInv == /\ TypeOK
        /\ MapInv
        /\ UserInv
        /\ ConnectInv
        /\ IoInv
        /\ IoDistinct
        /\ SessionInv
        /\ CustodyInv
        /\ ErasedInv
        /\ CancelGuardInv
        /\ EcInv
        /\ CancelCountInv
        /\ CloseInv

-----------------------------------------------------------------------------
(***************************************************************************)
(* Every action preserves IInv: one lemma per action, one step per conjunct *)
(* the action can disturb, and one step for those it cannot.                *)
(***************************************************************************)

\* IInv is preserved when emulateLongComputationOp enters its session into the map.
LEMMA EmulatePreserves ==
    ASSUME IInv, NEW u \in Users, NEW s \in Sessions, Emulate(u, s)
    PROVE  IInv'
<1> USE DEF IInv, Emulate, InsertSession, opVars, ioVars, resultVars
<1>1. TypeOK'
    BY ClientAssumption DEF TypeOK, SockStates, UserPcs
<1>2. (IoInv /\ IoDistinct /\ CancelGuardInv /\ EcInv)'
    BY DEF IoInv, IoDistinct, CancelGuardInv, EcInv
<1>3. MapInv'
    BY DEF MapInv, TypeOK
<1>4. UserInv'
    BY ClientAssumption DEF UserInv, SessionInv, TypeOK
<1>5. ConnectInv'
    BY DEF ConnectInv, UserInv
<1>6. SessionInv'
    BY DEF SessionInv
<1>7. CustodyInv'
    BY DEF CustodyInv, TypeOK
<1>8. ErasedInv'
    BY ClientAssumption DEF ErasedInv, IoInv, SessionInv
<1>9. CancelCountInv'
    BY DEF CancelCountInv
<1>10. CloseInv'
    BY DEF CloseInv
<1> QED
    BY <1>1, <1>2, <1>3, <1>4, <1>5, <1>6, <1>7, <1>8, <1>9, <1>10

\* IInv is preserved when emulateLongComputationOp hands the session to the reactor.
LEMMA AsyncConnectPreserves ==
    ASSUME IInv, NEW u \in Users, AsyncConnect(u)
    PROVE  IInv'
<1> USE DEF IInv, AsyncConnect, StartOp, sessionVars, ioVars, resultVars
<1>1. TypeOK'
    BY DEF TypeOK, Ops, OpStates, UserPcs, UserInv
<1>2. (MapInv /\ IoDistinct /\ ErasedInv /\ CancelGuardInv /\ EcInv)'
    BY DEF MapInv, IoDistinct, ErasedInv, CancelGuardInv, EcInv
<1>3. UserInv'
    BY DEF UserInv, ConnectInv, TypeOK
<1>4. ConnectInv'
    BY DEF ConnectInv, TypeOK
<1>5. IoInv'
    BY DEF IoInv, UserInv, SessionInv, TypeOK
<1>6. SessionInv'
    BY DEF SessionInv, UserInv, TypeOK
<1>7. CustodyInv'
    BY DEF CustodyInv, TypeOK
<1>8. CancelCountInv'
    BY DEF CancelCountInv
<1>9. CloseInv'
    BY DEF CloseInv, UserInv
<1> QED
    BY <1>1, <1>2, <1>3, <1>4, <1>5, <1>6, <1>7, <1>8, <1>9

\* IInv is preserved when cancelRequest finds its session.
LEMMA CancelFindPreserves ==
    ASSUME IInv, NEW u \in Users, NEW i \in Ids, CancelFind(u, i)
    PROVE  IInv'
<1> USE DEF IInv, CancelFind, sessionVars, opVars, ioVars, resultVars
<1>1. TypeOK'
    BY ClientAssumption DEF TypeOK, UserPcs
<1>2. (MapInv /\ IoInv /\ IoDistinct
         /\ SessionInv /\ ErasedInv /\ CancelGuardInv /\ EcInv)'
    BY DEF MapInv, IoInv, IoDistinct, SessionInv, ErasedInv, CancelGuardInv,
        EcInv
<1>3. UserInv'
    BY ClientAssumption DEF UserInv, MapInv, TypeOK
<1>4. ConnectInv'
    BY DEF ConnectInv
<1>5. CustodyInv'
    BY DEF CustodyInv
<1>6. CancelCountInv'
    BY DEF CancelCountInv, MapInv, TypeOK
<1>7. CloseInv'
    BY DEF CloseInv
<1> QED
    BY <1>1, <1>2, <1>3, <1>4, <1>5, <1>6, <1>7

\* IInv is preserved when cancelRequest sets the flag and cancels the socket.
LEMMA CancelSessionPreserves ==
    ASSUME IInv, NEW u \in Users, CancelSession(u)
    PROVE  IInv'
<1> USE DEF IInv, CancelSession, CancelOps, ioVars, resultVars
<1>1. TypeOK'
    BY DEF TypeOK, ErrorCodes, OpStates, UserPcs, UserInv
<1>2. (MapInv /\ IoDistinct /\ ErasedInv)'
    BY DEF MapInv, IoDistinct, ErasedInv
<1>3. UserInv'
    BY ClientAssumption DEF UserInv, TypeOK
<1>4. ConnectInv'
    BY DEF ConnectInv
<1>5. IoInv'
    BY DEF IoInv, TypeOK
<1>6. SessionInv'
    <2>1. userSession[u] \in Sessions /\ m_sock[userSession[u]] # "unopened"
        <3>1. /\ userSession[u] \in Sessions
              /\ m_active_sessions[IdOf[userSession[u]]] = userSession[u]
            BY DEF UserInv, TypeOK
        <3>2. IdOf[userSession[u]] \in Ids /\ userSession[u] # NoSession
            BY <3>1, ClientAssumption
        <3> QED
            BY <3>1, <3>2 DEF MapInv
    <2>2. ASSUME NEW r \in Sessions, m_sock[r] = "unopened"
          PROVE  ~m_was_cancelled'[r]
        <3>1. r # userSession[u] /\ ~m_was_cancelled[r]
            BY <2>1, <2>2 DEF SessionInv
        <3>2. m_was_cancelled' = [m_was_cancelled EXCEPT ![userSession[u]] = TRUE]
            OBVIOUS
        <3> QED
            BY <3>1, <3>2, Zenon DEF TypeOK
    <2>3. ASSUME NEW r \in Sessions
          PROVE  opState'[r] = "none" <=> opState[r] = "none"
        BY <2>1, <2>3 DEF TypeOK
    <2>4. UNCHANGED <<m_sock, op, calls, verdict>>
        OBVIOUS
    <2> QED
        BY <2>2, <2>3, <2>4 DEF SessionInv
<1>7. CustodyInv'
    BY DEF CustodyInv, TypeOK
<1>8. CancelGuardInv'
    BY DEF CancelGuardInv
<1>9. EcInv'
    BY DEF EcInv, UserInv, SessionInv, ErasedInv, TypeOK
<1>10. CancelCountInv'
    BY DEF CancelCountInv, UserInv, TypeOK
<1>11. CloseInv'
    BY DEF CloseInv, TypeOK
<1> QED
    BY <1>1, <1>2, <1>3, <1>4, <1>5, <1>6, <1>7, <1>8, <1>9, <1>10, <1>11

\* IInv is preserved when close() gives up the work guard.
LEMMA CloseResetPreserves ==
    ASSUME IInv, NEW u \in Users, CloseReset(u)
    PROVE  IInv'
<1> USE DEF IInv, CloseReset, sessionVars, opVars, ioVars, resultVars
<1>1. TypeOK'
    BY DEF TypeOK, UserPcs
<1>2. (MapInv /\ IoInv /\ IoDistinct
         /\ SessionInv /\ ErasedInv /\ CancelGuardInv /\ EcInv)'
    BY DEF MapInv, IoInv, IoDistinct, SessionInv, ErasedInv, CancelGuardInv,
        EcInv
<1>3. UserInv'
    BY DEF UserInv
<1>4. ConnectInv'
    BY DEF ConnectInv
<1>5. CustodyInv'
    BY DEF CustodyInv
<1>6. CancelCountInv'
    BY DEF CancelCountInv
<1>7. CloseInv'
    BY DEF CloseInv
<1> QED
    BY <1>1, <1>2, <1>3, <1>4, <1>5, <1>6, <1>7

\* IInv is preserved when close() has joined the threads.
LEMMA CloseJoinPreserves ==
    ASSUME IInv, NEW u \in Users, CloseJoin(u)
    PROVE  IInv'
<1> USE DEF IInv, CloseJoin, sessionVars, opVars, ioVars, resultVars
<1>1. TypeOK'
    BY DEF TypeOK, UserPcs
<1>2. (MapInv /\ IoInv /\ IoDistinct
         /\ SessionInv /\ ErasedInv /\ CancelGuardInv /\ EcInv)'
    BY DEF MapInv, IoInv, IoDistinct, SessionInv, ErasedInv, CancelGuardInv,
        EcInv
<1>3. UserInv'
    BY DEF UserInv
<1>4. ConnectInv'
    BY DEF ConnectInv
<1>5. CustodyInv'
    BY DEF CustodyInv
<1>6. CancelCountInv'
    BY DEF CancelCountInv
<1>7. CloseInv'
    BY DEF CloseInv
<1> QED
    BY <1>1, <1>2, <1>3, <1>4, <1>5, <1>6, <1>7

\* IInv is preserved when the reactor finishes an operation.
LEMMA OpCompletePreserves ==
    ASSUME IInv, NEW s \in Sessions, NEW e \in {"ok", "error"}, OpComplete(s, e)
    PROVE  IInv'
<1> USE DEF IInv, OpComplete, ioVars, userVars, resultVars
<1>1. TypeOK'
    BY DEF TypeOK, ErrorCodes, OpStates, SockStates
<1>2. (ConnectInv /\ IoDistinct /\ CancelGuardInv /\ CancelCountInv)'
    BY DEF ConnectInv, IoDistinct, CancelGuardInv, CancelCountInv
<1>3. MapInv'
    BY DEF MapInv
<1>4. UserInv'
    BY DEF UserInv
<1>5. IoInv'
    BY DEF IoInv
<1>6. SessionInv'
    BY DEF SessionInv
<1>7. CustodyInv'
    BY DEF CustodyInv
<1>8. ErasedInv'
    BY ClientAssumption DEF ErasedInv, IoInv
<1>9. EcInv'
    BY DEF EcInv
<1>10. CloseInv'
    BY DEF CloseInv
<1> QED
    BY <1>1, <1>2, <1>3, <1>4, <1>5, <1>6, <1>7, <1>8, <1>9, <1>10

\* IInv is preserved when the reactor finishes a part of a composed operation.
LEMMA OpPartialPreserves ==
    ASSUME IInv, NEW s \in Sessions, OpPartial(s)
    PROVE  IInv'
<1> USE DEF IInv, OpPartial, sessionVars, ioVars, userVars, resultVars
<1>1. TypeOK'
    BY DEF TypeOK, OpStates
<1>2. (MapInv /\ UserInv /\ ConnectInv /\ IoDistinct
         /\ ErasedInv /\ CancelGuardInv /\ EcInv /\ CancelCountInv)'
    BY DEF MapInv, UserInv, ConnectInv, IoDistinct, ErasedInv, CancelGuardInv,
        EcInv, CancelCountInv
<1>3. IoInv'
    BY DEF IoInv
<1>4. SessionInv'
    BY DEF SessionInv
<1>5. CustodyInv'
    BY DEF CustodyInv
<1>6. CloseInv'
    BY DEF CloseInv
<1> QED
    BY <1>1, <1>2, <1>3, <1>4, <1>5, <1>6

\* IInv is preserved when an I/O thread asks for the rest of a composed operation.
LEMMA RunPartialPreserves ==
    ASSUME IInv, NEW t \in IoThreads, NEW s \in Sessions, RunPartial(t, s)
    PROVE  IInv'
<1> USE DEF IInv, RunPartial, sessionVars, ioVars, userVars, resultVars
<1>1. TypeOK'
    BY DEF TypeOK, OpStates
<1>2. (MapInv /\ UserInv /\ ConnectInv /\ IoDistinct
         /\ ErasedInv /\ CancelGuardInv /\ EcInv /\ CancelCountInv)'
    BY DEF MapInv, UserInv, ConnectInv, IoDistinct, ErasedInv, CancelGuardInv,
        EcInv, CancelCountInv
<1>3. IoInv'
    BY DEF IoInv
<1>4. SessionInv'
    BY DEF SessionInv
<1>5. CustodyInv'
    BY DEF CustodyInv
<1>6. CloseInv'
    BY DEF CloseInv
<1> QED
    BY <1>1, <1>2, <1>3, <1>4, <1>5, <1>6

\* IInv is preserved when a handler is given an error.
LEMMA HandleErrorPreserves ==
    ASSUME IInv, NEW t \in IoThreads, NEW s \in Sessions, NEW o, HandleError(t, s, o)
    PROVE  IInv'
<1> USE DEF IInv, HandleError, Dispatch, userVars, resultVars
<1>1. TypeOK'
    BY DEF TypeOK, OpStates, IoPcs
<1>2. (MapInv /\ UserInv /\ ConnectInv /\ CancelCountInv)'
    BY DEF MapInv, UserInv, ConnectInv, CancelCountInv
<1>3. IoInv'
    BY ClientAssumption DEF IoInv, Handling, TypeOK
<1>4. IoDistinct'
    BY DEF IoDistinct, IoInv
<1>5. SessionInv'
    BY DEF SessionInv
<1>6. CustodyInv'
    BY DEF CustodyInv
<1>7. ErasedInv'
    BY DEF ErasedInv
<1>8. CancelGuardInv'
    BY DEF CancelGuardInv
<1>9. EcInv'
    BY DEF EcInv, TypeOK
<1>10. CloseInv'
    BY DEF CloseInv
<1> QED
    BY <1>1, <1>2, <1>3, <1>4, <1>5, <1>6, <1>7, <1>8, <1>9, <1>10

\* IInv is preserved when a connect or write handler is given no error.
LEMMA HandleOkPreserves ==
    ASSUME IInv, NEW t \in IoThreads, NEW s \in Sessions, NEW o, HandleOk(t, s, o)
    PROVE  IInv'
<1> USE DEF IInv, HandleOk, Dispatch, sessionVars, userVars, resultVars
<1>1. TypeOK'
    BY DEF TypeOK, OpStates, IoPcs
<1>2. (MapInv /\ UserInv /\ ConnectInv /\ CancelCountInv)'
    BY DEF MapInv, UserInv, ConnectInv, CancelCountInv
<1>3. IoInv'
    BY ClientAssumption DEF IoInv, Handling, TypeOK
<1>4. IoDistinct'
    BY DEF IoDistinct, IoInv
<1>5. SessionInv'
    BY DEF SessionInv
<1>6. CustodyInv'
    BY DEF CustodyInv
<1>7. ErasedInv'
    BY DEF ErasedInv
<1>8. CancelGuardInv'
    BY DEF CancelGuardInv
<1>9. EcInv'
    BY DEF EcInv
<1>10. CloseInv'
    BY DEF CloseInv
<1> QED
    BY <1>1, <1>2, <1>3, <1>4, <1>5, <1>6, <1>7, <1>8, <1>9, <1>10

\* IInv is preserved when the read handler stores the response.
LEMMA ReadResponsePreserves ==
    ASSUME IInv, NEW t \in IoThreads, NEW s \in Sessions, ReadResponse(t, s)
    PROVE  IInv'
<1> USE DEF IInv, ReadResponse, Dispatch, userVars, resultVars
<1>1. TypeOK'
    BY DEF TypeOK, OpStates, IoPcs
<1>2. (MapInv /\ UserInv /\ ConnectInv /\ CancelCountInv)'
    BY DEF MapInv, UserInv, ConnectInv, CancelCountInv
<1>3. IoInv'
    BY ClientAssumption DEF IoInv, Handling, TypeOK
<1>4. IoDistinct'
    BY DEF IoDistinct, IoInv
<1>5. SessionInv'
    BY DEF SessionInv
<1>6. CustodyInv'
    BY DEF CustodyInv
<1>7. ErasedInv'
    BY DEF ErasedInv
<1>8. CancelGuardInv'
    BY DEF CancelGuardInv
<1>9. EcInv'
    BY DEF EcInv, TypeOK
<1>10. CloseInv'
    BY DEF CloseInv
<1> QED
    BY <1>1, <1>2, <1>3, <1>4, <1>5, <1>6, <1>7, <1>8, <1>9, <1>10

\* IInv is preserved when a handler finds its session cancelled.
LEMMA FoundCancelledPreserves ==
    ASSUME IInv, NEW t \in IoThreads, FoundCancelled(t)
    PROVE  IInv'
<1> USE DEF IInv, FoundCancelled, sessionVars, opVars, userVars, resultVars
<1>1. TypeOK'
    BY DEF TypeOK, Handling, IoPcs, IoInv
<1>2. (MapInv /\ UserInv /\ ConnectInv
         /\ IoDistinct /\ SessionInv /\ CustodyInv /\ CancelCountInv)'
    BY DEF MapInv, UserInv, ConnectInv, IoDistinct, SessionInv, CustodyInv,
        CancelCountInv
<1>3. IoInv'
    BY DEF IoInv, Handling
<1>4. ErasedInv'
    BY DEF ErasedInv
<1>5. CancelGuardInv'
    BY DEF CancelGuardInv, TypeOK
<1>6. EcInv'
    BY DEF EcInv
<1>7. CloseInv'
    BY DEF CloseInv
<1> QED
    BY <1>1, <1>2, <1>3, <1>4, <1>5, <1>6, <1>7

\* IInv is preserved when a handler starts the next operation.
LEMMA StartNextPreserves ==
    ASSUME IInv, NEW t \in IoThreads, StartNext(t)
    PROVE  IInv'
<1> USE DEF IInv, StartNext, StartOp, sessionVars, userVars, resultVars
<1>1. TypeOK'
    BY DEF TypeOK, Handling, Ops, OpStates, IoPcs, IoInv
<1>2. (MapInv /\ ConnectInv /\ CancelCountInv)'
    BY DEF MapInv, ConnectInv, CancelCountInv
<1>3. UserInv'
    BY DEF UserInv, IoInv, SessionInv, TypeOK
<1>4. IoInv'
    BY DEF IoInv, IoDistinct, Handling, TypeOK
<1>5. IoDistinct'
    BY DEF IoDistinct
<1>6. SessionInv'
    BY ClientAssumption DEF SessionInv, IoInv
<1>7. CustodyInv'
    BY DEF CustodyInv
<1>8. ErasedInv'
    BY DEF ErasedInv
<1>9. CancelGuardInv'
    BY DEF CancelGuardInv
<1>10. EcInv'
    BY DEF EcInv
<1>11. CloseInv'
    BY ClientAssumption DEF CloseInv, IoInv
<1> QED
    BY <1>1, <1>2, <1>3, <1>4, <1>5, <1>6, <1>7, <1>8, <1>9, <1>10, <1>11

\* IInv is preserved when onRequestComplete shuts the socket down.
LEMMA ShutdownPreserves ==
    ASSUME IInv, NEW t \in IoThreads, Shutdown(t)
    PROVE  IInv'
<1> USE DEF IInv, Shutdown, opVars, userVars, resultVars
<1>1. TypeOK'
    BY DEF TypeOK, Handling, SockStates, IoPcs, IoInv
<1>2. (ConnectInv /\ IoDistinct /\ CancelCountInv)'
    BY DEF ConnectInv, IoDistinct, CancelCountInv
<1>3. MapInv'
    BY DEF MapInv
<1>4. UserInv'
    BY DEF UserInv
<1>5. IoInv'
    BY DEF IoInv, Handling
<1>6. SessionInv'
    BY DEF SessionInv
<1>7. CustodyInv'
    BY DEF CustodyInv
<1>8. ErasedInv'
    BY DEF ErasedInv, IoInv, Handling, TypeOK
<1>9. CancelGuardInv'
    BY DEF CancelGuardInv
<1>10. EcInv'
    BY DEF EcInv
<1>11. CloseInv'
    BY DEF CloseInv
<1> QED
    BY <1>1, <1>2, <1>3, <1>4, <1>5, <1>6, <1>7, <1>8, <1>9, <1>10, <1>11

\* IInv is preserved when onRequestComplete erases the session.
LEMMA ErasePreserves ==
    ASSUME IInv, NEW t \in IoThreads, Erase(t)
    PROVE  IInv'
<1> USE DEF IInv, Erase, EraseSession, sessionVars, opVars, userVars,
        resultVars
<1>1. TypeOK'
    BY ClientAssumption DEF TypeOK, Handling, IoPcs, IoInv
<1>2. (ConnectInv /\ IoDistinct
         /\ SessionInv /\ CustodyInv /\ CancelCountInv)'
    BY DEF ConnectInv, IoDistinct, SessionInv, CustodyInv, CancelCountInv
<1>3. MapInv'
    BY DEF MapInv
<1>4. UserInv'
    BY ClientAssumption DEF UserInv
<1>5. IoInv'
    BY DEF IoInv, Handling
<1>6. ErasedInv'
    BY ClientAssumption DEF ErasedInv, IoInv, Handling, TypeOK
<1>7. CancelGuardInv'
    BY DEF CancelGuardInv
<1>8. EcInv'
    BY DEF EcInv
<1>9. CloseInv'
    BY DEF CloseInv
<1> QED
    BY <1>1, <1>2, <1>3, <1>4, <1>5, <1>6, <1>7, <1>8, <1>9

\* IInv is preserved when onRequestComplete calls the callback.
LEMMA CallbackPreserves ==
    ASSUME IInv, NEW t \in IoThreads, Callback(t)
    PROVE  IInv'
<1> USE DEF IInv, Callback, CallbackEc, HandlerReturns, sessionVars, userVars
<1>1. TypeOK'
    BY DEF TypeOK, Handling, ErrorCodes, OpStates, IoPcs, IoInv
<1>2. (MapInv /\ ConnectInv /\ CancelCountInv)'
    BY DEF MapInv, ConnectInv, CancelCountInv
<1>3. UserInv'
    BY DEF UserInv, IoInv, SessionInv, TypeOK
<1>4. IoInv'
    BY DEF IoInv, IoDistinct, Handling, TypeOK
<1>5. IoDistinct'
    BY DEF IoDistinct
<1>6. SessionInv'
    BY ClientAssumption DEF SessionInv, IoInv, ErasedInv, TypeOK
<1>7. CustodyInv'
    BY DEF CustodyInv, TypeOK
<1>8. ErasedInv'
    BY DEF ErasedInv, TypeOK
<1>9. CancelGuardInv'
    BY DEF CancelGuardInv, TypeOK
<1>10. EcInv'
    BY DEF EcInv, TypeOK
<1>11. CloseInv'
    BY DEF CloseInv
<1> QED
    BY <1>1, <1>2, <1>3, <1>4, <1>5, <1>6, <1>7, <1>8, <1>9, <1>10, <1>11

\* IInv is preserved when m_ios.run() returns.
LEMMA IoExitPreserves ==
    ASSUME IInv, NEW t \in IoThreads, IoExit(t)
    PROVE  IInv'
<1> USE DEF IInv, IoExit, sessionVars, opVars, userVars, resultVars
<1>1. TypeOK'
    BY DEF TypeOK, IoPcs
<1>2. (MapInv /\ UserInv /\ ConnectInv
         /\ IoDistinct /\ SessionInv /\ CustodyInv /\ CancelCountInv)'
    BY DEF MapInv, UserInv, ConnectInv, IoDistinct, SessionInv, CustodyInv,
        CancelCountInv
<1>3. IoInv'
    BY DEF IoInv, Handling
<1>4. ErasedInv'
    BY DEF ErasedInv
<1>5. CancelGuardInv'
    BY DEF CancelGuardInv
<1>6. EcInv'
    BY DEF EcInv
<1>7. CloseInv'
    BY DEF CloseInv
<1> QED
    BY <1>1, <1>2, <1>3, <1>4, <1>5, <1>6, <1>7

-----------------------------------------------------------------------------
(***************************************************************************)
(* The theorems.                                                           *)
(***************************************************************************)

\* IInv holds before the first call.
LEMMA InitIInv == Init => IInv
<1> SUFFICES ASSUME Init PROVE IInv
    OBVIOUS
<1> USE DEF Init
<1>1. TypeOK
    BY ClientAssumption DEF TypeOK, ErrorCodes, Ops, OpStates, SockStates, IoPcs,
        UserPcs
<1>2. MapInv /\ CancelGuardInv
    BY DEF MapInv, CancelGuardInv
<1>3. UserInv /\ ConnectInv
    BY ClientAssumption DEF UserInv, ConnectInv
<1>4. IoInv /\ IoDistinct /\ CloseInv
    BY DEF IoInv, IoDistinct, CloseInv, Handling
<1>5. SessionInv /\ CustodyInv /\ EcInv
    BY DEF SessionInv, CustodyInv, EcInv
<1>6. ErasedInv /\ CancelCountInv
    BY DEF ErasedInv, CancelCountInv
<1> QED
    BY <1>1, <1>2, <1>3, <1>4, <1>5, <1>6 DEF IInv

\* Every step of the client preserves IInv.
LEMMA NextIInv == IInv /\ [Next]_vars => IInv'
<1> SUFFICES ASSUME IInv, [Next]_vars PROVE IInv'
    OBVIOUS
<1>1. ASSUME NEW u \in Users, UserNext(u) PROVE IInv'
    BY <1>1, EmulatePreserves, AsyncConnectPreserves, CancelFindPreserves,
        CancelSessionPreserves, CloseResetPreserves, CloseJoinPreserves
        DEF UserNext, UserStep
<1>2. ASSUME NEW t \in IoThreads, NEW s \in Sessions, RunQueued(t, s) PROVE IInv'
    BY <1>2, RunPartialPreserves, HandleErrorPreserves, HandleOkPreserves,
        ReadResponsePreserves
        DEF RunQueued, ConnectHandler, WriteHandler, ReadHandler
<1>3. ASSUME NEW t \in IoThreads, HandlerStep(t) PROVE IInv'
    BY <1>3, FoundCancelledPreserves, StartNextPreserves, ShutdownPreserves,
        ErasePreserves, CallbackPreserves, IoExitPreserves DEF HandlerStep
<1>4. ASSUME NEW s \in Sessions, NetStep(s) PROVE IInv'
    BY <1>4, OpCompletePreserves, OpPartialPreserves DEF NetStep, OpEnds
<1>5. CASE UNCHANGED vars
    BY <1>5 DEF vars, sessionVars, opVars, ioVars, userVars, resultVars, IInv,
        TypeOK, MapInv, UserInv, ConnectInv, IoInv, IoDistinct, SessionInv,
        CustodyInv, ErasedInv, CancelGuardInv, EcInv, CancelCountInv, CloseInv
<1> QED
    BY <1>1, <1>2, <1>3, <1>4, <1>5 DEF Next, IoStep

\* The inductive invariant holds in every reachable state.
THEOREM ClientInvariant == Spec => []IInv
    BY InitIInv, NextIInv, PTL DEF Spec

\* Every variable of the client keeps its type.
THEOREM ClientTypeCorrect == Spec => []TypeOK
<1>1. IInv => TypeOK
    BY DEF IInv
<1> QED
    BY <1>1, ClientInvariant, PTL

\* m_callback is called at most once per request, for any number of threads.
THEOREM ClientCallbackOnce == Spec => []CallbackOnce
<1>1. IInv => CallbackOnce
    <2> SUFFICES ASSUME IInv, NEW s \in Sessions PROVE calls[s] <= 1
        BY DEF CallbackOnce
    <2>1. calls[s] \in {0, 1}
        BY DEF IInv, SessionInv
    <2> QED
        BY <2>1
<1> QED
    BY <1>1, ClientInvariant, PTL

\* The error code given to m_callback is faithful to what happened.
THEOREM ClientVerdictFaithful == Spec => []VerdictFaithful
<1>1. IInv => VerdictFaithful
    BY DEF IInv, EcInv, VerdictFaithful
<1> QED
    BY <1>1, ClientInvariant, PTL

\* onRequestComplete's read of m_was_cancelled is never concurrent with a write.
THEOREM ClientNoFlagRace == Spec => []NoFlagRace
<1>1. IInv => NoFlagRace
    BY DEF IInv, UserInv, ErasedInv, NoFlagRace
<1> QED
    BY <1>1, ClientInvariant, PTL

\* After its callback a session is referred to by nothing.
THEOREM ClientFinishedIsReleased == Spec => []FinishedIsReleased
<1>1. ASSUME IInv, NEW s \in Sessions, calls[s] > 0
      PROVE  /\ \A i \in Ids : m_active_sessions[i] # s
             /\ \A u \in Users : userSession[u] # s
             /\ \A t \in IoThreads : ioSession[t] # s
             /\ opState[s] = "none"
             /\ cancelOwner[s] = NoThread
             /\ m_sock[s] # "connected"
    <2>1. calls[s] = 1 /\ opState[s] = "none" /\ m_sock[s] # "connected"
        BY <1>1 DEF IInv, SessionInv
    <2>2. \A i \in Ids : m_active_sessions[i] # s
        BY <1>1, <2>1, ClientAssumption DEF IInv, MapInv, ErasedInv
    <2>3. \A t \in IoThreads : ioSession[t] # s
        BY <1>1, <2>1, ClientAssumption DEF IInv, IoInv
    <2>4. \A u \in Users : userSession[u] # s
        BY <1>1, <2>1, <2>2, ClientAssumption DEF IInv, UserInv
    <2>5. cancelOwner[s] = NoThread
        BY <1>1, <2>3 DEF IInv, TypeOK, CancelGuardInv
    <2> QED
        BY <2>1, <2>2, <2>3, <2>4, <2>5
<1>2. IInv => FinishedIsReleased
    BY <1>1 DEF FinishedIsReleased
<1> QED
    BY <1>2, ClientInvariant, PTL

\* The two mutexes block each other only under a second cancelRequest(id).
THEOREM ClientLockCycleNeedsTwoCancels == Spec => []LockCycleNeedsTwoCancels
<1>1. ASSUME IInv, NEW t \in IoThreads, NEW u \in Users, LockCycle(t, u)
      PROVE  cancelCalls[IdOf[userSession[u]]] >= 2
    <2>1. userPc[u] = "cancel" /\ userSession[u] \in Sessions
        BY <1>1 DEF IInv, TypeOK, UserInv, LockCycle
    <2>2. cancelOwner[userSession[u]] # NoThread
        BY <1>1, ClientAssumption DEF LockCycle
    <2>3. m_was_cancelled[userSession[u]]
        BY <1>1, <2>1, <2>2 DEF IInv, CancelGuardInv
    <2> QED
        BY <1>1, <2>1, <2>3 DEF IInv, CancelCountInv
<1>2. IInv => LockCycleNeedsTwoCancels
    BY <1>1 DEF LockCycleNeedsTwoCancels
<1> QED
    BY <1>2, ClientInvariant, PTL

\* Once close() has returned, or is about to, no request is active.
LEMMA NothingActive ==
    ASSUME IInv, ~m_work, \A t \in IoThreads : ioPc[t] = "exited",
           NEW s \in Sessions, Started(s)
    PROVE  calls[s] = 1
<1>1. opState[s] = "none"
    BY ClientAssumption DEF IInv, CloseInv
<1>2. \A u \in Users : userPc[u] # "connect"
    BY DEF IInv, UserInv
<1> QED
    BY <1>1, <1>2 DEF IInv, SessionInv, CustodyInv, Started

\* When close() has returned every request has been answered.
THEOREM ClientCloseCompletesAll == Spec => []CloseCompletesAll
<1>1. ASSUME IInv, NEW u \in Users, userPc[u] = "closed",
             NEW s \in Sessions, Started(s)
      PROVE  calls[s] = 1
    <2>1. ~m_work /\ \A t \in IoThreads : ioPc[t] = "exited"
        BY <1>1 DEF IInv, UserInv, CloseInv
    <2> QED
        BY <1>1, <2>1, NothingActive
<1>2. IInv => CloseCompletesAll
    BY <1>1 DEF CloseCompletesAll
<1> QED
    BY <1>2, ClientInvariant, PTL

-----------------------------------------------------------------------------
(***************************************************************************)
(* Requests with unique ids can be cancelled for as long as they are       *)
(* active.                                                                 *)
(***************************************************************************)

UniqueRequestIds == \A r, s \in Sessions : IdOf[r] = IdOf[s] => r = s

\* Only a session's own completion takes it out of the map.
LEMMA NextCancellable ==
    ASSUME UniqueRequestIds, IInv, ActiveIsCancellable, [Next]_vars
    PROVE  ActiveIsCancellable'
<1> USE DEF ActiveIsCancellable, Started, Handles
<1>1. ASSUME NEW u \in Users, UserNext(u) PROVE ActiveIsCancellable'
    <2>1. ASSUME NEW s \in Sessions, Emulate(u, s) PROVE ActiveIsCancellable'
        BY <2>1, ClientAssumption
            DEF UniqueRequestIds, IInv, TypeOK, Emulate, InsertSession, ioVars,
                resultVars
    <2>2. CASE \/ \E i \in Ids : CancelFind(u, i)
               \/ CloseReset(u)
               \/ UserStep(u)
        BY <2>2 DEF CancelFind, CloseReset, UserStep, AsyncConnect, CancelSession,
            CloseJoin, sessionVars, ioVars, resultVars
    <2> QED
        BY <1>1, <2>1, <2>2 DEF UserNext
<1>2. ASSUME NEW t \in IoThreads, NEW s \in Sessions, RunQueued(t, s)
      PROVE  ActiveIsCancellable'
    <2>1. CASE RunPartial(t, s)
        BY <2>1 DEF RunPartial, sessionVars, ioVars, resultVars
    <2>2. ASSUME NEW pc \in IoPcs \ {"callback"}, NEW o, Dispatch(t, s, o, pc),
                 UNCHANGED <<m_active_sessions, m_sock, calls>>
          PROVE  ActiveIsCancellable'
        BY <2>2 DEF Dispatch, IInv, TypeOK
    <2>3. CASE \E o : HandleError(t, s, o) \/ HandleOk(t, s, o)
        BY <2>2, <2>3 DEF HandleError, HandleOk, sessionVars, resultVars, IoPcs
    <2>4. CASE ReadResponse(t, s)
        BY <2>2, <2>4 DEF ReadResponse, resultVars, IoPcs
    <2> QED
        BY <1>2, <2>1, <2>3, <2>4
            DEF RunQueued, ConnectHandler, WriteHandler, ReadHandler
<1>3. ASSUME NEW t \in IoThreads, HandlerStep(t) PROVE ActiveIsCancellable'
    <2>1. CASE Shutdown(t)
        BY <2>1 DEF Shutdown, resultVars, IInv, TypeOK, IoInv, Handling
    <2>2. CASE Erase(t)
        BY <2>2, ClientAssumption
            DEF UniqueRequestIds, Erase, EraseSession, sessionVars, resultVars,
                IInv, TypeOK, IoInv, Handling
    <2>3. CASE Callback(t)
        BY <2>3 DEF Callback, sessionVars, IInv, TypeOK, IoInv, Handling
    <2>4. CASE FoundCancelled(t) \/ StartNext(t) \/ IoExit(t)
        BY <2>4 DEF FoundCancelled, StartNext, IoExit, sessionVars, resultVars,
            IInv, TypeOK
    <2> QED
        BY <1>3, <2>1, <2>2, <2>3, <2>4 DEF HandlerStep
<1>4. ASSUME NEW s \in Sessions, NetStep(s) PROVE ActiveIsCancellable'
    BY <1>4 DEF NetStep, OpEnds, OpComplete, OpPartial, sessionVars, ioVars,
        resultVars, IInv, TypeOK, SessionInv
<1>5. CASE UNCHANGED vars
    BY <1>5 DEF vars, sessionVars, ioVars, resultVars
<1> QED
    BY <1>1, <1>2, <1>3, <1>4, <1>5 DEF Next, IoStep

\* With unique ids, an active request is in m_active_sessions.
THEOREM ClientActiveIsCancellable ==
    ASSUME UniqueRequestIds
    PROVE  Spec => []ActiveIsCancellable
<1>1. Init => ActiveIsCancellable
    BY DEF Init, ActiveIsCancellable, Started
<1>2. IInv /\ ActiveIsCancellable /\ [Next]_vars => ActiveIsCancellable'
    BY NextCancellable
<1> QED
    BY <1>1, <1>2, ClientInvariant, PTL DEF Spec

-----------------------------------------------------------------------------
(***************************************************************************)
(* Refinement of RequestSpec.                                              *)
(***************************************************************************)

\* A step that changes none of what RequestSpec sees is a stuttering step.
LEMMA HiddenStep ==
    ASSUME UNCHANGED <<m_sock, calls, m_was_cancelled, verdict, userPc>>
    PROVE  UNCHANGED Request!reqVars
    BY DEF Request!reqVars, phase, closed, Started

\* Every step of the client is a step of RequestSpec or a stuttering step.
LEMMA NextRefines ==
    ASSUME IInv, IInv', [Next]_vars
    PROVE  [Request!Next]_(Request!reqVars)
<1>1. ASSUME NEW u \in Users, NEW s \in Sessions, Emulate(u, s)
      PROVE  Request!Start(s)
    <2>1. ~closed /\ closed' = closed
        BY <1>1 DEF Emulate, IInv, UserInv, TypeOK, closed
    <2>2. calls' = calls /\ calls[s] = 0 /\ ~Started(s)
        BY <1>1 DEF Emulate, resultVars, IInv, SessionInv, Started
    <2>3. \A r \in Sessions : Started(r)' <=> Started(r) \/ r = s
        BY <1>1 DEF Emulate, IInv, TypeOK, Started
    <2>4. phase[s] = "idle" /\ phase' = [phase EXCEPT ![s] = "active"]
        BY <2>2, <2>3 DEF phase
    <2> QED
        BY <1>1, <2>1, <2>4 DEF Request!Start, Emulate, resultVars
<1>2. ASSUME NEW u \in Users, CancelSession(u)
      PROVE  userSession[u] \in Sessions /\ Request!Cancel(userSession[u])
    <2>1. closed' = closed
        BY <1>2 DEF CancelSession, IInv, TypeOK, closed
    <2>2. /\ userSession[u] \in Sessions
          /\ m_active_sessions[IdOf[userSession[u]]] = userSession[u]
        BY <1>2 DEF CancelSession, IInv, TypeOK, UserInv
    <2>3. phase[userSession[u]] = "active"
        BY <2>2, ClientAssumption DEF IInv, MapInv, ErasedInv, SessionInv, phase,
            Started
    <2>4. phase' = phase
        BY <1>2 DEF CancelSession, resultVars, phase, Started
    <2> QED
        BY <1>2, <2>1, <2>2, <2>3, <2>4 DEF Request!Cancel, CancelSession, resultVars
<1>3. ASSUME NEW u \in Users, CloseJoin(u)
      PROVE  Request!Close
    <2>1. ~m_work /\ \A t \in IoThreads : ioPc[t] = "exited"
        BY <1>3 DEF CloseJoin, IInv, UserInv
    <2>2. \A s \in Sessions : phase[s] # "active"
        BY <2>1, NothingActive DEF phase
    <2>3. closed' /\ phase' = phase
        BY <1>3 DEF CloseJoin, sessionVars, resultVars, IInv, TypeOK, closed, phase,
            Started
    <2> QED
        BY <1>3, <2>2, <2>3 DEF Request!Close, CloseJoin, sessionVars, resultVars
<1>4. ASSUME NEW t \in IoThreads, Callback(t)
      PROVE  /\ ioSession[t] \in Sessions
             /\ CallbackEc(ioSession[t]) \in Request!Answers
             /\ Request!Answer(ioSession[t], CallbackEc(ioSession[t]))
    <2> DEFINE s == ioSession[t]
    <2>1. s \in Sessions /\ opState[s] = "running"
        BY <1>4 DEF Callback, IInv, TypeOK, IoInv, Handling
    <2>2. phase[s] = "active"
        BY <2>1 DEF IInv, SessionInv, phase, Started
    <2>3. phase' = [phase EXCEPT ![s] = "done"]
        <3>1. calls[s] = 0 /\ Started(s)
            BY <2>1 DEF IInv, SessionInv, Started
        <3>2. calls' = [calls EXCEPT ![s] = calls[s] + 1]
            BY <1>4 DEF Callback
        <3>3. calls \in [Sessions -> Nat]
            BY DEF IInv, TypeOK
        <3>4. m_sock' = m_sock
            BY <1>4 DEF Callback, sessionVars
        <3>5. ASSUME NEW r \in Sessions
              PROVE  phase'[r] = IF r = s THEN "done" ELSE phase[r]
            BY <2>1, <3>1, <3>2, <3>3, <3>4 DEF phase, Started
        <3> HIDE DEF s
        <3> QED
            BY <3>5 DEF phase
    <2>4. closed' = closed
        BY <1>4 DEF Callback, userVars, closed
    <2>5. CallbackEc(s) \in Request!Answers
        BY <2>1 DEF CallbackEc, IInv, TypeOK, ErrorCodes, Request!Answers
    <2>6. /\ CallbackEc(s) = "ok" => ~m_was_cancelled[s]
          /\ CallbackEc(s) = "aborted" => m_was_cancelled[s]
        BY <2>1 DEF CallbackEc, IInv, EcInv
    <2> QED
        BY <1>4, <2>1, <2>2, <2>3, <2>4, <2>5, <2>6
            DEF Request!Answer, Callback, sessionVars
<1>5. ASSUME NEW u \in Users,
             \/ AsyncConnect(u)
             \/ CloseReset(u)
             \/ \E i \in Ids : CancelFind(u, i)
      PROVE  UNCHANGED Request!reqVars
    <2>1. closed' = closed
        BY <1>5 DEF AsyncConnect, CloseReset, CancelFind, IInv, TypeOK, closed
    <2>2. UNCHANGED <<m_sock, calls, m_was_cancelled, verdict>>
        BY <1>5 DEF AsyncConnect, CloseReset, CancelFind, sessionVars, resultVars
    <2> QED
        BY <2>1, <2>2 DEF Request!reqVars, phase, Started
<1>6. ASSUME NEW t \in IoThreads, NEW s \in Sessions, RunQueued(t, s)
      PROVE  UNCHANGED Request!reqVars
    BY <1>6, HiddenStep DEF RunQueued, RunPartial, ConnectHandler, WriteHandler,
        ReadHandler, HandleError, HandleOk, ReadResponse, sessionVars, userVars,
        resultVars
<1>7. ASSUME NEW t \in IoThreads, FoundCancelled(t) \/ StartNext(t) \/ Erase(t)
                                                    \/ IoExit(t)
      PROVE  UNCHANGED Request!reqVars
    BY <1>7, HiddenStep DEF FoundCancelled, StartNext, Erase, IoExit, sessionVars,
        userVars, resultVars
<1>8. ASSUME NEW t \in IoThreads, Shutdown(t)
      PROVE  UNCHANGED Request!reqVars
    <2>1. \A s \in Sessions : Started(s)' <=> Started(s)
        BY <1>8 DEF Shutdown, IInv, TypeOK, Started
    <2> QED
        BY <1>8, <2>1 DEF Shutdown, userVars, resultVars, Request!reqVars, phase,
            closed
<1>9. ASSUME NEW s \in Sessions, NetStep(s)
      PROVE  UNCHANGED Request!reqVars
    <2>1. \A r \in Sessions : Started(r)' <=> Started(r)
        BY <1>9 DEF NetStep, OpEnds, OpComplete, OpPartial, sessionVars, IInv,
            TypeOK, SessionInv, Started
    <2> QED
        BY <1>9, <2>1 DEF NetStep, OpEnds, OpComplete, OpPartial, sessionVars,
            userVars, resultVars, Request!reqVars, phase, closed
<1>10. CASE UNCHANGED vars
    BY <1>10, HiddenStep DEF vars, sessionVars, userVars, resultVars
<1>11. ASSUME NEW u \in Users, UserNext(u)
       PROVE  [Request!Next]_(Request!reqVars)
    <2>1. \A s \in Sessions : Emulate(u, s) => Request!Next
        BY <1>1 DEF Request!Next
    <2>2. CancelSession(u) => Request!Next
        BY <1>2 DEF Request!Next
    <2>3. CloseJoin(u) => Request!Next
        BY <1>3 DEF Request!Next
    <2> QED
        BY <1>11, <2>1, <2>2, <2>3, <1>5 DEF UserNext, UserStep
<1>12. ASSUME NEW t \in IoThreads, IoStep(t)
       PROVE  [Request!Next]_(Request!reqVars)
    <2>1. Callback(t) => Request!Next
        BY <1>4 DEF Request!Next
    <2> QED
        BY <1>12, <2>1, <1>6, <1>7, <1>8 DEF IoStep, HandlerStep
<1> QED
    BY <1>9, <1>10, <1>11, <1>12 DEF Next

\* The client implements RequestSpec, for any number of threads and requests.
THEOREM ClientImplementsRequest == Spec => ImplementsRequest
<1>1. Init => Request!Init
    BY DEF Init, Request!Init, phase, closed, Started
<1>2. IInv /\ IInv' /\ [Next]_vars => [Request!Next]_(Request!reqVars)
    BY NextRefines
<1> QED
    BY <1>1, <1>2, ClientInvariant, PTL DEF Spec, ImplementsRequest, Request!Spec

=============================================================================
