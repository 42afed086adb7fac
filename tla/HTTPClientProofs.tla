--------------------------- MODULE HTTPClientProofs ---------------------------
(***************************************************************************)
(* The safety properties of HTTPClient for any number of requests and      *)
(* application threads.  The invariant says who has a request in hand: the *)
(* caller in on_finish, the reactor or the queue, the I/O thread, nobody.  *)
(***************************************************************************)
EXTENDS HTTPClient, TLAPS

\* The I/O thread has a request exactly while it executes one of its handlers,
\* and the handlers that lock m_cancel_mux have a next operation to start.
IoInv ==
    /\ ioPc \in {"lock", "finish"} <=> ioReq # NoRequest
    /\ \A r \in Requests : opState[r] = "running" <=> ioReq = r
    /\ ioPc = "lock" => op[ioReq] \in DOMAIN NextOp

\* A caller that found its request cancelled has it to itself.
UserInv ==
    \A u \in Users :
        /\ userPc[u] = "finish" => userReq[u] # NoRequest
        /\ userReq[u] # NoRequest =>
               /\ userPc[u] \in {"finish", "terminated"}
               /\ op[userReq[u]] = "none"
               /\ calls[userReq[u]] = 0
               /\ m_was_cancelled[userReq[u]]

UserDistinct ==
    \A u, w \in Users : userReq[u] = userReq[w] /\ userReq[u] # NoRequest => u = w

\* A request is outstanding from its first operation to its callback.
OpInv ==
    \A r \in Requests :
        /\ calls[r] <= 1
        /\ op[r] = "none" => opState[r] = "none"
        /\ opState[r] # "none" => calls[r] = 0
        /\ op[r] # "none" /\ opState[r] = "none" => calls[r] = 1

\* close() has joined the I/O thread, which had nothing left to do.
CloseInv ==
    /\ ioPc = "exited" => ~m_work /\ \A r \in Requests : opState[r] = "none"
    /\ \A u \in Users : userPc[u] = "closed" => ioPc = "exited"

\* How much of the response has been stored when an operation is outstanding.
ResponseInv ==
    \A r \in Requests :
        /\ op[r] \in {"none", "resolve", "connect", "write"} => m_response[r] = "nothing"
        /\ op[r] = "status" /\ opState[r] \in {"pending", "part", "ready"} =>
               m_response[r] = "nothing"

\* The error code of an operation tells the truth.
OpEcInv ==
    \A r \in Requests :
        /\ opEc[r] = "aborted" => m_was_cancelled[r]
        /\ opEc[r] # "invalid_response"
        /\ op[r] = "body" /\ opState[r] = "ready" => opEc[r] # "ok"

\* So does the error code a handler takes to on_finish.
IoEcInv ==
    ioPc = "finish" =>
        /\ ioEc = "ok" => m_response[ioReq] = "body"
        /\ ioEc = "aborted" => m_was_cancelled[ioReq]
        /\ ioEc = "invalid_response" => m_response[ioReq] = "nothing"

\* The callback has been called when there is a verdict.
VerdictInv ==
    /\ HttpVerdictFaithful
    /\ \A r \in Requests : verdict[r] # "none" => calls[r] > 0

\* The inductive invariant.
CInv == /\ TypeOK
        /\ IoInv
        /\ UserInv
        /\ UserDistinct
        /\ OpInv
        /\ CloseInv
        /\ ResponseInv
        /\ OpEcInv
        /\ IoEcInv
        /\ VerdictInv

-----------------------------------------------------------------------------
(***************************************************************************)
(* Facts about the operators.                                              *)
(***************************************************************************)

\* A handler has a request while it runs, and so has a caller in on_finish.
LEMMA InHand ==
    ASSUME CInv
    PROVE  /\ ioPc \in {"lock", "finish"} => ioReq \in Requests
           /\ \A u \in Users : userPc[u] = "finish" => userReq[u] \in Requests
    BY DEF CInv, TypeOK, IoInv, UserInv

\* The chain of operations only goes forward, and ends with the body.
LEMMA NextOpCases ==
    ASSUME NEW o \in DOMAIN NextOp
    PROVE  NextOp[o] \in {"connect", "write", "status", "headers", "body"}
    BY DEF NextOp

\* What an outstanding operation may end with.
LEMMA OutcomesCases ==
    ASSUME CInv, NEW r \in Requests, opState[r] # "none"
    PROVE  /\ Outcomes(r) \subseteq {"ok", "error", "eof"}
           /\ op[r] = "body" => "ok" \notin Outcomes(r)
<1>1. op[r] \in {"resolve", "connect", "write", "status", "headers", "body"}
    BY DEF CInv, TypeOK, OpInv, Ops, NextOp
<1> QED
    BY <1>1 DEF Outcomes

-----------------------------------------------------------------------------
(***************************************************************************)
(* Every action preserves CInv: one lemma per action, one step per         *)
(* conjunct the action can disturb, and one step for those it cannot.      *)
(***************************************************************************)

\* The initial state satisfies the invariant.
LEMMA InitCInv == Init => CInv
<1> SUFFICES ASSUME Init PROVE CInv
    OBVIOUS
<1> USE HTTPClientAssumption DEF Init
<1>1. TypeOK
    BY DEF TypeOK, Ops, OpStates, ErrorCodes
<1>2. IoInv /\ UserInv /\ UserDistinct /\ OpInv /\ CloseInv
    BY DEF IoInv, UserInv, UserDistinct, OpInv, CloseInv
<1>3. ResponseInv /\ OpEcInv /\ IoEcInv /\ VerdictInv
    BY DEF ResponseInv, OpEcInv, IoEcInv, VerdictInv, HttpVerdictFaithful
<1> QED
    BY <1>1, <1>2, <1>3 DEF CInv

\* execute() starts the first operation.
LEMMA ExecutePreserves ==
    ASSUME CInv, NEW u \in Users, NEW r \in Requests, Execute(u, r)
    PROVE  CInv'
<1> USE DEF CInv, Execute, Executed, StartOp, requestVars, ioVars, userVars, resultVars
<1>1. TypeOK'
    BY DEF TypeOK, Ops, OpStates, ErrorCodes, NextOp
<1>2. (UserDistinct /\ IoEcInv /\ VerdictInv)'
    BY DEF UserDistinct, IoEcInv, VerdictInv, HttpVerdictFaithful
<1>3. IoInv'
    BY HTTPClientAssumption DEF TypeOK, IoInv, OpInv, NextOp
<1>4. UserInv'
    BY DEF TypeOK, UserInv
<1>5. OpInv'
    BY DEF TypeOK, OpInv
<1>6. CloseInv'
    BY DEF TypeOK, CloseInv
<1>7. ResponseInv'
    BY DEF TypeOK, ResponseInv
<1>8. OpEcInv'
    BY DEF TypeOK, OpEcInv
<1> QED
    BY <1>1, <1>2, <1>3, <1>4, <1>5, <1>6, <1>7, <1>8

\* execute() finds its request cancelled and takes it to on_finish.
LEMMA ExecuteCancelledPreserves ==
    ASSUME CInv, NEW u \in Users, NEW r \in Requests, ExecuteCancelled(u, r)
    PROVE  CInv'
<1> USE DEF CInv, ExecuteCancelled, Executed, requestVars, opVars, ioVars, resultVars
<1>1. TypeOK'
    BY DEF TypeOK, Ops, OpStates, ErrorCodes, NextOp
<1>2. (IoInv /\ OpInv /\ ResponseInv /\ OpEcInv /\ IoEcInv /\ VerdictInv)'
    BY DEF IoInv, OpInv, ResponseInv, OpEcInv, IoEcInv, VerdictInv, HttpVerdictFaithful
<1>3. UserInv'
    BY DEF TypeOK, UserInv
<1>4. UserDistinct'
    BY DEF TypeOK, UserDistinct
<1>5. CloseInv'
    BY DEF TypeOK, CloseInv
<1> QED
    BY <1>1, <1>2, <1>3, <1>4, <1>5

\* on_finish on the thread of the caller.
LEMMA FinishInExecutePreserves ==
    ASSUME CInv, NEW u \in Users, FinishInExecute(u)
    PROVE  CInv'
<1> USE DEF CInv, FinishInExecute, requestVars, opVars, ioVars
<1>1. TypeOK'
    BY InHand DEF TypeOK, Ops, OpStates, ErrorCodes, NextOp
<1>2. (IoInv /\ ResponseInv /\ OpEcInv /\ IoEcInv)'
    BY DEF IoInv, ResponseInv, OpEcInv, IoEcInv
<1>3. UserInv'
    BY DEF TypeOK, UserInv, UserDistinct
<1>4. UserDistinct'
    BY DEF TypeOK, UserDistinct
<1>5. OpInv'
    BY DEF TypeOK, OpInv, UserInv
<1>6. CloseInv'
    BY DEF TypeOK, CloseInv
<1>7. VerdictInv'
    BY DEF TypeOK, VerdictInv, HttpVerdictFaithful, UserInv
<1> QED
    BY <1>1, <1>2, <1>3, <1>4, <1>5, <1>6, <1>7

\* cancel() sets the flag and aborts what is pending.
LEMMA CancelPreserves ==
    ASSUME CInv, NEW u \in Users, NEW r \in Requests, Cancel(u, r)
    PROVE  CInv'
<1> USE DEF CInv, Cancel, CancelOps, ioVars, userVars, resultVars
<1>1. TypeOK'
    BY DEF TypeOK, Ops, OpStates, ErrorCodes, NextOp
<1>2. (UserDistinct)'
    BY DEF UserDistinct
<1>3. IoInv'
    BY HTTPClientAssumption DEF TypeOK, IoInv
<1>4. UserInv'
    BY DEF TypeOK, UserInv
<1>5. OpInv'
    BY DEF TypeOK, OpInv
<1>6. CloseInv'
    BY DEF TypeOK, CloseInv
<1>7. ResponseInv'
    BY DEF TypeOK, ResponseInv
<1>8. OpEcInv'
    BY DEF TypeOK, OpEcInv
<1>9. IoEcInv'
    BY DEF TypeOK, IoEcInv
<1>10. VerdictInv'
    BY DEF TypeOK, VerdictInv, HttpVerdictFaithful
<1> QED
    BY <1>1, <1>2, <1>3, <1>4, <1>5, <1>6, <1>7, <1>8, <1>9, <1>10

\* close() resets the work guard.
LEMMA CloseResetPreserves ==
    ASSUME CInv, NEW u \in Users, CloseReset(u)
    PROVE  CInv'
<1> USE DEF CInv, CloseReset, requestVars, opVars, ioVars, resultVars
<1>1. TypeOK'
    BY DEF TypeOK, Ops, OpStates, ErrorCodes, NextOp
<1>2. (/\ IoInv /\ UserDistinct /\ OpInv /\ ResponseInv
       /\ OpEcInv /\ IoEcInv /\ VerdictInv)'
    BY DEF IoInv, UserDistinct, OpInv, ResponseInv, OpEcInv, IoEcInv, VerdictInv,
           HttpVerdictFaithful
<1>3. UserInv'
    BY DEF TypeOK, UserInv
<1>4. CloseInv'
    BY DEF TypeOK, CloseInv
<1> QED
    BY <1>1, <1>2, <1>3, <1>4

\* close() has joined the I/O thread.
LEMMA CloseJoinPreserves ==
    ASSUME CInv, NEW u \in Users, CloseJoin(u)
    PROVE  CInv'
<1> USE DEF CInv, CloseJoin, requestVars, opVars, ioVars, resultVars
<1>1. TypeOK'
    BY DEF TypeOK, Ops, OpStates, ErrorCodes, NextOp
<1>2. (/\ IoInv /\ UserDistinct /\ OpInv /\ ResponseInv
       /\ OpEcInv /\ IoEcInv /\ VerdictInv)'
    BY DEF IoInv, UserDistinct, OpInv, ResponseInv, OpEcInv, IoEcInv, VerdictInv,
           HttpVerdictFaithful
<1>3. UserInv'
    BY DEF TypeOK, UserInv
<1>4. CloseInv'
    BY DEF TypeOK, CloseInv
<1> QED
    BY <1>1, <1>2, <1>3, <1>4

\* An operation ends.
LEMMA OpCompletePreserves ==
    ASSUME CInv, NEW r \in Requests, NEW e, OpComplete(r, e)
    PROVE  CInv'
<1> USE DEF CInv, OpComplete, ioVars, userVars, resultVars
<1>1. TypeOK'
    BY OutcomesCases DEF TypeOK, Ops, OpStates, ErrorCodes, NextOp
<1>2. (UserInv /\ UserDistinct /\ IoEcInv /\ VerdictInv)'
    BY DEF UserInv, UserDistinct, IoEcInv, VerdictInv, HttpVerdictFaithful
<1>3. IoInv'
    BY HTTPClientAssumption DEF TypeOK, IoInv
<1>4. OpInv'
    BY DEF TypeOK, OpInv
<1>5. CloseInv'
    BY DEF TypeOK, CloseInv
<1>6. ResponseInv'
    BY DEF TypeOK, ResponseInv
<1>7. OpEcInv'
    BY OutcomesCases DEF TypeOK, OpEcInv, OpInv
<1> QED
    BY <1>1, <1>2, <1>3, <1>4, <1>5, <1>6, <1>7

\* A piece of an operation is done.
LEMMA OpPartialPreserves ==
    ASSUME CInv, NEW r \in Requests, OpPartial(r)
    PROVE  CInv'
<1> USE DEF CInv, OpPartial, requestVars, ioVars, userVars, resultVars
<1>1. TypeOK'
    BY DEF TypeOK, Ops, OpStates, ErrorCodes, NextOp
<1>2. (UserInv /\ UserDistinct /\ IoEcInv /\ VerdictInv)'
    BY DEF UserInv, UserDistinct, IoEcInv, VerdictInv, HttpVerdictFaithful
<1>3. IoInv'
    BY HTTPClientAssumption DEF TypeOK, IoInv
<1>4. OpInv'
    BY DEF TypeOK, OpInv
<1>5. CloseInv'
    BY DEF TypeOK, CloseInv
<1>6. ResponseInv'
    BY DEF TypeOK, ResponseInv
<1>7. OpEcInv'
    BY DEF TypeOK, OpEcInv
<1> QED
    BY <1>1, <1>2, <1>3, <1>4, <1>5, <1>6, <1>7

\* The server resets the connection.
LEMMA ResetPreserves ==
    ASSUME CInv, NEW r \in Requests, Reset(r)
    PROVE  CInv'
<1> USE DEF CInv, Reset, opVars, ioVars, userVars, resultVars
<1>1. TypeOK'
    BY DEF TypeOK, Ops, OpStates, ErrorCodes, NextOp
<1>2. (/\ IoInv /\ UserInv /\ UserDistinct /\ OpInv /\ CloseInv
       /\ ResponseInv /\ OpEcInv /\ IoEcInv /\ VerdictInv)'
    BY DEF IoInv, UserInv, UserDistinct, OpInv, CloseInv, ResponseInv, OpEcInv,
           IoEcInv, VerdictInv, HttpVerdictFaithful
<1> QED
    BY <1>1, <1>2

\* The I/O thread continues a composed operation.
LEMMA RunPartialPreserves ==
    ASSUME CInv, NEW r \in Requests, RunPartial(r)
    PROVE  CInv'
<1> USE DEF CInv, RunPartial, requestVars, ioVars, userVars, resultVars
<1>1. TypeOK'
    BY DEF TypeOK, Ops, OpStates, ErrorCodes, NextOp
<1>2. (UserInv /\ UserDistinct /\ IoEcInv /\ VerdictInv)'
    BY DEF UserInv, UserDistinct, IoEcInv, VerdictInv, HttpVerdictFaithful
<1>3. IoInv'
    BY HTTPClientAssumption DEF TypeOK, IoInv
<1>4. OpInv'
    BY DEF TypeOK, OpInv
<1>5. CloseInv'
    BY DEF TypeOK, CloseInv
<1>6. ResponseInv'
    BY DEF TypeOK, ResponseInv
<1>7. OpEcInv'
    BY DEF TypeOK, OpEcInv
<1> QED
    BY <1>1, <1>2, <1>3, <1>4, <1>5, <1>6, <1>7

\* A handler given an error takes it to on_finish.
LEMMA HandlerFailsPreserves ==
    ASSUME CInv, NEW r \in Requests, NEW o, HandlerFails(r, o)
    PROVE  CInv'
<1> USE DEF CInv, HandlerFails, Dispatch, userVars, resultVars
<1>1. TypeOK'
    BY HTTPClientAssumption DEF TypeOK, Ops, OpStates, ErrorCodes, NextOp
<1>2. (UserInv /\ UserDistinct /\ VerdictInv)'
    BY DEF UserInv, UserDistinct, VerdictInv, HttpVerdictFaithful
<1>3. IoInv'
    BY HTTPClientAssumption DEF TypeOK, IoInv
<1>4. OpInv'
    BY DEF TypeOK, OpInv
<1>5. CloseInv'
    BY DEF TypeOK, CloseInv
<1>6. ResponseInv'
    BY DEF TypeOK, ResponseInv
<1>7. OpEcInv'
    BY DEF TypeOK, OpEcInv
<1>8. IoEcInv'
    BY DEF TypeOK, IoEcInv, OpEcInv
<1> QED
    BY <1>1, <1>2, <1>3, <1>4, <1>5, <1>6, <1>7, <1>8

\* A handler given no error goes on to m_cancel_mux.
LEMMA HandlerGoesOnPreserves ==
    ASSUME CInv, NEW r \in Requests, NEW o \in DOMAIN NextOp, HandlerGoesOn(r, o)
    PROVE  CInv'
<1> USE DEF CInv, HandlerGoesOn, Dispatch, userVars, resultVars
<1>1. TypeOK'
    BY DEF TypeOK, Ops, OpStates, ErrorCodes, NextOp
<1>2. (UserInv /\ UserDistinct /\ VerdictInv)'
    BY DEF UserInv, UserDistinct, VerdictInv, HttpVerdictFaithful
<1>3. IoInv'
    BY HTTPClientAssumption DEF TypeOK, IoInv
<1>4. OpInv'
    BY DEF TypeOK, OpInv
<1>5. CloseInv'
    BY DEF TypeOK, CloseInv
<1>6. ResponseInv'
    BY DEF TypeOK, ResponseInv
<1>7. OpEcInv'
    BY DEF TypeOK, OpEcInv
<1>8. IoEcInv'
    BY DEF TypeOK, IoEcInv
<1> QED
    BY <1>1, <1>2, <1>3, <1>4, <1>5, <1>6, <1>7, <1>8

\* on_request_sent shuts its side of the connection.
LEMMA RequestSentPreserves ==
    ASSUME CInv, NEW r \in Requests, RequestSent(r)
    PROVE  CInv'
<1> USE DEF CInv, RequestSent, Dispatch, userVars, resultVars
<1>1. TypeOK'
    BY DEF TypeOK, Ops, OpStates, ErrorCodes, NextOp
<1>2. (UserInv /\ UserDistinct /\ VerdictInv)'
    BY DEF UserInv, UserDistinct, VerdictInv, HttpVerdictFaithful
<1>3. IoInv'
    BY HTTPClientAssumption DEF TypeOK, IoInv, NextOp
<1>4. OpInv'
    BY DEF TypeOK, OpInv
<1>5. CloseInv'
    BY DEF TypeOK, CloseInv
<1>6. ResponseInv'
    BY DEF TypeOK, ResponseInv
<1>7. OpEcInv'
    BY DEF TypeOK, OpEcInv
<1>8. IoEcInv'
    BY DEF TypeOK, IoEcInv
<1> QED
    BY <1>1, <1>2, <1>3, <1>4, <1>5, <1>6, <1>7, <1>8

\* An exception ends every thread.
LEMMA ShutdownThrowsPreserves ==
    ASSUME CInv, NEW r \in Requests, ShutdownThrows(r)
    PROVE  CInv'
<1> USE DEF CInv, ShutdownThrows, requestVars, opVars, resultVars
<1>1. TypeOK'
    BY DEF TypeOK, Ops, OpStates, ErrorCodes, NextOp
<1>2. (UserDistinct /\ OpInv /\ ResponseInv /\ OpEcInv /\ VerdictInv)'
    BY DEF UserDistinct, OpInv, ResponseInv, OpEcInv, VerdictInv, HttpVerdictFaithful
<1>3. IoInv'
    BY HTTPClientAssumption DEF TypeOK, IoInv
<1>4. UserInv'
    BY DEF TypeOK, UserInv
<1>5. CloseInv'
    BY DEF TypeOK, CloseInv
<1>6. IoEcInv'
    BY DEF TypeOK, IoEcInv
<1> QED
    BY <1>1, <1>2, <1>3, <1>4, <1>5, <1>6

\* A status line that does not parse stores nothing.
LEMMA StatusInvalidPreserves ==
    ASSUME CInv, NEW r \in Requests, StatusInvalid(r)
    PROVE  CInv'
<1> USE DEF CInv, StatusInvalid, Dispatch, userVars, resultVars
<1>1. TypeOK'
    BY DEF TypeOK, Ops, OpStates, ErrorCodes, NextOp
<1>2. (UserInv /\ UserDistinct /\ VerdictInv)'
    BY DEF UserInv, UserDistinct, VerdictInv, HttpVerdictFaithful
<1>3. IoInv'
    BY HTTPClientAssumption DEF TypeOK, IoInv
<1>4. OpInv'
    BY DEF TypeOK, OpInv
<1>5. CloseInv'
    BY DEF TypeOK, CloseInv
<1>6. ResponseInv'
    BY DEF TypeOK, ResponseInv
<1>7. OpEcInv'
    BY DEF TypeOK, OpEcInv
<1>8. IoEcInv'
    BY DEF TypeOK, IoEcInv, ResponseInv
<1> QED
    BY <1>1, <1>2, <1>3, <1>4, <1>5, <1>6, <1>7, <1>8

\* The status is stored.
LEMMA StatusParsedPreserves ==
    ASSUME CInv, NEW r \in Requests, StatusParsed(r)
    PROVE  CInv'
<1> USE DEF CInv, StatusParsed, Dispatch, userVars, resultVars
<1>1. TypeOK'
    BY DEF TypeOK, Ops, OpStates, ErrorCodes, NextOp
<1>2. (UserInv /\ UserDistinct)'
    BY DEF UserInv, UserDistinct
<1>3. IoInv'
    BY HTTPClientAssumption DEF TypeOK, IoInv, NextOp
<1>4. OpInv'
    BY DEF TypeOK, OpInv
<1>5. CloseInv'
    BY DEF TypeOK, CloseInv
<1>6. ResponseInv'
    BY DEF TypeOK, ResponseInv
<1>7. OpEcInv'
    BY DEF TypeOK, OpEcInv
<1>8. IoEcInv'
    BY DEF TypeOK, IoEcInv
<1>9. VerdictInv'
    BY DEF TypeOK, VerdictInv, HttpVerdictFaithful, OpInv
<1> QED
    BY <1>1, <1>2, <1>3, <1>4, <1>5, <1>6, <1>7, <1>8, <1>9

\* The headers are stored.
LEMMA HeadersParsedPreserves ==
    ASSUME CInv, NEW r \in Requests, HeadersParsed(r)
    PROVE  CInv'
<1> USE DEF CInv, HeadersParsed, Dispatch, userVars, resultVars
<1>1. TypeOK'
    BY DEF TypeOK, Ops, OpStates, ErrorCodes, NextOp
<1>2. (UserInv /\ UserDistinct)'
    BY DEF UserInv, UserDistinct
<1>3. IoInv'
    BY HTTPClientAssumption DEF TypeOK, IoInv, NextOp
<1>4. OpInv'
    BY DEF TypeOK, OpInv
<1>5. CloseInv'
    BY DEF TypeOK, CloseInv
<1>6. ResponseInv'
    BY DEF TypeOK, ResponseInv
<1>7. OpEcInv'
    BY DEF TypeOK, OpEcInv
<1>8. IoEcInv'
    BY DEF TypeOK, IoEcInv
<1>9. VerdictInv'
    BY DEF TypeOK, VerdictInv, HttpVerdictFaithful, OpInv
<1> QED
    BY <1>1, <1>2, <1>3, <1>4, <1>5, <1>6, <1>7, <1>8, <1>9

\* The end of the stream makes the response whole.
LEMMA BodyReceivedPreserves ==
    ASSUME CInv, NEW r \in Requests, OnResponseBodyReceived(r)
    PROVE  CInv'
<1> USE DEF CInv, OnResponseBodyReceived, Dispatch, userVars, resultVars
<1>1. TypeOK'
    BY DEF TypeOK, Ops, OpStates, ErrorCodes, NextOp
<1>2. (UserInv /\ UserDistinct)'
    BY DEF UserInv, UserDistinct
<1>3. IoInv'
    BY HTTPClientAssumption DEF TypeOK, IoInv
<1>4. OpInv'
    BY DEF TypeOK, OpInv
<1>5. CloseInv'
    BY DEF TypeOK, CloseInv
<1>6. ResponseInv'
    BY DEF TypeOK, ResponseInv
<1>7. OpEcInv'
    BY DEF TypeOK, OpEcInv
<1>8. IoEcInv'
    BY DEF TypeOK, IoEcInv, OpEcInv
<1>9. VerdictInv'
    BY DEF TypeOK, VerdictInv, HttpVerdictFaithful, OpInv
<1> QED
    BY <1>1, <1>2, <1>3, <1>4, <1>5, <1>6, <1>7, <1>8, <1>9

\* A handler finds its request cancelled.
LEMMA FoundCancelledPreserves ==
    ASSUME CInv, FoundCancelled
    PROVE  CInv'
<1> USE DEF CInv, FoundCancelled, requestVars, opVars, userVars, resultVars
<1>1. TypeOK'
    BY DEF TypeOK, Ops, OpStates, ErrorCodes, NextOp
<1>2. (UserInv /\ UserDistinct /\ OpInv /\ ResponseInv /\ OpEcInv /\ VerdictInv)'
    BY DEF UserInv, UserDistinct, OpInv, ResponseInv, OpEcInv, VerdictInv,
           HttpVerdictFaithful
<1>3. IoInv'
    BY HTTPClientAssumption DEF TypeOK, IoInv
<1>4. CloseInv'
    BY DEF TypeOK, CloseInv
<1>5. IoEcInv'
    BY DEF TypeOK, IoEcInv
<1> QED
    BY <1>1, <1>2, <1>3, <1>4, <1>5

\* A handler starts the next operation of the chain.
LEMMA StartNextPreserves ==
    ASSUME CInv, StartNext
    PROVE  CInv'
<1> USE DEF CInv, StartNext, StartChained, StartOp, userVars, resultVars
<1>1. TypeOK'
    <2>1. NextOp[op[ioReq]] \in Ops
        BY NextOpCases DEF IoInv, Ops, NextOp
    <2> QED
        BY <2>1, InHand DEF TypeOK, OpStates
<1>2. (UserDistinct /\ VerdictInv)'
    BY DEF UserDistinct, VerdictInv, HttpVerdictFaithful
<1>3. IoInv'
    BY HTTPClientAssumption, InHand DEF TypeOK, IoInv
<1>4. UserInv'
    BY DEF TypeOK, UserInv, IoInv, OpInv
<1>5. OpInv'
    BY InHand, NextOpCases DEF TypeOK, OpInv, IoInv
<1>6. CloseInv'
    BY DEF TypeOK, CloseInv, IoInv
<1>7. ResponseInv'
    BY DEF TypeOK, ResponseInv, IoInv, NextOp
<1>8. OpEcInv'
    BY DEF TypeOK, OpEcInv, IoInv, NextOp
<1>9. IoEcInv'
    BY DEF TypeOK, IoEcInv
<1> QED
    BY <1>1, <1>2, <1>3, <1>4, <1>5, <1>6, <1>7, <1>8, <1>9

\* on_finish calls the callback and the handler returns.
LEMMA OnFinishPreserves ==
    ASSUME CInv, OnFinish
    PROVE  CInv'
<1> USE DEF CInv, OnFinish, HandlerReturns, requestVars, userVars
<1>1. TypeOK'
    BY InHand DEF TypeOK, Ops, OpStates, ErrorCodes, NextOp
<1>2. (UserDistinct)'
    BY DEF UserDistinct
<1>3. IoInv'
    BY HTTPClientAssumption, InHand DEF TypeOK, IoInv
<1>4. UserInv'
    BY DEF TypeOK, UserInv, IoInv, OpInv
<1>5. OpInv'
    BY DEF TypeOK, OpInv, IoInv
<1>6. CloseInv'
    BY DEF TypeOK, CloseInv, IoInv
<1>7. ResponseInv'
    BY DEF TypeOK, ResponseInv
<1>8. OpEcInv'
    BY DEF TypeOK, OpEcInv
<1>9. IoEcInv'
    BY DEF TypeOK, IoEcInv
<1>10. VerdictInv'
    BY DEF TypeOK, VerdictInv, HttpVerdictFaithful, IoInv, IoEcInv, OpInv
<1> QED
    BY <1>1, <1>2, <1>3, <1>4, <1>5, <1>6, <1>7, <1>8, <1>9, <1>10

\* m_ios.run() returns when nothing is outstanding.
LEMMA IoExitPreserves ==
    ASSUME CInv, IoExit
    PROVE  CInv'
<1> USE DEF CInv, IoExit, requestVars, opVars, userVars, resultVars
<1>1. TypeOK'
    BY DEF TypeOK, Ops, OpStates, ErrorCodes, NextOp
<1>2. (UserInv /\ UserDistinct /\ OpInv /\ ResponseInv /\ OpEcInv /\ VerdictInv)'
    BY DEF UserInv, UserDistinct, OpInv, ResponseInv, OpEcInv, VerdictInv,
           HttpVerdictFaithful
<1>3. IoInv'
    BY HTTPClientAssumption DEF TypeOK, IoInv
<1>4. CloseInv'
    BY DEF TypeOK, CloseInv
<1>5. IoEcInv'
    BY DEF TypeOK, IoEcInv
<1> QED
    BY <1>1, <1>2, <1>3, <1>4, <1>5

-----------------------------------------------------------------------------
\* Every step of the handlers of a request preserves the invariant.
LEMMA RunQueuedPreserves ==
    ASSUME CInv, NEW r \in Requests, RunQueued(r)
    PROVE  CInv'
<1>1. \/ RunPartial(r)
      \/ \E o \in DOMAIN NextOp : HandlerFails(r, o) \/ HandlerGoesOn(r, o)
      \/ RequestSent(r) \/ ShutdownThrows(r) \/ StatusInvalid(r)
      \/ StatusParsed(r) \/ HeadersParsed(r) \/ OnResponseBodyReceived(r)
    BY DEF RunQueued, OnHostNameResolved, OnConnectionEstablished, OnRequestSent,
           OnStatusLineReceived, OnHeadersReceived, NextOp
<1> QED
    BY <1>1, RunPartialPreserves, HandlerFailsPreserves, HandlerGoesOnPreserves,
       RequestSentPreserves, ShutdownThrowsPreserves, StatusInvalidPreserves,
       StatusParsedPreserves, HeadersParsedPreserves, BodyReceivedPreserves

\* Every step preserves the invariant.
LEMMA NextPreserves ==
    ASSUME CInv, [Next]_vars
    PROVE  CInv'
<1>1. ASSUME NEW u \in Users, UserNext(u) PROVE CInv'
    BY <1>1, ExecutePreserves, ExecuteCancelledPreserves, CancelPreserves,
       CloseResetPreserves, FinishInExecutePreserves, CloseJoinPreserves
       DEF UserNext, UserStep
<1>2. ASSUME NEW r \in Requests, RunQueued(r) PROVE CInv'
    BY <1>2, RunQueuedPreserves
<1>3. ASSUME NEW r \in Requests, NetStep(r) PROVE CInv'
    BY <1>3, OpCompletePreserves, OpPartialPreserves, ResetPreserves DEF NetStep, OpEnds
<1>4. ASSUME HandlerStep PROVE CInv'
    BY <1>4, FoundCancelledPreserves, StartNextPreserves, OnFinishPreserves, IoExitPreserves
       DEF HandlerStep
<1>5. ASSUME UNCHANGED vars PROVE CInv'
    <2> USE <1>5 DEF CInv, vars, requestVars, opVars, ioVars, userVars, resultVars
    <2>1. (TypeOK /\ IoInv /\ UserInv /\ UserDistinct /\ OpInv)'
        BY DEF TypeOK, IoInv, UserInv, UserDistinct, OpInv
    <2>2. (CloseInv /\ ResponseInv /\ OpEcInv /\ IoEcInv /\ VerdictInv)'
        BY DEF CloseInv, ResponseInv, OpEcInv, IoEcInv, VerdictInv, HttpVerdictFaithful
    <2> QED
        BY <2>1, <2>2
<1> QED
    BY <1>1, <1>2, <1>3, <1>4, <1>5 DEF Next

\* The invariant holds in every reachable state.
THEOREM HttpClientInvariant == Spec => []CInv
<1>1. CInv /\ [Next]_vars => CInv'
    BY NextPreserves
<1> QED
    BY <1>1, InitCInv, PTL DEF Spec

\* The variables of the client keep their types.
THEOREM HttpClientTypeCorrect == Spec => []TypeOK
<1>1. CInv => TypeOK
    BY DEF CInv
<1> QED
    BY <1>1, HttpClientInvariant, PTL

\* For any number of requests and threads the error code given to the callback
\* tells the truth.
THEOREM HttpClientVerdictFaithful == Spec => []HttpVerdictFaithful
<1>1. CInv => HttpVerdictFaithful
    BY DEF CInv, VerdictInv
<1> QED
    BY <1>1, HttpClientInvariant, PTL

\* For any number of requests and threads the callback is called at most once and
\* no handler of the request is queued or running after it.
THEOREM HttpClientCallbackIsLast == Spec => []CallbackIsLast
<1>1. CInv => CallbackIsLast
    <2> SUFFICES ASSUME CInv, NEW r \in Requests
                 PROVE  calls[r] <= 1 /\ (calls[r] > 0 => opState[r] = "none" /\ ioReq # r)
        BY DEF CallbackIsLast
    <2> QED
        BY DEF CInv, TypeOK, OpInv, IoInv
<1> QED
    BY <1>1, HttpClientInvariant, PTL

\* When close() has returned every request that was started has been answered.
THEOREM HttpClientCloseCompletesAll == Spec => []HttpCloseCompletesAll
<1>1. CInv => HttpCloseCompletesAll
    BY DEF CInv, CloseInv, OpInv, HttpCloseCompletesAll
<1> QED
    BY <1>1, HttpClientInvariant, PTL

\* Once cancel() has returned no handler starts an operation of the request.
THEOREM HttpClientNoOperationAfterCancel == Spec => NoOperationAfterCancel
<1> DEFINE Step == \A r \in Requests : m_was_cancelled[r] => op'[r] = op[r]
<1>1. TypeOK /\ [Next]_vars => [Step]_vars
    <2> SUFFICES ASSUME TypeOK, Next PROVE Step
        OBVIOUS
    <2>1. ASSUME NEW u \in Users, NEW r \in Requests, Execute(u, r) PROVE Step
        BY <2>1 DEF Execute, StartOp, TypeOK
    <2>2. CASE StartNext
        BY <2>2 DEF StartNext, StartChained, StartOp, TypeOK
    <2>3. CASE UNCHANGED op
        BY <2>3
    <2>4. \/ \E u \in Users, r \in Requests : Execute(u, r)
          \/ StartNext
          \/ UNCHANGED op
        <3>1. ASSUME NEW u \in Users, NEW r \in Requests,
                     ExecuteCancelled(u, r) \/ Cancel(u, r) \/ CloseReset(u) \/ UserStep(u)
              PROVE  UNCHANGED op
            BY <3>1 DEF ExecuteCancelled, Cancel, CloseReset, UserStep, FinishInExecute,
                        CloseJoin, opVars
        <3>2. ASSUME NEW r \in Requests, RunQueued(r) PROVE UNCHANGED op
            BY <3>2 DEF RunQueued, OnHostNameResolved, OnConnectionEstablished,
                OnRequestSent, OnStatusLineReceived, OnHeadersReceived, RunPartial,
                HandlerFails, HandlerGoesOn, RequestSent, ShutdownThrows, StatusInvalid,
                StatusParsed, HeadersParsed, OnResponseBodyReceived, Dispatch, opVars
        <3>3. ASSUME NEW r \in Requests, NetStep(r) PROVE UNCHANGED op
            BY <3>3 DEF NetStep, OpEnds, OpComplete, OpPartial, Reset, opVars
        <3>4. ASSUME FoundCancelled \/ OnFinish \/ IoExit PROVE UNCHANGED op
            BY <3>4 DEF FoundCancelled, OnFinish, HandlerReturns, IoExit, opVars
        <3>5. ASSUME NEW u \in Users, CloseReset(u) \/ UserStep(u) PROVE UNCHANGED op
            BY <3>5 DEF CloseReset, UserStep, FinishInExecute, CloseJoin, opVars
        <3> QED
            BY <3>1, <3>2, <3>3, <3>4, <3>5 DEF Next, UserNext, HandlerStep
    <2> QED
        BY <2>1, <2>2, <2>3, <2>4
<1> QED
    BY <1>1, HttpClientTypeCorrect, PTL DEF Spec, NoOperationAfterCancel

=============================================================================
