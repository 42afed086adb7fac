----------------------------- MODULE RequestSpec -----------------------------
(***************************************************************************)
(* What the asynchronous TCP client promises its caller, with no sockets,  *)
(* locks or threads: every request is answered at most once, a cancelled   *)
(* request is never answered with success, only a cancelled request is     *)
(* answered with operation_aborted, and close() returns only when every    *)
(* request has been answered and nothing is answered afterwards.           *)
(***************************************************************************)

CONSTANT Sessions

VARIABLES phase,      \* phase[s]: "idle", "active" or "done"
          cancelled,  \* cancelled[s]: cancelRequest has reached the request
          answer,     \* answer[s]: the error code given to the callback
          closed      \* close() has returned

reqVars == <<phase, cancelled, answer, closed>>

Answers == {"ok", "error", "aborted"}

Init == /\ phase = [s \in Sessions |-> "idle"]
        /\ cancelled = [s \in Sessions |-> FALSE]
        /\ answer = [s \in Sessions |-> "none"]
        /\ closed = FALSE

Start(s) == /\ ~closed
            /\ phase[s] = "idle"
            /\ phase' = [phase EXCEPT ![s] = "active"]
            /\ UNCHANGED <<cancelled, answer, closed>>

Cancel(s) == /\ phase[s] = "active"
             /\ cancelled' = [cancelled EXCEPT ![s] = TRUE]
             /\ UNCHANGED <<phase, answer, closed>>

Answer(s, a) == /\ phase[s] = "active"
                /\ a = "ok" => ~cancelled[s]
                /\ a = "aborted" => cancelled[s]
                /\ phase' = [phase EXCEPT ![s] = "done"]
                /\ answer' = [answer EXCEPT ![s] = a]
                /\ UNCHANGED <<cancelled, closed>>

Close == /\ \A s \in Sessions : phase[s] # "active"
         /\ closed' = TRUE
         /\ UNCHANGED <<phase, cancelled, answer>>

Next == \/ \E s \in Sessions : \/ Start(s)
                               \/ Cancel(s)
                               \/ \E a \in Answers : Answer(s, a)
        \/ Close

Spec == Init /\ [][Next]_reqVars

=============================================================================
