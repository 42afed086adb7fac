---------------------------- MODULE SyncUDPClient ----------------------------
(***************************************************************************)
(* The synchronous UDP client of src/chapter3/syncUDPClient: main asks one *)
(* server after the other over a single unconnected socket.  The network   *)
(* may lose, repeat, delay and reorder datagrams, and anybody may send one *)
(* to the client's port.                                                   *)
(*                                                                         *)
(* receiveResponse shuts the socket down after the first datagram.  On     *)
(* Linux shutdown fails for an unconnected socket, and the error is        *)
(* thrown; elsewhere it succeeds.  Either way the socket is shut down.     *)
(***************************************************************************)
EXTENDS Naturals, Sequences

CONSTANTS
    NumServers,      \* main asks the servers 1, 2, ... in this order
    Strangers,       \* other hosts that send datagrams to the client's port
    Lengths,         \* the lengths a response may have
    ShutdownThrows   \* the platforms: a subset of BOOLEAN

ASSUME UDPAssumption ==
    /\ NumServers \in Nat \ {0}
    /\ Strangers \cap (0 .. NumServers) = {}
    /\ Lengths \subseteq Nat
    /\ ShutdownThrows \subseteq BOOLEAN

Servers == 1 .. NumServers
BufferSize == 6  \* char response[6]

Answers == [from : Servers \cup Strangers, length : Lengths]

VARIABLES
    throws,    \* shutdown fails on this platform
    pc,        \* "send", "receive", "shutdown", "print" or "ended"
    server,    \* the server main is asking
    m_sock,    \* "open" or "shut"
    ep,        \* whom the datagram received came from
    response,  \* bytes received
    printed,   \* what main printed: for which server, from whom, how much
    requests,  \* the servers a request is on its way to
    answers,   \* the datagrams on their way to the client
    lost       \* a datagram has been lost

clientVars == <<throws, pc, server, m_sock, ep, response, printed>>
netVars == <<requests, answers, lost>>
vars == <<clientVars, netVars>>

Init ==
    /\ throws \in ShutdownThrows
    /\ pc = "send" /\ server = 1 /\ m_sock = "open"
    /\ ep = 0 /\ response = 0 /\ printed = <<>>
    /\ requests = {} /\ answers = {} /\ lost = FALSE

-----------------------------------------------------------------------------
\* sendRequest: send_to throws on a socket that is shut down.
SendRequest ==
    /\ pc = "send"
    /\ IF m_sock = "open"
       THEN pc' = "receive" /\ ep' = server /\ requests' = requests \cup {server}
       ELSE pc' = "ended" /\ UNCHANGED <<ep, requests>>
    /\ UNCHANGED <<throws, server, m_sock, response, printed, answers, lost>>

\* Mutant: receiveResponse waits for the server it did not ask.
ReceiveOther(a) ==
    /\ pc = "receive" /\ a \in answers /\ a.from \notin Strangers \cup {ep}
    /\ pc' = "shutdown"
    /\ UNCHANGED <<throws, server, m_sock, printed, ep, response, netVars>>

\* receiveResponse: receive_from takes the first datagram there is, whoever sent
\* it, and cuts it to the buffer.  The network may deliver it again.
ReceiveFrom(a) ==
    /\ pc = "receive" /\ a \in answers
    /\ ep' = a.from
    /\ response' = IF a.length < BufferSize THEN a.length ELSE BufferSize
    /\ answers' \in {answers, answers \ {a}}
    /\ pc' = "shutdown"
    /\ UNCHANGED <<throws, server, m_sock, printed, requests, lost>>

\* Mutant: the socket stays open.
KeepOpen ==
    /\ pc = "shutdown"
    /\ pc' = "print"
    /\ UNCHANGED <<throws, server, m_sock, ep, response, printed, netVars>>

\* receiveResponse: shutdown(shutdown_both), which takes effect even where it
\* reports an error; main catches the exception and ends.
Shutdown ==
    /\ pc = "shutdown"
    /\ m_sock' = "shut"
    /\ pc' = IF throws THEN "ended" ELSE "print"
    /\ UNCHANGED <<throws, server, ep, response, printed, netVars>>

\* main prints the response and goes on to the next server.
PrintResponse ==
    /\ pc = "print"
    /\ printed' = Append(printed, [for |-> server, from |-> ep, length |-> response])
    /\ IF server + 1 \in Servers
       THEN server' = server + 1 /\ pc' = "send"
       ELSE pc' = "ended" /\ UNCHANGED server
    /\ UNCHANGED <<throws, m_sock, ep, response, netVars>>

-----------------------------------------------------------------------------
(***************************************************************************)
(* The servers and the network (external).                                 *)
(***************************************************************************)

\* A server answers a request, more than once when the request is repeated.
Answer(s, a) ==
    /\ s \in requests /\ a.from = s
    /\ answers' = answers \cup {a}
    /\ requests' \in {requests, requests \ {s}}
    /\ UNCHANGED <<clientVars, lost>>

Stray(a) ==
    /\ a.from \in Strangers
    /\ answers' = answers \cup {a}
    /\ UNCHANGED <<clientVars, requests, lost>>

Lose ==
    /\ \/ \E s \in requests : requests' = requests \ {s} /\ UNCHANGED answers
       \/ \E a \in answers : answers' = answers \ {a} /\ UNCHANGED requests
    /\ lost' = TRUE
    /\ UNCHANGED clientVars

ClientStep == \/ SendRequest \/ Shutdown \/ PrintResponse
              \/ \E a \in Answers : ReceiveFrom(a)
ServerStep(s) == \E a \in Answers : Answer(s, a)

Next == ClientStep \/ (\E s \in Servers : ServerStep(s)) \/ (\E a \in Answers : Stray(a)) \/ Lose

Spec == Init /\ [][Next]_vars

\* The client runs, and a server answers a request that reaches it.
FairSpec == Spec /\ WF_vars(ClientStep) /\ \A s \in Servers : WF_vars(ServerStep(s))

-----------------------------------------------------------------------------
(***************************************************************************)
(* Properties.                                                             *)
(***************************************************************************)

\* Every variable has its type; the datagram never exceeds the buffer.
TypeOK ==
    /\ throws \in BOOLEAN
    /\ pc \in {"send", "receive", "shutdown", "print", "ended"}
    /\ server \in Servers
    /\ m_sock \in {"open", "shut"}
    /\ ep \in Servers \cup Strangers \cup {0}
    /\ response \in 0 .. BufferSize
    /\ printed \in Seq([for : Servers, from : Servers \cup Strangers,
                        length : 0 .. BufferSize])
    /\ requests \subseteq Servers
    /\ answers \subseteq Answers
    /\ lost \in BOOLEAN

\* The shutdown after the first datagram makes the socket useless: at most one
\* response is ever printed, and no server but the first one is asked.  This alone
\* keeps the answer of one server from being printed as that of another, since
\* receive_from takes whatever comes first and answers may be late or repeated;
\* datagrams of strangers are not told apart.
OnlyFirstIsAsked ==
    /\ Len(printed) <= 1 /\ requests \subseteq {1}
    /\ \A i \in DOMAIN printed : printed[i].from \in {printed[i].for} \cup Strangers

\* The client ends, with a response or an exception, unless a datagram is lost:
\* there is neither a timeout nor a retry.
EndsUnlessLost == <>(pc = "ended" \/ lost)

=============================================================================
