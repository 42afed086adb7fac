------------------------- MODULE SyncUDPClientProofs -------------------------
(***************************************************************************)
(* The UDP client asks only its first server, for any number of servers    *)
(* and strangers and whatever the network does.  The invariant follows the *)
(* socket: as long as it is open nothing has been printed and the first    *)
(* server is the one that is asked, and once it is shut nothing is sent    *)
(* any more.                                                               *)
(***************************************************************************)
EXTENDS SyncUDPClient, TLAPS

FirstOrStranger == {1} \cup Strangers

\* What the socket says about the progress of main.
SocketInv ==
    /\ m_sock = "open" => server = 1
    /\ pc \in {"receive", "shutdown"} => m_sock = "open"
    /\ pc = "print" => m_sock = "shut" /\ server = 1
    /\ m_sock = "open" \/ pc = "print" => printed = <<>>
    /\ Len(printed) <= 1

\* Only the first server has been asked, so that only it and strangers answer.
NetworkInv ==
    /\ requests \subseteq {1}
    /\ \A a \in answers : a.from \in FirstOrStranger
    /\ pc \in {"shutdown", "print"} => ep \in FirstOrStranger
    /\ \A i \in DOMAIN printed : printed[i].for = 1 /\ printed[i].from \in FirstOrStranger

UInv == TypeOK /\ SocketInv /\ NetworkInv

\* The invariant holds when main starts.
LEMMA InitUInv == Init => UInv
<1> SUFFICES ASSUME Init PROVE UInv
    OBVIOUS
<1>1. TypeOK
    <2>1. throws \in BOOLEAN
        BY UDPAssumption, Zenon DEF Init
    <2>2. server \in Servers
        BY UDPAssumption DEF Init, Servers
    <2>3. response \in 0 .. BufferSize
        BY DEF Init, BufferSize
    <2>4. ep \in Servers \cup Strangers \cup {0}
        BY DEF Init
    <2>5. printed \in Seq([for : Servers, from : Servers \cup Strangers,
                           length : 0 .. BufferSize])
        BY DEF Init
    <2>6. /\ pc \in {"send", "receive", "shutdown", "print", "ended"}
          /\ m_sock \in {"open", "shut"}
          /\ requests \subseteq Servers
          /\ answers \subseteq Answers
          /\ lost \in BOOLEAN
        BY DEF Init
    <2> QED
        BY <2>1, <2>2, <2>3, <2>4, <2>5, <2>6, Zenon DEF TypeOK
<1>2. SocketInv
    BY DEF Init, SocketInv
<1>3. NetworkInv
    BY DEF Init, NetworkInv
<1> QED
    BY <1>1, <1>2, <1>3 DEF UInv

\* sendRequest sends only through the open socket, to the first server.
LEMMA SendPreserves == ASSUME UInv, SendRequest PROVE UInv'
<1>1. TypeOK'
    BY DEF SendRequest, UInv, TypeOK
<1>2. SocketInv'
    BY DEF SendRequest, UInv, SocketInv
<1>3. NetworkInv'
    BY DEF SendRequest, UInv, SocketInv, NetworkInv
<1> QED
    BY <1>1, <1>2, <1>3 DEF UInv

\* receive_from keeps what came within the buffer, and whom it came from.
LEMMA ReceivePreserves ==
    ASSUME UInv, NEW a \in Answers, ReceiveFrom(a)
    PROVE  UInv'
<1>1. TypeOK'
    <2>1. ep' \in Servers \cup Strangers \cup {0}
        BY DEF ReceiveFrom, Answers
    <2>2. response' \in 0 .. BufferSize
        <3>1. a.length \in Nat
            BY UDPAssumption DEF Answers
        <3> QED
            BY <3>1 DEF ReceiveFrom, BufferSize
    <2>3. answers' \subseteq Answers
        BY DEF ReceiveFrom, UInv, TypeOK
    <2> QED
        BY <2>1, <2>2, <2>3 DEF ReceiveFrom, UInv, TypeOK
<1>2. SocketInv'
    BY DEF ReceiveFrom, UInv, SocketInv
<1>3. NetworkInv'
    BY DEF ReceiveFrom, UInv, NetworkInv
<1> QED
    BY <1>1, <1>2, <1>3 DEF UInv

\* The shutdown.
LEMMA ShutdownPreserves == ASSUME UInv, Shutdown PROVE UInv'
<1>1. TypeOK'
    BY DEF Shutdown, netVars, UInv, TypeOK
<1>2. SocketInv'
    BY DEF Shutdown, netVars, UInv, TypeOK, SocketInv
<1>3. NetworkInv'
    BY DEF Shutdown, netVars, UInv, NetworkInv
<1> QED
    BY <1>1, <1>2, <1>3 DEF UInv

\* main prints the first response.
LEMMA PrintPreserves == ASSUME UInv, PrintResponse PROVE UInv'
<1> DEFINE line == [for |-> server, from |-> ep, length |-> response]
<1>1. /\ printed = <<>> /\ m_sock = "shut" /\ server = 1
      /\ ep \in FirstOrStranger
      /\ printed' = Append(printed, line)
      /\ UNCHANGED <<throws, m_sock, ep, response, requests, answers, lost>>
    BY DEF PrintResponse, netVars, UInv, SocketInv, NetworkInv
<1>2. printed' = <<line>>
    BY <1>1
<1>3. 1 \in Servers
    BY UDPAssumption DEF Servers
<1>4. line \in [for : Servers, from : Servers \cup Strangers, length : 0 .. BufferSize]
    BY <1>1, <1>3 DEF UInv, TypeOK, FirstOrStranger
<1>5. Len(printed') = 1 /\ DOMAIN printed' = {1} /\ printed'[1] = line
    BY <1>2
<1>6. pc' \in {"send", "ended"} /\ server' \in Servers
    BY DEF PrintResponse, UInv, TypeOK
<1>7. TypeOK'
    <2>1. printed' \in Seq([for : Servers, from : Servers \cup Strangers,
                            length : 0 .. BufferSize])
        BY <1>2, <1>4
    <2> QED
        BY <1>1, <1>6, <2>1 DEF UInv, TypeOK
<1>8. SocketInv'
    BY <1>1, <1>5, <1>6 DEF SocketInv
<1>9. NetworkInv'
    BY <1>1, <1>5, <1>6 DEF UInv, NetworkInv
<1> QED
    BY <1>7, <1>8, <1>9 DEF UInv

\* The network invents nothing.
LEMMA NetworkPreserves ==
    ASSUME UInv,
           \/ \E s \in Servers : ServerStep(s)
           \/ \E a \in Answers : Stray(a)
           \/ Lose
    PROVE  UInv'
<1>1. /\ UNCHANGED clientVars
      /\ requests' \subseteq requests
      /\ answers' \subseteq Answers
      /\ \A a \in answers' : a.from \in FirstOrStranger
      /\ lost' \in BOOLEAN
    BY DEF ServerStep, Answer, Stray, Lose, UInv, TypeOK, NetworkInv, FirstOrStranger
<1> QED
    BY <1>1 DEF clientVars, UInv, TypeOK, SocketInv, NetworkInv

\* The invariant holds in every reachable state.
THEOREM UDPInvariant == Spec => []UInv
<1>1. UInv /\ [Next]_vars => UInv'
    <2> SUFFICES ASSUME UInv, [Next]_vars PROVE UInv'
        OBVIOUS
    <2>1. CASE UNCHANGED vars
        BY <2>1 DEF vars, clientVars, netVars, UInv, TypeOK, SocketInv, NetworkInv
    <2> QED
        BY <2>1, SendPreserves, ReceivePreserves, ShutdownPreserves, PrintPreserves,
            NetworkPreserves DEF Next, ClientStep
<1> QED
    BY <1>1, InitUInv, PTL DEF Spec

\* The variables of the UDP client keep their types; what receive_from stores
\* never exceeds the buffer.
THEOREM UDPTypeCorrect == Spec => []TypeOK
<1>1. UInv => TypeOK
    BY DEF UInv
<1> QED
    BY <1>1, UDPInvariant, PTL

\* Because of the shutdown after the first datagram only the first server is ever
\* asked, and no answer is printed as that of another server.
THEOREM UDPOnlyFirstIsAsked == Spec => []OnlyFirstIsAsked
<1>1. UInv => OnlyFirstIsAsked
    BY DEF UInv, SocketInv, NetworkInv, FirstOrStranger, OnlyFirstIsAsked
<1> QED
    BY <1>1, UDPInvariant, PTL

=============================================================================
