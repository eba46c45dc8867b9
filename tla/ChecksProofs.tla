---------------------------- MODULE ChecksProofs ----------------------------
(***************************************************************************)
(* Proofs about Checks, for every set of servers and checks, every number of *)
(* descriptors, threads, packets, bytes and attempts to send.               *)
(*                                                                         *)
(* The argument.  A check is in one place at a time, and its place says what *)
(* it may hold: nothing before a thread begins it (SocketInv), and then a    *)
(* descriptor that no other check holds.  A check is begun once, as the      *)
(* queue has it once (QueueInv), and takes the steps of its own kind only     *)
(* (KindInv).  The counters of a ping add up while it has packets to send    *)
(* (CountInv), what counts as an answer was noted in heard (HeardInv), and    *)
(* the bytes before p_packet are out, though p_packet may step back below 0   *)
(* (RequestInv).                                                           *)
(***************************************************************************)
EXTENDS Checks, TLAPS

PingPlace == {"sending", "waiting"}
HttpPlace == {"resolving", "connecting", "writing", "reading"}
IdlePlace == {"free", "queued"}

\* A check that waits for a thread is in the queue once.
QueueInv ==
  /\ \A i \in DOMAIN queue : pc[queue[i]] = "queued"
  /\ \A i, j \in DOMAIN queue : queue[i] = queue[j] => i = j

\* Every check but a free one has a server, and is where its kind of check may be.
KindInv ==
  \A c \in Check :
    /\ pc[c] # "free" => target[c] \in Server
    /\ pc[c] \in PingPlace => mon_t[target[c]] = "ping"
    /\ pc[c] \in HttpPlace => mon_t[target[c]] = "http"

\* A check no thread has begun has no descriptor.
SocketInv ==
  /\ SocketsAreOwn
  /\ \A c \in Check : pc[c] \in IdlePlace => m_sock[c] = NoFd

\* Packets sent and to be sent are all there are; at most one reply per wait.
CountInv ==
  \A c \in Check :
    /\ pc[c] \in IdlePlace \cup PingPlace => p_num_packets[c] + m_transmitted[c] = PING_NUM_CHECKS
    /\ pc[c] \in IdlePlace \cup {"sending"} => m_received[c] <= m_transmitted[c]
    /\ pc[c] = "waiting" => m_received[c] < m_transmitted[c]

\* Nothing is counted, and no response is there, without a sender or a failure.
HeardInv ==
  \A c \in Check : m_received[c] > 0 \/ response[c] => heard[c] \ {Noise} # {}

\* The bytes before the next one went out; nothing is left of an earlier request.
RequestInv ==
  \A c \in Check :
    /\ 0 .. p_packet[c] - 1 \subseteq sent[c]
    /\ pc[c] # "writing" => p_packet[c] = 0

IInv == /\ TypeOK /\ QueueInv /\ KindInv /\ SocketInv /\ CountInv /\ HeardInv /\ RequestInv
        /\ RequestIsWhole /\ DiesOnlyWithoutSocket

USE SocketsAssumption, PingerAssumption, HttpAssumption, ChecksAssumption

-----------------------------------------------------------------------------
LEMMA InitInv == Init => IInv
<1> SUFFICES ASSUME Init PROVE IInv
  OBVIOUS
<1>1. TypeOK
  BY DEF Init, TypeOK
<1>2. QueueInv /\ KindInv /\ CountInv /\ HeardInv /\ RequestInv
  BY DEF Init, QueueInv, KindInv, CountInv, HeardInv, RequestInv, PingPlace, HttpPlace, IdlePlace
<1>3. SocketInv /\ RequestIsWhole /\ DiesOnlyWithoutSocket
  BY DEF Init, SocketInv, SocketsAreOwn, RequestIsWhole, DiesOnlyWithoutSocket
<1> QED
  BY <1>1, <1>2, <1>3 DEF IInv


-----------------------------------------------------------------------------
(* Facts the actions share *)

\* While a check has packets to send, the counters add up.
LEMMA Counters ==
  ASSUME TypeOK, CountInv, NEW c \in Check, pc[c] \in PingPlace
  PROVE  /\ p_num_packets[c] \in Nat /\ m_transmitted[c] \in Nat /\ m_received[c] \in Nat
         /\ p_num_packets[c] + m_transmitted[c] = PING_NUM_CHECKS
         /\ m_received[c] <= m_transmitted[c]
         /\ pc[c] = "waiting" => m_received[c] < m_transmitted[c]
  BY DEF TypeOK, CountInv, PingPlace

\* What an action leaves as it is of every check but c.
CountsKept(c) ==
  \A d \in Check : d # c =>
    /\ p_num_packets'[d] = p_num_packets[d] /\ m_transmitted'[d] = m_transmitted[d]
    /\ m_received'[d] = m_received[d] /\ pc'[d] = pc[d]

-----------------------------------------------------------------------------
(* Ping *)

LEMMA SendFailsInv ==
  ASSUME IInv, NEW c \in Check, SendFails(c), UNCHANGED <<httpVars, queue>>
  PROVE  IInv'
<1> USE DEF IInv, SendFails
<1>1. /\ p_num_packets[c] \in Nat /\ m_transmitted[c] \in Nat /\ m_received[c] \in Nat
      /\ p_num_packets[c] + m_transmitted[c] = PING_NUM_CHECKS
      /\ m_received[c] <= m_transmitted[c]
  BY Counters DEF PingPlace
<1>2. TypeOK'
  <2>1. /\ p_num_packets' \in [Check -> 0 .. PING_NUM_CHECKS]
        /\ m_transmitted' \in [Check -> 0 .. PING_NUM_CHECKS]
    <3>1. /\ p_num_packets[c] - 1 \in 0 .. PING_NUM_CHECKS
          /\ m_transmitted[c] + 1 \in 0 .. PING_NUM_CHECKS
      BY <1>1
    <3> QED
      BY <3>1 DEF TypeOK
  <2> QED
    BY <2>1 DEF TypeOK, socketVars, httpVars
<1>3. QueueInv' /\ KindInv' /\ SocketInv'
  BY DEF QueueInv, KindInv, SocketInv, SocketsAreOwn, TypeOK, socketVars
<1>4. CountInv'
  <2>1. CountsKept(c)
    BY DEF TypeOK, CountsKept
  <2>2. /\ p_num_packets'[c] = p_num_packets[c] - 1 /\ m_transmitted'[c] = m_transmitted[c] + 1
        /\ m_received'[c] = m_received[c] /\ pc'[c] = "sending"
    BY DEF TypeOK
  <2> QED
    BY <1>1, <2>1, <2>2 DEF CountInv, CountsKept, IdlePlace, PingPlace
<1>5. HeardInv' /\ RequestInv' /\ RequestIsWhole'
  BY DEF HeardInv, RequestInv, RequestIsWhole, TypeOK, httpVars
<1>6. DiesOnlyWithoutSocket'
  BY DEF DiesOnlyWithoutSocket, DividesByZero, TypeOK
<1> QED
  BY <1>2, <1>3, <1>4, <1>5, <1>6

LEMMA SendPingInv ==
  ASSUME IInv, NEW c \in Check, SendPing(c), UNCHANGED <<httpVars, queue>>
  PROVE  IInv'
<1> USE DEF IInv, SendPing, Goto
<1>1. /\ p_num_packets[c] \in Nat /\ m_transmitted[c] \in Nat /\ m_received[c] \in Nat
      /\ p_num_packets[c] + m_transmitted[c] = PING_NUM_CHECKS
      /\ m_received[c] <= m_transmitted[c]
  BY Counters DEF PingPlace
<1>2. echoes' \in [Server -> 0 .. MaxEcho]
  <2>1. target[c] \in Server
    BY DEF KindInv
  <2>2. echoes \in [Server -> 0 .. MaxEcho]
    BY DEF TypeOK
  <2>3. echoes' = [echoes EXCEPT ![target[c]] = IF @ < MaxEcho THEN @ + 1 ELSE @]
    OBVIOUS
  <2> HIDE DEF IInv, SendPing
  <2> QED
    BY <2>1, <2>2, <2>3
<1>3. TypeOK'
  <2>1. /\ p_num_packets' \in [Check -> 0 .. PING_NUM_CHECKS]
        /\ m_transmitted' \in [Check -> 0 .. PING_NUM_CHECKS]
    <3>1. /\ p_num_packets[c] - 1 \in 0 .. PING_NUM_CHECKS
          /\ m_transmitted[c] + 1 \in 0 .. PING_NUM_CHECKS
      BY <1>1
    <3> QED
      BY <3>1 DEF TypeOK
  <2>2. pc' \in [Check -> {"free", "queued", "sending", "waiting", "resolving", "connecting",
                           "writing", "reading", "over"}]
    BY DEF TypeOK
  <2> QED
    BY <1>2, <2>1, <2>2 DEF TypeOK, socketVars, httpVars
<1>4. QueueInv'
  BY DEF QueueInv, TypeOK
<1>5. KindInv' /\ SocketInv'
  BY DEF KindInv, SocketInv, SocketsAreOwn, TypeOK, socketVars, PingPlace, HttpPlace, IdlePlace
<1>6. CountInv'
  <2>1. CountsKept(c)
    BY DEF TypeOK, CountsKept
  <2>2. /\ p_num_packets'[c] = p_num_packets[c] - 1 /\ m_transmitted'[c] = m_transmitted[c] + 1
        /\ m_received'[c] = m_received[c] /\ pc'[c] = "waiting"
    BY DEF TypeOK
  <2> QED
    BY <1>1, <2>1, <2>2 DEF CountInv, CountsKept, IdlePlace, PingPlace
<1>7. HeardInv' /\ RequestInv' /\ RequestIsWhole'
  BY DEF HeardInv, RequestInv, RequestIsWhole, TypeOK, httpVars
<1>8. DiesOnlyWithoutSocket'
  BY DEF DiesOnlyWithoutSocket, DividesByZero, TypeOK
<1> QED
  BY <1>3, <1>4, <1>5, <1>6, <1>7, <1>8

LEMMA ReadPacketInv ==
  ASSUME IInv, NEW c \in Check, ReadPacket(c), UNCHANGED <<httpVars, queue>>
  PROVE  IInv'
<1> USE DEF IInv, ReadPacket, Goto
<1>1. /\ p_num_packets[c] \in Nat /\ m_transmitted[c] \in Nat /\ m_received[c] \in Nat
      /\ p_num_packets[c] + m_transmitted[c] = PING_NUM_CHECKS
      /\ m_received[c] < m_transmitted[c]
  BY Counters DEF PingPlace
<1>2. inbox[c] \in Seq(Server \cup {Noise})
  BY DEF TypeOK
<1>3. Head(inbox[c]) \in Server \cup {Noise} /\ Tail(inbox[c]) \in Seq(Server \cup {Noise})
  BY <1>2
<1>4. /\ m_received'[c] \in m_received[c] .. m_received[c] + 1
      /\ m_received' \in [Check -> 0 .. PING_NUM_CHECKS]
  <2>1. m_received \in [Check -> 0 .. PING_NUM_CHECKS] /\ m_transmitted[c] \in 0 .. PING_NUM_CHECKS
    BY DEF TypeOK
  <2>2. PICK n \in {m_received[c], m_received[c] + 1} : m_received' = [m_received EXCEPT ![c] = n]
    OBVIOUS
  <2> HIDE DEF IInv, ReadPacket
  <2>3. n \in 0 .. PING_NUM_CHECKS /\ n \in m_received[c] .. m_received[c] + 1
    BY <1>1, <2>1
  <2> QED
    BY <2>1, <2>2, <2>3
<1>5. TypeOK'
  <2>1. m_received' \in [Check -> 0 .. PING_NUM_CHECKS]
    BY <1>4
  <2>2. inbox' \in [Check -> Seq(Server \cup {Noise})]
    BY <1>3 DEF TypeOK
  <2>3. heard' \in [Check -> SUBSET (Server \cup {Noise, Failed})]
    BY <1>3 DEF TypeOK
  <2> QED
    BY <2>1, <2>2, <2>3 DEF TypeOK, socketVars, httpVars
<1>6. QueueInv'
  BY DEF QueueInv, TypeOK
<1>7. KindInv' /\ SocketInv'
  BY DEF KindInv, SocketInv, SocketsAreOwn, TypeOK, socketVars, PingPlace, HttpPlace, IdlePlace
<1>8. CountInv'
  <2>1. CountsKept(c)
    BY DEF TypeOK, CountsKept
  <2>2. p_num_packets'[c] = p_num_packets[c] /\ m_transmitted'[c] = m_transmitted[c] /\ pc'[c] = "sending"
    BY DEF TypeOK
  <2> QED
    BY <1>1, <1>4, <2>1, <2>2 DEF CountInv, CountsKept, IdlePlace, PingPlace
<1>9. HeardInv'
  <2>1. m_received'[c] # m_received[c] => Head(inbox[c]) \in heard'[c] \ {Noise}
    BY <1>1 DEF TypeOK, Mine
  <2>2. heard[c] \subseteq heard'[c] /\ \A d \in Check : d # c => heard'[d] = heard[d]
    BY DEF TypeOK
  <2>3. \A d \in Check : d # c => m_received'[d] = m_received[d]
    BY DEF TypeOK
  <2> QED
    BY <1>1, <1>4, <2>1, <2>2, <2>3 DEF HeardInv, httpVars
<1>10. RequestInv' /\ RequestIsWhole' /\ DiesOnlyWithoutSocket'
  BY DEF RequestInv, RequestIsWhole, DiesOnlyWithoutSocket, DividesByZero, TypeOK, httpVars
<1> QED
  BY <1>5, <1>6, <1>7, <1>8, <1>9, <1>10

LEMMA ReadFailsInv ==
  ASSUME IInv, NEW c \in Check, ReadFails(c), UNCHANGED <<httpVars, queue>>
  PROVE  IInv'
<1> USE DEF IInv, ReadFails, Goto
<1>1. /\ p_num_packets[c] \in Nat /\ m_transmitted[c] \in Nat /\ m_received[c] \in Nat
      /\ p_num_packets[c] + m_transmitted[c] = PING_NUM_CHECKS
      /\ m_received[c] < m_transmitted[c]
  BY Counters DEF PingPlace
<1>2. m_received'[c] \in m_received[c] .. m_received[c] + 1 /\ m_received' \in [Check -> Nat]
  <2>1. PICK counted \in {0, 1} : m_received' = [m_received EXCEPT ![c] = @ + counted]
    OBVIOUS
  <2>2. m_received \in [Check -> Nat]
    <3>1. m_received \in [Check -> 0 .. PING_NUM_CHECKS]
      BY DEF TypeOK
    <3> QED
      BY <3>1
  <2> QED
    BY <1>1, <2>1, <2>2
<1>3. TypeOK'
  <2>1. m_received' \in [Check -> 0 .. PING_NUM_CHECKS]
    BY <1>1 DEF TypeOK
  <2>2. heard' \in [Check -> SUBSET (Server \cup {Noise, Failed})]
    BY DEF TypeOK
  <2> QED
    BY <2>1, <2>2 DEF TypeOK, socketVars, httpVars
<1>4. QueueInv'
  BY DEF QueueInv, TypeOK
<1>5. KindInv' /\ SocketInv'
  BY DEF KindInv, SocketInv, SocketsAreOwn, TypeOK, socketVars, PingPlace, HttpPlace, IdlePlace
<1>6. CountInv'
  <2>1. CountsKept(c)
    BY DEF TypeOK, CountsKept
  <2>2. p_num_packets'[c] = p_num_packets[c] /\ m_transmitted'[c] = m_transmitted[c] /\ pc'[c] = "sending"
    BY DEF TypeOK
  <2> QED
    BY <1>1, <1>2, <2>1, <2>2 DEF CountInv, CountsKept, IdlePlace, PingPlace
<1>7. HeardInv'
  <2>1. Failed \in heard'[c] \ {Noise} /\ \A d \in Check : d # c => heard'[d] = heard[d]
    BY DEF TypeOK
  <2>2. \A d \in Check : d # c => m_received'[d] = m_received[d]
    BY DEF TypeOK
  <2> QED
    BY <2>1, <2>2 DEF HeardInv, httpVars
<1>8. RequestInv' /\ RequestIsWhole' /\ DiesOnlyWithoutSocket'
  BY DEF RequestInv, RequestIsWhole, DiesOnlyWithoutSocket, DividesByZero, TypeOK, httpVars
<1> QED
  BY <1>3, <1>4, <1>5, <1>6, <1>7, <1>8

LEMMA TimeoutInv ==
  ASSUME IInv, NEW c \in Check, Timeout(c), UNCHANGED <<httpVars, queue>>
  PROVE  IInv'
<1> USE DEF IInv, Timeout, Goto
<1>1. /\ p_num_packets[c] \in Nat /\ m_transmitted[c] \in Nat /\ m_received[c] \in Nat
      /\ p_num_packets[c] + m_transmitted[c] = PING_NUM_CHECKS
      /\ m_received[c] < m_transmitted[c]
  BY Counters DEF PingPlace
<1>2. TypeOK'
  BY DEF TypeOK, socketVars, pingVars, httpVars
<1>3. QueueInv'
  BY DEF QueueInv, TypeOK
<1>4. KindInv' /\ SocketInv'
  BY DEF KindInv, SocketInv, SocketsAreOwn, TypeOK, socketVars, PingPlace, HttpPlace, IdlePlace
<1>5. CountInv'
  <2>1. CountsKept(c) /\ pc'[c] = "sending"
    BY DEF TypeOK, CountsKept, pingVars
  <2> QED
    BY <1>1, <2>1 DEF CountInv, CountsKept, IdlePlace, PingPlace, pingVars
<1>6. HeardInv' /\ RequestInv' /\ RequestIsWhole' /\ DiesOnlyWithoutSocket'
  BY DEF HeardInv, RequestInv, RequestIsWhole, DiesOnlyWithoutSocket, DividesByZero, TypeOK, pingVars, httpVars
<1> QED
  BY <1>2, <1>3, <1>4, <1>5, <1>6

\* close() and socket(), by a check that is where it may be.
LEMMA CloseSocketInv ==
  ASSUME TypeOK, SocketInv, NEW c \in Check, CloseSocket(c), NEW place, pc' = [pc EXCEPT ![c] = place]
  PROVE  /\ SocketInv' /\ m_sock' \in [Check -> Fd \cup {NoFd}] /\ owner' \in [Fd -> Check \cup {NoCheck}]
<1> USE DEF CloseSocket
<1>1. m_sock' \in [Check -> Fd \cup {NoFd}] /\ owner' \in [Fd -> Check \cup {NoCheck}]
  BY DEF TypeOK
<1>2. SocketsAreOwn'
  <2>0. NoFd \notin Fd /\ NoCheck \notin Check
    BY SocketsAssumption
  <2>1. m_sock'[c] = NoFd /\ \A d \in Check : d # c => m_sock'[d] = m_sock[d]
    BY DEF TypeOK
  <2>2. \A f \in Fd : owner'[f] = IF f = m_sock[c] THEN NoCheck ELSE owner[f]
    OBVIOUS
  <2>3. ASSUME NEW d \in Check, m_sock'[d] # NoFd PROVE owner'[m_sock'[d]] = d
    <3>1. d # c /\ m_sock'[d] = m_sock[d] /\ m_sock[d] \in Fd /\ owner[m_sock[d]] = d
      BY <2>1, <2>3 DEF TypeOK, SocketInv, SocketsAreOwn
    <3>2. m_sock[c] # m_sock[d]
      BY <2>0, <3>1 DEF SocketInv, SocketsAreOwn
    <3> QED
      BY <2>2, <3>1, <3>2
  <2>4. ASSUME NEW f \in Fd, owner'[f] # NoCheck PROVE m_sock'[owner'[f]] = f
    <3>1. f # m_sock[c] /\ owner'[f] = owner[f] /\ m_sock[owner[f]] = f /\ owner[f] \in Check
      BY <2>2, <2>4 DEF TypeOK, SocketInv, SocketsAreOwn
    <3> QED
      BY <2>1, <3>1
  <2> QED
    BY <2>3, <2>4 DEF SocketsAreOwn
<1>3. (\A d \in Check : pc[d] \in IdlePlace => m_sock[d] = NoFd)'
  BY DEF TypeOK, SocketInv
<1> QED
  BY <1>1, <1>2, <1>3 DEF SocketInv

LEMMA OpenSocketInv ==
  ASSUME TypeOK, SocketInv, NEW c \in Check, OpenSocket(c), m_sock[c] = NoFd,
         NEW place, place \notin IdlePlace, pc' = [pc EXCEPT ![c] = place]
  PROVE  /\ SocketInv' /\ m_sock' \in [Check -> Fd \cup {NoFd}] /\ owner' \in [Fd -> Check \cup {NoCheck}]
<1>1. PICK f \in Fd : /\ Free(f) /\ m_sock' = [m_sock EXCEPT ![c] = f]
                      /\ owner' = [owner EXCEPT ![f] = c]
  BY DEF OpenSocket
<1>2. m_sock' \in [Check -> Fd \cup {NoFd}] /\ owner' \in [Fd -> Check \cup {NoCheck}]
  BY <1>1 DEF TypeOK
<1>3. SocketsAreOwn'
  <2>1. m_sock'[c] = f /\ owner'[f] = c /\ f # NoFd /\ c # NoCheck
    BY <1>1 DEF TypeOK
  <2>2. \A d \in Check : d # c => m_sock'[d] = m_sock[d] /\ m_sock[d] # f
    BY <1>1 DEF TypeOK, SocketInv, SocketsAreOwn, Free
  <2>3. \A g \in Fd : g # f => owner'[g] = owner[g] /\ owner[g] # c
    BY <1>1 DEF TypeOK, SocketInv, SocketsAreOwn, Free
  <2>4. m_sock \in [Check -> Fd \cup {NoFd}] /\ owner \in [Fd -> Check \cup {NoCheck}] /\ SocketsAreOwn
    BY DEF TypeOK, SocketInv
  <2> QED
    BY <2>1, <2>2, <2>3, <2>4 DEF SocketsAreOwn
<1>4. (\A d \in Check : pc[d] \in IdlePlace => m_sock[d] = NoFd)'
  BY <1>1 DEF TypeOK, SocketInv
<1> QED
  BY <1>2, <1>3, <1>4 DEF SocketInv

LEMMA PingEndInv ==
  ASSUME IInv, NEW c \in Check, PingEnd(c), UNCHANGED <<httpVars, queue>>
  PROVE  IInv'
<1> USE DEF IInv, PingEnd, Goto
<1>1. m_transmitted[c] = PING_NUM_CHECKS
  BY Counters DEF PingPlace
<1>2. /\ SocketInv' /\ m_sock' \in [Check -> Fd \cup {NoFd}] /\ owner' \in [Fd -> Check \cup {NoCheck}]
  BY CloseSocketInv
<1>3. TypeOK'
  <2>1. inbox' \in [Check -> Seq(Server \cup {Noise})]
    BY DEF TypeOK
  <2> QED
    BY <1>2, <2>1 DEF TypeOK, httpVars
<1>4. QueueInv'
  BY DEF QueueInv, TypeOK
<1>5. KindInv' /\ CountInv'
  BY DEF KindInv, CountInv, TypeOK, PingPlace, HttpPlace, IdlePlace
<1>6. HeardInv' /\ RequestInv' /\ RequestIsWhole'
  BY DEF HeardInv, RequestInv, RequestIsWhole, TypeOK, httpVars
<1>7. DiesOnlyWithoutSocket'
  BY <1>1 DEF DiesOnlyWithoutSocket, DividesByZero, TypeOK
<1> QED
  BY <1>2, <1>3, <1>4, <1>5, <1>6, <1>7

LEMMA ArriveType ==
  ASSUME TypeOK, NEW p \in Server \cup {Noise}, Arrive(p)
  PROVE  inbox' \in [Check -> Seq(Server \cup {Noise})]
<1>1. ASSUME NEW c \in Check
      PROVE  inbox[c] \in Seq(Server \cup {Noise}) /\ Append(inbox[c], p) \in Seq(Server \cup {Noise})
  BY DEF TypeOK
<1> QED
  BY <1>1 DEF Arrive

LEMMA NetworkInv ==
  ASSUME IInv, Network, UNCHANGED <<httpVars, queue>>
  PROVE  IInv'
<1> USE DEF IInv
<1>1. inbox' \in [Check -> Seq(Server \cup {Noise})] /\ echoes' \in [Server -> 0 .. MaxEcho]
  <2>1. \A p \in Server \cup {Noise} : Arrive(p) => inbox' \in [Check -> Seq(Server \cup {Noise})]
    BY ArriveType
  <2>2. ASSUME NEW s \in Server, echoes[s] > 0, echoes' = [echoes EXCEPT ![s] = @ - 1]
        PROVE  echoes' \in [Server -> 0 .. MaxEcho]
    BY <2>2 DEF TypeOK
  <2>3. inbox \in [Check -> Seq(Server \cup {Noise})] /\ echoes \in [Server -> 0 .. MaxEcho]
    BY DEF TypeOK
  <2> QED
    BY <2>1, <2>2, <2>3 DEF Network
<1>2. TypeOK'
  BY <1>1 DEF Network, TypeOK, socketVars, httpVars
<1>3. QueueInv' /\ KindInv' /\ SocketInv' /\ CountInv'
  BY DEF Network, QueueInv, KindInv, SocketInv, SocketsAreOwn, CountInv, socketVars
<1>4. HeardInv' /\ RequestInv' /\ RequestIsWhole' /\ DiesOnlyWithoutSocket'
  BY DEF Network, HeardInv, RequestInv, RequestIsWhole, DiesOnlyWithoutSocket, DividesByZero, httpVars
<1> QED
  BY <1>2, <1>3, <1>4

LEMMA SocketReadyInv ==
  ASSUME IInv, NEW c \in Check, SocketReady(c), UNCHANGED <<pingVars, echoes, unsent, queue>>
  PROVE  IInv'
<1> USE DEF IInv, SocketReady
<1>1. TypeOK'
  BY DEF TypeOK, socketVars, pingVars
<1>2. QueueInv' /\ KindInv' /\ SocketInv' /\ CountInv'
  BY DEF QueueInv, KindInv, SocketInv, SocketsAreOwn, CountInv, socketVars, pingVars
<1>3. HeardInv' /\ RequestInv' /\ RequestIsWhole' /\ DiesOnlyWithoutSocket'
  BY DEF HeardInv, RequestInv, RequestIsWhole, DiesOnlyWithoutSocket, DividesByZero, pingVars
<1> QED
  BY <1>1, <1>2, <1>3

-----------------------------------------------------------------------------
(* HTTP *)

\* What the steps of an HTTP check leave to the parts about counters and names,
\* whatever place they lead to.
LEMMA HttpKeeps ==
  ASSUME IInv, NEW c \in Check, pc[c] \in HttpPlace,
         NEW place \in HttpPlace \cup {"over"}, pc' = [pc EXCEPT ![c] = place],
         UNCHANGED <<target, pingVars, echoes, unsent, queue>>
  PROVE  QueueInv' /\ KindInv' /\ CountInv' /\ DiesOnlyWithoutSocket'
<1> USE DEF IInv
<1>1. QueueInv'
  <2>1. \A i \in DOMAIN queue : queue[i] \in Check /\ queue[i] # c
    <3>1. queue \in Seq(Check)
      BY DEF TypeOK
    <3>2. pc[c] # "queued"
      BY DEF HttpPlace
    <3> QED
      BY <3>1, <3>2 DEF QueueInv
  <2>2. \A d \in Check : d # c => pc'[d] = pc[d]
    BY DEF TypeOK
  <2> QED
    BY <2>1, <2>2 DEF QueueInv
<1>2. KindInv' /\ CountInv'
  BY DEF KindInv, CountInv, TypeOK, PingPlace, HttpPlace, IdlePlace, pingVars
<1>3. mon_t[target[c]] = "http"
  BY DEF KindInv
<1>4. DiesOnlyWithoutSocket'
  BY <1>3 DEF DiesOnlyWithoutSocket, DividesByZero, TypeOK, pingVars
<1> QED
  BY <1>1, <1>2, <1>4

\* A step that keeps the sockets and what was heard.
LEMMA HttpSilent ==
  ASSUME IInv, NEW c \in Check, pc[c] \in HttpPlace,
         NEW place \in HttpPlace \cup {"over"}, pc' = [pc EXCEPT ![c] = place],
         UNCHANGED <<target, heard, socketVars, pingVars, echoes, unsent, response, queue>>
  PROVE  SocketInv' /\ HeardInv'
  BY DEF IInv, SocketInv, SocketsAreOwn, HeardInv, TypeOK, socketVars, pingVars, HttpPlace, IdlePlace

LEMMA ResolveInv ==
  ASSUME IInv, NEW c \in Check, Resolve(c), UNCHANGED <<pingVars, echoes, unsent, queue>>
  PROVE  IInv'
<1> USE DEF Resolve, Goto
<1>1. PICK place \in HttpPlace \cup {"over"} : place \notin {"writing", "reading"} /\ pc' = [pc EXCEPT ![c] = place]
  BY DEF HttpPlace
<1>2. pc[c] \in HttpPlace
  BY DEF HttpPlace
<1>3. QueueInv' /\ KindInv' /\ CountInv' /\ DiesOnlyWithoutSocket'
  BY <1>1, <1>2, HttpKeeps
<1>4. SocketInv' /\ HeardInv'
  BY <1>1, <1>2, HttpSilent
<1>5. TypeOK'
  BY <1>1 DEF IInv, TypeOK, HttpPlace, socketVars, pingVars
<1>6. RequestInv' /\ RequestIsWhole'
  BY <1>1 DEF IInv, TypeOK, RequestInv, RequestIsWhole
<1> QED
  BY <1>3, <1>4, <1>5, <1>6 DEF IInv

LEMMA ConnectInv ==
  ASSUME IInv, NEW c \in Check, Connect(c), UNCHANGED <<pingVars, echoes, unsent, queue>>
  PROVE  IInv'
<1> USE DEF Connect, Goto
<1>1. PICK place \in {"writing", "over"} : pc' = [pc EXCEPT ![c] = place]
  OBVIOUS
<1>2. pc[c] \in HttpPlace /\ place \in HttpPlace \cup {"over"}
  BY DEF HttpPlace
<1>3. QueueInv' /\ KindInv' /\ CountInv' /\ DiesOnlyWithoutSocket'
  BY <1>1, <1>2, HttpKeeps
<1>4. /\ SocketInv' /\ m_sock' \in [Check -> Fd \cup {NoFd}] /\ owner' \in [Fd -> Check \cup {NoCheck}]
  <2>1. CASE CloseSocket(c)
    BY <1>1, <2>1, CloseSocketInv DEF IInv
  <2>2. CASE UNCHANGED socketVars
    <3>1. SocketInv'
      BY <1>1, <2>2 DEF IInv, TypeOK, SocketInv, SocketsAreOwn, socketVars, IdlePlace
    <3> QED
      BY <2>2, <3>1 DEF IInv, TypeOK, socketVars
  <2> QED
    BY <2>1, <2>2
<1>5. HeardInv'
  BY DEF IInv, HeardInv, pingVars
<1>6. TypeOK'
  BY <1>1, <1>4 DEF IInv, TypeOK, pingVars
<1>7. RequestInv' /\ RequestIsWhole'
  BY <1>1 DEF IInv, TypeOK, RequestInv, RequestIsWhole
<1> QED
  BY <1>3, <1>4, <1>5, <1>6, <1>7 DEF IInv

\* What an iteration of send_bytes does, when the bytes before p went out.
LEMMA NextAttemptInv ==
  ASSUME TypeOK, RequestInv, RequestIsWhole, NEW c \in Check, pc[c] = "writing",
         NEW p \in Int, NextAttempt(c, p) \/ SendEnds(c, "over"),
         sent' \in [Check -> SUBSET Int],
         \A d \in Check : sent[d] \subseteq sent'[d], 0 .. p - 1 \subseteq sent'[c]
  PROVE  /\ \E place \in {"writing", "reading", "over"} : pc' = [pc EXCEPT ![c] = place]
         /\ p_packet' \in [Check -> Int] /\ send_attempts' \in [Check -> 1 .. SEND_ATTEMPTS]
         /\ RequestInv' /\ RequestIsWhole'
<1>1. PICK place \in {"writing", "reading", "over"}, q \in Int, n \in 1 .. SEND_ATTEMPTS :
        /\ pc' = [pc EXCEPT ![c] = place]
        /\ p_packet' = [p_packet EXCEPT ![c] = q]
        /\ send_attempts' = [send_attempts EXCEPT ![c] = n]
        /\ place = "writing" => q = p
        /\ place # "writing" => q = 0
        /\ place = "reading" => p = LENGTH
  <2>1. pc = [pc EXCEPT ![c] = "writing"] /\ send_attempts[c] \in 1 .. SEND_ATTEMPTS
    BY DEF TypeOK
  <2>2. ASSUME NEW place \in {"reading", "over"}, SendEnds(c, place)
        PROVE  /\ pc' = [pc EXCEPT ![c] = place]
               /\ p_packet' = [p_packet EXCEPT ![c] = 0]
               /\ send_attempts' = [send_attempts EXCEPT ![c] = SEND_ATTEMPTS]
    BY <2>2 DEF SendEnds, Goto
  <2>3. 0 \in Int /\ SEND_ATTEMPTS \in 1 .. SEND_ATTEMPTS
    OBVIOUS
  <2>4. CASE /\ send_attempts[c] > 1 /\ p_packet' = [p_packet EXCEPT ![c] = p]
             /\ send_attempts' = [send_attempts EXCEPT ![c] = @ - 1] /\ UNCHANGED pc
    <3>1. send_attempts[c] - 1 \in 1 .. SEND_ATTEMPTS
      BY <2>1, <2>4
    <3> QED
      BY <2>1, <2>4, <3>1
  <2>5. CASE p = LENGTH /\ SendEnds(c, "reading")
    BY <2>2, <2>3, <2>5
  <2>6. CASE SendEnds(c, "over")
    BY <2>2, <2>3, <2>6
  <2> QED
    BY <2>4, <2>5, <2>6 DEF NextAttempt
<1>2. p_packet' \in [Check -> Int] /\ send_attempts' \in [Check -> 1 .. SEND_ATTEMPTS]
  BY <1>1 DEF TypeOK
<1>3. /\ p_packet'[c] = q /\ pc'[c] = place
      /\ \A d \in Check : d # c => p_packet'[d] = p_packet[d] /\ pc'[d] = pc[d]
  BY <1>1 DEF TypeOK
<1>4. RequestInv'
  <2>1. 0 .. q - 1 \subseteq sent'[c]
    BY <1>1
  <2> QED
    BY <1>1, <1>3, <2>1 DEF RequestInv
<1>5. RequestIsWhole'
  BY <1>1, <1>3 DEF RequestIsWhole
<1> QED
  BY <1>1, <1>2, <1>4, <1>5

LEMMA SendBytesInv ==
  ASSUME IInv, NEW c \in Check, SendBytes(c), UNCHANGED <<pingVars, echoes, unsent, queue>>
  PROVE  IInv'
<1>1. PICK p \in p_packet[c] + 1 .. LENGTH :
        NextAttempt(c, p) /\ sent' = [sent EXCEPT ![c] = @ \cup (p_packet[c] .. p - 1)]
  BY DEF SendBytes
<1>2. p_packet[c] \in Int /\ p \in Int /\ p_packet[c] < p /\ sent[c] \subseteq Int
  BY <1>1 DEF IInv, TypeOK
<1>3. /\ sent' \in [Check -> SUBSET Int] /\ \A d \in Check : sent[d] \subseteq sent'[d]
  BY <1>1, <1>2 DEF IInv, TypeOK
<1>4. 0 .. p - 1 \subseteq sent'[c]
  <2>1. 0 .. p_packet[c] - 1 \subseteq sent[c]
    BY DEF IInv, RequestInv
  <2>2. sent'[c] = sent[c] \cup (p_packet[c] .. p - 1)
    BY <1>1 DEF IInv, TypeOK
  <2> QED
    BY <1>2, <2>1, <2>2
<1>5. /\ \E place \in {"writing", "reading", "over"} : pc' = [pc EXCEPT ![c] = place]
      /\ p_packet' \in [Check -> Int] /\ send_attempts' \in [Check -> 1 .. SEND_ATTEMPTS]
      /\ RequestInv' /\ RequestIsWhole'
  BY <1>1, <1>2, <1>3, <1>4, NextAttemptInv DEF SendBytes, IInv
<1>6. PICK place \in {"writing", "reading", "over"} : pc' = [pc EXCEPT ![c] = place]
  BY <1>5
<1>7. pc[c] \in HttpPlace /\ place \in HttpPlace \cup {"over"}
  BY DEF SendBytes, HttpPlace
<1>8. QueueInv' /\ KindInv' /\ CountInv' /\ DiesOnlyWithoutSocket' /\ SocketInv' /\ HeardInv'
  BY <1>6, <1>7, HttpKeeps, HttpSilent DEF SendBytes
<1>9. TypeOK'
  BY <1>3, <1>5, <1>6 DEF IInv, TypeOK, SendBytes, socketVars, pingVars
<1> QED
  BY <1>5, <1>8, <1>9 DEF IInv

LEMMA SendBytesFailsInv ==
  ASSUME IInv, NEW c \in Check, SendBytesFails(c), UNCHANGED <<pingVars, echoes, unsent, queue>>
  PROVE  IInv'
<1>1. p_packet[c] \in Int /\ p_packet[c] - 1 \in Int
  BY DEF IInv, TypeOK
<1>2. sent' \in [Check -> SUBSET Int] /\ \A d \in Check : sent[d] \subseteq sent'[d]
  BY DEF SendBytesFails, IInv, TypeOK
<1>3. 0 .. (p_packet[c] - 1) - 1 \subseteq sent'[c]
  <2>1. 0 .. p_packet[c] - 1 \subseteq sent[c] /\ sent' = sent
    BY DEF IInv, RequestInv, SendBytesFails
  <2> QED
    BY <1>1, <2>1
<1>4. /\ \E place \in {"writing", "reading", "over"} : pc' = [pc EXCEPT ![c] = place]
      /\ p_packet' \in [Check -> Int] /\ send_attempts' \in [Check -> 1 .. SEND_ATTEMPTS]
      /\ RequestInv' /\ RequestIsWhole'
  BY <1>1, <1>2, <1>3, NextAttemptInv DEF SendBytesFails, IInv
<1>5. PICK place \in {"writing", "reading", "over"} : pc' = [pc EXCEPT ![c] = place]
  BY <1>4
<1>6. pc[c] \in HttpPlace /\ place \in HttpPlace \cup {"over"}
  BY DEF SendBytesFails, HttpPlace
<1>7. QueueInv' /\ KindInv' /\ CountInv' /\ DiesOnlyWithoutSocket' /\ SocketInv' /\ HeardInv'
  BY <1>5, <1>6, HttpKeeps, HttpSilent DEF SendBytesFails
<1>8. TypeOK'
  BY <1>2, <1>4, <1>5 DEF IInv, TypeOK, SendBytesFails, socketVars, pingVars
<1> QED
  BY <1>4, <1>7, <1>8 DEF IInv

LEMMA ResponseEndsInv ==
  ASSUME IInv, NEW c \in Check, ResponseEnds(c), UNCHANGED <<pingVars, echoes, unsent, queue>>
  PROVE  IInv'
<1> USE DEF ResponseEnds, Goto
<1>1. pc[c] \in HttpPlace /\ "over" \in HttpPlace \cup {"over"}
  BY DEF HttpPlace
<1>2. QueueInv' /\ KindInv' /\ CountInv' /\ DiesOnlyWithoutSocket' /\ SocketInv' /\ HeardInv'
  BY <1>1, HttpKeeps, HttpSilent DEF httpVars
<1>3. TypeOK'
  BY DEF IInv, TypeOK, socketVars, pingVars, httpVars
<1>4. RequestInv' /\ RequestIsWhole'
  BY DEF IInv, TypeOK, RequestInv, RequestIsWhole, httpVars
<1> QED
  BY <1>2, <1>3, <1>4 DEF IInv

\* Receive and ReceiveFails: something that is not Noise is noted.
LEMMA ReceiveInv ==
  ASSUME IInv, NEW c \in Check, Receive(c) \/ ReceiveFails(c),
         UNCHANGED <<pingVars, echoes, unsent, queue>>
  PROVE  IInv'
<1>1. /\ response' = [response EXCEPT ![c] = TRUE] /\ read_fds' = [read_fds EXCEPT ![c] = FALSE]
      /\ UNCHANGED <<pc, target, socketVars, hostent, peer, p_packet, send_attempts, sent>>
  BY DEF Receive, ReceiveFails, Received, Received
<1>2. PICK x \in Server \cup {Failed} : heard' = [heard EXCEPT ![c] = @ \cup {x}]
  BY DEF Receive, ReceiveFails, Received, Received
<1>3. TypeOK'
  BY <1>1, <1>2 DEF IInv, TypeOK, socketVars, pingVars
<1>4. HeardInv'
  <2>1. x \in heard'[c] \ {Noise} /\ \A d \in Check : d # c => heard'[d] = heard[d]
    BY <1>2 DEF IInv, TypeOK
  <2>2. \A d \in Check : d # c => response'[d] = response[d]
    BY <1>1 DEF IInv, TypeOK
  <2> QED
    BY <2>1, <2>2 DEF IInv, HeardInv, pingVars
<1>5. QueueInv' /\ KindInv' /\ SocketInv' /\ CountInv'
  BY <1>1 DEF IInv, QueueInv, KindInv, SocketInv, SocketsAreOwn, CountInv, socketVars, pingVars
<1>6. RequestInv' /\ RequestIsWhole' /\ DiesOnlyWithoutSocket'
  BY <1>1 DEF IInv, RequestInv, RequestIsWhole, DiesOnlyWithoutSocket, DividesByZero, pingVars
<1> QED
  BY <1>3, <1>4, <1>5, <1>6 DEF IInv

-----------------------------------------------------------------------------
(* The queue, the results and the process *)

LEMMA StartCheckInv ==
  ASSUME IInv, NEW c \in Check, NEW s \in Server, StartCheck(c, s)
  PROVE  IInv'
<1> USE DEF IInv, StartCheck, Goto
<1>1. TypeOK'
  <2>1. /\ pc' \in [Check -> {"free", "queued", "sending", "waiting", "resolving", "connecting",
                              "writing", "reading", "over"}]
        /\ target' \in [Check -> Server \cup {NoServer}]
    BY DEF TypeOK
  <2>2. queue' \in Seq(Check)
    BY DEF TypeOK
  <2> QED
    BY <2>1, <2>2 DEF TypeOK, socketVars, pingVars, httpVars
<1>2. QueueInv'
  <2>1. queue \in Seq(Check) /\ pc[c] = "free" /\ pc'[c] = "queued"
    BY DEF TypeOK
  <2>2. \A i \in DOMAIN queue : queue[i] # c /\ pc'[queue[i]] = "queued"
    BY <2>1 DEF QueueInv, TypeOK
  <2>3. /\ DOMAIN queue' = 1 .. Len(queue) + 1 /\ DOMAIN queue = 1 .. Len(queue) /\ Len(queue) \in Nat
        /\ queue'[Len(queue) + 1] = c /\ \A i \in DOMAIN queue : queue'[i] = queue[i]
    BY <2>1
  <2> QED
    BY <2>1, <2>2, <2>3 DEF QueueInv
<1>3. KindInv' /\ SocketInv' /\ CountInv'
  BY DEF KindInv, SocketInv, SocketsAreOwn, CountInv, TypeOK, socketVars, pingVars, PingPlace, HttpPlace, IdlePlace
<1>4. HeardInv' /\ RequestInv' /\ RequestIsWhole'
  BY DEF HeardInv, RequestInv, RequestIsWhole, TypeOK, pingVars, httpVars
<1>5. DiesOnlyWithoutSocket'
  BY DEF DiesOnlyWithoutSocket, DividesByZero, TypeOK, pingVars
<1> QED
  BY <1>1, <1>2, <1>3, <1>4, <1>5

LEMMA FinishInv ==
  ASSUME IInv, NEW c \in Check, Finish(c)
  PROVE  IInv'
<1> USE DEF IInv, Finish, Goto
<1>1. /\ SocketInv' /\ m_sock' \in [Check -> Fd \cup {NoFd}] /\ owner' \in [Fd -> Check \cup {NoCheck}]
  BY CloseSocketInv
<1>2. TypeOK'
  <2>1. /\ pc' \in [Check -> {"free", "queued", "sending", "waiting", "resolving", "connecting",
                              "writing", "reading", "over"}]
        /\ target' \in [Check -> Server \cup {NoServer}] /\ peer' \in [Check -> Server \cup {NoServer}]
    BY DEF TypeOK
  <2>2. /\ heard' \in [Check -> SUBSET (Server \cup {Noise, Failed})]
        /\ response' \in [Check -> BOOLEAN] /\ sent' \in [Check -> SUBSET Int]
    BY DEF TypeOK
  <2>3. 0 \in 0 .. PING_NUM_CHECKS /\ PING_NUM_CHECKS \in 0 .. PING_NUM_CHECKS
    OBVIOUS
  <2>4. /\ p_num_packets' \in [Check -> 0 .. PING_NUM_CHECKS]
        /\ m_transmitted' \in [Check -> 0 .. PING_NUM_CHECKS]
        /\ m_received' \in [Check -> 0 .. PING_NUM_CHECKS]
    BY <2>3 DEF TypeOK
  <2> QED
    BY <1>1, <2>1, <2>2, <2>4 DEF TypeOK
<1>3. QueueInv' /\ KindInv'
  BY DEF QueueInv, KindInv, TypeOK, PingPlace, HttpPlace
<1>4. CountInv'
  <2>1. CountsKept(c)
    BY DEF TypeOK, CountsKept
  <2>2. /\ p_num_packets'[c] = PING_NUM_CHECKS /\ m_transmitted'[c] = 0 /\ m_received'[c] = 0
        /\ pc'[c] = "free"
    BY DEF TypeOK
  <2> QED
    BY <2>1, <2>2 DEF CountInv, CountsKept
<1>5. HeardInv'
  <2>1. m_received'[c] = 0 /\ response'[c] = FALSE
    BY DEF TypeOK
  <2>2. ASSUME NEW d \in Check, d # c
        PROVE  m_received'[d] = m_received[d] /\ response'[d] = response[d] /\ heard'[d] = heard[d]
    BY <2>2 DEF TypeOK
  <2> QED
    BY <2>1, <2>2 DEF HeardInv
<1>6. RequestInv' /\ RequestIsWhole'
  <2>1. p_packet[c] = 0 /\ p_packet' = p_packet /\ 0 .. 0 - 1 = {} /\ pc'[c] = "free"
    BY DEF RequestInv, TypeOK
  <2>2. ASSUME NEW d \in Check, d # c
        PROVE  sent'[d] = sent[d] /\ pc'[d] = pc[d]
    BY <2>2 DEF TypeOK
  <2> QED
    BY <2>1, <2>2 DEF RequestInv, RequestIsWhole
<1>7. DiesOnlyWithoutSocket'
  BY DEF DiesOnlyWithoutSocket, DividesByZero, TypeOK
<1> QED
  BY <1>1, <1>2, <1>3, <1>4, <1>5, <1>6, <1>7

LEMMA DieInv == IInv /\ Die => IInv'
<1> SUFFICES ASSUME IInv, Die PROVE IInv'
  OBVIOUS
<1> USE DEF IInv, Die
<1>1. TypeOK'
  BY DEF TypeOK
<1>2. QueueInv' /\ KindInv' /\ CountInv' /\ HeardInv' /\ RequestInv'
  BY DEF QueueInv, KindInv, CountInv, HeardInv, RequestInv, PingPlace, HttpPlace, IdlePlace
<1>3. SocketInv' /\ RequestIsWhole' /\ DiesOnlyWithoutSocket'
  BY DEF SocketInv, SocketsAreOwn, RequestIsWhole, DiesOnlyWithoutSocket
<1> QED
  BY <1>1, <1>2, <1>3

LEMMA BeginInv == IInv /\ Begin => IInv'
<1> SUFFICES ASSUME IInv, Begin PROVE IInv'
  OBVIOUS
<1> DEFINE c == Head(queue)
<1> USE DEF IInv
<1>1. /\ queue \in Seq(Check) /\ queue # << >> /\ queue' = Tail(queue)
      /\ DOMAIN queue = 1 .. Len(queue) /\ Len(queue) \in Nat /\ 1 \in DOMAIN queue
      /\ c = queue[1] /\ c \in Check
  <2>1. queue \in Seq(Check)
    BY DEF TypeOK
  <2>2. queue # << >> /\ queue' = Tail(queue)
    BY DEF Begin
  <2>3. DOMAIN queue = 1 .. Len(queue) /\ Len(queue) \in Nat /\ 1 \in DOMAIN queue
    BY <2>1, <2>2
  <2>4. c = queue[1] /\ c \in Check
    BY <2>1, <2>2
  <2> QED
    BY <2>1, <2>2, <2>3, <2>4
<1>2. pc[c] = "queued" /\ m_sock[c] = NoFd /\ target[c] \in Server
  BY <1>1 DEF QueueInv, SocketInv, KindInv, IdlePlace
<1>3. PICK place \in {"sending", "resolving", "over"} :
        /\ pc' = [pc EXCEPT ![c] = place]
        /\ \/ OpenSocket(c) /\ place # "over"
           \/ UNCHANGED socketVars /\ place = "over"
  BY DEF Begin, PingBegin, HttpBegin, Goto
<1>4. /\ UNCHANGED <<target, pingVars, echoes, heard, httpVars>> /\ unsent \subseteq unsent' /\ unsent' \subseteq Check
      /\ place = "sending" => mon_t[target[c]] = "ping"
      /\ place = "resolving" => mon_t[target[c]] = "http"
      /\ place = "over" => mon_t[target[c]] = "http" \/ c \in unsent'
  <2>1. unsent \subseteq Check /\ pc'[c] = place /\ mon_t[target[c]] \in {"ping", "http"}
    BY <1>1, <1>2, <1>3 DEF TypeOK
  <2>2. CASE mon_t[target[c]] = "ping"
    <3>1. PingBegin(c) /\ UNCHANGED httpVars
      BY <2>2 DEF Begin
    <3>2. place \in {"sending", "over"} /\ (place = "over" => unsent' = unsent \cup {c})
      BY <1>1, <1>3, <2>1, <3>1 DEF PingBegin, Goto, TypeOK
    <3>3. unsent' \in {unsent, unsent \cup {c}} /\ UNCHANGED <<target, pingVars, echoes, heard>>
      BY <3>1 DEF PingBegin
    <3> QED
      BY <1>1, <2>1, <2>2, <3>1, <3>2, <3>3
  <2>3. CASE mon_t[target[c]] = "http"
    <3>1. HttpBegin(c) /\ UNCHANGED <<pingVars, echoes, unsent>>
      BY <2>3 DEF Begin
    <3>2. place \in {"resolving", "over"}
      BY <1>1, <1>3, <2>1, <3>1 DEF HttpBegin, Goto, TypeOK
    <3> QED
      BY <2>1, <2>3, <3>1, <3>2 DEF HttpBegin
  <2> QED
    BY <2>1, <2>2, <2>3
<1>5. /\ SocketInv' /\ m_sock' \in [Check -> Fd \cup {NoFd}] /\ owner' \in [Fd -> Check \cup {NoCheck}]
  <2>1. CASE OpenSocket(c) /\ place # "over"
    <3>1. place \notin IdlePlace
      BY DEF IdlePlace
    <3> QED
      BY <1>1, <1>2, <1>3, <2>1, <3>1, OpenSocketInv
  <2>2. CASE UNCHANGED socketVars /\ place = "over"
    <3>1. SocketInv'
      BY <1>1, <1>3, <2>2 DEF TypeOK, SocketInv, SocketsAreOwn, socketVars, IdlePlace
    <3> QED
      BY <2>2, <3>1 DEF TypeOK, socketVars
  <2> QED
    BY <1>3, <2>1, <2>2
<1>6. TypeOK'
  <2>1. Tail(queue) \in Seq(Check)
    BY <1>1
  <2> QED
    BY <1>1, <1>3, <1>4, <1>5, <2>1 DEF TypeOK, pingVars, httpVars
<1>7. QueueInv'
  <2>1. /\ DOMAIN queue' = 1 .. Len(queue) - 1
        /\ \A i \in DOMAIN queue' : queue'[i] = queue[i + 1] /\ i + 1 \in DOMAIN queue /\ i + 1 # 1
    BY <1>1
  <2>2. \A i \in DOMAIN queue' : queue'[i] # c /\ queue'[i] \in Check /\ pc[queue'[i]] = "queued"
    BY <1>1, <2>1 DEF QueueInv
  <2>3. \A i \in DOMAIN queue' : pc'[queue'[i]] = "queued"
    BY <1>1, <1>3, <2>2 DEF TypeOK
  <2>4. \A i, j \in DOMAIN queue' : queue'[i] = queue'[j] => i = j
    BY <1>1, <2>1 DEF QueueInv
  <2> QED
    BY <2>3, <2>4 DEF QueueInv
<1>8. KindInv'
  BY <1>1, <1>2, <1>3, <1>4 DEF KindInv, TypeOK, PingPlace, HttpPlace
<1>9. CountInv'
  BY <1>1, <1>2, <1>3, <1>4 DEF CountInv, TypeOK, PingPlace, IdlePlace, pingVars
<1>10. HeardInv' /\ RequestInv' /\ RequestIsWhole'
  BY <1>1, <1>2, <1>3, <1>4 DEF HeardInv, RequestInv, RequestIsWhole, TypeOK, pingVars, httpVars
<1>11. DiesOnlyWithoutSocket'
  BY <1>1, <1>2, <1>3, <1>4 DEF DiesOnlyWithoutSocket, DividesByZero, TypeOK, pingVars
<1> QED
  BY <1>5, <1>6, <1>7, <1>8, <1>9, <1>10, <1>11

LEMMA NextInv == IInv /\ [Next]_vars => IInv'
<1> SUFFICES ASSUME IInv, [Next]_vars PROVE IInv'
  OBVIOUS
<1>1. CASE Begin
  BY <1>1, BeginInv
<1>2. CASE Packets
  BY <1>2, NetworkInv, SocketReadyInv DEF Packets
<1>3. CASE Die
  BY <1>3, DieInv
<1>4. ASSUME NEW c \in Check, Ping(c) PROVE IInv'
  BY <1>4, SendFailsInv, SendPingInv, ReadPacketInv, ReadFailsInv, TimeoutInv, PingEndInv
    DEF Ping, PingStep, PingOwed
<1>5. ASSUME NEW c \in Check, Http(c) PROVE IInv'
  BY <1>5, ResolveInv, ConnectInv, SendBytesInv, SendBytesFailsInv, ResponseEndsInv, ReceiveInv
    DEF Http, HttpStep
<1>6. ASSUME NEW c \in Check, Finish(c) PROVE IInv'
  BY <1>6, FinishInv
<1>7. ASSUME NEW c \in Check, NEW s \in Server, StartCheck(c, s) PROVE IInv'
  BY <1>7, StartCheckInv
<1>8. CASE UNCHANGED vars
  BY <1>8 DEF vars, IInv, TypeOK, QueueInv, KindInv, SocketInv, SocketsAreOwn, CountInv, HeardInv,
    RequestInv, RequestIsWhole, DiesOnlyWithoutSocket, DividesByZero, socketVars, pingVars, httpVars
<1> QED
  BY <1>1, <1>2, <1>3, <1>4, <1>5, <1>6, <1>7, <1>8 DEF Next

\* The inductive invariant holds in every reachable state.
THEOREM Invariant == Spec => []IInv
  BY InitInv, NextInv, PTL DEF Spec

\* Type correctness: for one, send_bytes calls send at most SEND_ATTEMPTS times.
THEOREM TypeCorrect == Spec => []TypeOK
  BY Invariant, PTL DEF IInv

\* No check closes or reads a descriptor that a later check was given under the
\* same number, and none is lost (http_checker.cpp:208, ping.cpp:90).
THEOREM OwnSockets == Spec => []SocketsAreOwn
<1>1. IInv => SocketsAreOwn
  BY DEF IInv, SocketInv
<1> QED
  BY <1>1, Invariant, PTL

\* The whole request is out before a response is read, whatever send returned
\* (http_checker.cpp:277-283).
THEOREM WholeRequest == Spec => []RequestIsWhole
  BY Invariant, PTL DEF IInv

\* Only a check without a socket divides by zero (ping.cpp:97).
THEOREM DeathNeedsNoSocket == Spec => []DiesOnlyWithoutSocket
  BY Invariant, PTL DEF IInv

\* A server is found up only after a packet or a response of some server, or a
\* receive that failed (ping.cpp:146, http_checker.cpp:24).
THEOREM AnswerNeeded == Spec => []UpNeedsAnAnswer
<1>1. IInv => UpNeedsAnAnswer
  BY DEF IInv, TypeOK, HeardInv, UpNeedsAnAnswer, Up
<1> QED
  BY <1>1, Invariant, PTL

-----------------------------------------------------------------------------
(* A prompt reply *)

\* What keeps a reply due: the check and its waits as they were, and no packet
\* of its inbox moved.
LEMMA StillDue ==
  ASSUME NEW c \in Check, Due(c), pc'[c] = pc[c], p_num_packets'[c] = p_num_packets[c],
         DOMAIN inbox[c] \subseteq DOMAIN inbox'[c],
         \A i \in DOMAIN inbox[c] : inbox'[c][i] = inbox[c][i]
  PROVE  Due(c)'
  BY DEF Due, Pinging, WaitsLeft

LEMMA SendKeepsDue ==
  ASSUME TypeOK, NEW c \in Check, Due(c), SendPing(c)
  PROVE  Due(c)'
<1>1. /\ pc'[c] = "waiting" /\ p_num_packets'[c] = p_num_packets[c] - 1 /\ inbox'[c] = inbox[c]
      /\ pc[c] = "sending" /\ p_num_packets[c] \in Int
  BY DEF SendPing, Goto, TypeOK
<1>2. WaitsLeft(c)' = WaitsLeft(c)
  BY <1>1 DEF WaitsLeft
<1> QED
  BY <1>1, <1>2 DEF Due, Pinging

\* The packet read is a reply, or the reply moves up by one as a wait is spent.
LEMMA ReadKeepsDue ==
  ASSUME IInv, NEW c \in Check, Due(c), ReadPacket(c)
  PROVE  Due(c)' \/ m_received'[c] > m_received[c]
<1>1. PICK i \in DOMAIN inbox[c] : Mine(inbox[c][i]) /\ i <= WaitsLeft(c)
  BY DEF Due
<1>2. inbox[c] \in Seq(Server \cup {Noise}) /\ m_received[c] \in Int /\ p_num_packets[c] \in Int
  BY DEF IInv, TypeOK
<1>3. /\ pc[c] = "waiting" /\ pc'[c] = "sending" /\ p_num_packets'[c] = p_num_packets[c]
      /\ inbox'[c] = Tail(inbox[c])
      /\ m_received'[c] = IF Mine(Head(inbox[c])) THEN m_received[c] + 1 ELSE m_received[c]
  BY DEF IInv, TypeOK, ReadPacket, Goto
<1>4. CASE i = 1
  BY <1>1, <1>2, <1>3, <1>4
<1>5. CASE i # 1
  <2>1. i - 1 \in DOMAIN inbox'[c] /\ inbox'[c][i - 1] = inbox[c][i]
    BY <1>2, <1>3, <1>5
  <2>2. WaitsLeft(c)' = WaitsLeft(c) - 1 /\ WaitsLeft(c) \in Int /\ i \in Int
    BY <1>2, <1>3 DEF WaitsLeft
  <2>3. i - 1 <= WaitsLeft(c)'
    BY <1>1, <2>2
  <2> QED
    BY <1>1, <1>3, <2>1, <2>3 DEF Due, Pinging, Mine
<1> QED
  BY <1>4, <1>5

\* The wait does not end by the clock, nor ping() by the count, while it is due.
LEMMA DueIsAwaited ==
  ASSUME TypeOK, NEW c \in Check, Due(c)
  PROVE  ~ Timeout(c) /\ ~ PingEnd(c)
<1>1. PICK i \in DOMAIN inbox[c] : i <= WaitsLeft(c)
  BY DEF Due
<1>2. inbox[c] \in Seq(Server \cup {Noise}) /\ p_num_packets[c] \in Int
  BY DEF TypeOK
<1>3. i >= 1 /\ i \in Int
  BY <1>2
<1> QED
  BY <1>1, <1>2, <1>3 DEF Timeout, PingEnd, WaitsLeft

LEMMA ArriveKeepsDue ==
  ASSUME TypeOK, NEW c \in Check, Due(c), Packets
  PROVE  Due(c)'
<1>1. /\ pc'[c] = pc[c] /\ p_num_packets'[c] = p_num_packets[c]
      /\ inbox'[c] = inbox[c] \/ \E p : inbox'[c] = Append(inbox[c], p)
  BY DEF Packets, Network, Arrive, SocketReady, pingVars
<1>2. inbox[c] \in Seq(Server \cup {Noise})
  BY DEF TypeOK
<1>3. DOMAIN inbox[c] \subseteq DOMAIN inbox'[c] /\ \A i \in DOMAIN inbox[c] : inbox'[c][i] = inbox[c][i]
  BY <1>1, <1>2
<1> QED
  BY <1>1, <1>3, StillDue

\* A reply that is in the socket early enough is counted, whatever packets come
\* before it (ping.cpp:55-87).
THEOREM PromptReply == Spec => PromptReplyIsHeard
<1>1. ASSUME IInv, [Next]_vars, NEW c \in Check, Due(c), ~ SendFails(c), ~ ReadFails(c)
      PROVE  Due(c)' \/ m_received'[c] > m_received[c] \/ pc'[c] = "free"
  <2> USE DEF IInv
  <2>0. pc[c] \in PingPlace
    BY <1>1 DEF Due, Pinging, PingPlace
  <2>1. ASSUME /\ pc'[c] = pc[c] /\ p_num_packets'[c] = p_num_packets[c] /\ inbox'[c] = inbox[c]
        PROVE  Due(c)'
    BY <1>1, <2>1, StillDue
  <2>2. CASE Begin
    <3>1. queue # << >> /\ Head(queue) = queue[1] /\ 1 \in DOMAIN queue /\ Head(queue) \in Check
      BY <1>1, <2>2 DEF Begin, TypeOK
    <3>2. Head(queue) # c
      BY <1>1, <2>0, <3>1 DEF QueueInv, PingPlace
    <3>3. PICK place : pc' = [pc EXCEPT ![Head(queue)] = place]
      BY <2>2 DEF Begin, PingBegin, HttpBegin, Goto
    <3>4. p_num_packets' = p_num_packets /\ inbox' = inbox
      BY <2>2 DEF Begin, PingBegin, pingVars
    <3> QED
      BY <1>1, <2>1, <3>1, <3>2, <3>3, <3>4 DEF TypeOK
  <2>3. CASE Packets
    BY <1>1, <2>3, ArriveKeepsDue
  <2>4. CASE Die
    BY <2>4 DEF Die
  <2>5. ASSUME NEW d \in Check, Ping(d), d # c PROVE Due(c)'
    <3>1. pc'[c] = pc[c] /\ p_num_packets'[c] = p_num_packets[c] /\ inbox'[c] = inbox[c]
      BY <1>1, <2>5 DEF Ping, PingStep, PingOwed, SendFails, SendPing, ReadPacket, ReadFails, Timeout,
        PingEnd, Goto, pingVars, TypeOK
    <3> QED
      BY <2>1, <3>1
  <2>6. CASE Ping(c)
    BY <1>1, <2>6, SendKeepsDue, ReadKeepsDue, DueIsAwaited DEF Ping, PingStep, PingOwed
  <2>7. ASSUME NEW d \in Check, Http(d) PROVE Due(c)'
    <3>1. pc[d] \in HttpPlace /\ d # c
      BY <2>0, <2>7 DEF Http, HttpStep, Resolve, Connect, SendBytes, SendBytesFails, ResponseEnds,
        Receive, ReceiveFails, Received, HttpPlace, PingPlace
    <3>2. pc'[c] = pc[c]
      <4>1. pc' = pc \/ \E place : pc' = [pc EXCEPT ![d] = place]
        BY <2>7 DEF Http, HttpStep, Resolve, Connect, SendBytes, SendBytesFails, NextAttempt, SendEnds,
          ResponseEnds, Receive, ReceiveFails, Received, Goto
      <4> QED
        BY <1>1, <3>1, <4>1 DEF TypeOK
    <3> QED
      BY <2>1, <2>7, <3>2 DEF Http, pingVars
  <2>8. ASSUME NEW d \in Check, Finish(d) PROVE Due(c)'
    <3>1. d # c
      BY <2>0, <2>8 DEF Finish, PingPlace
    <3> QED
      BY <1>1, <2>1, <2>8, <3>1 DEF Finish, Goto, TypeOK
  <2>9. ASSUME NEW d \in Check, NEW s \in Server, StartCheck(d, s) PROVE Due(c)'
    <3>1. d # c
      BY <2>0, <2>9 DEF StartCheck, PingPlace
    <3> QED
      BY <1>1, <2>1, <2>9, <3>1 DEF StartCheck, Goto, TypeOK, pingVars
  <2>10. CASE UNCHANGED vars
    BY <2>1, <2>10 DEF vars, pingVars
  <2> QED
    BY <1>1, <2>2, <2>3, <2>4, <2>5, <2>6, <2>7, <2>8, <2>9, <2>10 DEF Next
<1>2. IInv /\ [Next]_vars =>
        [\A c \in Check : Due(c) /\ ~ SendFails(c) /\ ~ ReadFails(c)
           => Due(c)' \/ m_received'[c] > m_received[c] \/ pc'[c] = "free"]_vars
  BY <1>1
<1> QED
  BY <1>2, Invariant, PTL DEF Spec, PromptReplyIsHeard

-----------------------------------------------------------------------------
(* Every check is short: the steps it can still take itself, while the threads *)
(* beside it, the network and the queue do what they like.                    *)

\* The steps a check has still to take at most, when nothing more comes for it.
StepsLeft(c) ==
  CASE pc[c] = "sending"    -> 2 * p_num_packets[c] + 1
    [] pc[c] = "waiting"    -> 2 * p_num_packets[c] + 2
    [] pc[c] = "resolving"  -> SEND_ATTEMPTS + 4
    [] pc[c] = "connecting" -> SEND_ATTEMPTS + 3
    [] pc[c] = "writing"    -> send_attempts[c] + 2
    [] pc[c] = "reading"    -> IF read_fds[c] THEN 2 ELSE 1
    [] OTHER                -> 0

\* The most a check of its kind has when a thread begins it.
Longest(c) == IF mon_t[target[c]] = "ping" THEN 2 * PING_NUM_CHECKS + 1 ELSE SEND_ATTEMPTS + 4

\* A thread goes on with a check.
Moves(c) == Ping(c) \/ Http(c)

\* It has a step to take as long as it runs, and never more than those of its kind.
StepsAreFew == \A c \in Running : StepsLeft(c) \in 1 .. Longest(c)

\* Only what comes for a check gives it a step more, and only one.
StepsAreEarned(c) ==
  /\ SocketReady(c) => StepsLeft(c)' = StepsLeft(c) + 1
  /\ ~ SocketReady(c) => StepsLeft(c)' <= StepsLeft(c)
  /\ Moves(c) => StepsLeft(c)' < StepsLeft(c)

\* A check that is left alone has the steps it had.
LEMMA AloneStepsKept ==
  ASSUME NEW c \in Check, pc'[c] = pc[c], p_num_packets'[c] = p_num_packets[c],
         send_attempts'[c] = send_attempts[c], read_fds'[c] = read_fds[c]
  PROVE  StepsLeft(c)' = StepsLeft(c)
  BY DEF StepsLeft

\* Every packet sent and every wait for it, the last close included, is a step less.
LEMMA PingIsShorter ==
  ASSUME TypeOK, NEW c \in Check, PingStep(c)
  PROVE  StepsLeft(c)' < StepsLeft(c)
<1>1. p_num_packets[c] \in Int /\ p_num_packets \in [Check -> 0 .. PING_NUM_CHECKS] /\ c \in DOMAIN pc
  BY DEF TypeOK
<1>2. CASE SendFails(c)
  <2>1. pc[c] = "sending" /\ pc'[c] = "sending" /\ p_num_packets'[c] = p_num_packets[c] - 1
    BY <1>1, <1>2 DEF SendFails
  <2> QED
    BY <1>1, <2>1 DEF StepsLeft
<1>3. CASE SendPing(c)
  <2>1. pc[c] = "sending" /\ pc'[c] = "waiting" /\ p_num_packets'[c] = p_num_packets[c] - 1
    BY <1>1, <1>3 DEF SendPing, Goto
  <2> QED
    BY <1>1, <2>1 DEF StepsLeft
<1>4. CASE ReadPacket(c) \/ ReadFails(c) \/ Timeout(c)
  <2>1. pc[c] = "waiting" /\ pc'[c] = "sending" /\ p_num_packets'[c] = p_num_packets[c]
    BY <1>1, <1>4 DEF ReadPacket, ReadFails, Timeout, Goto, pingVars
  <2> QED
    BY <1>1, <2>1 DEF StepsLeft
<1>5. CASE PingEnd(c)
  <2>1. pc[c] = "sending" /\ pc'[c] = "over" /\ p_num_packets[c] = 0
    BY <1>1, <1>5 DEF PingEnd, Goto
  <2> QED
    BY <2>1 DEF StepsLeft
<1> QED
  BY <1>2, <1>3, <1>4, <1>5 DEF PingStep, PingOwed

\* A send that leaves something to send takes an attempt, whether the packet
\* moved on or stepped back; any other ends the writing.
LEMMA AttemptIsShorter ==
  ASSUME TypeOK, NEW c \in Check, NEW p, pc[c] = "writing",
         NextAttempt(c, p) \/ SendEnds(c, "over")
  PROVE  StepsLeft(c)' < StepsLeft(c)
<1>1. send_attempts[c] \in Int /\ send_attempts[c] >= 1 /\ c \in DOMAIN pc /\ c \in DOMAIN send_attempts
  BY DEF TypeOK
<1>2. StepsLeft(c) = send_attempts[c] + 2
  BY DEF StepsLeft
<1>3. CASE SendEnds(c, "reading") \/ SendEnds(c, "over")
  <2>1. pc'[c] \in {"reading", "over"}
    BY <1>1, <1>3 DEF SendEnds, Goto
  <2>2. StepsLeft(c)' \in {0, 1, 2}
    BY <2>1 DEF StepsLeft
  <2> QED
    BY <1>1, <1>2, <2>2
<1>4. CASE send_attempts' = [send_attempts EXCEPT ![c] = @ - 1] /\ UNCHANGED pc
  <2>1. pc'[c] = "writing" /\ send_attempts'[c] = send_attempts[c] - 1
    BY <1>1, <1>4
  <2> QED
    BY <1>1, <1>2, <2>1 DEF StepsLeft
<1> QED
  BY <1>3, <1>4 DEF NextAttempt

\* The places of an HTTP check follow one another; recv stays where it is, and
\* takes what came.
LEMMA HttpIsShorter ==
  ASSUME TypeOK, NEW c \in Check, HttpStep(c)
  PROVE  StepsLeft(c)' < StepsLeft(c)
<1>1. c \in DOMAIN pc /\ send_attempts[c] \in 1 .. SEND_ATTEMPTS
  BY DEF TypeOK
<1>2. CASE Resolve(c)
  <2>1. pc[c] = "resolving" /\ pc'[c] \in {"connecting", "over"}
    BY <1>1, <1>2 DEF Resolve, Goto
  <2> QED
    BY <2>1 DEF StepsLeft
<1>3. CASE Connect(c)
  <2>1. pc[c] = "connecting" /\ pc'[c] \in {"writing", "over"} /\ send_attempts'[c] = send_attempts[c]
    BY <1>1, <1>3 DEF Connect, Goto
  <2> QED
    BY <1>1, <2>1 DEF StepsLeft
<1>4. CASE SendBytes(c) \/ SendBytesFails(c)
  BY <1>4, AttemptIsShorter DEF SendBytes, SendBytesFails
<1>5. CASE ResponseEnds(c)
  <2>1. pc[c] = "reading" /\ pc'[c] = "over"
    BY <1>1, <1>5 DEF ResponseEnds, Goto
  <2> QED
    BY <2>1 DEF StepsLeft
<1>6. CASE Receive(c) \/ ReceiveFails(c)
  <2>1. pc[c] = "reading" /\ pc' = pc /\ read_fds[c] /\ read_fds'[c] = FALSE
    BY <1>6 DEF Receive, ReceiveFails, Received, TypeOK
  <2> QED
    BY <2>1 DEF StepsLeft
<1> QED
  BY <1>2, <1>3, <1>4, <1>5, <1>6 DEF HttpStep

\* A check is at a place of its kind, and one that waits has sent a packet.
LEMMA FewSteps == IInv => StepsAreFew
<1> SUFFICES ASSUME IInv, NEW c \in Running PROVE StepsLeft(c) \in 1 .. Longest(c)
  BY DEF StepsAreFew
<1>1. c \in Check /\ pc[c] \in PingPlace \cup HttpPlace
  BY DEF Running, IInv, TypeOK, PingPlace, HttpPlace
<1>2. /\ p_num_packets[c] \in 0 .. PING_NUM_CHECKS /\ m_transmitted[c] \in Int /\ m_received[c] \in Nat
      /\ send_attempts[c] \in 1 .. SEND_ATTEMPTS
  BY <1>1 DEF IInv, TypeOK
<1>3. CASE pc[c] = "sending"
  BY <1>1, <1>2, <1>3 DEF IInv, KindInv, PingPlace, StepsLeft, Longest
<1>4. CASE pc[c] = "waiting"
  <2>1. m_received[c] < m_transmitted[c] /\ p_num_packets[c] + m_transmitted[c] = PING_NUM_CHECKS
    BY <1>1, <1>4 DEF IInv, CountInv, PingPlace
  <2>2. p_num_packets[c] + 1 <= PING_NUM_CHECKS
    BY <1>2, <2>1
  <2>3. Longest(c) = 2 * PING_NUM_CHECKS + 1 /\ StepsLeft(c) = 2 * p_num_packets[c] + 2
    BY <1>1, <1>4 DEF IInv, KindInv, PingPlace, StepsLeft, Longest
  <2> QED
    BY <1>2, <2>2, <2>3
<1>5. CASE pc[c] \in HttpPlace
  <2>1. Longest(c) = SEND_ATTEMPTS + 4
    BY <1>1, <1>5 DEF IInv, KindInv, Longest
  <2> QED
    BY <1>2, <1>5, <2>1 DEF HttpPlace, StepsLeft
<1> QED
  BY <1>1, <1>3, <1>4, <1>5 DEF PingPlace

\* The steps of a check that runs go down with each of its own, and up with what
\* comes for it only.
LEMMA StepsGoDown ==
  ASSUME IInv, [Next]_vars, NEW c \in Running
  PROVE  StepsAreEarned(c)
<1>1. c \in Check /\ pc[c] \notin {"free", "queued", "over"} /\ StepsLeft(c) \in Nat
  BY FewSteps DEF Running, StepsAreFew
<1>2. TypeOK /\ TypeOK'
  BY NextInv DEF IInv
<1>3. Moves(c) => StepsLeft(c)' < StepsLeft(c)
  BY <1>1, <1>2, PingIsShorter, HttpIsShorter DEF Moves, Ping, Http
<1>4. ASSUME Begin
      PROVE  StepsLeft(c)' = StepsLeft(c)
  <2>1. queue # << >> /\ Head(queue) = queue[1] /\ 1 \in DOMAIN queue /\ Head(queue) \in Check
    BY <1>2, <1>4 DEF Begin, TypeOK
  <2>2. Head(queue) # c
    BY <1>1, <2>1 DEF IInv, QueueInv
  <2>3. PICK place : pc' = [pc EXCEPT ![Head(queue)] = place]
    BY <1>4 DEF Begin, PingBegin, HttpBegin, Goto
  <2>4. p_num_packets' = p_num_packets /\ send_attempts' = send_attempts /\ read_fds' = read_fds
    BY <1>4 DEF Begin, PingBegin, HttpBegin, pingVars, httpVars
  <2> QED
    BY <1>1, <1>2, <2>1, <2>2, <2>3, <2>4, AloneStepsKept DEF TypeOK
<1>5. ASSUME Packets, ~ SocketReady(c)
      PROVE  StepsLeft(c)' = StepsLeft(c)
  <2>1. CASE Network /\ UNCHANGED httpVars
    BY <1>1, <2>1, AloneStepsKept DEF Network, httpVars
  <2>2. ASSUME NEW d \in Check, d # c, SocketReady(d), UNCHANGED pingVars
        PROVE  StepsLeft(c)' = StepsLeft(c)
    BY <1>1, <1>2, <2>2, AloneStepsKept DEF SocketReady, pingVars, TypeOK
  <2> QED
    BY <1>5, <2>1, <2>2 DEF Packets
<1>6. ASSUME Die
      PROVE  StepsLeft(c)' <= StepsLeft(c)
  <2>1. pc'[c] = "free"
    BY <1>1, <1>6 DEF Die
  <2> QED
    BY <1>1, <2>1 DEF StepsLeft
<1>7. ASSUME NEW d \in Check, d # c, Ping(d)
      PROVE  StepsLeft(c)' = StepsLeft(c)
  <2>1. pc' = pc \/ \E place : pc' = [pc EXCEPT ![d] = place]
    BY <1>7 DEF Ping, PingStep, PingOwed, SendFails, SendPing, ReadPacket, ReadFails, Timeout, PingEnd, Goto
  <2>2. p_num_packets' = p_num_packets \/ \E n : p_num_packets' = [p_num_packets EXCEPT ![d] = n]
    BY <1>7 DEF Ping, PingStep, PingOwed, SendFails, SendPing, ReadPacket, ReadFails, Timeout, PingEnd, pingVars
  <2>3. send_attempts' = send_attempts /\ read_fds' = read_fds
    BY <1>7 DEF Ping, httpVars
  <2>4. pc'[c] = pc[c] /\ p_num_packets'[c] = p_num_packets[c]
    BY <1>1, <1>2, <1>7, <2>1, <2>2 DEF TypeOK
  <2> QED
    BY <1>1, <2>3, <2>4, AloneStepsKept
<1>8. ASSUME NEW d \in Check, d # c, Http(d)
      PROVE  StepsLeft(c)' = StepsLeft(c)
  <2>1. pc' = pc \/ \E place : pc' = [pc EXCEPT ![d] = place]
    BY <1>8 DEF Http, HttpStep, Resolve, Connect, SendBytes, SendBytesFails, NextAttempt, SendEnds,
       ResponseEnds, Receive, ReceiveFails, Received, Goto
  <2>2. send_attempts' = send_attempts \/ \E n : send_attempts' = [send_attempts EXCEPT ![d] = n]
    BY <1>8 DEF Http, HttpStep, Resolve, Connect, SendBytes, SendBytesFails, NextAttempt, SendEnds,
       ResponseEnds, Receive, ReceiveFails, Received, httpVars
  <2>3. p_num_packets' = p_num_packets
    BY <1>8 DEF Http, pingVars
  <2>4. read_fds' = read_fds \/ \E b : read_fds' = [read_fds EXCEPT ![d] = b]
    BY <1>8 DEF Http, HttpStep, Resolve, Connect, SendBytes, SendBytesFails, ResponseEnds, Receive,
       ReceiveFails, Received
  <2> QED
    BY <1>1, <1>2, <1>8, <2>1, <2>2, <2>3, <2>4, AloneStepsKept DEF TypeOK
<1>9. ASSUME SocketReady(c)
      PROVE  StepsLeft(c)' = StepsLeft(c) + 1 /\ ~ Moves(c)
  <2>1. pc[c] = "reading" /\ pc' = pc /\ ~ read_fds[c] /\ read_fds'[c] = TRUE
    BY <1>1, <1>2, <1>9 DEF SocketReady, TypeOK
  <2>2. ~ Ping(c)
    BY <2>1 DEF Ping, PingStep, PingOwed, SendFails, SendPing, ReadPacket, ReadFails, Timeout, PingEnd
  <2>3. ~ Http(c)
    <3>1. Receive(c) \/ ReceiveFails(c) \/ ResponseEnds(c) => read_fds'[c] = FALSE
      BY <1>1, <1>2 DEF Receive, ReceiveFails, Received, ResponseEnds, TypeOK
    <3> QED
      BY <2>1, <3>1 DEF Http, HttpStep, Resolve, Connect, SendBytes, SendBytesFails
  <2> QED
    BY <2>1, <2>2, <2>3 DEF StepsLeft, Moves
<1>10. ASSUME NEW d \in Check, Finish(d)
       PROVE  StepsLeft(c)' = StepsLeft(c)
  <2>1. d # c
    BY <1>1, <1>10 DEF Finish
  <2> QED
    BY <1>1, <1>2, <1>10, <2>1, AloneStepsKept DEF Finish, Goto, TypeOK
<1>11. ASSUME NEW d \in Check, NEW s \in Server, StartCheck(d, s)
       PROVE  StepsLeft(c)' = StepsLeft(c)
  <2>1. d # c
    BY <1>1, <1>11 DEF StartCheck
  <2> QED
    BY <1>1, <1>2, <1>11, <2>1, AloneStepsKept DEF StartCheck, Goto, TypeOK, pingVars, httpVars
<1>12. ASSUME UNCHANGED vars
       PROVE  StepsLeft(c)' = StepsLeft(c)
  BY <1>1, <1>12, AloneStepsKept DEF vars, pingVars, httpVars
<1>13. StepsLeft(c)' = StepsLeft(c) => StepsLeft(c)' <= StepsLeft(c)
  BY <1>1
<1>14. StepsLeft(c)' < StepsLeft(c) => StepsLeft(c)' <= StepsLeft(c)
  <2>1. StepsLeft(c)' \in Nat
    <3>0. /\ p_num_packets' \in [Check -> 0 .. PING_NUM_CHECKS]
          /\ send_attempts' \in [Check -> 1 .. SEND_ATTEMPTS] /\ SEND_ATTEMPTS \in Nat
      BY <1>2, HttpAssumption DEF TypeOK
    <3>1. p_num_packets'[c] \in Nat /\ send_attempts'[c] \in Nat /\ SEND_ATTEMPTS \in Nat
      BY ONLY <1>1, <3>0
    <3>2. CASE pc'[c] \in {"sending", "waiting"}
      BY <3>1, <3>2 DEF StepsLeft
    <3>3. CASE pc'[c] \in {"resolving", "connecting", "writing"}
      BY <3>1, <3>3 DEF StepsLeft
    <3>4. CASE pc'[c] = "reading"
      BY <3>4 DEF StepsLeft
    <3>5. CASE pc'[c] \notin {"sending", "waiting", "resolving", "connecting", "writing", "reading"}
      BY <3>5 DEF StepsLeft
    <3> QED
      BY <3>2, <3>3, <3>4, <3>5
  <2> QED
    BY <1>1, <2>1
<1>15. ASSUME ~ SocketReady(c)
       PROVE  StepsLeft(c)' <= StepsLeft(c)
  BY <1>3, <1>4, <1>5, <1>6, <1>7, <1>8, <1>10, <1>11, <1>12, <1>13, <1>14, <1>15 DEF Next, Moves
<1> QED
  BY <1>3, <1>9, <1>15 DEF StepsAreEarned

\* Whatever the network does, and however the threads interleave, a ping has at
\* most two steps for each packet and one to close, and an HTTP check four and one
\* for each attempt to send: only what is sent to it may keep a thread for longer,
\* and each time it comes, by one recv (ping.cpp:55-93, http_checker.cpp:68-101,
\* 161-238, 263-287).
THEOREM ChecksAreShort ==
  Spec => []StepsAreFew /\ [][\A c \in Running : StepsAreEarned(c)]_vars
<1>1. IInv => StepsAreFew
  BY FewSteps
<1>2. IInv /\ [Next]_vars => [\A c \in Running : StepsAreEarned(c)]_vars
  BY StepsGoDown
<1> QED
  BY <1>1, <1>2, Invariant, PTL DEF Spec

=============================================================================
