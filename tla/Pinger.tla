------------------------------- MODULE Pinger -------------------------------
(***************************************************************************)
(* A ping check (ping.cpp), beside those of the other worker threads.  Every *)
(* check has a raw socket, every raw socket is given every ICMP packet that  *)
(* arrives, and all checks of a process use the same identifier: read_packet *)
(* cannot tell whose reply it counts.  After each packet sent a check waits  *)
(* up to a second for one packet, whatever that turns out to be.            *)
(*                                                                         *)
(* A packet is named after the server it comes from, or Noise when its       *)
(* identifier is another.  A trip takes more than PING_NUM_CHECKS            *)
(* microseconds, so the average is 0 only when nothing was counted.  The     *)
(* packet is built in a static buffer that the threads share (ping.cpp:102): *)
(* a packet that two of them fill at once has a wrong checksum and is lost.  *)
(***************************************************************************)
EXTENDS Sockets

CONSTANTS
  Noise,            \* an ICMP packet of another process
  PING_NUM_CHECKS,  \* scribe.js: 5
  MaxInbox,         \* bound: packets a socket holds
  MaxEcho           \* bound: requests under way to a server

ASSUME PingerAssumption ==
  Noise \notin Server \cup {Failed} /\ PING_NUM_CHECKS \in Nat \ {0} /\ MaxInbox \in Nat /\ MaxEcho \in Nat

VARIABLES
  inbox,          \* the packets its socket holds
  p_num_packets,  \* the packets still to send
  m_transmitted,
  m_received,
  echoes,         \* server -> requests under way to it
  unsent          \* history: the checks that got no socket

pingVars == <<inbox, p_num_packets, m_transmitted, m_received>>

Pinging == {c \in Check : pc[c] \in {"sending", "waiting"}}

\* Variant: a packet of any identifier is counted.
AnyPacket(p) == TRUE

\* read_packet: the identifier is that of this process.
Mine(p) == p \in Server

\* ping() begins: the socket.
PingBegin(c) ==
  /\ \/ OpenSocket(c) /\ Goto(c, "sending") /\ UNCHANGED unsent
     \/ Goto(c, "over") /\ unsent' = unsent \cup {c} /\ UNCHANGED socketVars
  /\ UNCHANGED <<target, pingVars, echoes, heard>>

\* Variant: m_transmitted counts the packets that were sent.
SendFailsUncounted(c) ==
  /\ pc[c] = "sending" /\ p_num_packets[c] > 0
  /\ p_num_packets' = [p_num_packets EXCEPT ![c] = @ - 1]
  /\ UNCHANGED <<pc, target, socketVars, inbox, m_transmitted, m_received, echoes, unsent, heard>>

\* send_ping() fails: the packet counts as transmitted, and the next one is due.
SendFails(c) ==
  /\ pc[c] = "sending" /\ p_num_packets[c] > 0
  /\ p_num_packets' = [p_num_packets EXCEPT ![c] = @ - 1]
  /\ m_transmitted' = [m_transmitted EXCEPT ![c] = @ + 1]
  /\ UNCHANGED <<pc, target, socketVars, inbox, m_received, echoes, unsent, heard>>

\* send_ping().  A request beyond MaxEcho is lost.
SendPing(c) ==
  /\ pc[c] = "sending" /\ p_num_packets[c] > 0
  /\ p_num_packets' = [p_num_packets EXCEPT ![c] = @ - 1]
  /\ m_transmitted' = [m_transmitted EXCEPT ![c] = @ + 1]
  /\ Goto(c, "waiting")
  /\ echoes' = [echoes EXCEPT ![target[c]] = IF @ < MaxEcho THEN @ + 1 ELSE @]
  /\ UNCHANGED <<target, socketVars, inbox, m_received, unsent, heard>>

\* A packet is ready: recvfrom and read_packet.
ReadPacket(c) ==
  /\ pc[c] = "waiting" /\ inbox[c] # << >>
  /\ LET p == Head(inbox[c])
     IN  /\ m_received' = [m_received EXCEPT ![c] = IF Mine(p) THEN @ + 1 ELSE @]
         /\ heard' = [heard EXCEPT ![c] = @ \cup {p}]
  /\ inbox' = [inbox EXCEPT ![c] = Tail(@)]
  /\ Goto(c, "sending")
  /\ UNCHANGED <<target, socketVars, p_num_packets, m_transmitted, echoes, unsent>>

\* The socket is ready with an error, and recvfrom returns -1, which is not 0:
\* what m_packet holds is read again, the last packet or what the stack held.
ReadFails(c) ==
  /\ pc[c] = "waiting"
  /\ \E counted \in {0, 1} : m_received' = [m_received EXCEPT ![c] = @ + counted]
  /\ heard' = [heard EXCEPT ![c] = @ \cup {Failed}]
  /\ Goto(c, "sending")
  /\ UNCHANGED <<target, socketVars, inbox, p_num_packets, m_transmitted, echoes, unsent>>

\* Variant: the wait ends by the clock though a packet is there.
TimeoutAnyway(c) ==
  /\ pc[c] = "waiting"
  /\ Goto(c, "sending")
  /\ UNCHANGED <<target, socketVars, pingVars, echoes, unsent, heard>>

\* PING_TIMEOUT_SEC without a packet.
Timeout(c) ==
  /\ pc[c] = "waiting" /\ inbox[c] = << >>
  /\ Goto(c, "sending")
  /\ UNCHANGED <<target, socketVars, pingVars, echoes, unsent, heard>>

\* Every packet was sent: ping() closes its socket.
PingEnd(c) ==
  /\ pc[c] = "sending" /\ p_num_packets[c] = 0
  /\ CloseSocket(c)
  /\ inbox' = [inbox EXCEPT ![c] = << >>]
  /\ Goto(c, "over")
  /\ UNCHANGED <<target, p_num_packets, m_transmitted, m_received, echoes, unsent, heard>>

\* What the thread comes to by itself.
PingOwed(c) == SendFails(c) \/ SendPing(c) \/ ReadPacket(c) \/ Timeout(c) \/ PingEnd(c)

PingStep(c) == PingOwed(c) \/ ReadFails(c)

\* A packet arrives, and goes to every raw socket that has room.
Arrive(p) ==
  inbox' = [c \in Check |-> IF c \in Pinging /\ Len(inbox[c]) < MaxInbox
                              THEN Append(inbox[c], p) ELSE inbox[c]]

Network ==
  /\ \/ \E s \in Answering : /\ echoes[s] > 0
                             /\ echoes' = [echoes EXCEPT ![s] = @ - 1]
                             /\ Arrive(s)
     \/ \E s \in Server : /\ echoes[s] > 0
                          /\ echoes' = [echoes EXCEPT ![s] = @ - 1]
                          /\ UNCHANGED inbox
     \/ Arrive(Noise) /\ UNCHANGED echoes
  /\ UNCHANGED <<pc, target, socketVars, p_num_packets, m_transmitted, m_received, unsent, heard>>

\* The waits a check has still to come, the one it is in included.
WaitsLeft(c) == p_num_packets[c] + (IF pc[c] = "waiting" THEN 1 ELSE 0)

\* A reply is in the inbox, and is read before the waits are over.
Due(c) == c \in Pinging /\ \E i \in DOMAIN inbox[c] : Mine(inbox[c][i]) /\ i <= WaitsLeft(c)

=============================================================================
