---------------------------- MODULE HttpChecker ----------------------------
(***************************************************************************)
(* An HTTP check (http_checker.cpp), beside those of the other worker        *)
(* threads.  A check is up when get_response returned anything.  recv and    *)
(* send give their result to a size_t, so that -1 is a length: a receive     *)
(* that fails hands over what is in m_buf, at first the request itself, and  *)
(* a send that fails steps back by one byte.  gethostbyname keeps its answer *)
(* in memory that all threads share.                                        *)
(*                                                                         *)
(* The request is shorter than MAX_TCP_BUFFER, and what a response says is   *)
(* left out: only whether there was one reaches the callback.               *)
(***************************************************************************)
EXTENDS Sockets

CONSTANTS
  LENGTH,         \* bytes of the request
  SEND_ATTEMPTS   \* send_bytes: 5

ASSUME HttpAssumption == LENGTH \in Nat \ {0} /\ SEND_ATTEMPTS \in Nat \ {0}

VARIABLES
  hostent,        \* the server whose address gethostbyname found last
  peer,           \* the server a check connected to
  p_packet,       \* the next byte of the request; bytes_left is LENGTH - p_packet
  send_attempts,
  read_fds,       \* whether a select of get_response would find the socket readable
  response,       \* whether get_response has anything to return
  sent            \* history: the bytes of m_buf that went out

httpVars == <<hostent, peer, p_packet, send_attempts, read_fds, response, sent>>

\* init_socket: a socket with its four options, or none.
HttpBegin(c) ==
  /\ \/ OpenSocket(c) /\ Goto(c, "resolving")
     \/ Goto(c, "over") /\ UNCHANGED socketVars
  /\ UNCHANGED <<target, heard, httpVars>>

\* gethostbyname.  The socket of an unknown host is left to the destructor.
Resolve(c) ==
  /\ pc[c] = "resolving"
  /\ \/ Goto(c, "connecting") /\ hostent' = target[c]
     \/ Goto(c, "over") /\ UNCHANGED hostent
  /\ UNCHANGED <<target, heard, socketVars, peer, p_packet, send_attempts, read_fds, response, sent>>

\* The address is copied, and the connection is made, times out, or is refused.
Connect(c) ==
  /\ pc[c] = "connecting"
  /\ peer' = [peer EXCEPT ![c] = hostent]
  /\ \/ Goto(c, "writing") /\ UNCHANGED socketVars
     \/ Goto(c, "over") /\ UNCHANGED socketVars
     \/ Goto(c, "over") /\ CloseSocket(c)
  /\ UNCHANGED <<target, heard, hostent, p_packet, send_attempts, read_fds, response, sent>>

\* send_bytes returns.
SendEnds(c, place) ==
  /\ Goto(c, place)
  /\ p_packet' = [p_packet EXCEPT ![c] = 0]
  /\ send_attempts' = [send_attempts EXCEPT ![c] = SEND_ATTEMPTS]

\* Variant: the attempts are counted after the test.
NextAttemptPost(c, p) ==
  \/ p = LENGTH /\ SendEnds(c, "reading")
  \/ p < LENGTH /\ send_attempts[c] = 0 /\ SendEnds(c, "over")
  \/ /\ p < LENGTH /\ send_attempts[c] > 0
     /\ p_packet' = [p_packet EXCEPT ![c] = p]
     /\ send_attempts' = [send_attempts EXCEPT ![c] = @ - 1]
     /\ UNCHANGED pc

\* The end of an iteration of send_bytes that leaves the packet at byte p.
NextAttempt(c, p) ==
  \/ p = LENGTH /\ SendEnds(c, "reading")
  \/ p < LENGTH /\ send_attempts[c] = 1 /\ SendEnds(c, "over")
  \/ /\ p < LENGTH /\ send_attempts[c] > 1
     /\ p_packet' = [p_packet EXCEPT ![c] = p]
     /\ send_attempts' = [send_attempts EXCEPT ![c] = @ - 1]
     /\ UNCHANGED pc

\* send() takes some or all of the bytes.
SendBytes(c) ==
  /\ pc[c] = "writing"
  /\ \E p \in p_packet[c] + 1 .. LENGTH :
       /\ NextAttempt(c, p)
       /\ sent' = [sent EXCEPT ![c] = @ \cup (p_packet[c] .. p - 1)]
  /\ UNCHANGED <<target, heard, socketVars, hostent, peer, read_fds, response>>

\* Variant: a failed send steps forward.
SendBytesFailsForward(c) ==
  /\ pc[c] = "writing"
  /\ NextAttempt(c, p_packet[c] + 1)
  /\ UNCHANGED <<target, heard, socketVars, hostent, peer, read_fds, response, sent>>

\* send() returns -1: the comparison with (unsigned)-1 does not see it, and the
\* packet moves by -1.  Some errors end the check.
SendBytesFails(c) ==
  /\ pc[c] = "writing"
  /\ \/ NextAttempt(c, p_packet[c] - 1)
     \/ SendEnds(c, "over")
  /\ UNCHANGED <<target, heard, socketVars, hostent, peer, read_fds, response, sent>>

\* Something comes for the check: part of a response, its end, or an error.
SocketReady(c) ==
  /\ pc[c] = "reading" /\ ~ read_fds[c]
  /\ read_fds' = [read_fds EXCEPT ![c] = TRUE]
  /\ UNCHANGED <<pc, target, heard, socketVars, hostent, peer, p_packet, send_attempts, response, sent>>

\* recv() returns what is not 0: get_response keeps it, and waits for
\* NET_COMMS_TIMEOUT anew.
Received(c, from) ==
  /\ pc[c] = "reading" /\ read_fds[c]
  /\ read_fds' = [read_fds EXCEPT ![c] = FALSE]
  /\ response' = [response EXCEPT ![c] = TRUE]
  /\ heard' = [heard EXCEPT ![c] = @ \cup {from}]
  /\ UNCHANGED <<pc, target, socketVars, hostent, peer, p_packet, send_attempts, sent>>

\* recv() returns part of a response.
Receive(c) == peer[c] \in Answering /\ Received(c, peer[c])

\* recv() returns -1, a reset for one: what is in m_buf counts as received.
ReceiveFails(c) == Received(c, Failed)

\* Variant: the wait for a response has no end.
ResponseAwaited(c) ==
  /\ pc[c] = "reading" /\ response[c]
  /\ Goto(c, "over")
  /\ read_fds' = [read_fds EXCEPT ![c] = FALSE]
  /\ UNCHANGED <<target, heard, socketVars, hostent, peer, p_packet, send_attempts, response, sent>>

\* recv() returns 0, or nothing has come for NET_COMMS_TIMEOUT.
ResponseEnds(c) ==
  /\ pc[c] = "reading"
  /\ Goto(c, "over")
  /\ read_fds' = [read_fds EXCEPT ![c] = FALSE]
  /\ UNCHANGED <<target, heard, socketVars, hostent, peer, p_packet, send_attempts, response, sent>>

HttpStep(c) ==
  \/ Resolve(c) \/ Connect(c) \/ SendBytes(c) \/ SendBytesFails(c)
  \/ Receive(c) \/ ReceiveFails(c) \/ ResponseEnds(c)

=============================================================================
