------------------------------- MODULE Checks -------------------------------
(***************************************************************************)
(* The network checks of one watcher: check_servers hands one check per     *)
(* server to the thread pool of libuv (main.cpp), the threads run Pinger and *)
(* HttpChecker, and the JavaScript thread takes their results one by one.   *)
(*                                                                         *)
(* What process_results_callback makes of a result is in Scribe, and how     *)
(* arrServers changes in PoolList: here the servers stay as they are.       *)
(***************************************************************************)
EXTENDS Pinger, HttpChecker, FiniteSets

CONSTANTS
  mon_t,    \* server -> "ping" or "http"
  THREADS   \* libuv: 4

ASSUME ChecksAssumption == mon_t \in [Server -> {"ping", "http"}] /\ THREADS \in Nat \ {0}

VARIABLE queue    \* the checks no thread has begun

vars == <<pc, target, socketVars, heard, pingVars, echoes, unsent, httpVars, queue>>

NoServer == "none"

\* The checks a thread is busy with.
Running == {c \in Check : pc[c] \notin {"free", "queued", "over"}}

Init ==
  /\ pc = [c \in Check |-> "free"] /\ target = [c \in Check |-> NoServer]
  /\ m_sock = [c \in Check |-> NoFd] /\ owner = [f \in Fd |-> NoCheck]
  /\ heard = [c \in Check |-> {}] /\ inbox = [c \in Check |-> << >>]
  /\ p_num_packets = [c \in Check |-> PING_NUM_CHECKS]
  /\ m_transmitted = [c \in Check |-> 0] /\ m_received = [c \in Check |-> 0]
  /\ echoes = [s \in Server |-> 0] /\ unsent = {}
  /\ hostent = NoServer /\ peer = [c \in Check |-> NoServer]
  /\ p_packet = [c \in Check |-> 0] /\ send_attempts = [c \in Check |-> SEND_ATTEMPTS]
  /\ read_fds = [c \in Check |-> FALSE] /\ response = [c \in Check |-> FALSE]
  /\ sent = [c \in Check |-> {}]
  /\ queue = << >>

\* check_servers, for one server: ping_check or http_check queue a new check,
\* whether or not earlier ones of the server have ended.
StartCheck(c, s) ==
  /\ pc[c] = "free"
  /\ Goto(c, "queued")
  /\ target' = [target EXCEPT ![c] = s]
  /\ queue' = Append(queue, c)
  /\ UNCHANGED <<socketVars, heard, pingVars, echoes, unsent, httpVars>>

\* A thread takes the next check.
Begin ==
  /\ queue # << >> /\ Cardinality(Running) < THREADS
  /\ queue' = Tail(queue)
  /\ LET c == Head(queue)
     IN  IF mon_t[target[c]] = "ping"
           THEN PingBegin(c) /\ UNCHANGED httpVars
           ELSE HttpBegin(c) /\ UNCHANGED <<pingVars, echoes, unsent>>

Ping(c) == PingStep(c) /\ UNCHANGED <<httpVars, queue>>
Http(c) == HttpStep(c) /\ UNCHANGED <<pingVars, echoes, unsent, queue>>

\* What comes for the checks, from outside the process.
Packets ==
  \/ Network /\ UNCHANGED <<httpVars, queue>>
  \/ \E c \in Check : SocketReady(c) /\ UNCHANGED <<pingVars, echoes, unsent, queue>>

\* get_avg_usec() divides by 0.
DividesByZero(c) == mon_t[target[c]] = "ping" /\ m_transmitted[c] = 0

\* The result that process_results_callback is given: rtt > 0.
Up(c) == IF mon_t[target[c]] = "ping" THEN m_received[c] > 0 ELSE response[c]

\* ping_check_async_fin and http_check_async_fin after the callback: the checker
\* and its baton are deleted, and ~HTTP_Checker closes what is open.
Finish(c) ==
  /\ pc[c] = "over" /\ ~ DividesByZero(c)
  /\ Goto(c, "free")
  /\ target' = [target EXCEPT ![c] = NoServer]
  /\ CloseSocket(c)
  /\ heard' = [heard EXCEPT ![c] = {}]
  /\ p_num_packets' = [p_num_packets EXCEPT ![c] = PING_NUM_CHECKS]
  /\ m_transmitted' = [m_transmitted EXCEPT ![c] = 0]
  /\ m_received' = [m_received EXCEPT ![c] = 0]
  /\ peer' = [peer EXCEPT ![c] = NoServer]
  /\ response' = [response EXCEPT ![c] = FALSE]
  /\ sent' = [sent EXCEPT ![c] = {}]
  /\ UNCHANGED <<inbox, echoes, unsent, hostent, p_packet, send_attempts, read_fds, queue>>

\* The process ends in ping_check_async_fin, and is started again.
Die ==
  /\ \E c \in Check : pc[c] = "over" /\ DividesByZero(c)
  /\ pc' = [c \in Check |-> "free"] /\ target' = [c \in Check |-> NoServer]
  /\ m_sock' = [c \in Check |-> NoFd] /\ owner' = [f \in Fd |-> NoCheck]
  /\ heard' = [c \in Check |-> {}] /\ inbox' = [c \in Check |-> << >>]
  /\ p_num_packets' = [c \in Check |-> PING_NUM_CHECKS]
  /\ m_transmitted' = [c \in Check |-> 0] /\ m_received' = [c \in Check |-> 0]
  /\ unsent' = {} /\ hostent' = NoServer /\ peer' = [c \in Check |-> NoServer]
  /\ p_packet' = [c \in Check |-> 0] /\ send_attempts' = [c \in Check |-> SEND_ATTEMPTS]
  /\ read_fds' = [c \in Check |-> FALSE] /\ response' = [c \in Check |-> FALSE]
  /\ sent' = [c \in Check |-> {}]
  /\ queue' = << >>
  /\ UNCHANGED echoes

Next ==
  \/ Begin \/ Packets \/ Die
  \/ \E c \in Check : Ping(c) \/ Http(c) \/ Finish(c) \/ \E s \in Server : StartCheck(c, s)

\* The threads go on, and the JavaScript thread takes every result.  The network
\* owes nothing: packets may be lost, and a response may never end.
Fairness ==
  /\ WF_vars(Begin) /\ WF_vars(Die)
  /\ \A c \in Check : /\ WF_vars(Ping(c) /\ PingOwed(c))
                      /\ WF_vars(Http(c))
                      /\ WF_vars(Finish(c))

Spec == Init /\ [][Next]_vars
LiveSpec == Spec /\ Fairness

-----------------------------------------------------------------------------
\* Every variable keeps its type: for one, send is called at most SEND_ATTEMPTS
\* times (http_checker.cpp:281).
TypeOK ==
  /\ pc \in [Check -> {"free", "queued", "sending", "waiting", "resolving", "connecting",
                       "writing", "reading", "over"}]
  /\ target \in [Check -> Server \cup {NoServer}]
  /\ m_sock \in [Check -> Fd \cup {NoFd}] /\ owner \in [Fd -> Check \cup {NoCheck}]
  /\ heard \in [Check -> SUBSET (Server \cup {Noise, Failed})]
  /\ inbox \in [Check -> Seq(Server \cup {Noise})]
  /\ p_num_packets \in [Check -> 0 .. PING_NUM_CHECKS]
  /\ m_transmitted \in [Check -> 0 .. PING_NUM_CHECKS]
  /\ m_received \in [Check -> 0 .. PING_NUM_CHECKS]
  /\ echoes \in [Server -> 0 .. MaxEcho] /\ unsent \subseteq Check
  /\ hostent \in Server \cup {NoServer} /\ peer \in [Check -> Server \cup {NoServer}]
  /\ p_packet \in [Check -> Int] /\ send_attempts \in [Check -> 1 .. SEND_ATTEMPTS]
  /\ read_fds \in [Check -> BOOLEAN] /\ response \in [Check -> BOOLEAN]
  /\ sent \in [Check -> SUBSET Int]
  /\ queue \in Seq(Check)

\* A check that finds its server up has read a packet or a response of some
\* server, or a call of recv or recvfrom failed: nothing else makes rtt > 0
\* (ping.cpp:146, http_checker.cpp:24), whatever other processes are sent.
UpNeedsAnAnswer ==
  \A c \in Check : pc[c] = "over" /\ Up(c) => heard[c] \ {Noise} # {}

\* A check that finds its server up has heard that server, or a receive failed.
\* read_packet breaks it: it compares an identifier that is the process's
\* (ping.cpp:8, 146) and not the sender, so that one check counts the reply to
\* another (README.md:9, "based on the health status of the individual records").
UpIsItsOwn ==
  \A c \in Check : pc[c] = "over" /\ Up(c) => heard[c] \cap {target[c], Failed} # {}

\* The descriptor a check holds is open and is that check's, and every open one
\* is held: no check closes or reads what a later check was given under the same
\* number, and none is lost (http_checker.cpp:208-209, :226-231, ping.cpp:90).
SocketsAreOwn ==
  /\ \A c \in Check : m_sock[c] # NoFd => owner[m_sock[c]] = c
  /\ \A f \in Fd : owner[f] # NoCheck => m_sock[owner[f]] = f

\* A check that waits for a response has sent every byte of the request, however
\* the calls of send were cut short or failed (http_checker.cpp:277-283).
RequestIsWhole == \A c \in Check : pc[c] = "reading" => 0 .. LENGTH - 1 \subseteq sent[c]

\* The process ends by dividing by m_transmitted only for a check that got no
\* socket: a send that fails counts as transmitted (ping.cpp:97, :111).
DiesOnlyWithoutSocket == \A c \in Check : pc[c] = "over" /\ DividesByZero(c) => c \in unsent

\* A reply that is in the socket early enough to be read by the waits that are
\* left is counted, or stays so: other packets before it take one wait each, and
\* only a send or a receive that fails takes a wait away (ping.cpp:55-87).
PromptReplyIsHeard ==
  [][\A c \in Check : Due(c) /\ ~ SendFails(c) /\ ~ ReadFails(c)
       => Due(c)' \/ m_received'[c] > m_received[c] \/ pc'[c] = "free"]_vars

\* Something comes for the check again and again: get_response goes on for as
\* long as the server sends, as each recv renews its time_end
\* (http_checker.cpp:79-101).  A check that hangs anywhere else has nothing.
SentForEver(c) == []<>read_fds[c]

\* Every check that a thread has begun comes to an end and its baton is deleted
\* (main.cpp:47, :113), unless its own server sends for ever.
ChecksEnd ==
  \A c \in Check : SentForEver(c) \/ (pc[c] \notin {"free", "queued"} ~> pc[c] = "free")
=============================================================================
