------------------------------ MODULE Sockets ------------------------------
(***************************************************************************)
(* The checks of a watcher (main.cpp) and the descriptors of their sockets.  *)
(* A check is a baton with its checker object.  The descriptors belong to    *)
(* the process: a number that one check closes may be the next one's.       *)
(***************************************************************************)
EXTENDS Integers, Sequences

CONSTANTS
  Server,     \* the servers of arrServers
  Check,      \* batons, as many as may exist at one time
  Fd, NoFd,   \* descriptors; -1
  Answering   \* bound: the servers that ever answer a check

NoCheck == "none"
Failed == "failed"

ASSUME SocketsAssumption == NoFd \notin Fd /\ NoCheck \notin Check /\ Answering \subseteq Server

VARIABLES
  pc,       \* where a check is
  target,   \* the server it was made for
  m_sock,   \* its descriptor
  owner,    \* descriptor -> the check that has it open
  heard     \* history: the senders of what a check received, or Failed

socketVars == <<m_sock, owner>>

Free(f) == owner[f] = NoCheck

\* socket(): some free descriptor.
OpenSocket(c) ==
  \E f \in Fd :
    /\ Free(f)
    /\ m_sock' = [m_sock EXCEPT ![c] = f]
    /\ owner' = [owner EXCEPT ![f] = c]

\* Variant: the descriptor is closed and not forgotten.
CloseOnly(c) ==
  /\ owner' = [f \in Fd |-> IF f = m_sock[c] THEN NoCheck ELSE owner[f]]
  /\ UNCHANGED m_sock

\* close() of the descriptor a check holds, if any.
CloseSocket(c) ==
  /\ owner' = [f \in Fd |-> IF f = m_sock[c] THEN NoCheck ELSE owner[f]]
  /\ m_sock' = [m_sock EXCEPT ![c] = NoFd]

\* A check goes on.
Goto(c, place) == pc' = [pc EXCEPT ![c] = place]

=============================================================================
