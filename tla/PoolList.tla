------------------------------ MODULE PoolList ------------------------------
(***************************************************************************)
(* The array of servers of a watcher (global.arrServers) and the lists that  *)
(* update it (scribe.js: update_pool_list_callback).  A list is read from     *)
(* table pool in no order, and arrives late, out of order or not at all.     *)
(* A server that a list does not name is taken out by splice inside for-in,  *)
(* which goes on with the server behind the one that moved up.               *)
(*                                                                         *)
(* The address stands for all that a list says of a server; in, and what the *)
(* watcher itself notes of a server, are in module Scribe.                   *)
(***************************************************************************)
EXTENDS Integers, Sequences, FiniteSets

CONSTANTS
  Server,     \* pool_id
  Ip, NoIp,   \* addresses; of a row that is not there or not active
  Table,      \* bound: the contents table pool may have, server -> address
  MaxLists    \* bound: lists under way

ASSUME PoolListAssumption ==
  /\ NoIp \notin Ip /\ MaxLists \in Nat \ {0} /\ IsFiniteSet(Server)
  /\ Table \subseteq [Server -> Ip \cup {NoIp}]

VARIABLES
  pool,         \* table pool
  lists,        \* the lists under way
  arrServers,   \* a sequence of [id, ip]
  taken         \* history: the list taken last, or that none was

vars == <<pool, lists, arrServers, taken>>

NoList == << >>

Listed(list, s) == list[s] # NoIp
Ids == {arrServers[k].id : k \in DOMAIN arrServers}

Init == pool \in Table /\ lists = << >> /\ arrServers = << >> /\ taken = NoList

\* update_pool_list: the service reads its table.
Fetch ==
  /\ Len(lists) < MaxLists
  /\ lists' = Append(lists, pool)
  /\ UNCHANGED <<pool, arrServers, taken>>

\* Variant: every server is given the address of the list.
UpdatedAll(list) ==
  [k \in DOMAIN arrServers |->
     LET s == arrServers[k].id IN [id |-> s, ip |-> list[s], active |-> Listed(list, s)]]

\* The servers of the array that a list names are updated, and stay active.
Updated(list) ==
  [k \in DOMAIN arrServers |->
     LET s == arrServers[k].id
     IN  [id |-> s, ip |-> IF Listed(list, s) THEN list[s] ELSE arrServers[k].ip, active |-> Listed(list, s)]]

\* Variant: the search for a server does not find it.
AddedAlways(list) ==
  LET new == {s \in Server : Listed(list, s)}
      n == Cardinality(new)
  IN  {[k \in 1 .. n |-> [id |-> f[k], ip |-> list[f[k]], active |-> TRUE]] :
         f \in {g \in [1 .. n -> new] : \A i, j \in 1 .. n : i # j => g[i] # g[j]}}

\* The servers that a list names and the array does not have, in any order.
Added(list) ==
  LET new == {s \in Server : Listed(list, s) /\ s \notin Ids}
      n == Cardinality(new)
  IN  {[k \in 1 .. n |-> [id |-> f[k], ip |-> list[f[k]], active |-> TRUE]] :
         f \in {g \in [1 .. n -> new] : \A i, j \in 1 .. n : i # j => g[i] # g[j]}}

\* Position k is the first, third, ... of a run of inactive servers.
Odd(a, k) ==
  \E j \in 1 .. k : /\ \A i \in j .. k : ~ a[i].active
                    /\ j = 1 \/ a[j - 1].active
                    /\ (k - j) % 2 = 0

\* Variant: the loop ends one short of the array.
RemovedOneShort(a) == {k \in 1 .. Len(a) - 1 : Odd(a, k)}

\* Variant: splice takes the rest of the array.
RemovedRest(a) == {k \in DOMAIN a : \E j \in 1 .. k : ~ a[j].active}

\* The positions that splice removes: an inactive server, unless the one before
\* it was removed, as the loop then looks at the position after its own.
Removed(a) == {k \in DOMAIN a : Odd(a, k)}

\* What is left of an array without some of its positions.
Without(a, gone) ==
  [k \in 1 .. Len(a) - Cardinality(gone) |->
     LET p == CHOOSE j \in DOMAIN a \ gone : Cardinality({i \in DOMAIN a \ gone : i <= j}) = k
     IN  [id |-> a[p].id, ip |-> a[p].ip]]

\* update_pool_list_callback, for any of the lists under way.
UpdatePoolListCallback(i) ==
  /\ \E new \in Added(lists[i]) :
       LET a == Updated(lists[i]) \o new
       IN  arrServers' = Without(a, Removed(a))
  /\ taken' = lists[i]
  /\ lists' = [k \in 1 .. Len(lists) - 1 |-> lists[IF k < i THEN k ELSE k + 1]]
  /\ UNCHANGED pool

\* A list is lost, cannot be parsed, or says "no pools".
LoseList(i) ==
  /\ lists' = [k \in 1 .. Len(lists) - 1 |-> lists[IF k < i THEN k ELSE k + 1]]
  /\ UNCHANGED <<pool, arrServers, taken>>

\* An administrator changes table pool.
Change(table) ==
  /\ pool' = table
  /\ UNCHANGED <<lists, arrServers, taken>>

Next ==
  \/ Fetch
  \/ \E i \in DOMAIN lists : UpdatePoolListCallback(i) \/ LoseList(i)
  \/ \E table \in Table : Change(table)

Spec == Init /\ [][Next]_vars

\* A list is fetched every POOL_FETCH_INTERVAL_MS, every one is taken or lost in
\* the end, and of those that say what the table says not all are lost.
LiveSpec ==
  /\ Spec
  /\ WF_vars(Fetch)
  /\ \A l \in Table :
       /\ WF_vars(\E i \in DOMAIN lists : lists[i] = l /\ (UpdatePoolListCallback(i) \/ LoseList(i)))
       /\ SF_vars(\E i \in DOMAIN lists : lists[i] = l /\ UpdatePoolListCallback(i))

-----------------------------------------------------------------------------
(* Properties *)

\* Every variable keeps its type; every server of the array has an address.
TypeOK ==
  /\ pool \in Table /\ lists \in Seq(Table) /\ Len(lists) <= MaxLists
  /\ arrServers \in Seq([id : Server, ip : Ip])
  /\ taken \in Table \cup {NoList}

\* No server is in the array twice, whatever lists come in whatever order: every
\* search of the array by id stops at the first (scribe.js:70-91, 140-171).
NoServerTwice ==
  \A j, k \in DOMAIN arrServers : arrServers[j].id = arrServers[k].id => j = k

\* Every server of the list that was taken last is in the array, with the
\* address of that list: what splice passes over or moves up is not one of them
\* (scribe.js:137-179).
ListIsTaken ==
  taken # NoList =>
    \A s \in Server : Listed(taken, s) => [id |-> s, ip |-> taken[s]] \in {arrServers[k] : k \in DOMAIN arrServers}

\* The servers of the array that a list does not name.
Unlisted(list) == {s \in Ids : ~ Listed(list, s)}

\* A list takes out at least half of the servers it does not name: the loop
\* passes over one for every one it removes (scribe.js:174-179).
HalfLeave ==
  [][\A i \in DOMAIN lists, l \in Table :
       lists[i] = l /\ UpdatePoolListCallback(i)
         => 2 * Cardinality(Unlisted(l)') <= Cardinality(Unlisted(l))]_vars

\* When table pool stays as it is, the array comes to hold its servers with their
\* addresses and no others, whatever old lists are under way (scribe.js:110-180).
ArrayFollowsTable ==
  \A l \in Table :
    <>[](pool = l) => <>[]({arrServers[k] : k \in DOMAIN arrServers}
                             = {[id |-> s, ip |-> l[s]] : s \in {t \in Server : Listed(l, t)}})
=============================================================================
