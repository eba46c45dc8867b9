------------------------------ MODULE Answers ------------------------------
(***************************************************************************)
(* How the PowerDNS backend finds the zone of a name and names what it       *)
(* answers (wpmetabackend.cc: getSOA, lookup, list, prepare_records,         *)
(* send_from_pool_cache, get).  PowerDNS asks getSOA for the suffixes of a    *)
(* name, the longest first, and looks the name up in the zone it finds; it   *)
(* also looks names up in no given zone, and lists a zone for a transfer.    *)
(* Then it calls get until there is no more.  The backend is one object: what *)
(* a call leaves in m_results, m_qname and m_origin is there for the next.   *)
(*                                                                         *)
(* Zones come, go and are switched off at any time, between two queries of   *)
(* one call too, and any query may fail.  Every zone has the rows Record for *)
(* every name: module Lookup is about which rows a name has.  The houses are  *)
(* pools; what a ring answers is in HashRing.  A lookup of a type that is     *)
(* asked of the parent of a zone (DS) is left out.                           *)
(***************************************************************************)
EXTENDS Integers, Sequences

CONSTANTS
  Id, NoId,        \* domain_id; -1
  Zone,            \* the values of domain.domain_name, which is unique
  NameOf,          \* id -> its zone
  Name, NoName,    \* the names asked for; ""
  Suffixes,        \* name -> the zones it may be in, the longest first
  Record,          \* rows of table record: [stored, length, house]
  Length,          \* zone -> the length of its name
  Content,         \* servers
  Pool,            \* house -> [content, num_results, random_results]
  SOA_TIMEOUT,     \* defines.h: CACHE_SOA_TIMEOUT, in ticks
  LOOKUP_TIMEOUT   \* CACHE_LOOKUP_TIMEOUT

NoZone == "none"

\* A name that is stored whole ends with that of its zone.
ASSUME AnswersAssumption ==
  /\ NoId \notin Id /\ NoName \notin Name /\ NoZone \notin Zone
  /\ NameOf \in [Id -> Zone] /\ Suffixes \in [Name -> Seq(Zone)]
  /\ \A n \in Name : Suffixes[n] # << >>
  /\ Length \in [Zone -> Nat]
  /\ \A r \in Record :
       /\ r.stored \in {"full", "host"} /\ r.length \in Nat
       /\ r.stored = "full" => \A z \in Zone : r.length >= Length[z]
  /\ \A r \in Record : Pool[r.house].content \in Seq(Content) /\ Pool[r.house].num_results \in Int
  /\ SOA_TIMEOUT \in Nat \ {0} /\ LOOKUP_TIMEOUT \in Nat \ {0}

VARIABLES
  domain,      \* id -> "active", "inactive", "no_soa" (its domainsoa is not active), "gone"
  m_SC, m_LC,  \* SOA cache: zone -> <<id, age>>; lookup cache: name -> <<id, age>>
  m_results, m_qname, m_origin,
  phase,       \* where the call is
  asked,       \* the name of the question
  sd,          \* the id PowerDNS passes
  zone,        \* the id whose rows are served
  todo,        \* the suffixes still to try
  left,        \* the rows still to prepare
  unchanged,   \* history: ticks since table domain changed, capped
  torn,        \* history: an exception cut m_results short
  given        \* history: what get returned last, and what it was asked for

dbVars   == <<domain, unchanged>>
answerVars == <<m_results, m_qname, m_origin, torn>>
callVars == <<phase, asked, sd, zone, todo, left>>
vars == <<dbVars, m_SC, m_LC, answerVars, callVars, given>>

Nothing == << >>
Settled == SOA_TIMEOUT + LOOKUP_TIMEOUT

Store(cache, key, id) ==
  [k \in DOMAIN cache \cup {key} |-> IF k = key THEN <<id, 0>> ELSE cache[k]]

\* Variant: an entry is valid in the second of its timeout too, as in purge_cache.
AgedLate(cache, timeout) ==
  [k \in {j \in DOMAIN cache : cache[j][2] < timeout} |-> <<cache[k][1], cache[k][2] + 1>>]

\* The entries that have not reached their timeout, a tick older.
Aged(cache, timeout) ==
  [k \in {j \in DOMAIN cache : cache[j][2] + 1 < timeout} |-> <<cache[k][1], cache[k][2] + 1>>]

\* The ids a query for a zone finds.
Active(z) == {i \in Id : NameOf[i] = z /\ domain[i] \in {"active", "no_soa"}}
WithSOA(z) == {i \in Id : NameOf[i] = z /\ domain[i] = "active"}

Init ==
  /\ domain \in [Id -> {"active", "gone"}]
  /\ \A i, j \in Id : NameOf[i] = NameOf[j] /\ i # j => "gone" \in {domain[i], domain[j]}
  /\ m_SC = << >> /\ m_LC = << >>
  /\ m_results = << >> /\ m_qname = NoName /\ m_origin = NoZone
  /\ phase = "idle" /\ asked = NoName /\ sd = NoId /\ zone = NoId /\ todo = << >> /\ left = {}
  /\ unchanged = 0 /\ torn = FALSE /\ given = Nothing

-----------------------------------------------------------------------------
(* The questions of PowerDNS *)

\* A question for a name: PowerDNS begins with its zone.
Ask(n) ==
  /\ phase = "idle"
  /\ phase' = "getSOA" /\ asked' = n /\ todo' = Suffixes[n] /\ sd' = NoId /\ zone' = NoId
  /\ UNCHANGED <<dbVars, m_SC, m_LC, answerVars, left, given>>

\* A question for a name in no given zone.
AskAnywhere(n) ==
  /\ phase = "idle"
  /\ phase' = "lookup" /\ asked' = n /\ todo' = Suffixes[n] /\ sd' = NoId /\ zone' = NoId
  /\ UNCHANGED <<dbVars, m_SC, m_LC, answerVars, left, given>>

\* A transfer: getSOA for the zone itself.
AskTransfer(z) ==
  /\ phase = "idle"
  /\ phase' = "getSOA" /\ asked' = NoName /\ todo' = <<z>> /\ sd' = NoId /\ zone' = NoId
  /\ UNCHANGED <<dbVars, m_SC, m_LC, answerVars, left, given>>

-----------------------------------------------------------------------------
(* The backend *)

\* getSOA() returns the id of a zone: PowerDNS goes on to the lookup or the list.
FoundSOA(i) ==
  /\ sd' = i
  /\ phase' = IF asked = NoName THEN "list" ELSE "lookup"

\* Variant: getSOA does not ask whether the zone is active.
GetAnySOA ==
  /\ phase = "getSOA" /\ todo # << >>
  /\ LET z == Head(todo)
     IN  \/ z \in DOMAIN m_SC /\ FoundSOA(m_SC[z][1]) /\ UNCHANGED <<m_SC, todo>>
         \/ /\ z \notin DOMAIN m_SC
            /\ \E i \in Id : /\ NameOf[i] = z /\ domain[i] # "gone"
                             /\ FoundSOA(i) /\ m_SC' = Store(m_SC, z, i)
            /\ UNCHANGED todo
         \/ /\ z \notin DOMAIN m_SC /\ \A i \in Id : NameOf[i] = z => domain[i] = "gone"
            /\ todo' = Tail(todo)
            /\ UNCHANGED <<m_SC, phase, sd>>
  /\ UNCHANGED <<dbVars, m_LC, answerVars, asked, zone, left, given>>

\* getSOA() for one suffix.
GetSOA ==
  /\ phase = "getSOA" /\ todo # << >>
  /\ LET z == Head(todo)
     IN  \/ z \in DOMAIN m_SC /\ FoundSOA(m_SC[z][1]) /\ UNCHANGED <<m_SC, todo>>
         \/ /\ z \notin DOMAIN m_SC
            /\ \E i \in WithSOA(z) : FoundSOA(i) /\ m_SC' = Store(m_SC, z, i)
            /\ UNCHANGED todo
         \/ /\ z \notin DOMAIN m_SC /\ WithSOA(z) = {}
            /\ todo' = Tail(todo)
            /\ UNCHANGED <<m_SC, phase, sd>>
  /\ UNCHANGED <<dbVars, m_LC, answerVars, asked, zone, left, given>>

\* Variant: prepare_records leaves the results of an earlier call.
PrepareOnTop(i) ==
  /\ phase' = "prepare" /\ zone' = i /\ left' = Record
  /\ torn' = FALSE /\ UNCHANGED m_results

\* prepare_records() starts on the rows of a zone.
Prepare(i) ==
  /\ phase' = "prepare" /\ zone' = i /\ left' = Record
  /\ m_results' = << >> /\ torn' = FALSE

\* lookup() is served from its cache, whatever zone it was asked of.
LookupCached ==
  /\ phase = "lookup" /\ asked \in DOMAIN m_LC
  /\ Prepare(m_LC[asked][1])
  /\ UNCHANGED <<dbVars, m_SC, m_LC, m_qname, m_origin, asked, sd, todo, given>>

\* lookup() has found the zone.
LookupIn(i) ==
  /\ m_origin' = NameOf[i]
  /\ m_LC' = Store(m_LC, asked, i)
  /\ Prepare(i)

\* One query of the search of lookup() for the zone of a name.  When no suffix
\* is left, lookup returns, and m_results is what it was.
LookupAnywhere ==
  /\ phase = "lookup" /\ asked \notin DOMAIN m_LC /\ sd = NoId
  /\ \/ \E i \in Active(Head(todo)) : LookupIn(i) /\ UNCHANGED todo
     \/ /\ Active(Head(todo)) = {}
        /\ todo' = Tail(todo) /\ m_origin' = NoZone
        /\ phase' = IF todo' = << >> THEN "get" ELSE "lookup"
        /\ UNCHANGED <<m_LC, m_results, torn, zone, left>>
  /\ UNCHANGED <<dbVars, m_SC, m_qname, asked, sd, given>>

\* The domain is still there, active or not.
LookupById ==
  /\ phase = "lookup" /\ asked \notin DOMAIN m_LC /\ sd # NoId /\ domain[sd] # "gone"
  /\ LookupIn(sd)
  /\ UNCHANGED <<dbVars, m_SC, m_qname, asked, sd, todo, given>>

\* list() of a zone that is there.
List ==
  /\ phase = "list" /\ domain[sd] # "gone"
  /\ m_origin' = NameOf[sd]
  /\ Prepare(sd)
  /\ UNCHANGED <<dbVars, m_SC, m_LC, m_qname, asked, sd, todo, given>>

\* num_results is a TINYINT in the table and a uint8_t in the pool: -1 is 255,
\* and 0 sets no limit.
Limit(p) == p.num_results % 256
Share(p) == IF Limit(p) = 0 \/ Limit(p) > Len(p.content) THEN Len(p.content) ELSE Limit(p)

\* Variant: the rows are not cut to num_results.
WholePool(h) == {Pool[h].content}

\* send_from_pool_cache: the servers it may answer with, in their order, or in
\* that of the random numbers drawn.
FromPool(h) ==
  LET p == Pool[h]
      n == Len(p.content)
      Orders == IF p.random_results
                  THEN {f \in [1 .. n -> 1 .. n] : \A i, j \in 1 .. n : i # j => f[i] # f[j]}
                  ELSE {[i \in 1 .. n |-> i]}
  IN  {[i \in 1 .. Share(p) |-> p.content[f[i]]] : f \in Orders}

\* The entries of m_results that a row adds.
Entries(r, contents) ==
  [k \in DOMAIN contents |-> [zone |-> zone, row |-> r, content |-> contents[k]]]

\* One row: its pool, or nothing when no server of the house is active.
PrepareRow(r) ==
  /\ phase = "prepare" /\ r \in left
  /\ left' = left \ {r}
  /\ m_results' \in {m_results \o Entries(r, c) : c \in FromPool(r.house) \cup {<< >>}}
  /\ UNCHANGED <<dbVars, m_SC, m_LC, m_qname, m_origin, torn, phase, asked, sd, zone, todo, given>>

\* prepare_records returns, and lookup notes its name; list does not.
Prepared ==
  /\ phase = "prepare" /\ left = {}
  /\ phase' = "get"
  /\ m_qname' = IF asked = NoName THEN m_qname ELSE asked
  /\ UNCHANGED <<dbVars, m_SC, m_LC, m_results, m_origin, torn, asked, sd, zone, todo, left, given>>

\* Without a zone, m_origin is empty.
Shorter(r) == m_origin # NoZone /\ r.length < Length[m_origin]

\* Variant: the length of the name of a zone is taken for a host.
NamedUpTo(r) ==
  IF m_qname # NoName THEN <<m_qname>>
  ELSE IF Shorter(r) \/ (m_origin # NoZone /\ r.length = Length[m_origin]) THEN <<r.stored, m_origin>> ELSE <<r.stored>>

\* The name get() gives a row.
Named(r) ==
  IF m_qname # NoName THEN <<m_qname>>
  ELSE IF Shorter(r) THEN <<r.stored, m_origin>> ELSE <<r.stored>>

Get ==
  /\ phase = "get" /\ m_results # << >>
  /\ given' = [name |-> Named(Head(m_results).row), entry |-> Head(m_results)]
  /\ m_results' = Tail(m_results)
  /\ UNCHANGED <<dbVars, m_SC, m_LC, m_qname, m_origin, torn, callVars>>

\* The call is over for PowerDNS.
End == phase' = "idle" /\ asked' = NoName /\ sd' = NoId /\ zone' = NoId /\ todo' = << >> /\ left' = {}

\* No more answers; no zone; a zone that is gone when list or lookup asks.
Done ==
  /\ \/ phase = "get" /\ m_results = << >>
     \/ phase = "getSOA" /\ todo = << >>
     \/ phase = "list" /\ domain[sd] = "gone"
  /\ given' = Nothing
  /\ End
  /\ UNCHANGED <<dbVars, m_SC, m_LC, answerVars>>

\* lookup() by an id that is gone throws.
LookupThrows ==
  /\ phase = "lookup" /\ asked \notin DOMAIN m_LC /\ sd # NoId /\ domain[sd] = "gone"
  /\ m_origin' = NoZone
  /\ End
  /\ UNCHANGED <<dbVars, m_SC, m_LC, m_results, m_qname, torn, given>>

\* The zones that lookup() finds next.
Found == IF sd = NoId THEN Active(Head(todo)) ELSE {i \in Id : i = sd /\ domain[i] # "gone"}

\* A query of getSOA, lookup or list fails: that for the zone, that for its rows
\* when m_origin is already set, or that for rows the lookup cache leads to.
QueryFails ==
  /\ \/ phase = "getSOA" /\ todo # << >> /\ Head(todo) \notin DOMAIN m_SC /\ UNCHANGED m_origin
     \/ phase = "lookup" /\ asked \in DOMAIN m_LC /\ UNCHANGED m_origin
     \/ /\ phase = "lookup" /\ asked \notin DOMAIN m_LC
        /\ m_origin' \in {NoZone} \cup {NameOf[i] : i \in Found}
     \/ phase = "list" /\ UNCHANGED m_origin
     \/ phase = "list" /\ domain[sd] # "gone" /\ m_origin' = NameOf[sd]
  /\ End
  /\ UNCHANGED <<dbVars, m_SC, m_LC, m_results, m_qname, torn, given>>

\* prepare_records throws: the query for a house fails, or a row has no house.
PrepareFails ==
  /\ phase = "prepare" /\ left # {}
  /\ torn' = TRUE
  /\ End
  /\ UNCHANGED <<dbVars, m_SC, m_LC, m_results, m_qname, m_origin, given>>

-----------------------------------------------------------------------------
(* The world *)

\* A zone is added, removed, or switched on or off.
Change(i, state) ==
  /\ domain' = [domain EXCEPT ![i] = state]
  /\ domain' # domain
  /\ \A j \in Id : NameOf[i] = NameOf[j] /\ i # j => state = "gone" \/ domain[j] = "gone"
  /\ unchanged' = 0
  /\ UNCHANGED <<m_SC, m_LC, answerVars, callVars, given>>

Tick ==
  /\ phase = "idle"
  /\ m_SC' = Aged(m_SC, SOA_TIMEOUT) /\ m_LC' = Aged(m_LC, LOOKUP_TIMEOUT)
  /\ unchanged' = IF unchanged < Settled THEN unchanged + 1 ELSE unchanged
  /\ UNCHANGED <<domain, answerVars, callVars, given>>

Next ==
  \/ \E n \in Name : Ask(n) \/ AskAnywhere(n)
  \/ \E z \in Zone : AskTransfer(z)
  \/ GetSOA \/ LookupCached \/ LookupAnywhere \/ LookupById \/ LookupThrows \/ List
  \/ \E r \in Record : PrepareRow(r)
  \/ Prepared \/ Get \/ Done \/ QueryFails \/ PrepareFails \/ Tick
  \/ \E i \in Id, state \in {"active", "inactive", "no_soa", "gone"} : Change(i, state)

Spec == Init /\ [][Next]_vars

-----------------------------------------------------------------------------
(* Properties *)

Cached(cache, Key, timeout) ==
  /\ DOMAIN cache \subseteq Key
  /\ \A k \in DOMAIN cache : cache[k] \in Id \X (0 .. timeout - 1)

Entry == [zone : Id, row : Record, content : Content]

\* Every variable keeps its type, and the phases their variables; no entry of
\* the two caches reaches its timeout.
TypeOK ==
  /\ domain \in [Id -> {"active", "inactive", "no_soa", "gone"}]
  /\ Cached(m_SC, Zone, SOA_TIMEOUT) /\ Cached(m_LC, Name, LOOKUP_TIMEOUT)
  /\ m_results \in Seq(Entry) /\ m_qname \in Name \cup {NoName} /\ m_origin \in Zone \cup {NoZone}
  /\ phase \in {"idle", "getSOA", "lookup", "list", "prepare", "get"}
  /\ asked \in Name \cup {NoName} /\ sd \in Id \cup {NoId} /\ zone \in Id \cup {NoId}
  /\ todo \in Seq(Zone) /\ left \subseteq Record
  /\ unchanged \in 0 .. Settled /\ torn \in BOOLEAN
  /\ phase = "prepare" => zone \in Id
  /\ phase = "list" => sd \in Id /\ asked = NoName
  /\ phase = "lookup" => asked \in Name /\ (sd = NoId => todo # << >>)

\* The zone of a name: the longest suffix that is an active zone.
ZoneOf(n, i) ==
  \E k \in DOMAIN Suffixes[n] :
    i \in WithSOA(Suffixes[n][k]) /\ \A j \in 1 .. k - 1 : WithSOA(Suffixes[n][j]) = {}

\* When the zones have stayed as they are for the time of both caches, a name is
\* answered from the longest zone it is in, whatever zone the lookup cache had
\* for it (wpmetabackend.cc:276, 405, 463): unless a zone is active and its SOA
\* is not, when getSOA and lookup do not agree on the zones there are
\* (wpmetabackend.cc:319, 484).
SettledZone ==
  /\ phase \in {"prepare", "get"} /\ asked # NoName /\ zone # NoId
  /\ unchanged = Settled /\ \A i \in Id : domain[i] # "no_soa"
  => ZoneOf(asked, zone)

\* What get() has to return is of the zone the call found.  Only when the call
\* found no zone, and an exception cut an earlier call short, are there answers
\* left of that one (wpmetabackend.cc:151, 193, 508, 596).
AnswersAreOfTheZone ==
  phase = "get" /\ m_results # << >> =>
    \/ \A k \in DOMAIN m_results : m_results[k].zone = zone
    \/ zone = NoId /\ torn

\* A row is answered with as many servers of its pool as num_results allows, no
\* row of the pool twice, whatever order the random numbers gave, and with all of
\* them when num_results is 0 (wpmetabackend.cc:91-115, pool.hh:26).  A server the
\* table has in the pool twice may be answered twice: no index forbids it.
EachRowHasItsShare ==
  phase = "get" /\ given = Nothing /\ zone # NoId =>
    \A r \in Record :
      LET mine == {k \in DOMAIN m_results : m_results[k].row = r}
          p == Pool[r.house]
      IN  \/ mine = {}
          \/ /\ \E k \in mine : mine = k .. k + Share(p) - 1
             /\ \E f \in [mine -> DOMAIN p.content] :
                  /\ \A j, k \in mine : f[j] = f[k] => j = k
                  /\ \A k \in mine : m_results[k].content = p.content[f[k]]

\* An answer bears the name that was asked for; in a transfer, when the backend
\* has served no name before, the name of its row in the zone that was listed,
\* if it is stored whole or as a host shorter than the zone's name
\* (wpmetabackend.cc:251, 415, 587, 603-612).
NamesAreRight ==
  given # Nothing =>
    LET r == given.entry.row
        z == NameOf[given.entry.zone]
    IN  \/ torn
        \/ asked # NoName /\ given.name = <<asked>>
        \/ asked = NoName /\ m_qname # NoName
        \/ asked = NoName /\ r.stored = "full" /\ given.name = <<r.stored>>
        \/ asked = NoName /\ r.stored = "host" /\ r.length < Length[z] /\ given.name = <<r.stored, z>>
        \/ asked = NoName /\ r.stored = "host" /\ r.length \notin 1 .. Length[z] - 1
=============================================================================
