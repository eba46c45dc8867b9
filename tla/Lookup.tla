------------------------------- MODULE Lookup -------------------------------
(***************************************************************************)
(* How the PowerDNS backend finds the rows of table record for a name       *)
(* (wpmetabackend.cc: lookup, serve_from_cache, prepare_records, query_db;  *)
(* database.cc).  A lookup that is not served from the caches tries the      *)
(* name and then its wildcards, one query each; the lookup cache keeps which *)
(* of them had rows, the record cache the rows.  Administrators change the    *)
(* table at any time, between two queries of one lookup too, and the          *)
(* database may be out of reach.                                            *)
(*                                                                         *)
(* A cache is a map whose entries leave when they reach their timeout:       *)
(* module Cache shows that this is what its callers see, purges included.    *)
(* The names are those of one domain, which is found, and every name is      *)
(* asked of that domain: the key of the lookup cache leaves the domain out.  *)
(* Names with quotes or bars, which the caches do not find again, are left   *)
(* out.  A lookup takes no time, except that the world may change in it.     *)
(***************************************************************************)
EXTENDS Integers, Sequences

CONSTANTS
  Name, Owner,      \* the names asked for; the values of record.record_name
  Type, ANY,        \* record types, and the query type that asks for all of them
  Question,         \* <<name, type>>: what PowerDNS asks
  House,            \* pool houses
  NoOwner,          \* what no lookup goes by
  Candidates,       \* name -> the owners to try: the name, then its wildcards
  Record,           \* the rows that may be in table record
  LOOKUP_TIMEOUT,   \* defines.h: CACHE_LOOKUP_TIMEOUT, in ticks
  RECORDS_TIMEOUT,  \* CACHE_RECORDS_TIMEOUT
  HOUSE_TIMEOUT     \* CACHE_HASH_TIMEOUT and CACHE_POOL_TIMEOUT

Fields == Owner \X (Type \cup {ANY})

ASSUME LookupAssumption ==
  /\ NoOwner \notin Owner
  /\ Question \subseteq Name \X (Type \cup {ANY})
  /\ Candidates \in [Name -> Seq(Owner)] /\ \A n \in Name : Candidates[n] # << >>
  /\ Record \subseteq [owner : Owner, type : Type, house : House]
  /\ RECORDS_TIMEOUT \in Nat \ {0} /\ HOUSE_TIMEOUT \in Nat \ {0}
  /\ LOOKUP_TIMEOUT \in Nat /\ LOOKUP_TIMEOUT >= RECORDS_TIMEOUT

NoQuestion == << >>

VARIABLES
  record,       \* the active rows of table record
  reachable,    \* whether the database answers
  m_connected,  \* Database: what it believes of its connection
  m_LC,         \* lookup cache: question -> <<owner, age>>
  m_RC,         \* record cache: fields -> <<rows, age>>
  m_HC,         \* the houses with a valid ring or pool: house -> age
  phase,        \* where the lookup is
  asked,        \* its question
  found,        \* the owner it goes by
  todo,         \* the owners still to try
  rows, left,   \* the rows prepare_records was given, and those still to do
  unchanged,    \* history: ticks since table record changed, capped
  whole,        \* history: ticks since a result was cut short, capped
  closed_for    \* history: ticks since a connection was lost, capped

dbVars    == <<record, reachable, unchanged>>
cacheVars == <<m_LC, m_RC, m_HC>>
callVars  == <<phase, asked, found, todo, rows, left>>
vars == <<dbVars, m_connected, cacheVars, callVars, whole, closed_for>>

Store(cache, key, entry) ==
  [k \in DOMAIN cache \cup {key} |-> IF k = key THEN entry ELSE cache[k]]

\* The entries whose age stays within a limit, a tick older.
Aged(cache, limit) ==
  [k \in {j \in DOMAIN cache : cache[j][2] < limit} |-> <<cache[k][1], cache[k][2] + 1>>]

Older(n, cap) == IF n < cap THEN n + 1 ELSE n

\* The rows a query for an owner and a type selects.
Select(table, f) == {r \in table : r.owner = f[1] /\ f[2] \in {r.type, ANY}}

\* query_db ends with rows: it connects first when there is no connection.
Answered == reachable /\ m_connected' = TRUE /\ UNCHANGED closed_for

\* A lookup that ends in an exception.
Fail == phase' = "failed" /\ UNCHANGED <<dbVars, cacheVars, asked, found, todo, rows, left, whole>>

\* query_db throws: it cannot connect, or the connection is lost under the query.
Unanswered ==
  /\ m_connected' = FALSE
  /\ closed_for' = IF m_connected \/ reachable THEN 0 ELSE closed_for
  /\ Fail

\* prepare_records starts on the rows found for an owner.
Prepare(owner, selected) ==
  /\ phase' = "prepare"
  /\ found' = owner /\ rows' = selected /\ left' = selected

-----------------------------------------------------------------------------
Init ==
  /\ record \in SUBSET Record /\ reachable \in BOOLEAN /\ m_connected = reachable
  /\ m_LC = << >> /\ m_RC = << >> /\ m_HC = << >>
  /\ phase = "idle" /\ asked = NoQuestion /\ found = NoOwner
  /\ todo = << >> /\ rows = {} /\ left = {}
  /\ unchanged = 0 /\ whole = 0 /\ closed_for = 0

\* lookup() is called; serve_from_cache looks into the two caches.
Ask(q) ==
  /\ phase = "idle"
  /\ asked' = q
  /\ IF q \in DOMAIN m_LC
       THEN LET owner == m_LC[q][1]
            IN  /\ todo' = << >>
                /\ IF <<owner, q[2]>> \in DOMAIN m_RC
                     THEN Prepare(owner, m_RC[<<owner, q[2]>>][1])
                     ELSE phase' = "reload" /\ found' = owner /\ UNCHANGED <<rows, left>>
       ELSE /\ phase' = "resolve"
            /\ todo' = Candidates[q[1]]
            /\ UNCHANGED <<found, rows, left>>
  /\ UNCHANGED <<dbVars, m_connected, cacheVars, whole, closed_for>>

\* A query runs and its rows are read.  A connection lost while they are read
\* looks to get_row like the end of the rows (database.cc:98).
Fetch(f, selected) ==
  /\ Answered
  /\ selected \subseteq Select(record, f)
  /\ whole' = IF selected = Select(record, f) THEN whole ELSE 0

\* serve_from_cache has the lookup but not the rows.
Reload ==
  /\ phase = "reload"
  /\ \/ \E selected \in SUBSET record :
          LET f == <<found, asked[2]>>
          IN  /\ Fetch(f, selected)
              /\ m_RC' = Store(m_RC, f, <<selected, 0>>)
              /\ Prepare(found, selected)
              /\ UNCHANGED <<dbVars, m_LC, m_HC, asked, todo>>
     \/ Unanswered

\* The owner remembered for a name that has no rows: the name itself.
NothingFound == Candidates[asked[1]][1]

\* One query of the loop of lookup(), and what follows the loop when it ends.
Resolve ==
  /\ phase = "resolve"
  /\ \/ \E selected \in SUBSET record :
          /\ Fetch(<<Head(todo), asked[2]>>, selected)
          /\ IF selected = {} /\ Tail(todo) # << >>
               THEN todo' = Tail(todo) /\ UNCHANGED <<phase, found, rows, left, m_LC, m_RC>>
               ELSE LET owner == IF selected = {} THEN NothingFound ELSE Head(todo)
                    IN  /\ m_LC' = Store(m_LC, asked, <<owner, 0>>)
                        /\ m_RC' = Store(m_RC, <<owner, asked[2]>>, <<selected, 0>>)
                        /\ todo' = << >>
                        /\ Prepare(owner, selected)
          /\ UNCHANGED <<dbVars, m_HC, asked>>
     \/ Unanswered

\* One row of the loop of prepare_records whose house is cached, or is read now.
\* A house whose query has no rows is not cached.
PrepareRow(r) ==
  /\ phase = "prepare" /\ r \in left
  /\ left' = left \ {r}
  /\ \/ r.house \in DOMAIN m_HC /\ UNCHANGED m_HC
     \/ /\ r.house \notin DOMAIN m_HC /\ m_connected /\ reachable
        /\ m_HC' \in {Store(m_HC, r.house, 0), m_HC}
  /\ UNCHANGED <<dbVars, m_connected, m_LC, m_RC, phase, asked, found, todo, rows, whole, closed_for>>

\* The query for the house fails: prepare_records does not connect.
PrepareFails(r) ==
  /\ phase = "prepare" /\ r \in left /\ r.house \notin DOMAIN m_HC
  /\ m_connected' = FALSE
  /\ closed_for' = IF m_connected THEN 0 ELSE closed_for
  /\ Fail

\* PowerDNS takes the answers, or learns of the failure.
Done ==
  /\ phase = "failed" \/ (phase = "prepare" /\ left = {})
  /\ phase' = "idle" /\ asked' = NoQuestion /\ found' = NoOwner
  /\ todo' = << >> /\ rows' = {} /\ left' = {}
  /\ UNCHANGED <<dbVars, m_connected, cacheVars, whole, closed_for>>

\* A row is added to the table or leaves it.
Change(r) ==
  /\ record' = IF r \in record THEN record \ {r} ELSE record \cup {r}
  /\ unchanged' = 0
  /\ UNCHANGED <<reachable, m_connected, cacheVars, callVars, whole, closed_for>>

\* The database goes out of reach or comes back.
Network ==
  /\ reachable' = ~ reachable
  /\ UNCHANGED <<record, unchanged, m_connected, cacheVars, callVars, whole, closed_for>>

\* Variant: the record cache has the timeout of the lookup cache.
RecordsLeaveWithLookups == Aged(m_RC, LOOKUP_TIMEOUT - 1)

\* The record cache a tick later.
RecordsLeave == Aged(m_RC, RECORDS_TIMEOUT - 1)

\* Variant: a lookup is valid for the second of its timeout too, as in purge_cache.
LookupsLeaveLate == Aged(m_LC, LOOKUP_TIMEOUT)

\* The lookup cache a tick later.
LookupsLeave == Aged(m_LC, LOOKUP_TIMEOUT - 1)

\* Time passes between two lookups.
Tick ==
  /\ phase = "idle"
  /\ m_LC' = LookupsLeave
  /\ m_RC' = RecordsLeave
  /\ m_HC' = [h \in {g \in DOMAIN m_HC : m_HC[g] + 1 < HOUSE_TIMEOUT} |-> m_HC[h] + 1]
  /\ unchanged' = Older(unchanged, LOOKUP_TIMEOUT)
  /\ whole' = Older(whole, LOOKUP_TIMEOUT)
  /\ closed_for' = Older(closed_for, RECORDS_TIMEOUT)
  /\ UNCHANGED <<record, reachable, m_connected, callVars>>

Next ==
  \/ \E q \in Question : Ask(q)
  \/ \E r \in Record : PrepareRow(r) \/ PrepareFails(r) \/ Change(r)
  \/ Reload \/ Resolve \/ Done \/ Network \/ Tick

Spec == Init /\ [][Next]_vars

-----------------------------------------------------------------------------
(* Properties *)

Cached(cache, Key, Value, timeout) ==
  /\ DOMAIN cache \subseteq Key
  /\ \A k \in DOMAIN cache : cache[k] \in Value \X (0 .. timeout - 1)

TypeOK ==
  /\ record \subseteq Record /\ reachable \in BOOLEAN /\ m_connected \in BOOLEAN
  /\ Cached(m_LC, Question, Owner, LOOKUP_TIMEOUT)
  /\ Cached(m_RC, Fields, SUBSET Record, RECORDS_TIMEOUT)
  /\ DOMAIN m_HC \subseteq House /\ \A h \in DOMAIN m_HC : m_HC[h] \in 0 .. HOUSE_TIMEOUT - 1
  /\ phase \in {"idle", "reload", "resolve", "prepare", "failed"}
  /\ asked \in IF phase = "idle" THEN {NoQuestion} ELSE Question
  /\ found \in Owner \cup {NoOwner} /\ todo \in Seq(Owner)
  /\ rows \subseteq Record /\ left \subseteq rows
  /\ unchanged \in 0 .. LOOKUP_TIMEOUT /\ whole \in 0 .. LOOKUP_TIMEOUT
  /\ closed_for \in 0 .. RECORDS_TIMEOUT
  /\ phase = "resolve" => todo # << >>
  /\ phase \in {"reload", "prepare"} => found \in Owner

\* The owner a table has for a question: the first candidate with rows, or the
\* name itself when none has any.
OwnerOf(table, q, owner) ==
  LET c == Candidates[q[1]]
      HasRows(i) == Select(table, <<c[i], q[2]>>) # {}
  IN  \/ \E i \in DOMAIN c : owner = c[i] /\ HasRows(i) /\ \A j \in 1 .. i - 1 : ~ HasRows(j)
      \/ owner = c[1] /\ \A i \in DOMAIN c : ~ HasRows(i)

\* Once table record has not changed, and no result was cut short, for
\* CACHE_LOOKUP_TIMEOUT, a lookup goes by the owner the table has for the name
\* and serves its rows: whatever the two caches held, and however the table
\* changed between two queries of one lookup (wpmetabackend.cc:405-432, 533-581).
SettledIsServed ==
  phase = "prepare" /\ unchanged >= LOOKUP_TIMEOUT /\ whole >= LOOKUP_TIMEOUT =>
    OwnerOf(record, asked, found) /\ rows = Select(record, <<found, asked[2]>>)

\* The rows of the owner a lookup goes by are at most CACHE_RECORDS_TIMEOUT old,
\* although the lookup that led to them is cached for longer: rows removed
\* before that are not served, and none is missing unless a result was cut short
\* since (wpmetabackend.cc:410-432, database.cc:90-113).
RowsAreRecent ==
  phase = "prepare" /\ unchanged >= RECORDS_TIMEOUT =>
    /\ rows \subseteq Select(record, <<found, asked[2]>>)
    /\ whole >= RECORDS_TIMEOUT => rows = Select(record, <<found, asked[2]>>)

\* A lookup fails with the database in reach only if the connection was lost just
\* now or less than CACHE_RECORDS_TIMEOUT ago: after that no cached rows keep lookup() from
\* query_db, which reconnects, while prepare_records does not
\* (wpmetabackend.cc:52-56, 193).
FailsBriefly ==
  [][phase # "failed" /\ phase' = "failed" /\ reachable => closed_for' < RECORDS_TIMEOUT]_vars

=============================================================================
