------------------------------- MODULE Cache -------------------------------
(***************************************************************************)
(* The Cache template of the PowerDNS backend (cache.hh), which keeps the   *)
(* hash rings, the pools, the SOA data, the records and the lookups of a    *)
(* backend thread.  It owns its objects by raw pointer and remembers the    *)
(* last one it found in m_current_item, which get_object returns without    *)
(* looking at the key; purge_cache deletes objects and leaves that pointer  *)
(* as it is.  Whether a caller can be handed a deleted object, or one of    *)
(* another key, depends on the order in which WPMetaBackend calls these      *)
(* operations, and that order is the guards of the actions here.            *)
(*                                                                         *)
(* One instance stands for any of the five caches: m_LC and m_RC are        *)
(* purged, only m_LC is released, m_SC, m_HC and m_PC do neither.           *)
(***************************************************************************)
EXTENDS Integers

CONSTANTS
  Key,      \* the indexes: pool house ids, names, or SQL field strings
  Obj,      \* the addresses `new` returns; a deleted one may be returned again
  NULL,     \* the null pointer
  TIMEOUT   \* defines.h: the CACHE_*_TIMEOUT of the type, in ticks

ASSUME CacheAssumption == NULL \notin Obj /\ TIMEOUT \in Nat \ {0}

VARIABLES
  m_items,         \* the std::map: key -> address
  m_current_item,  \* the remembered address, or NULL
  live,            \* the addresses allocated and not deleted
  loaded_for,      \* address -> the key its object was made for
  age,             \* address -> seconds since touch(), capped
  pc,              \* what the caller has been told
  asked            \* the key the caller is working on

vars == <<m_items, m_current_item, live, loaded_for, age, pc, asked>>

Values(f)    == {f[k] : k \in DOMAIN f}
Drop(f, K)   == [k \in DOMAIN f \ K |-> f[k]]
EmptyMap     == [k \in {} |-> NULL]

\* Ages above TIMEOUT + 1 are all alike to the code.
MaxAge == TIMEOUT + 1

-----------------------------------------------------------------------------
(* The members of the template *)

\* get_object: the remembered object, whatever the key, before the map.
GetObject(current, items, k) ==
  IF current # NULL THEN current ELSE IF k \in DOMAIN items THEN items[k] ELSE NULL

\* Variant: have_valid_cache does not reset m_current_item first.
LookUpRemembered(k) == GetObject(m_current_item, m_items, k)

\* What have_valid_cache leaves in m_current_item.
LookUp(k) == GetObject(NULL, m_items, k)

\* Variant: <= for <.
ValidUpTo(o) == o # NULL /\ age[o] <= TIMEOUT

\* have_valid_cache compares with <.
Valid(o) == o # NULL /\ age[o] < TIMEOUT

\* purge_cache compares with >.
Outdated == {k \in DOMAIN m_items : age[m_items[k]] > TIMEOUT}

\* remove(k) as update() calls it: the object under k is deleted.
Removed(k) == IF k \in DOMAIN m_items THEN {m_items[k]} ELSE {}

\* Variant: freshen_cache looks at m_current_item instead of calling get_object.
ReplacedIfRemembered(k) == IF m_current_item # NULL THEN Removed(k) ELSE {}

\* freshen_cache: what update() deletes; add() alone deletes nothing.
Replaced(k) == IF GetObject(m_current_item, m_items, k) # NULL THEN Removed(k) ELSE {}

\* Variant: remove() does not reset m_current_item.
CurrentKept == m_current_item

\* m_current_item after remove().
CurrentAfterRemove == NULL

\* m_current_item after freshen_cache: update() goes through remove(), add()
\* leaves what get_object put there.
CurrentAfterFreshen(k) ==
  IF GetObject(m_current_item, m_items, k) # NULL THEN CurrentAfterRemove ELSE NULL

\* m_current_item after purge_cache.
CurrentAfterPurge == m_current_item

-----------------------------------------------------------------------------
Init ==
  /\ m_items = EmptyMap /\ m_current_item = NULL
  /\ live = {}
  /\ loaded_for \in [Obj -> Key] /\ age = [o \in Obj |-> 0]
  /\ pc = "idle" /\ asked \in Key

\* Variant: the pointers are set to NULL where the entries should be erased.
PurgeLeavesNull ==
  /\ pc = "idle"
  /\ live' = live \ {m_items[k] : k \in Outdated}
  /\ m_items' = [k \in DOMAIN m_items |-> IF k \in Outdated THEN NULL ELSE m_items[k]]
  /\ UNCHANGED <<m_current_item, loaded_for, age, pc, asked>>

\* lookup() purges before it looks at the caches.
PurgeCache ==
  /\ pc = "idle"
  /\ live' = live \ {m_items[k] : k \in Outdated}
  /\ m_items' = Drop(m_items, Outdated)
  /\ m_current_item' = CurrentAfterPurge
  /\ UNCHANGED <<loaded_for, age, pc, asked>>

\* have_valid_cache(k): every use of a cache begins with it.
HaveValidCache(k) ==
  /\ pc = "idle"
  /\ m_current_item' = LookUp(k)
  /\ pc' = IF Valid(LookUp(k)) THEN "valid" ELSE "missed"
  /\ asked' = k
  /\ UNCHANGED <<m_items, live, loaded_for, age>>

\* get_object(asked), after which the caller reads through the pointer.
Serve ==
  /\ pc \in {"valid", "filled"}
  /\ m_current_item' = GetObject(m_current_item, m_items, asked)
  /\ pc' = "served"
  /\ UNCHANGED <<m_items, live, loaded_for, age, asked>>

\* The caller is done with the cache: it served, or it had nothing to serve, or
\* the database failed before it had an object to cache.
Done ==
  /\ pc \in {"served", "missed", "filled"}
  /\ pc' = "idle"
  /\ UNCHANGED <<m_items, m_current_item, live, loaded_for, age, asked>>

\* freshen_cache(k, new object).  Its caller has usually just missed k, but
\* lookup() stores records without asking the record cache first, and stores a
\* lookup under another spelling of the name than the one it asked for.
FreshenCache(k) ==
  /\ pc \in {"idle", "missed"}
  /\ \E o \in Obj \ live :
       /\ live' = (live \ Replaced(k)) \cup {o}
       /\ m_items' = [j \in DOMAIN m_items \cup {k} |-> IF j = k THEN o ELSE m_items[j]]
       /\ loaded_for' = [loaded_for EXCEPT ![o] = k]
       /\ age' = [age EXCEPT ![o] = 0]
  /\ m_current_item' = CurrentAfterFreshen(k)
  /\ pc' = "filled" /\ asked' = k

\* release_cache(asked): serve_from_cache cannot use the lookup it was served.
ReleaseCache ==
  /\ pc = "served"
  /\ live' = live \ Removed(asked)
  /\ m_items' = Drop(m_items, {asked})
  /\ m_current_item' = CurrentAfterRemove
  /\ pc' = "idle"
  /\ UNCHANGED <<loaded_for, age, asked>>

\* ~Cache, when PowerDNS lets the backend of a thread go, and a new backend.
Destroy ==
  /\ pc = "idle"
  /\ live' = live \ Values(m_items)
  /\ m_items' = EmptyMap /\ m_current_item' = NULL
  /\ pc' = "gone"
  /\ UNCHANGED <<loaded_for, age, asked>>

Construct ==
  /\ pc = "gone"
  /\ pc' = "idle"
  /\ UNCHANGED <<m_items, m_current_item, live, loaded_for, age, asked>>

\* A second passes between two uses of the cache.
Tick ==
  /\ pc = "idle"
  /\ age' = [o \in Obj |-> IF o \in live /\ age[o] < MaxAge THEN age[o] + 1 ELSE age[o]]
  /\ UNCHANGED <<m_items, m_current_item, live, loaded_for, pc, asked>>

Next ==
  \/ \E k \in Key : HaveValidCache(k) \/ FreshenCache(k)
  \/ PurgeCache \/ Serve \/ Done \/ ReleaseCache \/ Destroy \/ Construct \/ Tick

Spec == Init /\ [][Next]_vars

-----------------------------------------------------------------------------
(* Properties *)

TypeOK ==
  /\ DOMAIN m_items \subseteq Key /\ m_items \in [DOMAIN m_items -> Obj]
  /\ m_current_item \in Obj \cup {NULL}
  /\ live \subseteq Obj
  /\ loaded_for \in [Obj -> Key] /\ age \in [Obj -> 0 .. MaxAge]
  /\ pc \in {"idle", "valid", "missed", "filled", "served", "gone"}
  /\ asked \in Key

\* The pointer a caller reads through is not null, points to an object that has
\* not been deleted, and that object was made for the key the caller asked for:
\* the pointer purge_cache leaves behind (cache.hh:59-116) is never followed,
\* nor taken for the object of another key (cache.hh:187-193).
ServedIsRight ==
  pc = "served" =>
    /\ m_current_item \in live
    /\ loaded_for[m_current_item] = asked
    /\ asked \in DOMAIN m_items /\ m_items[asked] = m_current_item

\* What is served has been in the cache for less than the timeout of its type:
\* pool changes reach the answers of a backend after CACHE_HASH_TIMEOUT seconds.
ServedIsYoung == pc = "served" => age[m_current_item] < TIMEOUT

\* The map owns every object: nothing allocated is out of its reach (a leak),
\* nothing it holds is deleted, and no two keys share an object (which would be
\* deleted twice).
MapOwnsObjects ==
  /\ live = Values(m_items)
  /\ \A j, k \in DOMAIN m_items : m_items[j] = m_items[k] => j = k

-----------------------------------------------------------------------------
(* The cache as its callers see it *)

\* What a caller reads through the pointer it was served.
Given ==
  IF pc # "served" THEN NULL
  ELSE IF m_current_item \in live THEN <<loaded_for[m_current_item], age[m_current_item]>>
  ELSE <<"deleted">>

Map == INSTANCE TimedMap WITH
  entry   <- [k \in DOMAIN m_items |-> age[m_items[k]]],
  phase   <- pc,
  given   <- Given,
  Nothing <- NULL

\* The remembered pointer never shows: the cache is a map whose entries age.
ImplementsTimedMap == Map!Spec

=============================================================================
