------------------------------ MODULE HashRing ------------------------------
(***************************************************************************)
(* The consistent hash ring of the PowerDNS backend: how Hash_Ring is       *)
(* built from the rows of a pool (hashring.cc, add_node) and how a query    *)
(* collects num_results servers from it (wpmetabackend.cc,                  *)
(* send_from_hash_cache, and hashring.cc, get_node).  A backend thread owns *)
(* its ring, so the steps of this module are those of one thread.  The CRC   *)
(* of a string is a function here: that all threads share one CRC object,   *)
(* and use it without a lock, is not modelled.                             *)
(***************************************************************************)
EXTENDS Integers, Sequences, FiniteSets

CONSTANTS
  Node,         \* the servers (pool.content)
  NoNode,       \* the empty string get_node returns for an empty ring
  UINT32_MAX,   \* the largest CRC value
  NUM_BUCKETS,  \* defines.h: how often a server is repeated around the ring
  BUCKET_SIZE,  \* defines.h: UINT32_MAX / NUM_BUCKETS
  MaxWeight,    \* the largest pool.hashring_weight
  Crcs,         \* the CRC functions considered: a copy of a server -> CRC
  Tables,       \* the row sequences the query on table pool may return
  NumResults    \* the values of poolhouse.num_results

Hash  == 0 .. UINT32_MAX
Copy  == 0 .. MaxWeight - 1
Row   == [content : Node, hashring_weight : 0 .. MaxWeight]

ASSUME HashAssumption ==
  /\ UINT32_MAX \in Nat /\ NUM_BUCKETS \in Nat \ {0} /\ BUCKET_SIZE \in Nat \ {0}
  /\ NUM_BUCKETS * BUCKET_SIZE <= UINT32_MAX
  /\ MaxWeight \in Nat
  /\ Crcs \subseteq [Node \X Copy -> Hash]

ASSUME TableAssumption ==
  /\ NoNode \notin Node
  /\ \A t \in Tables : t \in Seq(Row) /\ t # << >>
  /\ NumResults \subseteq 0 .. 255

VARIABLES
  crc,          \* the CRC function (chosen once, never changed)
  pool,         \* the rows the ring was built from
  rows,         \* the rows the do-while loop of prepare_records has still to add
  m_hashring,   \* the std::map: ring position -> server
  num_results,  \* the ring's m_numresults
  pc,           \* where the thread is
  query,        \* the CRC of the name asked for
  int_hash,     \* get_node: where the next lower_bound starts
  depth,        \* get_node: its countdown
  tmp_vec       \* the answers so far: addedIPs[i] of the code is tmp_vec[i]

vars == <<crc, pool, rows, m_hashring, num_results, pc, query, int_hash, depth, tmp_vec>>

EmptyRing == [p \in {} |-> NoNode]

Nodes(ring)     == {ring[p] : p \in DOMAIN ring}
Contents(table) == {table[i].content : i \in DOMAIN table}

-----------------------------------------------------------------------------
(* Building the ring *)

\* The buckets the inner loop of add_node visits.
Buckets == 0 .. NUM_BUCKETS - 1

\* Variant: the modulo is forgotten.
InBucketNoModulo(node, copy) == crc[node, copy]

\* The place of one copy of a server inside a bucket.
InBucket(node, copy) == crc[node, copy] % BUCKET_SIZE

\* Variant: the inner loop stops one bucket early.
PositionsOneShort(row) ==
  {InBucket(row.content, c) + i * BUCKET_SIZE :
     c \in 0 .. row.hashring_weight - 1, i \in 0 .. NUM_BUCKETS - 2}

\* Every position add_node writes for one row.
Positions(row) ==
  {InBucket(row.content, c) + i * BUCKET_SIZE : c \in 0 .. row.hashring_weight - 1, i \in Buckets}

\* The map after add_node: a position already taken is overwritten.
AddNode(ring, row) ==
  [p \in DOMAIN ring \cup Positions(row) |->
     IF p \in Positions(row) THEN row.content ELSE ring[p]]

-----------------------------------------------------------------------------
(* Walking the ring *)

\* Variant: find(h), and begin() when there is nothing at h.
IsFound(ring, h, p) ==
  IF h \in DOMAIN ring THEN p = h ELSE \A q \in DOMAIN ring : p <= q

\* lower_bound(h), and begin() when there is nothing at or after h.
IsSuccessor(ring, h, p) ==
  \/ p >= h /\ \A q \in DOMAIN ring : q >= h => p <= q
  \/ (\A q \in DOMAIN ring : q < h) /\ (\A q \in DOMAIN ring : p <= q)

\* Where the walk goes on: int_hash++ on 32 bits.
After(p) == (p + 1) % (UINT32_MAX + 1)

\* Variant: > for >=.
IgnoredBeyond(node, d, answers) ==
  \E k \in DOMAIN answers : k > d /\ answers[k] = node

\* The scan of ignore_IPs: one of the answers from the depth-th on is this server.
Ignored(node, d, answers) ==
  \E k \in DOMAIN answers : k >= d /\ answers[k] = node

\* Variant: one countdown too many.
FirstDepthOneMore(answers) == Len(answers) + 2

\* send_from_hash_cache asks get_node for the answer after those it has.
FirstDepth(answers) == Len(answers) + 1

\* Variant: <= for < in the loop condition.
ContinueOnceMore(answers, n) == IF Len(answers) <= n THEN "call" ELSE "ready"

\* Where the loop of send_from_hash_cache goes once an answer is in.
Continue(answers, n) == IF Len(answers) < n THEN "call" ELSE "ready"

-----------------------------------------------------------------------------
Init ==
  /\ crc \in Crcs
  /\ pool = << >> /\ rows = << >> /\ m_hashring = EmptyRing
  /\ num_results = 0
  /\ pc = "none"
  /\ query = 0 /\ int_hash = 0 /\ depth = 0 /\ tmp_vec = << >>

\* Variant: the rows are added to the ring that is already there.
RefreshOldRing ==
  /\ pc \in {"none", "ready"}
  /\ \E t \in Tables, n \in NumResults :
       /\ pool' = t /\ rows' = t
       /\ num_results' = n
  /\ pc' = "build"
  /\ tmp_vec' = << >>
  /\ UNCHANGED <<crc, m_hashring, query, int_hash, depth>>

\* prepare_records finds no valid ring in the cache and queries the pool: a new
\* ring, empty until the rows are added.
Refresh ==
  /\ pc \in {"none", "ready"}
  /\ \E t \in Tables, n \in NumResults :
       /\ pool' = t /\ rows' = t
       /\ num_results' = n
  /\ m_hashring' = EmptyRing
  /\ pc' = "build"
  /\ tmp_vec' = << >>
  /\ UNCHANGED <<crc, query, int_hash, depth>>

\* One iteration of the do-while loop; after the last row the ring is cached.
Build ==
  /\ pc = "build"
  /\ m_hashring' = AddNode(m_hashring, Head(rows))
  /\ rows' = Tail(rows)
  /\ pc' = IF Tail(rows) = << >> THEN "ready" ELSE "build"
  /\ UNCHANGED <<crc, pool, num_results, query, int_hash, depth, tmp_vec>>

\* send_from_hash_cache is called for a name; num_results = 0 gives no answer.
Query ==
  /\ pc = "ready"
  /\ query' \in Hash
  /\ tmp_vec' = << >>
  /\ pc' = Continue(<< >>, num_results)
  /\ UNCHANGED <<crc, pool, rows, m_hashring, num_results, int_hash, depth>>

\* get_node is entered: an empty ring answers at once with the empty string,
\* otherwise the walk starts at the CRC of the name.
GetNode ==
  /\ pc = "call"
  /\ IF m_hashring = EmptyRing
       THEN /\ tmp_vec' = Append(tmp_vec, NoNode)
            /\ pc' = Continue(tmp_vec', num_results)
            /\ UNCHANGED <<int_hash, depth>>
       ELSE /\ int_hash' = query
            /\ depth' = FirstDepth(tmp_vec)
            /\ pc' = "walk"
            /\ UNCHANGED tmp_vec
  /\ UNCHANGED <<crc, pool, rows, m_hashring, num_results, query>>

\* One iteration of the while loop of get_node.  The iteration that brings
\* depth to 0 returns the server it stands on.
Walk ==
  /\ pc = "walk"
  /\ \E p \in DOMAIN m_hashring :
       /\ IsSuccessor(m_hashring, int_hash, p)
       /\ int_hash' = After(p)
       /\ IF Ignored(m_hashring[p], depth, tmp_vec)
            THEN UNCHANGED <<depth, tmp_vec, pc>>
            ELSE /\ depth' = depth - 1
                 /\ IF depth = 1
                      THEN /\ tmp_vec' = Append(tmp_vec, m_hashring[p])
                           /\ pc' = Continue(tmp_vec', num_results)
                      ELSE UNCHANGED <<tmp_vec, pc>>
  /\ UNCHANGED <<crc, pool, rows, m_hashring, num_results, query>>

Next == Refresh \/ Build \/ Query \/ GetNode \/ Walk

Spec == Init /\ [][Next]_vars

\* The thread runs: it never stops inside a call.  Whether another query or
\* refresh ever comes is not assumed.
FairSpec == Spec /\ WF_vars(Build) /\ WF_vars(GetNode) /\ WF_vars(Walk)

-----------------------------------------------------------------------------
(* Properties *)

\* The values the fields of the ring and the locals of the walk can have.
TypeOK ==
  /\ crc \in Crcs
  /\ pool \in Seq(Row) /\ rows \in Seq(Row)
  /\ DOMAIN m_hashring \subseteq Hash /\ m_hashring \in [DOMAIN m_hashring -> Node]
  /\ num_results \in 0 .. 255
  /\ pc \in {"none", "build", "ready", "call", "walk"}
  /\ query \in Hash /\ int_hash \in Hash
  /\ depth \in 0 .. 255
  /\ tmp_vec \in Seq(Node \cup {NoNode})

\* No server is returned twice for one name: the skipping by depth in get_node
\* leaves no way to return an earlier answer again (hashring.cc:59-68).
AnswersDistinct ==
  m_hashring # EmptyRing =>
    \A i, j \in DOMAIN tmp_vec : i # j => tmp_vec[i] # tmp_vec[j]

\* Once the ring is built, every answer is a server of the rows it was built
\* from, unless no row has a copy on the ring (hashring.cc:33, 43).
AnswersInPool ==
  \A i \in DOMAIN tmp_vec :
    \/ tmp_vec[i] \in Contents(pool)
    \/ tmp_vec[i] = NoNode /\ \A k \in DOMAIN pool : pool[k].hashring_weight = 0

\* Every bucket holds the same servers at the same places, whatever collides
\* with what (hashring.cc:31-34): the buckets repeat one layout.
BucketsAlike ==
  \A i, j \in Buckets : \A b \in 0 .. BUCKET_SIZE - 1 :
    b + i * BUCKET_SIZE \in DOMAIN m_hashring =>
      /\ b + j * BUCKET_SIZE \in DOMAIN m_hashring
      /\ m_hashring[b + i * BUCKET_SIZE] = m_hashring[b + j * BUCKET_SIZE]

EnoughNodes == Cardinality(Nodes(m_hashring)) >= num_results

\* When the ring holds at least num_results servers, a server that is not
\* ignored is always left on it, so the loop of get_node has a way out.
WalkHasExit ==
  pc = "walk" /\ EnoughNodes =>
    \E p \in DOMAIN m_hashring : ~ Ignored(m_hashring[p], depth, tmp_vec)

\* How far it is round the ring from h to p.
Ahead(h, p) == IF p >= h THEN p - h ELSE UINT32_MAX + 1 + p - h

\* How far it is from h to the nearest position that get_node does not ignore.
ToGo(ring, h, d, answers) ==
  LET open == {p \in DOMAIN ring : ~ Ignored(ring[p], d, answers)}
  IN  CHOOSE n \in Hash : /\ \E p \in open : n = Ahead(h, p)
                         /\ \A p \in open : n <= Ahead(h, p)

\* When the ring holds at least num_results servers, each iteration of get_node
\* counts down or comes closer to where it will: no walk goes round for ever
\* (hashring.cc:49-70).
WalkEnds ==
  [][Walk /\ EnoughNodes =>
       \/ depth' < depth
       \/ /\ depth' = depth
          /\ ToGo(m_hashring', int_hash', depth', tmp_vec') < ToGo(m_hashring, int_hash, depth, tmp_vec)]_vars

\* A name is answered when the ring holds at least num_results servers.
AnsweredIfEnough == pc = "call" /\ EnoughNodes ~> pc = "ready"

\* Every name is answered, however many servers monitoring has left in the pool.
EveryQueryAnswered == pc = "call" ~> pc = "ready"

=============================================================================
