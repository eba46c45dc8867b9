--------------------------- MODULE HashRingProofs ---------------------------
(***************************************************************************)
(* Proofs about HashRing, for every CRC function, every pool, every number  *)
(* of buckets and every number of answers.                                 *)
(*                                                                         *)
(* The argument.  IInv adds to the type invariant where each local of the   *)
(* walk can stand (LocalsInv), that a ring holds servers of its own pool    *)
(* only (RingInv), and that a ring which could not be filled comes from a   *)
(* pool without a single copy (EmptyInv).  Distinct answers follow from the *)
(* last iteration of the walk, the one with depth = 1, which compares the   *)
(* server with every earlier answer.                                       *)
(***************************************************************************)
EXTENDS HashRing, FiniteSetTheorems, WellFoundedInduction, TLAPS

\* The rows still to add are rows of the pool.
RowsInv ==
  /\ pc = "build" => rows # << >>
  /\ \A i \in DOMAIN rows : \E k \in DOMAIN pool : rows[i] = pool[k]

\* Where depth and the answers stand at each program point.
LocalsInv ==
  /\ pc \in {"call", "walk"} => Len(tmp_vec) < num_results
  /\ pc = "walk" => depth \in 1 .. Len(tmp_vec) + 1 /\ m_hashring # EmptyRing
  /\ pc \in {"none", "build"} => tmp_vec = << >>

\* A ring holds servers of its own pool only.
RingInv ==
  /\ Nodes(m_hashring) \subseteq Contents(pool)
  /\ \A i \in DOMAIN tmp_vec :
       IF m_hashring = EmptyRing THEN tmp_vec[i] = NoNode ELSE tmp_vec[i] \in Nodes(m_hashring)

\* A ring is empty while no row with a copy has been added.
EmptyInv ==
  m_hashring = EmptyRing =>
    \A k \in DOMAIN pool :
      \/ pool[k].hashring_weight = 0
      \/ pc = "build" /\ \E i \in DOMAIN rows : rows[i] = pool[k]

IInv == TypeOK /\ RowsInv /\ LocalsInv /\ RingInv /\ EmptyInv /\ AnswersDistinct /\ BucketsAlike

-----------------------------------------------------------------------------
(* Lemmas on the operators *)

\* Hash values are numbers.
LEMMA HashInNat == \A h \in Hash : h \in Nat
<1>1. UINT32_MAX \in Nat
  BY HashAssumption
<1> QED
  BY <1>1 DEF Hash

\* i buckets of a size that divides no more than the CRC range end inside it.
LEMMA BucketBound ==
  ASSUME NEW i \in Buckets, NEW b \in 0 .. BUCKET_SIZE - 1
  PROVE  b + i * BUCKET_SIZE \in Hash
<1>1. i + 1 <= NUM_BUCKETS /\ i \in Nat
  BY HashAssumption DEF Buckets
<1>2. (i + 1) * BUCKET_SIZE <= NUM_BUCKETS * BUCKET_SIZE
  BY <1>1, HashAssumption
<1>3. (i + 1) * BUCKET_SIZE = i * BUCKET_SIZE + BUCKET_SIZE
  BY <1>1, HashAssumption
<1>4. i * BUCKET_SIZE \in Nat
  BY <1>1, HashAssumption
<1> QED
  BY <1>2, <1>3, <1>4, HashAssumption DEF Hash

\* A copy of a server lies inside a bucket.
LEMMA InBucketType ==
  ASSUME crc \in Crcs, NEW row \in Row, NEW c \in 0 .. row.hashring_weight - 1
  PROVE  InBucket(row.content, c) \in 0 .. BUCKET_SIZE - 1
<1>1. c \in Copy /\ row.content \in Node
  BY HashAssumption DEF Row, Copy
<1>2. crc \in [Node \X Copy -> Hash]
  BY HashAssumption
<1>3. crc[row.content, c] \in Hash
  BY <1>1, <1>2
<1>4. crc[row.content, c] \in Nat
  BY <1>3, HashInNat
<1>5. \A h \in Nat : h % BUCKET_SIZE \in 0 .. BUCKET_SIZE - 1
  BY HashAssumption
<1> QED
  BY <1>4, <1>5 DEF InBucket

\* The positions written for a row lie in the CRC range.
LEMMA PositionsType ==
  ASSUME crc \in Crcs, NEW row \in Row
  PROVE  Positions(row) \subseteq Hash
<1> SUFFICES ASSUME NEW c \in 0 .. row.hashring_weight - 1, NEW i \in Buckets
             PROVE  InBucket(row.content, c) + i * BUCKET_SIZE \in Hash
  BY DEF Positions
<1> QED
  BY InBucketType, BucketBound

\* A row with a copy takes at least one position.
LEMMA PositionsNonEmpty ==
  ASSUME NEW row \in Row, row.hashring_weight # 0
  PROVE  Positions(row) # {}
<1>1. 0 \in 0 .. row.hashring_weight - 1 /\ 0 \in Buckets
  BY HashAssumption DEF Row, Buckets
<1>2. InBucket(row.content, 0) + 0 * BUCKET_SIZE \in Positions(row)
  BY <1>1 DEF Positions
<1> QED
  BY <1>2

\* A number is at one place of one bucket only.
LEMMA SameSlot ==
  ASSUME NEW b \in 0 .. BUCKET_SIZE - 1, NEW c \in 0 .. BUCKET_SIZE - 1,
         NEW i \in Buckets, NEW j \in Buckets,
         b + i * BUCKET_SIZE = c + j * BUCKET_SIZE
  PROVE  b = c
<1>1. i \in Nat /\ j \in Nat /\ b \in Nat /\ c \in Nat /\ b < BUCKET_SIZE /\ c < BUCKET_SIZE
  BY HashAssumption DEF Buckets
<1>2. (i - j) * BUCKET_SIZE = c - b
  BY <1>1, HashAssumption
<1>3. i - j = 0
  <2>1. CASE i - j >= 1
    <3>1. (i - j) * BUCKET_SIZE >= BUCKET_SIZE
      BY <1>1, <2>1, HashAssumption
    <3> QED BY <1>1, <1>2, <3>1, HashAssumption
  <2>2. CASE i - j <= -1
    <3>1. (i - j) * BUCKET_SIZE <= -BUCKET_SIZE
      BY <1>1, <2>2, HashAssumption
    <3> QED BY <1>1, <1>2, <3>1, HashAssumption
  <2> QED BY <1>1, <2>1, <2>2
<1> QED
  BY <1>1, <1>2, <1>3, HashAssumption

\* The positions of a row repeat from bucket to bucket.
LEMMA PositionsAlike ==
  ASSUME crc \in Crcs, NEW row \in Row,
         NEW b \in 0 .. BUCKET_SIZE - 1, NEW i \in Buckets, NEW j \in Buckets,
         b + i * BUCKET_SIZE \in Positions(row)
  PROVE  b + j * BUCKET_SIZE \in Positions(row)
<1>1. PICK c \in 0 .. row.hashring_weight - 1, k \in Buckets :
        b + i * BUCKET_SIZE = InBucket(row.content, c) + k * BUCKET_SIZE
  BY DEF Positions
<1>2. b = InBucket(row.content, c)
  BY <1>1, InBucketType, SameSlot
<1> QED
  BY <1>2 DEF Positions

\* Adding a row keeps the buckets alike.
LEMMA AddNodeAlike ==
  ASSUME crc \in Crcs, NEW row \in Row, BucketsAlike, m_hashring' = AddNode(m_hashring, row)
  PROVE  BucketsAlike'
<1> SUFFICES ASSUME NEW i \in Buckets, NEW j \in Buckets, NEW b \in 0 .. BUCKET_SIZE - 1,
                    b + i * BUCKET_SIZE \in DOMAIN m_hashring'
             PROVE  /\ b + j * BUCKET_SIZE \in DOMAIN m_hashring'
                    /\ m_hashring'[b + i * BUCKET_SIZE] = m_hashring'[b + j * BUCKET_SIZE]
  BY DEF BucketsAlike, Buckets
<1> DEFINE x == b + i * BUCKET_SIZE
           y == b + j * BUCKET_SIZE
<1>1. x \in Positions(row) <=> y \in Positions(row)
  BY PositionsAlike
<1>2. x \in DOMAIN m_hashring => y \in DOMAIN m_hashring /\ m_hashring[x] = m_hashring[y]
  BY DEF BucketsAlike
<1> HIDE DEF x, y
<1>3. /\ DOMAIN m_hashring' = DOMAIN m_hashring \cup Positions(row)
      /\ \A p \in DOMAIN m_hashring' :
           m_hashring'[p] = IF p \in Positions(row) THEN row.content ELSE m_hashring[p]
  BY DEF AddNode
<1>4. x \in DOMAIN m_hashring'
  BY DEF x
<1>5. y \in DOMAIN m_hashring' /\ m_hashring'[x] = m_hashring'[y]
  BY <1>1, <1>2, <1>3, <1>4
<1> QED
  BY <1>5 DEF x, y

\* The walk appends a server that no earlier answer is.
LEMMA AppendDistinct ==
  ASSUME tmp_vec \in Seq(Node \cup {NoNode}), NEW n \in Node, ~ Ignored(n, 1, tmp_vec),
         \A i, j \in DOMAIN tmp_vec : i # j => tmp_vec[i] # tmp_vec[j],
         NEW s, s = Append(tmp_vec, n)
  PROVE  \A i, j \in DOMAIN s : i # j => s[i] # s[j]
<1>1. \A k \in DOMAIN tmp_vec : tmp_vec[k] # n
  BY DEF Ignored
<1> QED
  BY <1>1

-----------------------------------------------------------------------------
(* The inductive invariant *)

LEMMA InitIInv == Init => IInv
<1> SUFFICES ASSUME Init PROVE IInv
  OBVIOUS
<1>1. TypeOK
  BY HashAssumption DEF Init, TypeOK, EmptyRing, Hash
<1>2. RowsInv /\ LocalsInv /\ EmptyInv /\ AnswersDistinct
  BY DEF Init, RowsInv, LocalsInv, EmptyInv, AnswersDistinct
<1>3. RingInv /\ BucketsAlike
  BY DEF Init, RingInv, BucketsAlike, EmptyRing, Nodes
<1> QED
  BY <1>1, <1>2, <1>3 DEF IInv

LEMMA RefreshIInv == IInv /\ Refresh => IInv'
<1> SUFFICES ASSUME IInv, Refresh PROVE IInv'
  OBVIOUS
<1> USE DEF IInv, Refresh
<1>1. PICK t \in Tables, n \in NumResults : pool' = t /\ rows' = t /\ num_results' = n
  OBVIOUS
<1>2. t \in Seq(Row) /\ t # << >> /\ n \in 0 .. 255
  BY TableAssumption
<1>3. TypeOK'
  BY <1>1, <1>2 DEF TypeOK, EmptyRing
<1>4. RowsInv' /\ LocalsInv' /\ EmptyInv' /\ AnswersDistinct'
  BY <1>1, <1>2 DEF RowsInv, LocalsInv, EmptyInv, AnswersDistinct
<1>5. RingInv' /\ BucketsAlike'
  BY <1>1 DEF RingInv, BucketsAlike, EmptyRing, Nodes
<1> QED
  BY <1>3, <1>4, <1>5

LEMMA BuildIInv == IInv /\ Build => IInv'
<1> SUFFICES ASSUME IInv, Build PROVE IInv'
  OBVIOUS
<1> USE DEF IInv, Build
<1> DEFINE row == Head(rows)
<1>1. /\ rows \in Seq(Row) /\ rows # << >> /\ row \in Row /\ row = rows[1]
      /\ Tail(rows) \in Seq(Row)
      /\ \A i \in DOMAIN Tail(rows) : i + 1 \in DOMAIN rows /\ Tail(rows)[i] = rows[i + 1]
      /\ \A i \in DOMAIN rows : i = 1 \/ (i - 1 \in DOMAIN Tail(rows) /\ Tail(rows)[i - 1] = rows[i])
  <2>1. rows \in Seq(Row) /\ rows # << >>
    BY DEF TypeOK, RowsInv
  <2>2. /\ row \in Row /\ row = rows[1] /\ Tail(rows) \in Seq(Row)
        /\ Len(Tail(rows)) = Len(rows) - 1 /\ Len(rows) \in Nat \ {0}
        /\ \A i \in 1 .. Len(Tail(rows)) : Tail(rows)[i] = rows[i + 1]
    BY <2>1
  <2>3. DOMAIN rows = 1 .. Len(rows) /\ DOMAIN Tail(rows) = 1 .. Len(Tail(rows))
    BY <2>1, <2>2
  <2> HIDE DEF row
  <2>4. \A i \in DOMAIN Tail(rows) : i + 1 \in DOMAIN rows /\ Tail(rows)[i] = rows[i + 1]
    BY <2>2, <2>3
  <2>5. \A i \in DOMAIN rows : i = 1 \/ (i - 1 \in DOMAIN Tail(rows) /\ Tail(rows)[i - 1] = rows[i])
    <3> SUFFICES ASSUME NEW i \in DOMAIN rows, i # 1
        PROVE  i - 1 \in DOMAIN Tail(rows) /\ Tail(rows)[i - 1] = rows[i]
      OBVIOUS
    <3>1. i - 1 \in 1 .. Len(Tail(rows)) /\ (i - 1) + 1 = i
      BY <2>2, <2>3
    <3> QED
      BY <2>2, <2>3, <3>1
  <2> QED
    BY <2>1, <2>2, <2>4, <2>5
<1>2. /\ DOMAIN m_hashring' = DOMAIN m_hashring \cup Positions(row)
      /\ \A p \in DOMAIN m_hashring' :
           m_hashring'[p] = IF p \in Positions(row) THEN row.content ELSE m_hashring[p]
      /\ m_hashring' = [p \in DOMAIN m_hashring' |-> m_hashring'[p]]
  BY DEF AddNode
<1>3. crc \in Crcs /\ tmp_vec = << >>
  BY DEF TypeOK, LocalsInv
<1>4. row.content \in Node
  BY <1>1 DEF Row
<1>5. Positions(row) \subseteq Hash
  BY <1>1, <1>3, PositionsType
<1> HIDE DEF row
<1>6. m_hashring' \in [DOMAIN m_hashring' -> Node]
  BY <1>2, <1>4 DEF TypeOK
<1>7. TypeOK'
  BY <1>1, <1>2, <1>5, <1>6 DEF TypeOK
<1>8. RowsInv'
  BY <1>1 DEF RowsInv
<1>9. PICK k0 \in DOMAIN pool : row = pool[k0]
  BY <1>1 DEF RowsInv
<1>10. RingInv'
  <2>1. \A p \in DOMAIN m_hashring' : m_hashring'[p] \in Contents(pool)
    <3>1. \A p \in DOMAIN m_hashring : m_hashring[p] \in Contents(pool)
      BY DEF RingInv, Nodes
    <3>2. row.content \in Contents(pool)
      BY <1>9 DEF Contents
    <3> QED
      BY ONLY <1>2, <3>1, <3>2
  <2> QED
    BY <2>1, <1>3 DEF RingInv, Nodes, Contents
<1>11. EmptyInv'
  <2> SUFFICES ASSUME m_hashring' = EmptyRing, NEW k \in DOMAIN pool, pool[k].hashring_weight # 0
               PROVE  pc' = "build" /\ \E i \in DOMAIN Tail(rows) : Tail(rows)[i] = pool[k]
    BY DEF EmptyInv
  <2>1. DOMAIN m_hashring' = {}
    BY DEF EmptyRing
  <2>2. DOMAIN m_hashring = {} /\ Positions(row) = {}
    BY <2>1, <1>2
  <2>3. m_hashring = EmptyRing
    BY <2>2 DEF EmptyRing, TypeOK
  <2>4. row.hashring_weight = 0
    BY <2>2, <1>1, PositionsNonEmpty
  <2>5. PICK i \in DOMAIN rows : rows[i] = pool[k]
    BY <2>3 DEF EmptyInv
  <2>6. i # 1
    BY <2>4, <2>5, <1>1
  <2>7. i - 1 \in DOMAIN Tail(rows) /\ Tail(rows)[i - 1] = pool[k]
    BY <2>5, <2>6, <1>1
  <2>8. Tail(rows) # << >>
    BY <2>7
  <2> QED
    BY <2>7, <2>8
<1>12. AnswersDistinct' /\ LocalsInv'
  <2>1. pc' \in {"ready", "build"}
    OBVIOUS
  <2> QED
    BY <1>3, <2>1 DEF AnswersDistinct, LocalsInv
<1>13. BucketsAlike'
  BY <1>1, <1>3, AddNodeAlike DEF row
<1> QED
  BY <1>7, <1>8, <1>10, <1>11, <1>12, <1>13

LEMMA QueryIInv == IInv /\ Query => IInv'
<1> SUFFICES ASSUME IInv, Query PROVE IInv'
  OBVIOUS
<1> USE DEF IInv, Query
<1>1. /\ pc' \in {"call", "ready"}
      /\ pc' = "call" => Len(tmp_vec') < num_results
  BY DEF Continue
<1>2. TypeOK'
  BY <1>1 DEF TypeOK
<1>3. RowsInv' /\ LocalsInv' /\ EmptyInv' /\ AnswersDistinct'
  BY <1>1 DEF RowsInv, LocalsInv, EmptyInv, AnswersDistinct
<1>4. RingInv' /\ BucketsAlike'
  BY DEF RingInv, BucketsAlike, Nodes, Buckets
<1> QED
  BY <1>2, <1>3, <1>4

LEMMA GetNodeIInv == IInv /\ GetNode => IInv'
<1> SUFFICES ASSUME IInv, GetNode PROVE IInv'
  OBVIOUS
<1> USE DEF IInv, GetNode
<1>1. RowsInv' /\ EmptyInv' /\ BucketsAlike'
  <2>1. pc' # "build"
    BY DEF Continue
  <2> QED
    BY <2>1 DEF RowsInv, EmptyInv, BucketsAlike, Buckets
<1>2. tmp_vec \in Seq(Node \cup {NoNode}) /\ Len(tmp_vec) < num_results /\ num_results \in 0 .. 255
  BY DEF TypeOK, LocalsInv
<1>3. CASE m_hashring = EmptyRing
  <2>1. /\ tmp_vec' = Append(tmp_vec, NoNode)
        /\ pc' \in {"call", "ready"}
        /\ pc' = "call" => Len(tmp_vec') < num_results
        /\ UNCHANGED <<int_hash, depth>>
    BY <1>3 DEF Continue
  <2>2. TypeOK'
    BY <1>2, <2>1 DEF TypeOK
  <2>3. LocalsInv' /\ AnswersDistinct'
    BY <1>3, <2>1 DEF LocalsInv, AnswersDistinct
  <2>4. RingInv'
    <3>1. \A i \in DOMAIN tmp_vec' : tmp_vec'[i] = NoNode
      BY <1>2, <1>3, <2>1 DEF RingInv
    <3> QED
      BY <1>3, <3>1 DEF RingInv, Nodes, Contents
  <2> QED
    BY <1>1, <2>2, <2>3, <2>4
<1>4. CASE m_hashring # EmptyRing
  <2>1. int_hash' = query /\ depth' = Len(tmp_vec) + 1 /\ pc' = "walk" /\ UNCHANGED tmp_vec
    BY <1>4 DEF FirstDepth
  <2>2. TypeOK'
    <3>1. Len(tmp_vec) \in Nat
      BY <1>2
    <3>2. Len(tmp_vec) + 1 \in 0 .. 255
      <4>1. \A l \in Nat, n \in 0 .. 255 : l < n => l + 1 \in 0 .. 255
        OBVIOUS
      <4> QED
        BY ONLY <1>2, <3>1, <4>1
    <3> QED
      BY <2>1, <3>2 DEF TypeOK
  <2>3. LocalsInv' /\ AnswersDistinct'
    BY <1>2, <1>4, <2>1 DEF LocalsInv, AnswersDistinct
  <2>4. RingInv'
    BY <2>1 DEF RingInv, Nodes, Contents
  <2> QED
    BY <1>1, <2>2, <2>3, <2>4
<1> QED
  BY <1>3, <1>4

LEMMA WalkIInv == IInv /\ Walk => IInv'
<1> SUFFICES ASSUME IInv, Walk PROVE IInv'
  OBVIOUS
<1> USE DEF IInv
<1>1. PICK p \in DOMAIN m_hashring :
        /\ int_hash' = After(p)
        /\ IF Ignored(m_hashring[p], depth, tmp_vec)
             THEN UNCHANGED <<depth, tmp_vec, pc>>
             ELSE /\ depth' = depth - 1
                  /\ IF depth = 1
                       THEN /\ tmp_vec' = Append(tmp_vec, m_hashring[p])
                            /\ pc' = Continue(tmp_vec', num_results)
                       ELSE UNCHANGED <<tmp_vec, pc>>
  BY DEF Walk
<1>2. pc = "walk" /\ UNCHANGED <<crc, pool, rows, m_hashring, num_results, query>>
  BY DEF Walk
<1>3. /\ m_hashring # EmptyRing /\ depth \in 1 .. Len(tmp_vec) + 1
      /\ Len(tmp_vec) < num_results /\ num_results \in 0 .. 255
      /\ tmp_vec \in Seq(Node \cup {NoNode}) /\ depth \in 0 .. 255
  BY <1>2 DEF LocalsInv, TypeOK
<1>4. m_hashring[p] \in Node /\ p \in Hash /\ m_hashring[p] \in Nodes(m_hashring)
  BY DEF TypeOK, Nodes
<1>5. int_hash' \in Hash
  <2>1. p \in Nat /\ UINT32_MAX \in Nat
    BY <1>4, HashInNat, HashAssumption
  <2> QED
    BY <1>1, <2>1 DEF Hash, After
<1>6. RowsInv' /\ EmptyInv' /\ BucketsAlike'
  <2>1. pc' # "build"
    BY <1>1, <1>2 DEF Continue
  <2> QED
    BY <1>2, <2>1 DEF RowsInv, EmptyInv, BucketsAlike, Buckets
<1>7. CASE UNCHANGED <<tmp_vec, pc>> /\ depth' \in 1 .. depth
  <2>1. TypeOK'
    <3>1. depth' \in 0 .. 255
      BY <1>3, <1>7
    <3> QED
      BY <1>2, <1>5, <1>7, <3>1 DEF TypeOK
  <2>2. LocalsInv' /\ AnswersDistinct'
    BY <1>2, <1>3, <1>7 DEF LocalsInv, AnswersDistinct
  <2>3. RingInv'
    BY <1>2, <1>7 DEF RingInv, Nodes, Contents
  <2> QED
    BY <1>6, <2>1, <2>2, <2>3
<1>8. CASE /\ depth = 1 /\ depth' = 0
           /\ ~ Ignored(m_hashring[p], depth, tmp_vec)
           /\ tmp_vec' = Append(tmp_vec, m_hashring[p])
           /\ pc' = Continue(tmp_vec', num_results)
  <2>1. pc' \in {"call", "ready"} /\ (pc' = "call" => Len(tmp_vec') < num_results)
    BY <1>8 DEF Continue
  <2>2. TypeOK'
    BY <1>2, <1>3, <1>4, <1>5, <1>8, <2>1 DEF TypeOK
  <2>3. LocalsInv'
    BY <1>2, <2>1 DEF LocalsInv
  <2>4. AnswersDistinct'
    <3>1. \A i, j \in DOMAIN tmp_vec : i # j => tmp_vec[i] # tmp_vec[j]
      BY <1>3 DEF AnswersDistinct
    <3> QED
      BY <1>3, <1>4, <1>8, <3>1, AppendDistinct DEF AnswersDistinct
  <2>5. RingInv'
    <3>1. \A i \in DOMAIN tmp_vec' : tmp_vec'[i] \in Nodes(m_hashring)
      BY <1>3, <1>4, <1>8 DEF RingInv
    <3>2. m_hashring' = m_hashring /\ m_hashring # EmptyRing
      BY <1>2, <1>3
    <3>3. Nodes(m_hashring)' \subseteq Contents(pool)'
      BY <1>2 DEF RingInv, Nodes, Contents
    <3>4. \A i \in DOMAIN tmp_vec' : tmp_vec'[i] \in Nodes(m_hashring)'
      BY <3>1, <3>2 DEF Nodes
    <3> QED
      BY <3>2, <3>3, <3>4 DEF RingInv
  <2> QED
    BY <1>6, <2>2, <2>3, <2>4, <2>5
<1> QED
  BY <1>1, <1>3, <1>7, <1>8

\* The strengthened invariant holds in every reachable state.
THEOREM IInvHolds == Spec => []IInv
<1>1. IInv /\ UNCHANGED vars => IInv'
  <2> SUFFICES ASSUME IInv, UNCHANGED vars PROVE IInv'
    OBVIOUS
  <2> USE DEF IInv, vars
  <2>1. TypeOK' /\ RowsInv' /\ LocalsInv' /\ EmptyInv' /\ AnswersDistinct'
    BY DEF TypeOK, RowsInv, LocalsInv, EmptyInv, AnswersDistinct
  <2>2. RingInv' /\ BucketsAlike'
    BY DEF RingInv, BucketsAlike, Nodes, Contents, Buckets
  <2> QED
    BY <2>1, <2>2
<1>2. IInv /\ [Next]_vars => IInv'
  BY <1>1, RefreshIInv, BuildIInv, QueryIInv, GetNodeIInv, WalkIInv DEF Next
<1> QED
  BY <1>2, InitIInv, PTL DEF Spec

-----------------------------------------------------------------------------
(* What follows from the invariant *)

\* Type correctness: in particular the arithmetic on positions and on int_hash
\* stays inside the 32 bits of the CRC, for every number of buckets.
THEOREM TypeCorrect == Spec => []TypeOK
<1>1. IInv => TypeOK
  BY DEF IInv
<1> QED
  BY <1>1, IInvHolds, PTL

\* No server is returned twice for one name.
THEOREM DistinctAnswers == Spec => []AnswersDistinct
<1>1. IInv => AnswersDistinct
  BY DEF IInv
<1> QED
  BY <1>1, IInvHolds, PTL

\* The buckets of a ring repeat one layout, collisions included.
THEOREM AlikeBuckets == Spec => []BucketsAlike
<1>1. IInv => BucketsAlike
  BY DEF IInv
<1> QED
  BY <1>1, IInvHolds, PTL

\* Answers are servers of the pool the ring was built from.
THEOREM PoolAnswers == Spec => []AnswersInPool
<1>1. IInv => AnswersInPool
  <2> SUFFICES ASSUME IInv, NEW i \in DOMAIN tmp_vec
               PROVE  \/ tmp_vec[i] \in Contents(pool)
                      \/ tmp_vec[i] = NoNode /\ \A k \in DOMAIN pool : pool[k].hashring_weight = 0
    BY DEF AnswersInPool
  <2>1. pc # "build"
    BY DEF IInv, LocalsInv
  <2>2. CASE m_hashring = EmptyRing
    <3>1. tmp_vec[i] = NoNode
      BY <2>2 DEF IInv, RingInv
    <3>2. \A k \in DOMAIN pool : pool[k].hashring_weight = 0
      BY <2>1, <2>2 DEF IInv, EmptyInv
    <3> QED
      BY <3>1, <3>2
  <2>3. CASE m_hashring # EmptyRing
    BY <2>3 DEF IInv, RingInv
  <2> QED
    BY <2>2, <2>3
<1> QED
  BY <1>1, IInvHolds, PTL

\* There are no more ignored servers than answers.
LEMMA IgnoredBound ==
  ASSUME NEW s, NEW T, s \in Seq(T), NEW S, \A x \in S : \E k \in DOMAIN s : s[k] = x
  PROVE  IsFiniteSet(S) /\ Cardinality(S) <= Len(s)
<1>1. Len(s) \in Nat /\ DOMAIN s = 1 .. Len(s)
  OBVIOUS
<1> DEFINE used == {k \in 1 .. Len(s) : s[k] \in S}
           f    == [k \in used |-> s[k]]
<1>2. IsFiniteSet(1 .. Len(s)) /\ Cardinality(1 .. Len(s)) = Len(s)
  <2>1. \A n \in Nat : IsFiniteSet(1 .. n) /\ Cardinality(1 .. n) = n
    BY FS_Interval
  <2> QED
    BY <1>1, <2>1
<1>3. IsFiniteSet(used) /\ Cardinality(used) <= Len(s)
  BY <1>2, FS_Subset
<1>4. f \in Surjection(used, S)
  BY <1>1 DEF Surjection
<1>5. IsFiniteSet(S) /\ Cardinality(S) <= Cardinality(used)
  BY <1>3, <1>4, FS_Surjection
<1>6. Cardinality(S) \in Nat /\ Cardinality(used) \in Nat
  BY <1>3, <1>5, FS_CardinalityType
<1> QED
  BY <1>1, <1>3, <1>5, <1>6

\* With num_results servers on the ring the loop of get_node has a way out,
\* whatever the ring, the answers so far and the countdown.
THEOREM ExitExists == Spec => []WalkHasExit
<1>1. IInv => WalkHasExit
  <2> SUFFICES ASSUME IInv, pc = "walk", EnoughNodes,
                      \A p \in DOMAIN m_hashring : Ignored(m_hashring[p], depth, tmp_vec)
               PROVE  FALSE
    BY DEF WalkHasExit
  <2>1. tmp_vec \in Seq(Node \cup {NoNode}) /\ Len(tmp_vec) < num_results /\ num_results \in 0 .. 255
    BY DEF IInv, TypeOK, LocalsInv
  <2>2. \A x \in Nodes(m_hashring) : \E k \in DOMAIN tmp_vec : tmp_vec[k] = x
    BY DEF Nodes, Ignored
  <2>3. IsFiniteSet(Nodes(m_hashring)) /\ Cardinality(Nodes(m_hashring)) <= Len(tmp_vec)
    BY <2>1, <2>2, IgnoredBound
  <2>4. Cardinality(Nodes(m_hashring)) \in Nat /\ Len(tmp_vec) \in Nat
    BY <2>1, <2>3, FS_CardinalityType
  <2> QED
    BY <2>1, <2>3, <2>4 DEF EnoughNodes
<1> QED
  BY <1>1, IInvHolds, PTL

-----------------------------------------------------------------------------
(* The walk ends *)

\* A set of numbers has a least one.
LEMMA LeastNumber ==
  ASSUME NEW T, T \subseteq Nat, T # {}
  PROVE  \E m \in T : \A k \in T : m <= k
<1> DEFINE R == OpToRel(<, Nat)
<1>1. \A x, y \in Nat : x < y => <<x, y>> \in R
  BY DEF OpToRel
<1>2. IsWellFoundedOn(R, Nat)
  BY NatLessThanWellFounded
<1> HIDE DEF R
<1>3. PICK m \in T : \A k \in T : <<k, m>> \notin R
  BY <1>2, WFMin
<1>4. \A k \in T : k \in Nat /\ m \in Nat /\ ~ (k < m)
  BY <1>1, <1>3
<1> QED
  BY <1>4

\* int_hash++ on 32 bits.
LEMMA AfterValue ==
  ASSUME NEW p \in Hash
  PROVE  After(p) = IF p = UINT32_MAX THEN 0 ELSE p + 1
<1>1. p \in Nat /\ p <= UINT32_MAX /\ UINT32_MAX \in Nat
  BY HashAssumption DEF Hash
<1>2. CASE p = UINT32_MAX
  BY <1>1, <1>2 DEF After
<1>3. CASE p # UINT32_MAX
  BY <1>1, <1>3 DEF After
<1> QED
  BY <1>2, <1>3

\* lower_bound, or begin(), is the position that comes first on the way round.
LEMMA SuccessorIsNearest ==
  ASSUME NEW ring, DOMAIN ring \subseteq Hash, NEW h \in Hash,
         NEW p \in DOMAIN ring, IsSuccessor(ring, h, p), NEW q \in DOMAIN ring, q # p
  PROVE  /\ Ahead(h, p) \in Nat /\ Ahead(h, q) \in Hash
         /\ Ahead(h, p) < Ahead(h, q)
         /\ Ahead(After(p), q) \in Hash /\ Ahead(After(p), q) < Ahead(h, q)
<1>1. /\ h \in Nat /\ p \in Nat /\ q \in Nat /\ UINT32_MAX \in Nat
      /\ h <= UINT32_MAX /\ p <= UINT32_MAX /\ q <= UINT32_MAX
  BY HashAssumption DEF Hash
<1>2. After(p) = IF p = UINT32_MAX THEN 0 ELSE p + 1
  BY AfterValue
<1>3. \/ p >= h /\ (q >= h => p <= q)
      \/ q < h /\ p < h /\ p <= q
  BY DEF IsSuccessor
<1> QED
  BY <1>1, <1>2, <1>3 DEF Ahead, Hash

\* What the distance to the nearest position that is not ignored is.
LEMMA ToGoFacts ==
  ASSUME NEW ring, DOMAIN ring \subseteq Hash, NEW h \in Hash, NEW d, NEW answers,
         NEW x \in DOMAIN ring, ~ Ignored(ring[x], d, answers)
  PROVE  LET n == ToGo(ring, h, d, answers)
         IN  /\ n \in Hash
             /\ \E p \in DOMAIN ring : ~ Ignored(ring[p], d, answers) /\ n = Ahead(h, p)
             /\ \A p \in DOMAIN ring : ~ Ignored(ring[p], d, answers) => n <= Ahead(h, p)
<1> DEFINE open == {p \in DOMAIN ring : ~ Ignored(ring[p], d, answers)}
           T == {Ahead(h, p) : p \in open}
<1>1. \A p \in DOMAIN ring : Ahead(h, p) \in Hash
  BY HashAssumption DEF Ahead, Hash
<1>2. Hash \subseteq Nat
  BY HashInNat
<1>3. T \subseteq Nat /\ T # {} /\ T \subseteq Hash
  BY <1>1, <1>2
<1>4. PICK m \in T : \A k \in T : m <= k
  BY <1>3, LeastNumber
<1>5. m \in Hash /\ (\E p \in open : m = Ahead(h, p)) /\ \A p \in open : m <= Ahead(h, p)
  BY <1>3, <1>4
<1> DEFINE n == ToGo(ring, h, d, answers)
<1>6. n \in Hash /\ (\E p \in open : n = Ahead(h, p)) /\ \A p \in open : n <= Ahead(h, p)
  BY <1>5 DEF ToGo
<1> QED
  BY <1>6

\* An iteration that ignores the server it stands on comes closer to the next
\* that it will not ignore.
LEMMA IgnoringComesCloser ==
  ASSUME NEW ring, DOMAIN ring \subseteq Hash, NEW h \in Hash, NEW d, NEW answers,
         NEW x \in DOMAIN ring, ~ Ignored(ring[x], d, answers),
         NEW p \in DOMAIN ring, IsSuccessor(ring, h, p), Ignored(ring[p], d, answers)
  PROVE  ToGo(ring, After(p), d, answers) < ToGo(ring, h, d, answers)
<1>1. After(p) \in Hash
  BY AfterValue, HashAssumption DEF Hash
<1>2. PICK q \in DOMAIN ring :
        ~ Ignored(ring[q], d, answers) /\ ToGo(ring, h, d, answers) = Ahead(h, q)
  BY ToGoFacts
<1>3. q # p
  BY <1>2
<1>4. Ahead(After(p), q) < Ahead(h, q) /\ Ahead(After(p), q) \in Hash /\ Ahead(h, q) \in Hash
  BY <1>3, SuccessorIsNearest
<1>5. ToGo(ring, After(p), d, answers) <= Ahead(After(p), q) /\ ToGo(ring, After(p), d, answers) \in Hash
  BY <1>1, <1>2, ToGoFacts
<1>6. \A i, j, k \in Hash : i <= j /\ j < k => i < k
  BY HashInNat
<1> QED
  BY <1>2, <1>4, <1>5, <1>6

\* With num_results servers on the ring every walk comes to its end: the pair of
\* depth and distance becomes smaller with each iteration (hashring.cc:49-70).
THEOREM EveryWalkEnds == Spec => WalkEnds
<1>1. IInv /\ IInv' /\ WalkHasExit /\ [Next]_vars =>
        [Walk /\ EnoughNodes =>
           \/ depth' < depth
           \/ /\ depth' = depth
              /\ ToGo(m_hashring', int_hash', depth', tmp_vec')
                   < ToGo(m_hashring, int_hash, depth, tmp_vec)]_vars
  <2> SUFFICES ASSUME IInv, WalkHasExit, Walk, EnoughNodes
               PROVE  \/ depth' < depth
                      \/ /\ depth' = depth
                         /\ ToGo(m_hashring', int_hash', depth', tmp_vec')
                              < ToGo(m_hashring, int_hash, depth, tmp_vec)
    OBVIOUS
  <2>1. pc = "walk" /\ m_hashring' = m_hashring
    BY DEF Walk
  <2>2. PICK p \in DOMAIN m_hashring :
          /\ IsSuccessor(m_hashring, int_hash, p)
          /\ int_hash' = After(p)
          /\ IF Ignored(m_hashring[p], depth, tmp_vec)
               THEN UNCHANGED <<depth, tmp_vec, pc>>
               ELSE depth' = depth - 1
    BY DEF Walk
  <2>3. DOMAIN m_hashring \subseteq Hash /\ int_hash \in Hash /\ depth \in 0 .. 255
    BY DEF IInv, TypeOK
  <2>4. PICK x \in DOMAIN m_hashring : ~ Ignored(m_hashring[x], depth, tmp_vec)
    BY <2>1 DEF WalkHasExit
  <2>5. CASE Ignored(m_hashring[p], depth, tmp_vec)
    <3>1. depth' = depth /\ tmp_vec' = tmp_vec
      BY <2>2, <2>5
    <3>2. ToGo(m_hashring, After(p), depth, tmp_vec) < ToGo(m_hashring, int_hash, depth, tmp_vec)
      BY <2>2, <2>3, <2>4, <2>5, IgnoringComesCloser
    <3> QED
      BY <2>1, <2>2, <3>1, <3>2
  <2>6. CASE ~ Ignored(m_hashring[p], depth, tmp_vec)
    BY <2>2, <2>3, <2>6
  <2> QED
    BY <2>5, <2>6
<1> QED
  BY <1>1, IInvHolds, ExitExists, PTL DEF Spec, WalkEnds

-----------------------------------------------------------------------------
(* A ring that is too short *)

\* A name that is answered has num_results answers.
FullInv == pc = "ready" /\ tmp_vec # << >> => Len(tmp_vec) = num_results

\* The loop of send_from_hash_cache stops at num_results answers.
LEMMA FullWhenReady ==
  ASSUME NEW answers, NEW n \in Nat, NEW next, n < num_results, num_results \in 0 .. 255,
         Len(answers) = n + 1, next = Continue(answers, num_results)
  PROVE  next # "walk" /\ (next = "ready" => Len(answers) = num_results)
BY DEF Continue

\* Only GetNode and Walk end a query with answers, each with the last of them.
LEMMA FullInvNext == IInv /\ FullInv /\ [Next]_vars => FullInv'
<1> SUFFICES ASSUME IInv, FullInv, [Next]_vars PROVE FullInv'
  OBVIOUS
<1>1. /\ tmp_vec \in Seq(Node \cup {NoNode}) /\ Len(tmp_vec) \in Nat
      /\ num_results \in 0 .. 255
      /\ pc \in {"call", "walk"} => Len(tmp_vec) < num_results
  BY DEF IInv, TypeOK, LocalsInv
<1>2. ASSUME NEW n \in Node \cup {NoNode}, tmp_vec' = Append(tmp_vec, n),
             pc \in {"call", "walk"}, num_results' = num_results,
             pc' = Continue(tmp_vec', num_results)
      PROVE  FullInv'
  <2>1. Len(Append(tmp_vec, n)) = Len(tmp_vec) + 1
    BY ONLY <1>1, n \in Node \cup {NoNode}
  <2>2. pc' = "ready" => Len(tmp_vec') = num_results
    BY <1>1, <1>2, <2>1, FullWhenReady
  <2> QED
    BY <1>2, <2>2 DEF FullInv
<1>3. CASE Refresh
  BY <1>3 DEF Refresh, FullInv
<1>4. CASE Build
  BY <1>4 DEF Build, FullInv, IInv, LocalsInv
<1>5. CASE Query
  BY <1>5 DEF Query, FullInv
<1>6. CASE GetNode
  <2>1. pc = "call" /\ num_results' = num_results
    BY <1>6 DEF GetNode
  <2>2. CASE m_hashring = EmptyRing
    <3>1. tmp_vec' = Append(tmp_vec, NoNode) /\ pc' = Continue(tmp_vec', num_results)
      BY <1>6, <2>2 DEF GetNode
    <3> QED
      BY <1>2, <2>1, <3>1
  <2>3. CASE m_hashring # EmptyRing
    BY <1>6, <2>3 DEF GetNode, FullInv
  <2> QED
    BY <2>2, <2>3
<1>7. CASE Walk
  <2>1. pc = "walk" /\ num_results' = num_results
    BY <1>7 DEF Walk
  <2>2. \/ pc' = pc
        \/ \E p \in DOMAIN m_hashring :
             tmp_vec' = Append(tmp_vec, m_hashring[p]) /\ pc' = Continue(tmp_vec', num_results)
    BY <1>7 DEF Walk
  <2>3. \A p \in DOMAIN m_hashring : m_hashring[p] \in Node
    BY DEF IInv, TypeOK
  <2> QED
    BY <1>2, <2>1, <2>2, <2>3 DEF FullInv
<1>8. CASE UNCHANGED vars
  BY <1>8 DEF vars, FullInv
<1> QED
  BY <1>3, <1>4, <1>5, <1>6, <1>7, <1>8 DEF Next

\* A name that is answered has as many answers as its pool asks for
\* (wpmetabackend.cc:132-147).
THEOREM FullInvHolds == Spec => []FullInv
<1>1. Init => FullInv
  BY DEF Init, FullInv
<1> QED
  BY <1>1, FullInvNext, IInvHolds, PTL DEF Spec

\* Nothing but EnoughNodes ends a query on a ring that has a position: where
\* there are fewer servers than num_results, no name is ever answered
\* (hashring.cc:49-70, the other half of EveryWalkEnds).
THEOREM ShortRingNeverAnswers ==
  Spec => [](pc = "ready" /\ tmp_vec # << >> /\ m_hashring # EmptyRing => EnoughNodes)
<1>1. IInv /\ FullInv => (pc = "ready" /\ tmp_vec # << >> /\ m_hashring # EmptyRing => EnoughNodes)
  <2> SUFFICES ASSUME IInv, FullInv, pc = "ready", tmp_vec # << >>, m_hashring # EmptyRing
               PROVE  EnoughNodes
    OBVIOUS
  <2>1. tmp_vec \in Seq(Node \cup {NoNode}) /\ Len(tmp_vec) = num_results
    BY DEF IInv, TypeOK, FullInv
  <2>2. Len(tmp_vec) \in Nat /\ DOMAIN tmp_vec = 1 .. Len(tmp_vec)
    BY <2>1
  <2> DEFINE f == [i \in 1 .. Len(tmp_vec) |-> tmp_vec[i]]
  <2>3. f \in Injection(1 .. Len(tmp_vec), Nodes(m_hashring))
    <3>1. \A i \in 1 .. Len(tmp_vec) : tmp_vec[i] \in Nodes(m_hashring)
      BY <2>2 DEF IInv, RingInv
    <3>2. \A i, j \in 1 .. Len(tmp_vec) : i # j => tmp_vec[i] # tmp_vec[j]
      BY <2>2 DEF IInv, AnswersDistinct
    <3>3. f \in [1 .. Len(tmp_vec) -> Nodes(m_hashring)]
      BY <3>1
    <3>4. \A i, j \in 1 .. Len(tmp_vec) : f[i] = f[j] => i = j
      BY <3>2
    <3> HIDE DEF f
    <3> QED
      BY <3>3, <3>4 DEF Injection, IsInjective
  <2>4. IsFiniteSet(1 .. Len(tmp_vec)) /\ Cardinality(1 .. Len(tmp_vec)) = Len(tmp_vec)
    BY <2>2, FS_Interval
  <2>5. IsFiniteSet(Nodes(m_hashring))
    <3>1. IsFiniteSet(Hash)
      BY HashAssumption, FS_Interval DEF Hash
    <3>2. IsFiniteSet(DOMAIN m_hashring)
      BY <3>1, FS_Subset DEF IInv, TypeOK
    <3> DEFINE g == [p \in DOMAIN m_hashring |-> m_hashring[p]]
    <3>3. g \in Surjection(DOMAIN m_hashring, Nodes(m_hashring))
      BY DEF Surjection, Nodes
    <3> QED
      BY <3>2, <3>3, FS_Surjection
  <2>6. Len(tmp_vec) <= Cardinality(Nodes(m_hashring))
    BY <2>3, <2>4, <2>5, FS_Injection
  <2>7. Cardinality(Nodes(m_hashring)) \in Nat
    BY <2>5, FS_CardinalityType
  <2> QED
    BY <2>1, <2>2, <2>6, <2>7 DEF EnoughNodes
<1> QED
  BY <1>1, IInvHolds, FullInvHolds, PTL

=============================================================================
