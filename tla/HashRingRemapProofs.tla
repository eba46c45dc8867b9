------------------------ MODULE HashRingRemapProofs ------------------------
(***************************************************************************)
(* Proofs about HashRingRemap, for every CRC function, every pool, every    *)
(* number of buckets and every number of answers.                          *)
(*                                                                         *)
(* The argument.  What a recursive definition computes is a fact about each  *)
(* of its values, proved by the least number at which it would fail.         *)
(* BuildInv says that the ring is the one of the rows added, CollectInv that  *)
(* the answers so far are those of the functions and that the walk is on its  *)
(* way to the stop they name: a position whose server is ignored may be      *)
(* skipped (SkipIgnored).  With both, the properties of a ring are facts      *)
(* about two rings, that of all rows and that of the rows left, or about      *)
(* two names and one ring whose buckets are alike.                           *)
(***************************************************************************)
EXTENDS HashRingRemap, HashRingProofs

-----------------------------------------------------------------------------
(* The functions that are defined by recursion *)

\* Each stop is the one that follows the stop before.
LEMMA StopsDef ==
  ASSUME NEW ring, NEW h, NEW answers, FirstDepth(answers) \in Nat
  PROVE  LET D == FirstDepth(answers)
             s == Stops(ring, h, answers)
         IN  s = [i \in 1 .. D |-> Successor(NotIgnored(ring, D + 1 - i, answers),
                                             IF i = 1 THEN h ELSE After(s[i - 1]))]
<1> DEFINE D == FirstDepth(answers)
           E(g, i) == Successor(NotIgnored(ring, D + 1 - i, answers),
                                IF i = 1 THEN h ELSE After(g[i - 1]))
           bad == {m \in 0 .. D : ~ \E g : g = [i \in 1 .. m |-> E(g, i)]}
<1>1. bad = {}
  <2> SUFFICES ASSUME bad # {} PROVE FALSE
    OBVIOUS
  <2>1. bad \subseteq Nat
    OBVIOUS
  <2>2. PICK m \in bad : \A k \in bad : m <= k
    BY <2>1, LeastNumber
  <2>3. m \in 0 .. D /\ D \in Nat /\ ~ \E g : g = [i \in 1 .. m |-> E(g, i)]
    BY <2>2
  <2>4. CASE m = 0
    <3> DEFINE g == [i \in 1 .. 0 |-> i]
    <3>1. g = [i \in 1 .. 0 |-> E(g, i)]
      <4> HIDE DEF E
      <4> QED
        OBVIOUS
    <3> QED
      BY <2>3, <2>4, <3>1
  <2>5. CASE m # 0
    <3>1. m - 1 \in 0 .. D /\ ~ (m <= m - 1)
      BY <2>3, <2>5
    <3>2. m - 1 \notin bad
      BY <2>2, <3>1
    <3>3. PICK g : g = [i \in 1 .. m - 1 |-> E(g, i)]
      BY <3>1, <3>2
    <3> DEFINE f == [i \in 1 .. m |-> E(g, i)]
    <3>4. ASSUME NEW i \in 1 .. m PROVE E(f, i) = E(g, i)
      <4>1. CASE i = 1
        BY <4>1
      <4>2. CASE i # 1
        <5>1. i - 1 \in 1 .. m - 1 /\ i - 1 \in 1 .. m
          BY <2>3, <4>2
        <5> HIDE DEF E
        <5>2. f[i - 1] = E(g, i - 1) /\ g[i - 1] = E(g, i - 1)
          BY <3>3, <5>1
        <5>3. f[i - 1] = g[i - 1]
          BY <5>2
        <5> HIDE DEF f
        <5> QED
          BY <5>3 DEF E
      <4> QED
        BY <4>1, <4>2
    <3> HIDE DEF E
    <3>5. f = [i \in 1 .. m |-> E(f, i)]
      BY <3>4
    <3> QED
      BY <2>3, <3>5
  <2> QED
    BY <2>4, <2>5
<1>2. \E g : g = [i \in 1 .. D |-> E(g, i)]
  BY <1>1
<1> QED
  BY <1>2 DEF Stops

\* The same, of one stop.
LEMMA StopsAt ==
  ASSUME NEW ring, NEW h, NEW answers, NEW D \in Nat, FirstDepth(answers) = D, NEW i \in 1 .. D
  PROVE  Stops(ring, h, answers)[i]
           = Successor(NotIgnored(ring, D + 1 - i, answers),
                       IF i = 1 THEN h ELSE After(Stops(ring, h, answers)[i - 1]))
BY StopsDef

\* Each list of answers is the one before with one answer more.
LEMMA AnswerListsDef ==
  ASSUME NEW ring, NEW h
  PROVE  LET l == AnswerLists(ring, h)
         IN  /\ l[0] = << >>
             /\ \A k \in 1 .. 255 : l[k] = Append(l[k - 1], NextAnswer(ring, h, l[k - 1]))
<1>1. PICK last \in Nat : last = 255
  OBVIOUS
<1> DEFINE E(g, k) == IF k = 0 THEN << >> ELSE Append(g[k - 1], NextAnswer(ring, h, g[k - 1]))
           bad == {m \in 0 .. last : ~ \E g : g = [k \in 0 .. m |-> E(g, k)]}
<1>2. bad = {}
  <2> SUFFICES ASSUME bad # {} PROVE FALSE
    OBVIOUS
  <2>1. bad \subseteq Nat
    OBVIOUS
  <2>2. PICK m \in bad : \A k \in bad : m <= k
    BY <2>1, LeastNumber
  <2>3. m \in 0 .. last /\ ~ \E g : g = [k \in 0 .. m |-> E(g, k)]
    BY <2>2
  <2>4. CASE m = 0
    <3> DEFINE g == [k \in 0 .. 0 |-> << >>]
    <3>1. g = [k \in 0 .. 0 |-> E(g, k)]
      <4>1. \A k \in 0 .. 0 : E(g, k) = << >>
        OBVIOUS
      <4> HIDE DEF E
      <4> QED
        BY <4>1
    <3> QED
      BY <2>3, <2>4, <3>1
  <2>5. CASE m # 0
    <3>1. m - 1 \in 0 .. last /\ ~ (m <= m - 1)
      BY <2>3, <2>5
    <3>2. m - 1 \notin bad
      BY <2>2, <3>1
    <3>3. PICK g : g = [k \in 0 .. m - 1 |-> E(g, k)]
      BY <3>1, <3>2
    <3> DEFINE f == [k \in 0 .. m |-> E(g, k)]
    <3>4. ASSUME NEW k \in 0 .. m PROVE E(f, k) = E(g, k)
      <4>1. CASE k = 0
        BY <4>1
      <4>2. CASE k # 0
        <5>1. k - 1 \in 0 .. m - 1 /\ k - 1 \in 0 .. m
          BY <2>3, <4>2
        <5> HIDE DEF E
        <5>2. f[k - 1] = E(g, k - 1) /\ g[k - 1] = E(g, k - 1)
          BY <3>3, <5>1
        <5>3. f[k - 1] = g[k - 1]
          BY <5>2
        <5> HIDE DEF f
        <5> QED
          BY <5>3 DEF E
      <4> QED
        BY <4>1, <4>2
    <3> HIDE DEF E
    <3>5. f = [k \in 0 .. m |-> E(f, k)]
      BY <3>4
    <3> QED
      BY <2>3, <3>5
  <2> QED
    BY <2>4, <2>5
<1>3. \E g : g = [k \in 0 .. last |-> E(g, k)]
  <2> HIDE DEF E
  <2>1. last \in 0 .. last /\ last \notin bad
    BY <1>2
  <2> QED
    BY <2>1
<1> DEFINE l == AnswerLists(ring, h)
<1>4. l = [k \in 0 .. last |-> E(l, k)]
  <2>1. \E g : g = [k \in 0 .. 255 |-> E(g, k)]
    BY <1>1, <1>3
  <2>2. l = [k \in 0 .. 255 |-> E(l, k)]
    BY <2>1 DEF AnswerLists
  <2> QED
    BY <1>1, <2>2
<1> HIDE DEF l, E
<1>5. \A k \in 0 .. last : l[k] = E(l, k)
  BY <1>4
<1>6. l[0] = << >>
  <2>1. 0 \in 0 .. last
    OBVIOUS
  <2> QED
    BY <1>5, <2>1 DEF E
<1>7. ASSUME NEW k \in 1 .. last PROVE l[k] = Append(l[k - 1], NextAnswer(ring, h, l[k - 1]))
  <2>1. k \in 0 .. last /\ k # 0
    OBVIOUS
  <2> QED
    BY <1>5, <2>1 DEF E
<1> QED
  BY <1>1, <1>6, <1>7 DEF l

\* The same, of one list.
LEMMA NextList ==
  ASSUME NEW ring, NEW h, NEW k \in Nat, k + 1 \in 1 .. 255
  PROVE  AnswerLists(ring, h)[k + 1]
           = Append(AnswerLists(ring, h)[k], NextAnswer(ring, h, AnswerLists(ring, h)[k]))
<1>1. (k + 1) - 1 = k
  OBVIOUS
<1> DEFINE l == AnswerLists(ring, h)
<1>2. \A i \in 1 .. 255 : l[i] = Append(l[i - 1], NextAnswer(ring, h, l[i - 1]))
  BY AnswerListsDef
<1> HIDE DEF l
<1>3. l[k + 1] = Append(l[(k + 1) - 1], NextAnswer(ring, h, l[(k + 1) - 1]))
  BY <1>2
<1>4. l[k + 1] = Append(l[k], NextAnswer(ring, h, l[k]))
  BY <1>1, <1>3
<1> QED
  BY <1>4 DEF l

-----------------------------------------------------------------------------
(* lower_bound *)

\* There is one position at which lower_bound, or begin(), stops.
LEMMA SuccessorUnique ==
  ASSUME NEW ring, DOMAIN ring \subseteq Hash, NEW h \in Hash,
         NEW p \in DOMAIN ring, IsSuccessor(ring, h, p)
  PROVE  /\ \A q \in DOMAIN ring : IsSuccessor(ring, h, q) => q = p
         /\ Successor(ring, h) = p
<1>1. ASSUME NEW q \in DOMAIN ring, IsSuccessor(ring, h, q), q # p PROVE FALSE
  <2>1. Ahead(h, p) \in Nat /\ Ahead(h, p) < Ahead(h, q)
    BY <1>1, SuccessorIsNearest
  <2>2. Ahead(h, q) \in Nat /\ Ahead(h, q) < Ahead(h, p)
    BY <1>1, SuccessorIsNearest
  <2> QED
    BY <2>1, <2>2
<1>2. \A q \in DOMAIN ring : IsSuccessor(ring, h, q) => q = p
  BY <1>1
<1> QED
  BY <1>2 DEF Successor

\* A ring that is not empty has one.
LEMMA SuccessorType ==
  ASSUME NEW ring, DOMAIN ring \subseteq Hash, DOMAIN ring # {}, NEW h \in Hash
  PROVE  Successor(ring, h) \in DOMAIN ring /\ IsSuccessor(ring, h, Successor(ring, h))
<1>1. Hash \subseteq Nat
  BY HashInNat
<1>2. \E p \in DOMAIN ring : IsSuccessor(ring, h, p)
  <2> DEFINE T == {p \in DOMAIN ring : p >= h}
  <2>1. CASE T # {}
    <3>1. PICK p \in T : \A q \in T : p <= q
      BY <1>1, <2>1, LeastNumber
    <3> QED
      BY <3>1 DEF IsSuccessor
  <2>2. CASE T = {}
    <3>1. PICK p \in DOMAIN ring : \A q \in DOMAIN ring : p <= q
      BY <1>1, LeastNumber
    <3>2. ASSUME NEW q \in DOMAIN ring PROVE q < h
      <4>1. q \notin T /\ q \in Nat /\ h \in Nat
        BY <1>1, <2>2
      <4> QED
        BY <4>1
    <3> QED
      BY <3>1, <3>2 DEF IsSuccessor
  <2> QED
    BY <2>1, <2>2
<1> QED
  BY <1>2 DEF Successor

\* A position that is not in a part of the ring may be skipped on the way to that
\* part.
LEMMA SkipIgnored ==
  ASSUME NEW ring, DOMAIN ring \subseteq Hash, NEW h \in Hash,
         NEW p \in DOMAIN ring, IsSuccessor(ring, h, p),
         NEW part, DOMAIN part \subseteq DOMAIN ring, DOMAIN part # {}, p \notin DOMAIN part
  PROVE  Successor(part, After(p)) = Successor(part, h)
<1>1. After(p) \in Hash
  BY AfterValue, HashAssumption DEF Hash
<1> DEFINE x == Successor(part, After(p))
<1>2. x \in DOMAIN part /\ IsSuccessor(part, After(p), x)
  BY <1>1, SuccessorType
<1> HIDE DEF x
<1>3. IsSuccessor(part, h, x)
  <2>1. \A q \in DOMAIN ring : q \in Nat /\ q <= UINT32_MAX
    BY HashInNat, HashAssumption DEF Hash
  <2>2. h \in Nat /\ UINT32_MAX \in Nat
    BY HashInNat, HashAssumption
  <2>3. After(p) = IF p = UINT32_MAX THEN 0 ELSE p + 1
    BY AfterValue
  <2>4. \A q \in DOMAIN part : q # p
    OBVIOUS
  <2>5. CASE p >= h /\ \A q \in DOMAIN ring : q >= h => p <= q
    <3>1. \A q \in DOMAIN part : q >= h => q > p
      BY <2>1, <2>2, <2>4, <2>5
    <3>2. CASE x >= After(p) /\ \A q \in DOMAIN part : q >= After(p) => x <= q
      BY <1>2, <2>1, <2>2, <2>3, <2>5, <3>1, <3>2 DEF IsSuccessor
    <3>3. CASE (\A q \in DOMAIN part : q < After(p)) /\ \A q \in DOMAIN part : x <= q
      <4>1. \A q \in DOMAIN part : q < h
        BY <2>1, <2>2, <2>3, <3>1, <3>3
      <4> QED
        BY <3>3, <4>1 DEF IsSuccessor
    <3> QED
      BY <1>2, <3>2, <3>3 DEF IsSuccessor
  <2>6. CASE (\A q \in DOMAIN ring : q < h) /\ \A q \in DOMAIN ring : p <= q
    <3>1. \A q \in DOMAIN part : q < h /\ q > p /\ q >= After(p)
      BY <2>1, <2>2, <2>3, <2>4, <2>6
    <3> QED
      BY <1>2, <2>1, <2>2, <3>1 DEF IsSuccessor
  <2> QED
    BY <2>5, <2>6 DEF IsSuccessor
<1> QED
  BY <1>2, <1>3, SuccessorUnique DEF x

\* What lower_bound finds on a ring it also finds on each part of the ring that
\* has that position.
LEMMA SuccessorInPart ==
  ASSUME NEW ring, DOMAIN ring \subseteq Hash, NEW h \in Hash, DOMAIN ring # {},
         NEW part, DOMAIN part \subseteq DOMAIN ring, Successor(ring, h) \in DOMAIN part
  PROVE  Successor(part, h) = Successor(ring, h)
<1> DEFINE p == Successor(ring, h)
<1>1. IsSuccessor(ring, h, p)
  BY SuccessorType
<1> HIDE DEF p
<1>2. IsSuccessor(part, h, p)
  BY <1>1 DEF IsSuccessor
<1> QED
  BY <1>2, SuccessorUnique DEF p

-----------------------------------------------------------------------------
(* The ring of some rows of a table *)

\* A position belongs to the last row that has it.
IsRingOf(ring, table, left) ==
  /\ ring = [p \in DOMAIN ring |-> ring[p]]
  /\ \A i \in left : \A p \in Positions(table[i]) : p \in DOMAIN ring
  /\ \A p \in DOMAIN ring : \E i \in left :
       /\ p \in Positions(table[i]) /\ ring[p] = table[i].content
       /\ \A j \in left : p \in Positions(table[j]) => j <= i

\* A bounded set of numbers has a greatest one.
LEMMA GreatestNumber ==
  ASSUME NEW n \in Nat, NEW T, T \subseteq 1 .. n, T # {}
  PROVE  \E m \in T : \A k \in T : k <= m
<1> DEFINE U == {n - k : k \in T}
<1>0. \A k \in T : k \in Nat /\ n - k \in Nat
  <2>1. \A k \in 1 .. n : k \in Nat /\ n - k \in Nat
    OBVIOUS
  <2> QED
    BY <2>1
<1>1. U \subseteq Nat /\ U # {}
  BY <1>0
<1>2. PICK u \in U : \A v \in U : u <= v
  BY <1>1, LeastNumber
<1>3. PICK m \in T : u = n - m
  OBVIOUS
<1>4. ASSUME NEW k \in T PROVE k <= m
  <2>1. n - m <= n - k
    BY <1>2, <1>3
  <2>2. n \in Nat /\ m \in Nat /\ k \in Nat
    BY <1>0
  <2> QED
    BY <2>1, <2>2
<1> QED
  BY <1>3, <1>4

\* The ring of the rows is the one the definition gives.
LEMMA RingOfFacts ==
  ASSUME NEW table, NEW n \in Nat, NEW left, left \subseteq 1 .. n
  PROVE  IsRingOf(RingOf(table, left), table, left)
<1> DEFINE R == RingOf(table, left)
<1>1. /\ DOMAIN R = UNION {Positions(table[i]) : i \in left}
      /\ \A p \in DOMAIN R : R[p] = table[LastWith(table, left, p)].content
      /\ R = [p \in DOMAIN R |-> R[p]]
  BY DEF RingOf
<1> HIDE DEF R
<1>2. ASSUME NEW p \in DOMAIN R
      PROVE  \E i \in left : /\ p \in Positions(table[i]) /\ R[p] = table[i].content
                             /\ \A j \in left : p \in Positions(table[j]) => j <= i
  <2> DEFINE T == {i \in left : p \in Positions(table[i])}
  <2>1. T \subseteq 1 .. n /\ T # {}
    BY <1>1
  <2>2. PICK m \in T : \A k \in T : k <= m
    BY <2>1, GreatestNumber
  <2>3. /\ m \in left /\ p \in Positions(table[m])
        /\ \A j \in left : p \in Positions(table[j]) => j <= m
    BY <2>2
  <2> DEFINE i == LastWith(table, left, p)
  <2>4. /\ i \in left /\ p \in Positions(table[i])
        /\ \A j \in left : p \in Positions(table[j]) => j <= i
    BY <2>3 DEF LastWith
  <2> QED
    BY <1>1, <2>4
<1>3. \A i \in left : \A p \in Positions(table[i]) : p \in DOMAIN R
  BY <1>1
<1> QED
  BY <1>1, <1>2, <1>3 DEF IsRingOf, R

\* There is one ring of the rows.
LEMMA RingOfUnique ==
  ASSUME NEW table, NEW n \in Nat, NEW left, left \subseteq 1 .. n,
         NEW ring, IsRingOf(ring, table, left)
  PROVE  ring = RingOf(table, left)
<1> DEFINE R == RingOf(table, left)
<1>1. IsRingOf(R, table, left)
  BY RingOfFacts
<1> HIDE DEF R
<1>2. DOMAIN ring = DOMAIN R
  <2>1. \A p \in DOMAIN ring : p \in DOMAIN R
    BY <1>1 DEF IsRingOf
  <2>2. \A p \in DOMAIN R : p \in DOMAIN ring
    BY <1>1 DEF IsRingOf
  <2> QED
    BY <2>1, <2>2
<1>3. ASSUME NEW p \in DOMAIN ring PROVE ring[p] = R[p]
  <2>1. PICK i \in left : /\ p \in Positions(table[i]) /\ ring[p] = table[i].content
                          /\ \A j \in left : p \in Positions(table[j]) => j <= i
    BY DEF IsRingOf
  <2>2. PICK k \in left : /\ p \in Positions(table[k]) /\ R[p] = table[k].content
                          /\ \A j \in left : p \in Positions(table[j]) => j <= k
    BY <1>1, <1>2 DEF IsRingOf
  <2>3. i <= k /\ k <= i /\ i \in Nat /\ k \in Nat
    BY <2>1, <2>2
  <2>4. i = k
    BY <2>3
  <2> QED
    BY <2>1, <2>2, <2>4
<1>4. ring = [p \in DOMAIN ring |-> ring[p]] /\ R = [p \in DOMAIN R |-> R[p]]
  BY <1>1 DEF IsRingOf
<1> QED
  BY <1>2, <1>3, <1>4 DEF R

-----------------------------------------------------------------------------
(* What the steps build and collect *)

\* The part of the table that is on the ring.
Added == 1 .. Len(pool) - Len(rows)

\* The rows that are left are the last ones of the table.
BuildInv ==
  /\ Len(rows) <= Len(pool)
  /\ pc # "build" => rows = << >>
  /\ \A i \in DOMAIN rows : rows[i] = pool[Len(pool) - Len(rows) + i]
  /\ IsRingOf(m_hashring, pool, Added)

\* The answers so far are those of the functions, and so is where the walk is
\* going.
CollectInv ==
  /\ m_hashring # EmptyRing => tmp_vec = AnswerLists(m_hashring, query)[Len(tmp_vec)]
  /\ pc = "walk" /\ (\E q \in DOMAIN m_hashring : ~ Ignored(m_hashring[q], depth, tmp_vec)) =>
       Successor(NotIgnored(m_hashring, depth, tmp_vec), int_hash)
         = Stops(m_hashring, query, tmp_vec)[Len(tmp_vec) + 2 - depth]

\* A row added to the ring of the rows before it gives the ring of one row more.
LEMMA AddNodeRing ==
  ASSUME NEW table, NEW n \in Nat, NEW ring, IsRingOf(ring, table, 1 .. n)
  PROVE  IsRingOf(AddNode(ring, table[n + 1]), table, 1 .. n + 1)
<1> DEFINE row == table[n + 1]
           P == Positions(row)
           new == AddNode(ring, row)
<1>1. /\ DOMAIN new = DOMAIN ring \cup P
      /\ \A p \in DOMAIN new : new[p] = IF p \in P THEN row.content ELSE ring[p]
      /\ new = [p \in DOMAIN new |-> new[p]]
  BY DEF AddNode
<1> HIDE DEF new
<1>2. \A i \in 1 .. n + 1 : i \in 1 .. n \/ i = n + 1
  OBVIOUS
<1>3. n + 1 \in 1 .. n + 1 /\ \A i \in 1 .. n : i \in 1 .. n + 1 /\ i <= n + 1
  OBVIOUS
<1>4. ASSUME NEW i \in 1 .. n + 1, NEW p \in Positions(table[i]) PROVE p \in DOMAIN new
  BY <1>1, <1>2 DEF IsRingOf
<1>5. ASSUME NEW p \in DOMAIN new
      PROVE  \E i \in 1 .. n + 1 :
               /\ p \in Positions(table[i]) /\ new[p] = table[i].content
               /\ \A j \in 1 .. n + 1 : p \in Positions(table[j]) => j <= i
  <2>1. CASE p \in P
    <3>1. \A j \in 1 .. n + 1 : j <= n + 1
      BY <1>2, <1>3
    <3> QED
      BY <1>1, <1>3, <2>1, <3>1
  <2>2. CASE p \notin P
    <3>1. p \in DOMAIN ring /\ new[p] = ring[p]
      BY <1>1, <2>2
    <3>2. PICK i \in 1 .. n : /\ p \in Positions(table[i]) /\ ring[p] = table[i].content
                             /\ \A j \in 1 .. n : p \in Positions(table[j]) => j <= i
      BY <3>1 DEF IsRingOf
    <3>3. \A j \in 1 .. n + 1 : p \in Positions(table[j]) => j <= i
      BY <1>2, <2>2, <3>2
    <3> QED
      BY <1>3, <3>1, <3>2, <3>3
  <2> QED
    BY <2>1, <2>2
<1> QED
  BY <1>1, <1>4, <1>5 DEF IsRingOf, new

\* A ring of the rows stays one while the CRC function and the rows do.
LEMMA RingOfKept ==
  ASSUME crc' = crc, pool' = pool, NEW ring, NEW left
  PROVE  IsRingOf(ring, pool, left) <=> IsRingOf(ring, pool, left)'
<1>1. \A i : Positions(pool[i])' = Positions(pool[i])
  BY DEF Positions, InBucket
<1> QED
  BY <1>1 DEF IsRingOf

\* Nothing is on the ring before the first row.
LEMMA BuildInvInit == Init => BuildInv
<1> SUFFICES ASSUME Init PROVE BuildInv
  OBVIOUS
<1>1. Added = {}
  BY DEF Init, Added
<1>2. IsRingOf(EmptyRing, pool, {})
  BY DEF IsRingOf, EmptyRing
<1> QED
  BY <1>1, <1>2 DEF Init, BuildInv

\* BuildInv is preserved by the steps that leave the ring alone.
LEMMA BuildInvKept ==
  ASSUME BuildInv, UNCHANGED <<crc, pool, rows, m_hashring>>,
         pc' # "build" => pc # "build"
  PROVE  BuildInv'
<1>1. Added' = Added
  BY DEF Added
<1>2. IsRingOf(m_hashring, pool, Added)
  BY DEF BuildInv
<1>3. IsRingOf(m_hashring, pool, Added)'
  BY <1>1, <1>2, RingOfKept
<1> QED
  BY <1>3 DEF BuildInv

\* Each row is added to the ring of those before it; a new query starts anew.
LEMMA BuildInvNext == IInv /\ BuildInv /\ [Next]_vars => BuildInv'
<1> SUFFICES ASSUME IInv, BuildInv, [Next]_vars PROVE BuildInv'
  OBVIOUS
<1>1. CASE Refresh
  <2>1. PICK t \in Tables : pool' = t /\ rows' = t /\ m_hashring' = EmptyRing /\ pc' = "build"
    BY <1>1 DEF Refresh
  <2>2. Len(t) \in Nat /\ DOMAIN t = 1 .. Len(t)
    BY TableAssumption
  <2>3. Added' = {}
    BY <2>1, <2>2 DEF Added
  <2>4. IsRingOf(m_hashring, pool, Added)'
    BY <2>1, <2>3 DEF IsRingOf, EmptyRing
  <2>5. \A i \in DOMAIN t : t[i] = t[Len(t) - Len(t) + i]
    BY <2>2
  <2> QED
    BY <2>1, <2>2, <2>4, <2>5 DEF BuildInv
<1>2. CASE Build
  <2>1. rows \in Seq(Row) /\ rows # << >> /\ pool \in Seq(Row)
    BY <1>2 DEF Build, IInv, TypeOK, RowsInv
  <2> DEFINE n == Len(pool) - Len(rows)
  <2>2. /\ Len(pool) \in Nat /\ Len(rows) \in Nat \ {0} /\ Len(rows) <= Len(pool) /\ n \in Nat
        /\ Len(Tail(rows)) = Len(rows) - 1 /\ DOMAIN Tail(rows) = 1 .. Len(rows) - 1
        /\ \A i \in 1 .. Len(rows) - 1 : Tail(rows)[i] = rows[i + 1]
        /\ DOMAIN rows = 1 .. Len(rows) /\ Head(rows) = rows[1]
    BY <2>1 DEF BuildInv
  <2>3. /\ rows' = Tail(rows) /\ pool' = pool /\ crc' = crc
        /\ m_hashring' = AddNode(m_hashring, rows[1])
        /\ pc' = IF Tail(rows) = << >> THEN "ready" ELSE "build"
    BY <1>2, <2>2 DEF Build
  <2>4. Len(pool) - Len(rows') = n + 1 /\ Len(rows') <= Len(pool)
    BY <2>2, <2>3
  <2>5. Added = 1 .. n /\ Added' = 1 .. n + 1
    BY <2>3, <2>4 DEF Added
  <2>6. rows[1] = pool[n + 1]
    BY <2>2 DEF BuildInv
  <2>7. IsRingOf(m_hashring, pool, 1 .. n)
    BY <2>5 DEF BuildInv
  <2>8. IsRingOf(AddNode(m_hashring, pool[n + 1]), pool, 1 .. n + 1)
    BY <2>2, <2>7, AddNodeRing
  <2> HIDE DEF n
  <2>9. IsRingOf(m_hashring, pool, Added)'
    <3>1. \A i : Positions(pool[i])' = Positions(pool[i])
      BY <2>3 DEF Positions, InBucket
    <3>2. IsRingOf(m_hashring', pool, 1 .. n + 1)
      BY <2>3, <2>6, <2>8
    <3> QED
      BY <2>3, <2>5, <3>1, <3>2 DEF IsRingOf
  <2>10. ASSUME NEW i \in DOMAIN Tail(rows) PROVE Tail(rows)[i] = pool[n + 1 + i]
    <3>1. i \in 1 .. Len(rows) - 1 /\ i + 1 \in DOMAIN rows
      BY <2>2
    <3>2. rows[i + 1] = pool[Len(pool) - Len(rows) + (i + 1)]
      BY <3>1 DEF BuildInv
    <3>3. Len(pool) - Len(rows) + (i + 1) = n + 1 + i
      BY <2>2, <3>1 DEF n
    <3> QED
      BY <2>2, <3>1, <3>2, <3>3
  <2> QED
    BY <2>3, <2>4, <2>9, <2>10 DEF BuildInv
<1>3. CASE Query
  BY <1>3, BuildInvKept DEF Query
<1>4. CASE GetNode
  BY <1>4, BuildInvKept DEF GetNode
<1>5. CASE Walk
  BY <1>5, BuildInvKept DEF Walk
<1>6. CASE UNCHANGED vars
  BY <1>6, BuildInvKept DEF vars
<1> QED
  BY <1>1, <1>2, <1>3, <1>4, <1>5, <1>6 DEF Next

\* Where the walk for the next answer starts is where it should.
LEMMA CollectInvNext == IInv /\ CollectInv /\ [Next]_vars => CollectInv'
<1> SUFFICES ASSUME IInv, CollectInv, [Next]_vars PROVE CollectInv'
  OBVIOUS
<1>0. /\ tmp_vec \in Seq(Node \cup {NoNode}) /\ Len(tmp_vec) \in Nat
      /\ num_results \in 0 .. 255
      /\ DOMAIN m_hashring \subseteq Hash /\ m_hashring = [p \in DOMAIN m_hashring |-> m_hashring[p]]
      /\ int_hash \in Hash
  BY DEF IInv, TypeOK
<1>1. CASE Refresh
  <2>1. tmp_vec' = << >> /\ m_hashring' = EmptyRing /\ pc' = "build"
    BY <1>1 DEF Refresh
  <2> QED
    BY <2>1 DEF CollectInv
<1>2. CASE Build
  <2>1. tmp_vec' = << >> /\ pc' \in {"build", "ready"}
    BY <1>2 DEF Build, IInv, LocalsInv
  <2>2. Len(tmp_vec') = 0
    BY <2>1
  <2>3. << >> = AnswerLists(m_hashring', query')[0]
    BY AnswerListsDef
  <2> QED
    BY <2>1, <2>2, <2>3 DEF CollectInv
<1>3. CASE Query
  <2>1. tmp_vec' = << >> /\ pc' \in {"call", "ready"}
    BY <1>3 DEF Query, Continue
  <2>2. Len(tmp_vec') = 0
    BY <2>1
  <2>3. << >> = AnswerLists(m_hashring', query')[0]
    BY AnswerListsDef
  <2> QED
    BY <2>1, <2>2, <2>3 DEF CollectInv
<1>4. CASE GetNode
  <2>1. m_hashring' = m_hashring /\ query' = query /\ num_results' = num_results /\ pc = "call"
    BY <1>4 DEF GetNode
  <2>2. CASE m_hashring = EmptyRing
    <3>1. tmp_vec' = Append(tmp_vec, NoNode) /\ pc' = Continue(tmp_vec', num_results)
      BY <1>4, <2>2 DEF GetNode
    <3>2. pc' # "walk"
      BY <3>1 DEF Continue
    <3> QED
      BY <2>1, <2>2, <3>2 DEF CollectInv
  <2>3. CASE m_hashring # EmptyRing
    <3>1. tmp_vec' = tmp_vec /\ pc' = "walk" /\ int_hash' = query /\ depth' = Len(tmp_vec) + 1
      BY <1>4, <2>3 DEF GetNode, FirstDepth
    <3>2. tmp_vec = AnswerLists(m_hashring, query)[Len(tmp_vec)]
      BY <2>3 DEF CollectInv
    <3> DEFINE d == Len(tmp_vec) + 1
    <3>3. FirstDepth(tmp_vec) = d /\ d \in Nat /\ 1 \in 1 .. d /\ Len(tmp_vec) + 2 - d = 1 /\ d + 1 - 1 = d
      BY <1>0 DEF FirstDepth
    <3> HIDE DEF d
    <3>4. Stops(m_hashring, query, tmp_vec)[1] = Successor(NotIgnored(m_hashring, d, tmp_vec), query)
      <4>1. Stops(m_hashring, query, tmp_vec)[1]
              = Successor(NotIgnored(m_hashring, d + 1 - 1, tmp_vec), query)
        BY <3>3, StopsDef
      <4> QED
        BY <3>3, <4>1
    <3>5. d = Len(tmp_vec) + 1
      BY DEF d
    <3> QED
      BY <2>1, <3>1, <3>2, <3>3, <3>4, <3>5 DEF CollectInv
  <2> QED
    BY <2>2, <2>3
<1>5. CASE Walk
  <2>1. /\ m_hashring' = m_hashring /\ query' = query /\ num_results' = num_results
        /\ pc = "walk" /\ m_hashring # EmptyRing
        /\ depth \in 1 .. Len(tmp_vec) + 1 /\ Len(tmp_vec) < num_results
    BY <1>5 DEF Walk, IInv, LocalsInv
  <2>2. PICK p \in DOMAIN m_hashring :
          /\ IsSuccessor(m_hashring, int_hash, p)
          /\ int_hash' = After(p)
          /\ IF Ignored(m_hashring[p], depth, tmp_vec)
               THEN UNCHANGED <<depth, tmp_vec, pc>>
               ELSE /\ depth' = depth - 1
                    /\ IF depth = 1
                         THEN /\ tmp_vec' = Append(tmp_vec, m_hashring[p])
                              /\ pc' = Continue(tmp_vec', num_results)
                         ELSE UNCHANGED <<tmp_vec, pc>>
    BY <1>5 DEF Walk
  <2> DEFINE part == NotIgnored(m_hashring, depth, tmp_vec)
             s == Stops(m_hashring, query, tmp_vec)
             L == Len(tmp_vec)
  <2>3. tmp_vec = AnswerLists(m_hashring, query)[L]
    BY <2>1 DEF CollectInv
  <2>4. DOMAIN part = {q \in DOMAIN m_hashring : ~ Ignored(m_hashring[q], depth, tmp_vec)}
    BY DEF NotIgnored
  <2>5. DOMAIN part # {} => Successor(part, int_hash) = s[L + 2 - depth]
    BY <2>1, <2>4 DEF CollectInv
  <2>6. CASE Ignored(m_hashring[p], depth, tmp_vec)
    <3>1. depth' = depth /\ tmp_vec' = tmp_vec /\ pc' = pc
      BY <2>2, <2>6
    <3>2. DOMAIN part # {} => Successor(part, After(p)) = s[L + 2 - depth]
      <4> SUFFICES ASSUME DOMAIN part # {} PROVE Successor(part, After(p)) = s[L + 2 - depth]
        OBVIOUS
      <4>1. DOMAIN part \subseteq DOMAIN m_hashring /\ p \notin DOMAIN part
        BY <2>4, <2>6
      <4> HIDE DEF part
      <4>2. Successor(part, After(p)) = Successor(part, int_hash)
        BY <1>0, <2>2, <4>1, SkipIgnored
      <4> QED
        BY <2>5, <4>2
    <3> QED
      BY <2>1, <2>2, <2>3, <2>4, <3>1, <3>2 DEF CollectInv
  <2>7. CASE ~ Ignored(m_hashring[p], depth, tmp_vec)
    <3>1. p = s[L + 2 - depth]
      <4>1. DOMAIN part \subseteq DOMAIN m_hashring /\ p \in DOMAIN part
        BY <2>4, <2>7
      <4>2. IsSuccessor(part, int_hash, p)
        BY <2>2, <4>1 DEF IsSuccessor
      <4> HIDE DEF part
      <4>3. Successor(part, int_hash) = p
        BY <1>0, <4>1, <4>2, SuccessorUnique
      <4> QED
        BY <2>5, <4>1, <4>3
    <3>2. FirstDepth(tmp_vec) = L + 1
      BY DEF FirstDepth
    <3>3. CASE depth = 1
      <4>1. tmp_vec' = Append(tmp_vec, m_hashring[p]) /\ pc' = Continue(tmp_vec', num_results)
        BY <2>2, <2>7, <3>3
      <4>2. L + 1 \in 1 .. 255 /\ L + 2 - depth = L + 1 /\ (L + 1) - 1 = L
        <5>1. L < num_results /\ L \in Nat /\ num_results \in 0 .. 255
          BY <1>0, <2>1
        <5> HIDE DEF L
        <5> QED
          BY <3>3, <5>1
      <4>6. Len(tmp_vec') = L + 1
        <5>1. m_hashring[p] \in Node
          BY DEF IInv, TypeOK
        <5>2. Len(Append(tmp_vec, m_hashring[p])) = L + 1
          BY ONLY <1>0, <5>1
        <5> QED
          BY <4>1, <5>2
      <4>3. pc' # "walk"
        BY <4>1 DEF Continue
      <4>4. m_hashring[p] = NextAnswer(m_hashring, query, tmp_vec)
        BY <3>1, <3>2, <4>2 DEF NextAnswer
      <4>5. tmp_vec' = AnswerLists(m_hashring, query)[L + 1]
        <5>1. AnswerLists(m_hashring, query)[L + 1]
                = Append(AnswerLists(m_hashring, query)[L],
                         NextAnswer(m_hashring, query, AnswerLists(m_hashring, query)[L]))
          BY <1>0, <4>2, NextList
        <5> QED
          BY <2>3, <4>1, <4>4, <5>1
      <4> QED
        BY <2>1, <4>3, <4>5, <4>6 DEF CollectInv
    <3>4. CASE depth # 1
      <4>1. depth' = depth - 1 /\ tmp_vec' = tmp_vec /\ pc' = pc
        BY <2>2, <2>7, <3>4
      <4> DEFINE i == L + 3 - depth
      <4>2. /\ i \in 1 .. L + 1 /\ i # 1 /\ i - 1 = L + 2 - depth
            /\ (L + 1) + 1 - i = depth - 1 /\ L + 2 - (depth - 1) = i
        BY <1>0, <2>1, <3>4
      <4>3. s[i] = Successor(NotIgnored(m_hashring, depth - 1, tmp_vec), After(p))
        <5> HIDE DEF i
        <5>1. s[i] = Successor(NotIgnored(m_hashring, (L + 1) + 1 - i, tmp_vec), After(s[i - 1]))
          BY <1>0, <3>2, <4>2, StopsDef
        <5> QED
          BY <3>1, <4>2, <5>1
      <4> QED
        BY <2>1, <2>2, <2>3, <4>1, <4>2, <4>3 DEF CollectInv
    <3> QED
      BY <3>3, <3>4
  <2> QED
    BY <2>6, <2>7
<1>6. CASE UNCHANGED vars
  BY <1>6 DEF vars, CollectInv
<1> QED
  BY <1>1, <1>2, <1>3, <1>4, <1>5, <1>6 DEF Next

\* The ring is that of the rows added, and the answers those of the functions, in
\* every reachable state.
THEOREM RemapInvHolds == Spec => [](IInv /\ BuildInv /\ CollectInv)
<1>1. Init => CollectInv
  <2> SUFFICES ASSUME Init PROVE CollectInv
    OBVIOUS
  <2> QED
    BY DEF Init, CollectInv
<1>2. Init => IInv /\ BuildInv /\ CollectInv
  BY <1>1, InitIInv, BuildInvInit
<1>3. IInv /\ BuildInv /\ CollectInv /\ [Next]_vars => BuildInv' /\ CollectInv'
  BY BuildInvNext, CollectInvNext
<1> QED
  BY <1>2, <1>3, IInvHolds, PTL DEF Spec

\* A ring that is built is the ring of all rows of its pool.
LEMMA WholeRing ==
  ASSUME IInv, BuildInv, pc = "ready"
  PROVE  /\ m_hashring = RingOf(pool, DOMAIN pool)
         /\ pool \in Seq(Row) /\ Len(pool) \in Nat /\ DOMAIN pool = 1 .. Len(pool)
<1>1. pool \in Seq(Row)
  BY DEF IInv, TypeOK
<1>2. Len(pool) \in Nat /\ DOMAIN pool = 1 .. Len(pool)
  BY <1>1
<1>3. Added = 1 .. Len(pool)
  BY <1>2 DEF BuildInv, Added
<1>4. IsRingOf(m_hashring, pool, 1 .. Len(pool))
  BY <1>3 DEF BuildInv
<1>5. m_hashring = RingOf(pool, 1 .. Len(pool))
  BY <1>2, <1>4, RingOfUnique
<1> QED
  BY <1>1, <1>2, <1>5

\* What the steps of the ring collect is what its functions give.
THEOREM StepsAgree == Spec => []AnswersAgree
<1>1. IInv /\ FullInv /\ BuildInv /\ CollectInv => AnswersAgree
  <2> SUFFICES ASSUME IInv, FullInv, BuildInv, CollectInv,
                      pc = "ready", tmp_vec # << >>, m_hashring # EmptyRing
               PROVE  tmp_vec = AnswersFor(RingOf(pool, DOMAIN pool), query, num_results)
    BY DEF AnswersAgree
  <2>1. m_hashring = RingOf(pool, DOMAIN pool)
    BY WholeRing
  <2>2. tmp_vec = AnswerLists(m_hashring, query)[num_results]
    BY DEF CollectInv, FullInv
  <2> QED
    BY <2>1, <2>2 DEF AnswersFor
<1> QED
  BY <1>1, RemapInvHolds, FullInvHolds, PTL

-----------------------------------------------------------------------------
(* A server leaves the pool *)

\* The functions for the first answer and for the second.
LEMMA FirstAnswer ==
  ASSUME NEW ring, ring = [p \in DOMAIN ring |-> ring[p]], NEW h
  PROVE  AnswersFor(ring, h, 1) = << ring[Successor(ring, h)] >>
<1>1. FirstDepth(<< >>) = 1
  BY DEF FirstDepth
<1>2. NotIgnored(ring, 1, << >>) = ring
  <2>1. \A q : ~ Ignored(ring[q], 1, << >>)
    BY DEF Ignored
  <2>2. {q \in DOMAIN ring : ~ Ignored(ring[q], 1, << >>)} = DOMAIN ring
    BY <2>1
  <2> QED
    BY <2>2 DEF NotIgnored
<1>3. Stops(ring, h, << >>)[1] = Successor(ring, h)
  <2>1. 1 \in 1 .. 1 /\ 1 + 1 - 1 = 1 /\ 1 \in Nat
    OBVIOUS
  <2>2. Stops(ring, h, << >>)[1] = Successor(NotIgnored(ring, 1 + 1 - 1, << >>), h)
    BY <1>1, <2>1, StopsDef
  <2> QED
    BY <1>2, <2>1, <2>2
<1>4. NextAnswer(ring, h, << >>) = ring[Successor(ring, h)]
  BY <1>1, <1>3 DEF NextAnswer
<1>5. AnswerLists(ring, h)[1] = Append(<< >>, NextAnswer(ring, h, << >>))
  <2>1. 0 \in Nat /\ 0 + 1 = 1 /\ 1 \in 1 .. 255
    OBVIOUS
  <2>2. AnswerLists(ring, h)[0] = << >>
    BY AnswerListsDef
  <2>3. AnswerLists(ring, h)[0 + 1]
          = Append(AnswerLists(ring, h)[0], NextAnswer(ring, h, AnswerLists(ring, h)[0]))
    BY <2>1, NextList
  <2> QED
    BY <2>1, <2>2, <2>3
<1> QED
  BY <1>4, <1>5 DEF AnswersFor

\* The part of a ring that is not server x.
Others(ring, x) == [p \in {q \in DOMAIN ring : ring[q] # x} |-> ring[p]]

\* A second answer after the first.
LEMMA AppendSecond ==
  ASSUME NEW S, NEW one \in Seq(S), NEW y \in S, NEW two \in Seq(S),
         Len(one) = 1, Len(two) = 2, two[1] = one[1], two[2] = y
  PROVE  Append(one, y) = two
<1>1. Append(one, y) \in Seq(S) /\ Len(Append(one, y)) = Len(one) + 1
  BY ONLY one \in Seq(S), y \in S
<1>2. Append(one, y)[Len(one) + 1] = y
  BY ONLY one \in Seq(S), y \in S
<1>3. \A i \in 1 .. Len(one) : Append(one, y)[i] = one[i]
  BY ONLY one \in Seq(S), y \in S
<1> DEFINE t == Append(one, y)
<1> HIDE DEF t
<1>4. t \in Seq(S) /\ Len(t) = 2 /\ t[2] = y /\ t[1] = one[1]
  <2>1. 1 \in 1 .. 1
    OBVIOUS
  <2> QED
    BY <1>1, <1>2, <1>3, <2>1 DEF t
<1>5. \A i \in 1 .. 2 : t[i] = two[i]
  <2>1. \A i \in 1 .. 2 : i = 1 \/ i = 2
    OBVIOUS
  <2> QED
    BY <1>4, <2>1
<1>6. t = two
  BY <1>4, <1>5
<1> QED
  BY <1>6 DEF t

\* The same, of the sequences written out.
LEMMA AppendToOne ==
  ASSUME NEW x, NEW y
  PROVE  Append(<< x >>, y) = << x, y >>
<1> DEFINE one == << x >>
           two == << x, y >>
           S == {x, y}
<1>1. one \in Seq(S) /\ Len(one) = 1 /\ one[1] = x
  OBVIOUS
<1>2. two \in Seq(S) /\ Len(two) = 2 /\ two[1] = x /\ two[2] = y
  OBVIOUS
<1>3. y \in S
  OBVIOUS
<1> HIDE DEF one, two, S
<1>4. Append(one, y) = two
  BY <1>1, <1>2, <1>3, AppendSecond
<1> QED
  BY <1>4 DEF one, two

\* The second answer: the first server after the first that is another.
LEMMA SecondAnswer ==
  ASSUME NEW ring, ring = [p \in DOMAIN ring |-> ring[p]], NEW h
  PROVE  LET p1 == Successor(ring, h)
         IN  AnswersFor(ring, h, 2)
               = << ring[p1], ring[Successor(Others(ring, ring[p1]), After(p1))] >>
<1> DEFINE p1 == Successor(ring, h)
           one == << ring[p1] >>
<1>1. FirstDepth(one) = 2
  BY DEF FirstDepth
<1>2. NotIgnored(ring, 2, one) = ring
  <2>1. \A q : ~ Ignored(ring[q], 2, one)
    BY DEF Ignored
  <2>2. {q \in DOMAIN ring : ~ Ignored(ring[q], 2, one)} = DOMAIN ring
    BY <2>1
  <2> QED
    BY <2>2 DEF NotIgnored
<1>3. NotIgnored(ring, 1, one) = Others(ring, ring[p1])
  <2>1. DOMAIN one = {1} /\ one[1] = ring[p1]
    OBVIOUS
  <2>2. \A q : Ignored(ring[q], 1, one) <=> ring[q] = ring[p1]
    BY <2>1 DEF Ignored
  <2> HIDE DEF one, p1
  <2> QED
    BY <2>2 DEF NotIgnored, Others
<1> HIDE DEF p1
<1>4. Stops(ring, h, one)[2] = Successor(Others(ring, ring[p1]), After(p1))
  <2> HIDE DEF one
  <2>1. 1 \in 1 .. 2 /\ 2 \in 1 .. 2 /\ 2 + 1 - 1 = 2 /\ 2 + 1 - 2 = 1 /\ 2 - 1 = 1 /\ 2 \in Nat /\ 2 # 1
    OBVIOUS
  <2> DEFINE s == Stops(ring, h, one)
  <2>2. \A i \in 1 .. 2 : s[i] = Successor(NotIgnored(ring, 2 + 1 - i, one),
                                          IF i = 1 THEN h ELSE After(s[i - 1]))
    BY <1>1, StopsAt
  <2> HIDE DEF s
  <2>3. s[1] = Successor(NotIgnored(ring, 2 + 1 - 1, one), h)
    BY <2>1, <2>2
  <2>4. s[1] = p1
    BY <1>2, <2>1, <2>3 DEF p1
  <2>5. s[2] = Successor(NotIgnored(ring, 2 + 1 - 2, one), After(s[2 - 1]))
    BY <2>1, <2>2
  <2> QED
    BY <1>3, <2>1, <2>4, <2>5 DEF s
<1>5. AnswerLists(ring, h)[2] = Append(one, NextAnswer(ring, h, one))
  <2>1. 2 \in 1 .. 255 /\ 2 - 1 = 1
    OBVIOUS
  <2>2. AnswerLists(ring, h)[1] = one
    BY FirstAnswer DEF AnswersFor, p1
  <2>3. \A k \in 1 .. 255 : AnswerLists(ring, h)[k]
          = Append(AnswerLists(ring, h)[k - 1], NextAnswer(ring, h, AnswerLists(ring, h)[k - 1]))
    BY AnswerListsDef
  <2> HIDE DEF one
  <2> QED
    BY <2>1, <2>2, <2>3
<1>6. NextAnswer(ring, h, one) = ring[Successor(Others(ring, ring[p1]), After(p1))]
  BY <1>1, <1>4 DEF NextAnswer
<1>7. \A y : Append(one, y) = << ring[p1], y >>
  BY AppendToOne
<1> HIDE DEF one
<1>8. AnswersFor(ring, h, 2) = << ring[p1], ring[Successor(Others(ring, ring[p1]), After(p1))] >>
  BY <1>5, <1>6, <1>7 DEF AnswersFor
<1> QED
  BY <1>8 DEF p1

\* The ring of the rows that are left is part of the ring of all rows, and has
\* every position of it that is not the server's who left.
LEMMA LeftRing ==
  ASSUME pool \in Seq(Row), NEW node
  PROVE  LET ring == RingOf(pool, DOMAIN pool)
             left == RingOf(pool, RowsLeft(pool, node))
         IN  /\ ring = [p \in DOMAIN ring |-> ring[p]] /\ left = [p \in DOMAIN left |-> left[p]]
             /\ DOMAIN left \subseteq DOMAIN ring
             /\ \A p \in DOMAIN ring : ring[p] # node => p \in DOMAIN left /\ left[p] = ring[p]
<1> DEFINE rest == RowsLeft(pool, node)
           ring == RingOf(pool, DOMAIN pool)
           left == RingOf(pool, rest)
<1>1. Len(pool) \in Nat /\ DOMAIN pool = 1 .. Len(pool)
  OBVIOUS
<1>2. rest \subseteq DOMAIN pool /\ \A i \in DOMAIN pool : i \in rest <=> pool[i].content # node
  BY DEF RowsLeft
<1> HIDE DEF rest
<1>3. IsRingOf(ring, pool, DOMAIN pool) /\ IsRingOf(left, pool, rest)
  BY <1>1, <1>2, RingOfFacts
<1> HIDE DEF ring, left
<1>4. DOMAIN left \subseteq DOMAIN ring
  BY <1>2, <1>3 DEF IsRingOf
<1>5. ASSUME NEW p \in DOMAIN ring, ring[p] # node PROVE p \in DOMAIN left /\ left[p] = ring[p]
  <2>1. PICK i \in DOMAIN pool :
          /\ p \in Positions(pool[i]) /\ ring[p] = pool[i].content
          /\ \A j \in DOMAIN pool : p \in Positions(pool[j]) => j <= i
    BY <1>3 DEF IsRingOf
  <2>2. i \in rest
    BY <1>2, <1>5, <2>1
  <2>3. p \in DOMAIN left
    BY <1>3, <2>1, <2>2 DEF IsRingOf
  <2>4. PICK k \in rest : /\ p \in Positions(pool[k]) /\ left[p] = pool[k].content
                          /\ \A j \in rest : p \in Positions(pool[j]) => j <= k
    BY <1>3, <2>3 DEF IsRingOf
  <2>5. k <= i /\ i <= k /\ i \in Nat /\ k \in Nat
    BY <1>1, <1>2, <2>1, <2>2, <2>4
  <2>6. i = k
    BY <2>5
  <2> QED
    BY <2>1, <2>3, <2>4, <2>6
<1>6. ring = [p \in DOMAIN ring |-> ring[p]] /\ left = [p \in DOMAIN left |-> left[p]]
  BY <1>3 DEF IsRingOf
<1> QED
  BY <1>4, <1>5, <1>6 DEF ring, left, rest

\* A ring with two servers has one besides each.
LEMMA AnotherServer ==
  ASSUME NEW ring, Cardinality(Nodes(ring)) >= 2, NEW x
  PROVE  \E p \in DOMAIN ring : ring[p] # x
<1> SUFFICES ASSUME \A p \in DOMAIN ring : ring[p] = x PROVE FALSE
  OBVIOUS
<1>1. Nodes(ring) = {} \/ Nodes(ring) = {x}
  BY DEF Nodes
<1>2. Cardinality({}) = 0 /\ Cardinality({x}) = 1
  BY FS_EmptySet, FS_Singleton
<1>3. Cardinality(Nodes(ring)) = 0 \/ Cardinality(Nodes(ring)) = 1
  BY <1>1, <1>2
<1> QED
  BY <1>3

\* The first server of a name stays while it is in the pool.
LEMMA FirstKept ==
  ASSUME NEW ring, NEW left, NEW node, NEW h \in Hash,
         ring = [p \in DOMAIN ring |-> ring[p]], left = [p \in DOMAIN left |-> left[p]],
         DOMAIN ring \subseteq Hash, DOMAIN ring # {}, DOMAIN left \subseteq DOMAIN ring,
         \A p \in DOMAIN ring : ring[p] # node => p \in DOMAIN left /\ left[p] = ring[p],
         ring[Successor(ring, h)] # node
  PROVE  /\ Successor(left, h) = Successor(ring, h)
         /\ left[Successor(left, h)] = ring[Successor(ring, h)]
<1>1. Successor(ring, h) \in DOMAIN ring
  BY SuccessorType
<1>2. Successor(ring, h) \in DOMAIN left /\ left[Successor(ring, h)] = ring[Successor(ring, h)]
  BY <1>1
<1>3. Successor(left, h) = Successor(ring, h)
  BY <1>2, SuccessorInPart
<1> QED
  BY <1>2, <1>3

\* So does the second, and the first before it, when neither leaves.
LEMMA SecondKept ==
  ASSUME NEW ring, NEW left, NEW node, NEW h \in Hash,
         ring = [p \in DOMAIN ring |-> ring[p]], left = [p \in DOMAIN left |-> left[p]],
         DOMAIN ring \subseteq Hash, Cardinality(Nodes(ring)) >= 2, DOMAIN left \subseteq DOMAIN ring,
         \A p \in DOMAIN ring : ring[p] # node => p \in DOMAIN left /\ left[p] = ring[p],
         ring[Successor(ring, h)] # node,
         ring[Successor(Others(ring, ring[Successor(ring, h)]), After(Successor(ring, h)))] # node
  PROVE  AnswersFor(left, h, 2) = AnswersFor(ring, h, 2)
<1> DEFINE p1 == Successor(ring, h)
           a1 == ring[p1]
           others == Others(ring, a1)
           othersLeft == Others(left, a1)
           p2 == Successor(others, After(p1))
<1>1. DOMAIN ring # {}
  BY AnotherServer
<1>2. p1 \in DOMAIN ring /\ p1 \in Hash
  BY <1>1, SuccessorType
<1>3. After(p1) \in Hash
  BY <1>2, AfterValue, HashAssumption DEF Hash
<1>4. Successor(left, h) = p1 /\ left[p1] = a1 /\ a1 # node
  BY <1>1, FirstKept
<1> HIDE DEF p1
<1>5. DOMAIN others = {q \in DOMAIN ring : ring[q] # a1} /\ DOMAIN othersLeft = {q \in DOMAIN left : left[q] # a1}
  BY DEF Others
<1>6. DOMAIN others # {}
  BY <1>5, AnotherServer
<1>7. DOMAIN others \subseteq Hash
  BY <1>5
<1> HIDE DEF a1
<1>8. DOMAIN othersLeft \subseteq DOMAIN others
  <2> SUFFICES ASSUME NEW q \in DOMAIN left, left[q] # a1 PROVE ring[q] # a1
    BY <1>5
  <2>1. q \in DOMAIN ring
    OBVIOUS
  <2> QED
    BY <1>4, <2>1
<1> HIDE DEF others, othersLeft
<1>9. p2 \in DOMAIN others
  BY <1>3, <1>6, <1>7, SuccessorType
<1>10. ring[p2] # node
  BY DEF p2, others, a1, p1
<1> HIDE DEF p2
<1>11. p2 \in DOMAIN othersLeft /\ left[p2] = ring[p2]
  <2>1. p2 \in DOMAIN ring /\ ring[p2] # a1
    BY <1>5, <1>9
  <2>2. p2 \in DOMAIN left /\ left[p2] = ring[p2]
    BY <1>10, <2>1
  <2> QED
    BY <1>5, <2>1, <2>2
<1>12. Successor(othersLeft, After(p1)) = p2
  BY <1>3, <1>6, <1>7, <1>8, <1>11, SuccessorInPart DEF p2
<1>13. AnswersFor(ring, h, 2) = << a1, ring[p2] >>
  BY SecondAnswer DEF p2, others, a1, p1
<1>14. AnswersFor(left, h, 2) = << left[p1], left[Successor(Others(left, left[p1]), After(p1))] >>
  <2>1. AnswersFor(left, h, 2)
          = << left[Successor(left, h)],
               left[Successor(Others(left, left[Successor(left, h)]), After(Successor(left, h)))] >>
    BY SecondAnswer
  <2> QED
    BY <1>4, <2>1
<1>15. Others(left, left[p1]) = othersLeft
  BY <1>4 DEF othersLeft
<1> QED
  BY <1>4, <1>11, <1>12, <1>13, <1>14, <1>15

\* Consistent hashing: the first two servers of a name stay what they were when
\* another server leaves the pool, whatever the rows, their weights and their
\* collisions (README.md:7, hashring.cc:45-70).
THEOREM FirstTwoKept == Spec => []RemovalKeepsFirstTwo
<1>1. IInv /\ BuildInv => RemovalKeepsFirstTwo
  <2> SUFFICES ASSUME IInv, BuildInv, Built, NEW node, NEW h \in Hash
               PROVE  LET left == RingOf(pool, RowsLeft(pool, node))
                          one == AnswersFor(m_hashring, h, 1)
                          two == AnswersFor(m_hashring, h, 2)
                      IN  /\ Cardinality(Nodes(m_hashring)) >= 1 /\ (\A i \in DOMAIN one : one[i] # node)
                               => AnswersFor(left, h, 1) = one
                          /\ Cardinality(Nodes(m_hashring)) >= 2 /\ (\A i \in DOMAIN two : two[i] # node)
                               => AnswersFor(left, h, 2) = two
    BY DEF RemovalKeepsFirstTwo, RemovalKeeps
  <2> DEFINE left == RingOf(pool, RowsLeft(pool, node))
             ring == m_hashring
             p1 == Successor(ring, h)
  <2>1. pool \in Seq(Row) /\ ring = RingOf(pool, DOMAIN pool)
    BY WholeRing DEF Built
  <2>2. DOMAIN ring \subseteq Hash
    BY DEF IInv, TypeOK
  <2>3. /\ ring = [p \in DOMAIN ring |-> ring[p]] /\ left = [p \in DOMAIN left |-> left[p]]
        /\ DOMAIN left \subseteq DOMAIN ring
        /\ \A p \in DOMAIN ring : ring[p] # node => p \in DOMAIN left /\ left[p] = ring[p]
    BY <2>1, LeftRing
  <2> HIDE DEF left
  <2>4. ASSUME Cardinality(Nodes(ring)) >= 1,
               \A i \in DOMAIN AnswersFor(ring, h, 1) : AnswersFor(ring, h, 1)[i] # node
        PROVE  AnswersFor(left, h, 1) = AnswersFor(ring, h, 1)
    <3>1. DOMAIN ring # {}
      <4> SUFFICES ASSUME DOMAIN ring = {} PROVE FALSE
        OBVIOUS
      <4>1. Nodes(ring) = {}
        BY DEF Nodes
      <4>2. Cardinality({}) = 0
        BY FS_EmptySet
      <4> QED
        BY <2>4, <4>1, <4>2
    <3>2. AnswersFor(ring, h, 1) = << ring[p1] >> /\ AnswersFor(left, h, 1) = << left[Successor(left, h)] >>
      BY <2>3, FirstAnswer
    <3>3. ring[p1] # node
      <4>1. << ring[p1] >>[1] = ring[p1] /\ 1 \in DOMAIN << ring[p1] >>
        OBVIOUS
      <4> QED
        BY <2>4, <3>2, <4>1
    <3>4. left[Successor(left, h)] = ring[p1]
      BY <2>2, <2>3, <3>1, <3>3, FirstKept
    <3> QED
      BY <3>2, <3>4
  <2>5. ASSUME Cardinality(Nodes(ring)) >= 2,
               \A i \in DOMAIN AnswersFor(ring, h, 2) : AnswersFor(ring, h, 2)[i] # node
        PROVE  AnswersFor(left, h, 2) = AnswersFor(ring, h, 2)
    <3> DEFINE a2 == ring[Successor(Others(ring, ring[p1]), After(p1))]
    <3>1. AnswersFor(ring, h, 2) = << ring[p1], a2 >>
      BY <2>3, SecondAnswer
    <3>2. ring[p1] # node /\ a2 # node
      <4> HIDE DEF a2, p1
      <4>1. /\ << ring[p1], a2 >>[1] = ring[p1] /\ 1 \in DOMAIN << ring[p1], a2 >>
            /\ << ring[p1], a2 >>[2] = a2 /\ 2 \in DOMAIN << ring[p1], a2 >>
        OBVIOUS
      <4> QED
        BY <2>5, <3>1, <4>1
    <3> QED
      BY <2>2, <2>3, <2>5, <3>2, SecondKept
  <2> QED
    BY <2>4, <2>5 DEF left
<1> QED
  BY <1>1, RemapInvHolds, PTL

\* Without collisions the second server of a name is the one that takes over
\* when the first leaves.
THEOREM SecondTakes == Spec => []SecondTakesOver
<1>1. IInv /\ BuildInv => SecondTakesOver
  <2> SUFFICES ASSUME IInv, BuildInv, Built, NEW h \in Hash,
                      \A i, j \in DOMAIN pool : i # j => Positions(pool[i]) \cap Positions(pool[j]) = {},
                      Cardinality(Nodes(m_hashring)) >= 2
               PROVE  LET two == AnswersFor(m_hashring, h, 2)
                      IN  AnswersFor(RingOf(pool, RowsLeft(pool, two[1])), h, 1) = << two[2] >>
    BY DEF SecondTakesOver
  <2> DEFINE ring == m_hashring
             p1 == Successor(ring, h)
             a1 == ring[p1]
             others == Others(ring, a1)
             p2 == Successor(others, After(p1))
             left == RingOf(pool, RowsLeft(pool, a1))
  <2>1. /\ pool \in Seq(Row) /\ ring = RingOf(pool, DOMAIN pool)
        /\ Len(pool) \in Nat /\ DOMAIN pool = 1 .. Len(pool)
    BY WholeRing DEF Built
  <2>2. DOMAIN ring \subseteq Hash
    BY DEF IInv, TypeOK
  <2>3. /\ ring = [p \in DOMAIN ring |-> ring[p]] /\ left = [p \in DOMAIN left |-> left[p]]
        /\ DOMAIN left \subseteq DOMAIN ring
        /\ \A p \in DOMAIN ring : ring[p] # a1 => p \in DOMAIN left /\ left[p] = ring[p]
    BY <2>1, LeftRing
  <2>4. DOMAIN ring # {} /\ \E q \in DOMAIN ring : ring[q] # a1
    BY AnotherServer
  <2>5. p1 \in DOMAIN ring /\ p1 \in Hash /\ IsSuccessor(ring, h, p1)
    BY <2>2, <2>4, SuccessorType
  <2>6. DOMAIN others = {q \in DOMAIN ring : ring[q] # a1} /\ \A q \in DOMAIN others : others[q] = ring[q]
    BY DEF Others
  <2>7. \A q \in DOMAIN left : ring[q] # a1
    <3> SUFFICES ASSUME NEW q \in DOMAIN left, ring[q] = a1 PROVE FALSE
      OBVIOUS
    <3>1. IsRingOf(ring, pool, DOMAIN pool)
      BY <2>1, RingOfFacts
    <3>2. RowsLeft(pool, a1) \subseteq DOMAIN pool /\ \A i \in RowsLeft(pool, a1) : pool[i].content # a1
      BY DEF RowsLeft
    <3>3. IsRingOf(left, pool, RowsLeft(pool, a1))
      BY <2>1, <3>2, RingOfFacts
    <3> HIDE DEF left, a1
    <3>4. PICK i \in RowsLeft(pool, a1) : q \in Positions(pool[i])
      BY <3>3 DEF IsRingOf
    <3>5. PICK k \in DOMAIN pool : q \in Positions(pool[k]) /\ ring[q] = pool[k].content
      BY <2>3, <3>1 DEF IsRingOf
    <3>6. i = k
      BY <3>2, <3>4, <3>5
    <3> QED
      BY <3>2, <3>4, <3>5, <3>6
  <2> HIDE DEF left, a1, p1
  <2>8. left = others
    <3>1. DOMAIN left = DOMAIN others
      BY <2>3, <2>6, <2>7
    <3>2. \A q \in DOMAIN left : left[q] = others[q]
      BY <2>3, <2>6, <2>7
    <3>3. others = [q \in DOMAIN others |-> others[q]]
      BY DEF Others
    <3> HIDE DEF others
    <3> QED
      BY <2>3, <3>1, <3>2, <3>3
  <2>9. Successor(others, After(p1)) = Successor(others, h)
    <3>1. DOMAIN others \subseteq DOMAIN ring /\ DOMAIN others # {} /\ p1 \notin DOMAIN others
      BY <2>4, <2>6 DEF a1
    <3> HIDE DEF others
    <3> QED
      BY <2>2, <2>5, <3>1, SkipIgnored
  <2>10. AnswersFor(ring, h, 2) = << a1, ring[p2] >>
    BY <2>3, SecondAnswer DEF a1, p1
  <2>11. AnswersFor(left, h, 1) = << left[Successor(left, h)] >>
    BY <2>3, FirstAnswer
  <2>12. left[Successor(left, h)] = ring[p2]
    <3>1. p2 \in DOMAIN others
      <4>1. After(p1) \in Hash
        BY <2>5, AfterValue, HashAssumption DEF Hash
      <4>2. DOMAIN others \subseteq Hash /\ DOMAIN others # {}
        BY <2>2, <2>4, <2>6
      <4> HIDE DEF others
      <4> QED
        BY <4>1, <4>2, SuccessorType
    <3> QED
      BY <2>6, <2>8, <2>9, <3>1
  <2>13. << a1, ring[p2] >>[1] = a1 /\ << a1, ring[p2] >>[2] = ring[p2]
    OBVIOUS
  <2> HIDE DEF p2
  <2> QED
    BY <2>10, <2>11, <2>12, <2>13 DEF left
<1> QED
  BY <1>1, RemapInvHolds, PTL

-----------------------------------------------------------------------------
(* The buckets *)

\* A number is at one place of one bucket.
LEMMA PlaceOf ==
  ASSUME NEW h \in Nat
  PROVE  h % BUCKET_SIZE \in 0 .. BUCKET_SIZE - 1 /\ \E i \in Nat : h = (h % BUCKET_SIZE) + i * BUCKET_SIZE
<1>1. PICK B \in Nat \ {0} : B = BUCKET_SIZE
  BY HashAssumption
<1>2. h % B \in 0 .. B - 1 /\ h \div B \in Nat
  BY <1>1
<1>3. h = (h % B) + (h \div B) * B
  BY <1>1
<1> QED
  BY <1>1, <1>2, <1>3

\* The place of the number that stands at place b of the i-th bucket.
LEMMA PlaceIs ==
  ASSUME NEW b \in 0 .. BUCKET_SIZE - 1, NEW i \in Nat
  PROVE  (b + i * BUCKET_SIZE) % BUCKET_SIZE = b
<1>1. PICK B \in Nat \ {0} : B = BUCKET_SIZE
  BY HashAssumption
<1>2. i * B \in Nat
  BY <1>1
<1>3. (b + i * B) % B = b
  BY <1>1, <1>2
<1> QED
  BY <1>1, <1>3

\* A later bucket begins where the one before it ends, or after.
LEMMA LaterBucket ==
  ASSUME NEW i \in Nat, NEW j \in Nat, i < j
  PROVE  i * BUCKET_SIZE + BUCKET_SIZE <= j * BUCKET_SIZE
<1>1. PICK B \in Nat \ {0} : B = BUCKET_SIZE
  BY HashAssumption
<1>2. PICK k \in Nat : j = i + 1 + k
  <2>1. j - i - 1 \in Nat /\ j = i + 1 + (j - i - 1)
    OBVIOUS
  <2> QED
    BY <2>1
<1>3. j * B = i * B + B + k * B /\ k * B \in Nat /\ i * B \in Nat
  BY <1>1, <1>2
<1> QED
  BY <1>1, <1>3

\* What BucketsAlike says, of any ring, and that a ring has no position past the
\* last bucket.
Periodic(ring) ==
  /\ \A p \in DOMAIN ring : \E b \in 0 .. BUCKET_SIZE - 1, i \in Buckets : p = b + i * BUCKET_SIZE
  /\ \A b \in 0 .. BUCKET_SIZE - 1, i, j \in Buckets :
       b + i * BUCKET_SIZE \in DOMAIN ring =>
         /\ b + j * BUCKET_SIZE \in DOMAIN ring
         /\ ring[b + i * BUCKET_SIZE] = ring[b + j * BUCKET_SIZE]

\* The first bucket of a ring.
FirstBucket(ring) == [b \in {c \in 0 .. BUCKET_SIZE - 1 : c \in DOMAIN ring} |-> ring[b]]

\* A position, its bucket and its place in it.
LEMMA PeriodicPosition ==
  ASSUME NEW ring, Periodic(ring), NEW p \in DOMAIN ring
  PROVE  /\ p % BUCKET_SIZE \in DOMAIN FirstBucket(ring)
         /\ \E j \in Buckets : p = (p % BUCKET_SIZE) + j * BUCKET_SIZE
         /\ p \in Nat /\ p < UINT32_MAX
<1>1. PICK b \in 0 .. BUCKET_SIZE - 1, j \in Buckets : p = b + j * BUCKET_SIZE
  BY DEF Periodic
<1>2. j \in Nat /\ 0 \in Buckets /\ j < NUM_BUCKETS /\ NUM_BUCKETS \in Nat
  BY HashAssumption DEF Buckets
<1>3. p % BUCKET_SIZE = b
  BY <1>1, <1>2, PlaceIs
<1>4. b + 0 * BUCKET_SIZE \in DOMAIN ring
  BY <1>1, <1>2 DEF Periodic
<1>5. b + 0 * BUCKET_SIZE = b
  BY HashAssumption
<1>6. b \in DOMAIN FirstBucket(ring)
  BY <1>4, <1>5 DEF FirstBucket
<1>7. j * BUCKET_SIZE + BUCKET_SIZE <= NUM_BUCKETS * BUCKET_SIZE /\ j * BUCKET_SIZE \in Nat
  BY <1>2, LaterBucket, HashAssumption
<1>8. p \in Nat /\ p < UINT32_MAX
  <2>1. b \in Nat /\ b < BUCKET_SIZE /\ BUCKET_SIZE \in Nat /\ UINT32_MAX \in Nat
    BY HashAssumption
  <2> QED
    BY <1>1, <1>7, <2>1, BucketAssumption
<1> QED
  BY <1>1, <1>3, <1>6, <1>8

\* lower_bound on the whole ring stops at the place where lower_bound on the first
\* bucket does, past the last position of a bucket and of the ring too.
LEMMA SuccessorFolds ==
  ASSUME NEW ring, Periodic(ring), NEW g \in Hash, NEW p \in DOMAIN ring, IsSuccessor(ring, g, p)
  PROVE  IsSuccessor(FirstBucket(ring), g % BUCKET_SIZE, p % BUCKET_SIZE)
<1> DEFINE B == BUCKET_SIZE
           NB == NUM_BUCKETS
           r == g % B
           s == p % B
           first == DOMAIN FirstBucket(ring)
<1>1. B \in Nat \ {0} /\ NB \in Nat \ {0} /\ NB * B = UINT32_MAX
  BY HashAssumption, BucketAssumption
<1>2. g \in Nat /\ g <= NB * B
  BY <1>1 DEF Hash
<1>3. r \in 0 .. B - 1 /\ \E i \in Nat : g = r + i * B
  BY <1>2, PlaceOf
<1>4. PICK i \in Nat : g = r + i * B
  BY <1>3
<1>5. PICK j \in Buckets : p = s + j * B
  BY PeriodicPosition
<1>6. s \in first /\ \A q \in first : q \in 0 .. B - 1 /\ q \in DOMAIN ring
  BY PeriodicPosition DEF FirstBucket
<1>7. \A k \in Buckets : k \in Nat /\ k < NB /\ k <= NB - 1
  BY <1>1 DEF Buckets
<1>8. \A k \in Nat : k < NB => k \in Buckets
  BY <1>1 DEF Buckets
<1>9. \A q \in first, k \in Buckets : q + k * B \in DOMAIN ring
  <2> SUFFICES ASSUME NEW q \in first, NEW k \in Buckets PROVE q + k * B \in DOMAIN ring
    OBVIOUS
  <2>1. q \in 0 .. B - 1 /\ q \in DOMAIN ring /\ 0 \in Buckets
    BY <1>1, <1>6, <1>8
  <2>2. q + 0 * B = q
    BY <1>1, <2>1
  <2> QED
    BY <2>1, <2>2 DEF Periodic
<1>10. \A k, l \in Nat : k < l => k * B + B <= l * B
  BY LaterBucket
<1>11. \A k \in Nat : k * B \in Nat
  BY <1>1
<1> HIDE DEF B, NB, r, s, first
<1>12. CASE p >= g /\ \A q \in DOMAIN ring : q >= g => p <= q
  <2>1. i < NB
    <3>1. j * B + B <= NB * B /\ j * B \in Nat
      BY <1>1, <1>5, <1>7, <1>10, <1>11
    <3>2. p < NB * B
      BY <1>1, <1>5, <1>6, <3>1
    <3>3. NB < i => NB * B + B <= i * B
      BY <1>1, <1>10
    <3>4. i * B \in Nat /\ NB * B \in Nat
      BY <1>1, <1>11
    <3>5. ASSUME NB < i \/ NB = i PROVE FALSE
      <4>1. NB * B <= i * B
        BY <1>1, <3>3, <3>4, <3>5
      <4>2. PICK x \in Nat, y \in Nat : x = i * B /\ y = NB * B
        BY <3>4
      <4>3. p >= g /\ g = r + x /\ y <= x /\ p < y /\ r \in Nat /\ p \in Nat
        <5>1. r \in Nat /\ p \in Nat
          BY <1>1, <1>3, PeriodicPosition
        <5> QED
          BY <1>4, <1>12, <3>2, <4>1, <4>2, <5>1
      <4> QED
        BY <4>3
    <3> QED
      BY <1>1, <3>5
  <2>2. i \in Buckets /\ i * B \in Nat /\ j \in Nat /\ j * B \in Nat
    BY <1>5, <1>7, <1>8, <1>11, <2>1
  <2>3. s \in 0 .. B - 1 /\ s \in Nat /\ r \in Nat
    BY <1>1, <1>3, <1>6
  <2>4. i <= j
    <3>1. j < i => j * B + B <= i * B
      BY <1>10, <2>2
    <3> QED
      BY <1>1, <1>3, <1>4, <1>5, <1>12, <2>2, <2>3, <3>1
  <2>5. CASE \E q \in first : q >= r
    <3>1. PICK q0 \in first : q0 >= r
      BY <2>5
    <3>2. q0 \in 0 .. B - 1 /\ q0 + i * B \in DOMAIN ring
      BY <1>6, <1>9, <2>2
    <3>3. p <= q0 + i * B
      BY <1>1, <1>3, <1>4, <1>12, <2>2, <3>1, <3>2
    <3>4. i < j => i * B + B <= j * B
      BY <1>10, <2>2
    <3>5. i = j
      BY <1>1, <1>5, <2>2, <2>3, <2>4, <3>2, <3>3, <3>4
    <3>6. s >= r
      BY <1>3, <1>4, <1>5, <1>12, <2>2, <2>3, <3>5
    <3>7. ASSUME NEW q \in first, q >= r PROVE s <= q
      <4>1. q \in 0 .. B - 1 /\ q + i * B \in DOMAIN ring
        BY <1>6, <1>9, <2>2
      <4>2. p <= q + i * B
        BY <1>1, <1>3, <1>4, <1>12, <2>2, <3>7, <4>1
      <4> QED
        BY <1>1, <1>5, <2>2, <2>3, <3>5, <4>1, <4>2
    <3> QED
      BY <3>6, <3>7 DEF IsSuccessor, first, r, s, B
  <2>6. CASE \A q \in first : q < r
    <3>1. s < r
      BY <1>6, <2>6
    <3>2. i < j
      <4>1. i # j
        BY <1>3, <1>4, <1>5, <1>12, <2>2, <2>3, <3>1
      <4> QED
        BY <2>2, <2>4, <4>1
    <3>3. i + 1 \in Nat /\ i + 1 < NB /\ i + 1 \in Buckets
      <4>1. i + 1 \in Nat /\ i + 1 <= j
        BY <2>2, <3>2
      <4> QED
        BY <1>1, <1>5, <1>7, <1>8, <2>2, <4>1
    <3>4. (i + 1) * B = i * B + B
      BY <1>1
    <3>5. \A q \in first : p <= q + (i * B + B)
      <4> SUFFICES ASSUME NEW q \in first PROVE p <= q + (i * B + B)
        OBVIOUS
      <4>1. q \in 0 .. B - 1 /\ q + (i * B + B) \in DOMAIN ring
        BY <1>6, <1>9, <3>3, <3>4
      <4> QED
        BY <1>1, <1>3, <1>4, <1>12, <2>2, <4>1
    <3>6. j = i + 1
      <4>1. i + 1 < j => (i * B + B) + B <= j * B
        BY <1>10, <2>2, <3>3, <3>4
      <4>2. p <= s + (i * B + B)
        BY <1>6, <3>5
      <4> QED
        BY <1>1, <1>5, <2>2, <2>3, <3>2, <4>1, <4>2
    <3>7. \A q \in first : s <= q
      <4> SUFFICES ASSUME NEW q \in first PROVE s <= q
        OBVIOUS
      <4>1. p <= q + (i * B + B) /\ q \in 0 .. B - 1
        BY <1>6, <3>5
      <4>2. p = s + (i * B + B)
        BY <1>5, <3>4, <3>6
      <4> QED
        BY <1>1, <2>2, <2>3, <4>1, <4>2
    <3> QED
      BY <2>6, <3>7 DEF IsSuccessor, first, r, s, B
  <2>7. \A q \in first : q >= r \/ q < r
    BY <1>1, <1>6, <2>3
  <2> QED
    BY <2>5, <2>6, <2>7
<1>13. CASE (\A q \in DOMAIN ring : q < g) /\ \A q \in DOMAIN ring : p <= q
  <2>1. s \in 0 .. B - 1 /\ s \in Nat /\ r \in Nat /\ j * B \in Nat /\ i * B \in Nat
    BY <1>1, <1>3, <1>5, <1>6, <1>7, <1>11
  <2>2. p = s
    <3>1. p <= s
      BY <1>6, <1>13
    <3> QED
      BY <1>5, <2>1, <3>1
  <2>3. \A q \in first : s <= q
    BY <1>6, <1>13, <2>2
  <2>4. NB - 1 \in Nat /\ NB - 1 \in Buckets /\ (NB - 1) * B \in Nat /\ (NB - 1) * B + B = NB * B
    <3>1. NB - 1 \in Nat /\ NB - 1 \in Buckets
      BY <1>1, <1>8
    <3>2. (NB - 1) * B + B = NB * B
      BY <1>1
    <3> QED
      BY <1>11, <3>1, <3>2
  <2>5. \A q \in first : q + (NB - 1) * B < g
    BY <1>9, <1>13, <2>4
  <2>6. ~ (i < NB - 1)
    <3>1. i < NB - 1 => i * B + B <= (NB - 1) * B
      BY <1>10, <2>4
    <3>2. s + (NB - 1) * B < g
      BY <1>6, <2>5
    <3> QED
      BY <1>1, <1>3, <1>4, <2>1, <2>4, <3>1, <3>2
  <2>7. CASE i = NB - 1
    <3>1. \A q \in first : q < r
      <4> SUFFICES ASSUME NEW q \in first PROVE q < r
        OBVIOUS
      <4>1. q + i * B < r + i * B /\ q \in 0 .. B - 1
        BY <1>4, <1>6, <2>5, <2>7
      <4> QED
        BY <1>1, <2>1, <4>1
    <3> QED
      BY <2>3, <3>1 DEF IsSuccessor, first, r, s, B
  <2>8. CASE i > NB - 1
    <3>1. NB * B <= i * B
      <4>1. (NB - 1) * B + B <= i * B
        BY <1>10, <2>4, <2>8
      <4> QED
        BY <2>4, <4>1
    <3>2. r = 0
      <4>1. PICK x \in Nat, y \in Nat : x = i * B /\ y = NB * B
        BY <2>1, <1>1, <1>11
      <4>2. g = r + x /\ g <= y /\ y <= x /\ r \in Nat
        BY <1>2, <1>4, <2>1, <3>1, <4>1
      <4> QED
        BY <4>1, <4>2
    <3>3. s >= r
      BY <2>1, <3>2
    <3> QED
      BY <2>3, <3>3 DEF IsSuccessor, first, r, s, B
  <2> QED
    BY <2>4, <2>6, <2>7, <2>8
<1> QED
  BY <1>12, <1>13 DEF IsSuccessor

\* Two numbers at the same place of their buckets lead to positions at the same
\* place of theirs.
LEMMA SuccessorAlike ==
  ASSUME NEW ring, DOMAIN ring \subseteq Hash, DOMAIN ring # {}, Periodic(ring),
         NEW g \in Hash, NEW h \in Hash, g % BUCKET_SIZE = h % BUCKET_SIZE
  PROVE  Successor(ring, g) % BUCKET_SIZE = Successor(ring, h) % BUCKET_SIZE
<1> DEFINE p == Successor(ring, g)
           q == Successor(ring, h)
           first == FirstBucket(ring)
           r == g % BUCKET_SIZE
<1>1. p \in DOMAIN ring /\ IsSuccessor(ring, g, p) /\ q \in DOMAIN ring /\ IsSuccessor(ring, h, q)
  BY SuccessorType
<1> HIDE DEF p, q
<1>2. IsSuccessor(first, r, p % BUCKET_SIZE) /\ IsSuccessor(first, r, q % BUCKET_SIZE)
  BY <1>1, SuccessorFolds
<1>3. p % BUCKET_SIZE \in DOMAIN first /\ q % BUCKET_SIZE \in DOMAIN first
  BY <1>1, PeriodicPosition
<1>4. DOMAIN first \subseteq Hash
  BY DEF FirstBucket
<1>5. r \in Hash
  <2>1. g \in Nat
    BY HashInNat
  <2>2. r \in 0 .. BUCKET_SIZE - 1
    BY <2>1, PlaceOf
  <2>3. 0 \in Buckets
    BY HashAssumption DEF Buckets
  <2>4. r + 0 * BUCKET_SIZE \in Hash
    BY <2>2, <2>3, BucketBound
  <2>5. r + 0 * BUCKET_SIZE = r
    BY <2>2, HashAssumption
  <2> QED
    BY <2>4, <2>5
<1> HIDE DEF first, r
<1>6. p % BUCKET_SIZE = q % BUCKET_SIZE
  BY <1>2, <1>3, <1>4, <1>5, SuccessorUnique
<1> QED
  BY <1>6 DEF p, q

\* So do the numbers after them.
LEMMA AfterAlike ==
  ASSUME NEW ring, Periodic(ring), NEW p \in DOMAIN ring, NEW q \in DOMAIN ring,
         p % BUCKET_SIZE = q % BUCKET_SIZE
  PROVE  /\ After(p) \in Hash /\ After(q) \in Hash
         /\ After(p) % BUCKET_SIZE = After(q) % BUCKET_SIZE
<1> DEFINE s == p % BUCKET_SIZE
<1>1. ASSUME NEW x \in DOMAIN ring, x % BUCKET_SIZE = s
      PROVE  After(x) \in Hash /\ After(x) % BUCKET_SIZE = IF s + 1 < BUCKET_SIZE THEN s + 1 ELSE 0
  <2>1. x \in Nat /\ x < UINT32_MAX
    BY PeriodicPosition
  <2>2. PICK j \in Buckets : x = s + j * BUCKET_SIZE
    BY <1>1, PeriodicPosition
  <2>3. x \in Hash
    BY <2>1, HashAssumption DEF Hash
  <2>4. After(x) = x + 1 /\ x + 1 \in Hash
    BY <2>1, <2>3, AfterValue, HashAssumption DEF Hash
  <2>5. s \in 0 .. BUCKET_SIZE - 1 /\ j \in Nat /\ BUCKET_SIZE \in Nat \ {0}
    <3>1. s \in 0 .. BUCKET_SIZE - 1
      BY <1>1, <2>1, PlaceOf
    <3> HIDE DEF s
    <3> QED
      BY <3>1, HashAssumption DEF Buckets
  <2> HIDE DEF s
  <2>6. j * BUCKET_SIZE \in Nat
    BY <2>5
  <2>7. CASE s + 1 < BUCKET_SIZE
    <3>1. s + 1 \in 0 .. BUCKET_SIZE - 1 /\ x + 1 = (s + 1) + j * BUCKET_SIZE
      BY <2>2, <2>5, <2>6, <2>7
    <3>2. ((s + 1) + j * BUCKET_SIZE) % BUCKET_SIZE = s + 1
      BY <2>5, <3>1, PlaceIs
    <3> QED
      BY <2>4, <2>7, <3>1, <3>2
  <2>8. CASE ~ (s + 1 < BUCKET_SIZE)
    <3>1. s + 1 = BUCKET_SIZE
      BY <2>5, <2>8
    <3>2. (j + 1) * BUCKET_SIZE = j * BUCKET_SIZE + BUCKET_SIZE /\ j + 1 \in Nat /\ (j + 1) * BUCKET_SIZE \in Nat
      BY <2>5, <2>6
    <3>3. x + 1 = 0 + (j + 1) * BUCKET_SIZE /\ 0 \in 0 .. BUCKET_SIZE - 1
      BY <2>2, <2>5, <2>6, <3>1, <3>2
    <3>4. (0 + (j + 1) * BUCKET_SIZE) % BUCKET_SIZE = 0
      BY <3>2, <3>3, PlaceIs
    <3> QED
      BY <2>4, <2>8, <3>3, <3>4
  <2> QED
    BY <2>4, <2>7, <2>8
<1> HIDE DEF s
<1>2. p % BUCKET_SIZE = s /\ q % BUCKET_SIZE = s
  BY DEF s
<1> QED
  BY <1>1, <1>2

\* What get_node does not ignore repeats from bucket to bucket as well.
LEMMA NotIgnoredPeriodic ==
  ASSUME NEW ring, Periodic(ring), NEW d, NEW answers
  PROVE  LET part == NotIgnored(ring, d, answers)
         IN  Periodic(part) /\ DOMAIN part = {q \in DOMAIN ring : ~ Ignored(ring[q], d, answers)}
<1> DEFINE part == NotIgnored(ring, d, answers)
<1>1. /\ DOMAIN part = {q \in DOMAIN ring : ~ Ignored(ring[q], d, answers)}
      /\ \A q \in DOMAIN part : part[q] = ring[q]
  BY DEF NotIgnored
<1> HIDE DEF part
<1>2. \A p \in DOMAIN part : \E b \in 0 .. BUCKET_SIZE - 1, i \in Buckets : p = b + i * BUCKET_SIZE
  BY <1>1 DEF Periodic
<1>3. ASSUME NEW b \in 0 .. BUCKET_SIZE - 1, NEW i \in Buckets, NEW j \in Buckets,
             b + i * BUCKET_SIZE \in DOMAIN part
      PROVE  /\ b + j * BUCKET_SIZE \in DOMAIN part
             /\ part[b + i * BUCKET_SIZE] = part[b + j * BUCKET_SIZE]
  <2> DEFINE x == b + i * BUCKET_SIZE
             y == b + j * BUCKET_SIZE
  <2>1. x \in DOMAIN ring => y \in DOMAIN ring /\ ring[x] = ring[y]
    BY DEF Periodic
  <2>2. x \in DOMAIN part
    BY <1>3
  <2> HIDE DEF x, y
  <2>3. y \in DOMAIN part /\ part[x] = part[y]
    BY <1>1, <2>1, <2>2
  <2> QED
    BY <2>3 DEF x, y
<1>4. Periodic(part)
  BY <1>2, <1>3 DEF Periodic
<1> QED
  BY <1>1, <1>4 DEF part

\* The stops of two names that hash to the same place of two buckets are at the
\* same places.
LEMMA StopsAlike ==
  ASSUME NEW ring, DOMAIN ring \subseteq Hash, Periodic(ring),
         NEW answers, DOMAIN answers \subseteq Nat,
         NEW D \in Nat, FirstDepth(answers) = D,
         NEW x \in DOMAIN ring, ~ Ignored(ring[x], 1, answers),
         NEW g \in Hash, NEW h \in Hash, g % BUCKET_SIZE = h % BUCKET_SIZE,
         NEW i \in 1 .. D
  PROVE  LET s == Stops(ring, g, answers)
             t == Stops(ring, h, answers)
         IN  s[i] \in DOMAIN ring /\ t[i] \in DOMAIN ring /\ s[i] % BUCKET_SIZE = t[i] % BUCKET_SIZE
<1> DEFINE s == Stops(ring, g, answers)
           t == Stops(ring, h, answers)
           Alike(k) == s[k] \in DOMAIN ring /\ t[k] \in DOMAIN ring /\ s[k] % BUCKET_SIZE = t[k] % BUCKET_SIZE
           bad == {k \in 1 .. D : ~ Alike(k)}
           From(f, z, k) == IF k = 1 THEN z ELSE After(f[k - 1])
<1>1. ASSUME NEW k \in 1 .. D
      PROVE  /\ s[k] = Successor(NotIgnored(ring, D + 1 - k, answers), From(s, g, k))
             /\ t[k] = Successor(NotIgnored(ring, D + 1 - k, answers), From(t, h, k))
  BY StopsAt
<1> HIDE DEF s, t
<1>2. ASSUME NEW k \in 1 .. D,
             From(s, g, k) \in Hash, From(t, h, k) \in Hash,
             From(s, g, k) % BUCKET_SIZE = From(t, h, k) % BUCKET_SIZE
      PROVE  Alike(k)
  <2> DEFINE part == NotIgnored(ring, D + 1 - k, answers)
  <2>1. Periodic(part) /\ DOMAIN part = {q \in DOMAIN ring : ~ Ignored(ring[q], D + 1 - k, answers)}
    BY NotIgnoredPeriodic
  <2>2. x \in DOMAIN part
    <3>1. D + 1 - k >= 1 /\ D + 1 - k \in Nat
      OBVIOUS
    <3>2. ~ Ignored(ring[x], D + 1 - k, answers)
      <4> SUFFICES ASSUME NEW l \in DOMAIN answers, l >= D + 1 - k, answers[l] = ring[x] PROVE FALSE
        BY DEF Ignored
      <4>1. ~ (l >= 1) /\ l \in Nat
        BY DEF Ignored
      <4> QED
        BY <3>1, <4>1
    <3> QED
      BY <2>1, <3>2
  <2> HIDE DEF part
  <2>3. DOMAIN part \subseteq Hash /\ DOMAIN part # {} /\ DOMAIN part \subseteq DOMAIN ring
    BY <2>1, <2>2
  <2>4. s[k] = Successor(part, From(s, g, k)) /\ t[k] = Successor(part, From(t, h, k))
    BY <1>1 DEF part
  <2> HIDE DEF From
  <2>5. s[k] \in DOMAIN part /\ t[k] \in DOMAIN part
    BY <1>2, <2>3, <2>4, SuccessorType
  <2>6. s[k] % BUCKET_SIZE = t[k] % BUCKET_SIZE
    BY <1>2, <2>1, <2>3, <2>4, SuccessorAlike
  <2> QED
    BY <2>3, <2>5, <2>6
<1>3. bad = {}
  <2> SUFFICES ASSUME bad # {} PROVE FALSE
    OBVIOUS
  <2>1. bad \subseteq Nat
    OBVIOUS
  <2>2. PICK k \in bad : \A l \in bad : k <= l
    BY <2>1, LeastNumber
  <2>3. k \in 1 .. D /\ ~ Alike(k)
    BY <2>2
  <2>4. CASE k = 1
    <3>1. From(s, g, k) = g /\ From(t, h, k) = h
      BY <2>4
    <3> HIDE DEF From, Alike
    <3> QED
      BY <1>2, <2>3, <3>1
  <2>5. CASE k # 1
    <3>1. k - 1 \in 1 .. D /\ ~ (k <= k - 1)
      BY <2>3, <2>5
    <3>2. Alike(k - 1)
      BY <2>2, <3>1
    <3>3. From(s, g, k) = After(s[k - 1]) /\ From(t, h, k) = After(t[k - 1])
      BY <2>5
    <3>4. /\ After(s[k - 1]) \in Hash /\ After(t[k - 1]) \in Hash
          /\ After(s[k - 1]) % BUCKET_SIZE = After(t[k - 1]) % BUCKET_SIZE
      BY <3>2, AfterAlike
    <3> HIDE DEF From, Alike
    <3> QED
      BY <1>2, <2>3, <3>3, <3>4
  <2> QED
    BY <2>4, <2>5
<1>4. Alike(i)
  BY <1>3
<1> QED
  BY <1>4 DEF s, t

\* Two such names get the same answers, and the answers are servers of the ring.
LEMMA ListsAlike ==
  ASSUME NEW ring, DOMAIN ring \subseteq Hash, Periodic(ring),
         NEW n \in 0 .. 255, Cardinality(Nodes(ring)) >= n,
         NEW g \in Hash, NEW h \in Hash, g % BUCKET_SIZE = h % BUCKET_SIZE
  PROVE  AnswersFor(ring, g, n) = AnswersFor(ring, h, n)
<1> DEFINE a == AnswerLists(ring, g)
           c == AnswerLists(ring, h)
           Alike(k) == a[k] = c[k] /\ a[k] \in Seq(Nodes(ring)) /\ Len(a[k]) = k
           bad == {k \in 0 .. n : ~ Alike(k)}
<1>1. /\ a[0] = << >> /\ c[0] = << >>
      /\ \A k \in 1 .. 255 : a[k] = Append(a[k - 1], NextAnswer(ring, g, a[k - 1]))
      /\ \A k \in 1 .. 255 : c[k] = Append(c[k - 1], NextAnswer(ring, h, c[k - 1]))
  BY AnswerListsDef
<1> HIDE DEF a, c
<1>2. ASSUME NEW k \in 1 .. n, Alike(k - 1) PROVE Alike(k)
  <2> DEFINE before == a[k - 1]
             D == FirstDepth(before)
             s == Stops(ring, g, before)
             t == Stops(ring, h, before)
  <2>1. k - 1 \in Nat /\ k \in 1 .. 255 /\ k - 1 < n /\ n \in Nat /\ (k - 1) + 1 = k
    OBVIOUS
  <2>2. before = c[k - 1] /\ before \in Seq(Nodes(ring)) /\ Len(before) = k - 1
    BY <1>2
  <2> HIDE DEF before
  <2>3. D = k /\ DOMAIN before \subseteq Nat
    <3>1. D = k
      BY <2>1, <2>2 DEF FirstDepth
    <3>2. DOMAIN before = 1 .. k - 1
      BY <2>1, <2>2
    <3> QED
      BY <3>1, <3>2
  <2>4. \E x \in DOMAIN ring : ~ Ignored(ring[x], 1, before)
    <3> SUFFICES ASSUME \A x \in DOMAIN ring : Ignored(ring[x], 1, before) PROVE FALSE
      OBVIOUS
    <3>1. \A y \in Nodes(ring) : \E l \in DOMAIN before : before[l] = y
      BY DEF Nodes, Ignored
    <3>2. IsFiniteSet(Nodes(ring)) /\ Cardinality(Nodes(ring)) <= Len(before)
      BY <2>2, <3>1, IgnoredBound
    <3>3. Cardinality(Nodes(ring)) \in Nat
      BY <3>2, FS_CardinalityType
    <3> QED
      BY <2>1, <2>2, <3>2, <3>3
  <2>5. PICK x \in DOMAIN ring : ~ Ignored(ring[x], 1, before)
    BY <2>4
  <2>6. s[k] \in DOMAIN ring /\ t[k] \in DOMAIN ring /\ s[k] % BUCKET_SIZE = t[k] % BUCKET_SIZE
    <3>1. k \in 1 .. k /\ k \in Nat
      BY <2>1
    <3> QED
      BY <2>3, <2>5, <3>1, StopsAlike
  <2>7. NextAnswer(ring, g, before) = ring[s[k]] /\ NextAnswer(ring, h, before) = ring[t[k]]
    BY <2>3 DEF NextAnswer
  <2> HIDE DEF s, t, D
  <2>8. ring[s[k]] = ring[t[k]]
    <3>1. PICK i \in Buckets, j \in Buckets :
            /\ s[k] = (s[k] % BUCKET_SIZE) + i * BUCKET_SIZE
            /\ t[k] = (s[k] % BUCKET_SIZE) + j * BUCKET_SIZE
      BY <2>6, PeriodicPosition
    <3>2. s[k] % BUCKET_SIZE \in 0 .. BUCKET_SIZE - 1
      BY <2>6, PeriodicPosition DEF FirstBucket
    <3> DEFINE b == s[k] % BUCKET_SIZE
    <3> HIDE DEF b
    <3>3. b \in 0 .. BUCKET_SIZE - 1 /\ s[k] = b + i * BUCKET_SIZE /\ t[k] = b + j * BUCKET_SIZE
      BY <3>1, <3>2 DEF b
    <3>4. ring[b + i * BUCKET_SIZE] = ring[b + j * BUCKET_SIZE]
      BY <2>6, <3>3 DEF Periodic
    <3> QED
      BY <3>3, <3>4
  <2>9. a[k] = Append(before, ring[s[k]]) /\ c[k] = Append(before, ring[s[k]])
    BY <1>1, <2>1, <2>2, <2>7, <2>8 DEF before
  <2>10. ring[s[k]] \in Nodes(ring)
    BY <2>6 DEF Nodes
  <2> DEFINE y == ring[s[k]]
  <2> HIDE DEF y
  <2>11. Append(before, y) \in Seq(Nodes(ring)) /\ Len(Append(before, y)) = k
    <3>1. y \in Nodes(ring)
      BY <2>10 DEF y
    <3>2. Append(before, y) \in Seq(Nodes(ring)) /\ Len(Append(before, y)) = Len(before) + 1
      BY ONLY <2>2, <3>1
    <3> QED
      BY <2>1, <2>2, <3>2
  <2> QED
    BY <2>9, <2>11 DEF y
<1>3. Alike(0)
  <2>1. << >> \in Seq(Nodes(ring)) /\ Len(<< >>) = 0
    OBVIOUS
  <2> QED
    BY <1>1, <2>1
<1> HIDE DEF Alike
<1>4. bad = {}
  <2> SUFFICES ASSUME bad # {} PROVE FALSE
    OBVIOUS
  <2>1. bad \subseteq Nat
    OBVIOUS
  <2>2. PICK k \in bad : \A l \in bad : k <= l
    BY <2>1, LeastNumber
  <2>3. k \in 0 .. n /\ ~ Alike(k)
    BY <2>2
  <2>4. k # 0
    BY <1>3, <2>3
  <2>5. k \in 1 .. n /\ k - 1 \in 0 .. n /\ ~ (k <= k - 1)
    BY <2>3, <2>4
  <2>6. Alike(k - 1)
    BY <2>2, <2>5
  <2> QED
    BY <1>2, <2>3, <2>5, <2>6
<1>5. Alike(n)
  <2>1. n \in 0 .. n
    OBVIOUS
  <2> QED
    BY <1>4, <2>1
<1> QED
  BY <1>5 DEF Alike, a, c, AnswersFor

\* Only the place in a bucket counts: a name is answered as the name that hashes
\* to the same place of the first bucket (hashring.cc:31-34, 49-51).
THEOREM BucketsAnswer == Spec => []BucketsAnswerAlike
<1>1. IInv /\ BuildInv => BucketsAnswerAlike
  <2> SUFFICES ASSUME IInv, BuildInv, EnoughNodes, NEW h \in Hash
               PROVE  AnswersFor(m_hashring, h, num_results)
                        = AnswersFor(m_hashring, h % BUCKET_SIZE, num_results)
    BY DEF BucketsAnswerAlike
  <2> DEFINE ring == m_hashring
  <2>1. /\ DOMAIN ring \subseteq Hash /\ num_results \in 0 .. 255 /\ crc \in Crcs
        /\ pool \in Seq(Row) /\ BucketsAlike
    BY DEF IInv, TypeOK
  <2>2. Periodic(ring)
    <3>1. ASSUME NEW p \in DOMAIN ring
          PROVE  \E b \in 0 .. BUCKET_SIZE - 1, i \in Buckets : p = b + i * BUCKET_SIZE
      <4>1. PICK k \in Added : p \in Positions(pool[k])
        BY DEF BuildInv, IsRingOf
      <4>2. pool[k] \in Row
        <5>1. Len(rows) \in Nat /\ Len(pool) \in Nat /\ DOMAIN pool = 1 .. Len(pool)
          BY <2>1 DEF IInv, TypeOK
        <5>2. k \in DOMAIN pool
          BY <5>1 DEF Added
        <5> QED
          BY <2>1, <5>2
      <4>3. PICK c \in 0 .. pool[k].hashring_weight - 1, i \in Buckets :
              p = InBucket(pool[k].content, c) + i * BUCKET_SIZE
        BY <4>1 DEF Positions
      <4> QED
        BY <2>1, <4>2, <4>3, InBucketType
    <3> QED
      BY <2>1, <3>1 DEF Periodic, BucketsAlike
  <2>3. h % BUCKET_SIZE \in Hash /\ (h % BUCKET_SIZE) % BUCKET_SIZE = h % BUCKET_SIZE
    <3> DEFINE r == h % BUCKET_SIZE
    <3>1. h \in Nat
      BY HashInNat
    <3>2. r \in 0 .. BUCKET_SIZE - 1 /\ 0 \in Buckets /\ 0 \in Nat
      BY <3>1, PlaceOf, HashAssumption DEF Buckets
    <3> HIDE DEF r
    <3>3. r + 0 * BUCKET_SIZE = r
      BY <3>2, HashAssumption
    <3>4. r + 0 * BUCKET_SIZE \in Hash /\ (r + 0 * BUCKET_SIZE) % BUCKET_SIZE = r
      BY <3>2, BucketBound, PlaceIs
    <3> QED
      BY <3>3, <3>4 DEF r
  <2> QED
    BY <2>1, <2>2, <2>3, ListsAlike DEF EnoughNodes
<1> QED
  BY <1>1, RemapInvHolds, PTL
=============================================================================
