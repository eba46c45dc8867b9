--------------------------- MODULE HashRingRemap ---------------------------
(***************************************************************************)
(* What "consistent hashing" promises (README.md:7), asked of the ring of   *)
(* module HashRing: when monitoring takes one server out of a pool, the     *)
(* names that server was not serving keep the servers they had.            *)
(*                                                                         *)
(* The ring of a table and the answers of a name are given here as           *)
(* functions of the table, the name and the number of answers: a position    *)
(* belongs to the last row that has it, and get_node goes from one position   *)
(* that it does not ignore to the next, once for each count of its depth.     *)
(* AnswersAgree compares both with what the steps of HashRing do.            *)
(***************************************************************************)
EXTENDS HashRing

\* defines.h:10-12: the buckets divide the range of the CRC evenly.
ASSUME BucketAssumption == NUM_BUCKETS * BUCKET_SIZE = UINT32_MAX

\* The rows the query on table pool returns once a server is out of the pool.
RowsLeft(table, node) == {i \in DOMAIN table : table[i].content # node}

\* The row a position belongs to, of some rows of a table.
LastWith(table, left, p) ==
  CHOOSE i \in left : p \in Positions(table[i]) /\ \A j \in left : p \in Positions(table[j]) => j <= i

\* The ring prepare_records builds from them.
RingOf(table, left) ==
  [p \in UNION {Positions(table[i]) : i \in left} |-> table[LastWith(table, left, p)].content]

\* lower_bound or begin().
Successor(ring, h) == CHOOSE p \in DOMAIN ring : IsSuccessor(ring, h, p)

\* The part of a ring whose servers get_node does not ignore at depth d.
NotIgnored(ring, d, answers) ==
  [p \in {q \in DOMAIN ring : ~ Ignored(ring[q], d, answers)} |-> ring[p]]

\* The positions at which get_node counts down; it is only asked of rings on
\* which it ends.
Stops(ring, h, answers) ==
  LET stop[i \in 1 .. FirstDepth(answers)] ==
        Successor(NotIgnored(ring, FirstDepth(answers) + 1 - i, answers),
                  IF i = 1 THEN h ELSE After(stop[i - 1]))
  IN  stop

\* The server get_node returns: the one it stands on when depth is 0.
NextAnswer(ring, h, answers) == ring[Stops(ring, h, answers)[FirstDepth(answers)]]

\* The answers that send_from_hash_cache has after k calls, for a name of CRC h.
AnswerLists(ring, h) ==
  LET list[k \in 0 .. 255] ==
        IF k = 0 THEN << >>
        ELSE LET before == list[k - 1] IN Append(before, NextAnswer(ring, h, before))
  IN  list

\* Variant: every answer is asked for with the countdown at 1.
AnswersForDepthOne(ring, h, n) ==
  LET list[k \in 0 .. 255] ==
        IF k = 0 THEN << >>
        ELSE LET before == list[k - 1]
             IN  Append(before, ring[Successor(NotIgnored(ring, 1, before), h)])
  IN  list[n]

\* send_from_hash_cache: the n answers for a name of CRC h.
AnswersFor(ring, h, n) == AnswerLists(ring, h)[n]

-----------------------------------------------------------------------------
(* Properties *)

Built == pc = "ready" /\ tmp_vec = << >>

\* n answers of a name stay what they were when a server that is not one of
\* them leaves the pool.
RemovalKeeps(n) ==
  Built /\ Cardinality(Nodes(m_hashring)) >= n =>
    \A node \in Contents(pool) :
      LET left == RingOf(pool, RowsLeft(pool, node))
      IN  \A h \in Hash :
            LET answers == AnswersFor(m_hashring, h, n)
            IN  (\A i \in DOMAIN answers : answers[i] # node) => AnswersFor(left, h, n) = answers

\* The steps collect, for each name, what the functions of this module say: the
\* ring depends on nothing but the rows, the last of those that share a position
\* keeping it, and the answers on nothing but the ring and the name.
AnswersAgree ==
  pc = "ready" /\ tmp_vec # << >> /\ m_hashring # EmptyRing
    => tmp_vec = AnswersFor(RingOf(pool, DOMAIN pool), query, num_results)

\* The first two answers of a name do not move when another server leaves.
RemovalKeepsFirstTwo == RemovalKeeps(1) /\ RemovalKeeps(2)

\* When no two servers share a position, the second answer of a name is the
\* one that takes over when the first leaves: it already holds what it will be
\* asked for.
SecondTakesOver ==
  Built /\ (\A i, j \in DOMAIN pool : i # j => Positions(pool[i]) \cap Positions(pool[j]) = {}) =>
    \A h \in Hash :
      Cardinality(Nodes(m_hashring)) >= 2 =>
        LET two == AnswersFor(m_hashring, h, 2)
        IN  AnswersFor(RingOf(pool, RowsLeft(pool, two[1])), h, 1) = <<two[2]>>

\* The CRC of a name counts only modulo the size of a bucket: names that hash
\* to the same place of two buckets get the same servers, past the last
\* position of the last bucket too.
BucketsAnswerAlike ==
  Built /\ m_hashring # EmptyRing /\ EnoughNodes =>
    \A h \in Hash :
      AnswersFor(m_hashring, h, num_results) = AnswersFor(m_hashring, h % BUCKET_SIZE, num_results)

=============================================================================
