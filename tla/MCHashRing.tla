----------------------------- MODULE MCHashRing -----------------------------
(* HashRing on two buckets of five positions. *)
EXTENDS HashRing, TLC

CONSTANTS n1, n2, n3

row(n, w) == [content |-> n, hashring_weight |-> w]

\* Two copies of each server: those of n1 fall on 0 and 4, those of n2, and the
\* first of n3, on 0, 1, 2 or 4, so that any of them may fall together.
MCCrcs ==
  {f \in [{n1, n2, n3} \X {0, 1} -> {1, 2, 9, 10}] :
     f[n1, 0] = 10 /\ f[n1, 1] = 9 /\ f[n3, 1] = 1}

\* Two copies each, copies overwritten by a later row, one server, none.
MCTables ==
  { <<row(n1, 2), row(n2, 2), row(n3, 2)>>, <<row(n1, 1), row(n2, 2)>>,
    <<row(n3, 1), row(n2, 1), row(n1, 1)>>, <<row(n1, 0)>> }

\* Three servers apart from each other, and the same pool after one was taken out.
MCCrcsHang == { [nc \in {n1, n2, n3} \X {0} |-> CASE nc[1] = n1 -> 0 [] nc[1] = n2 -> 2 [] nc[1] = n3 -> 4] }

MCTablesHang == { <<row(n1, 1), row(n2, 1), row(n3, 1)>>, <<row(n1, 1), row(n3, 1)>> }

=============================================================================
