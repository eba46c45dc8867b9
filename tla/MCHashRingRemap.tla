-------------------------- MODULE MCHashRingRemap --------------------------
(* HashRingRemap on five servers: two buckets of six positions. *)
EXTENDS HashRingRemap

CONSTANTS n1, n2, n3, n4, n5

row(n, w) == [content |-> n, hashring_weight |-> w]

\* Every order of the first copies of five servers round the ring, apart from
\* each other; the second copies fall beside the first.
MCCrcsApart ==
  { [nc \in {n1, n2, n3, n4, n5} \X {0, 1} |-> IF nc[2] = 0 THEN place[nc[1]] ELSE 5] :
      place \in {g \in [{n1, n2, n3, n4, n5} -> 0 .. 4] :
                   g[n1] = 0 /\ \A m, n \in {n1, n2, n3, n4, n5} : m # n => g[m] # g[n]} }

\* Three places for all copies, which therefore overwrite each other.
MCCrcsShared ==
  {f \in [{n1, n2, n3, n4, n5} \X {0, 1} -> {1, 4, 12}] :
     /\ f[n1, 0] = 1 /\ f[n2, 0] = 4
     /\ \A n \in {n3, n4, n5} : f[n, 1] = 1
     /\ f[n4, 0] = 12 /\ f[n5, 0] = 1}

MCCrcs == MCCrcsApart \cup MCCrcsShared

MCTablesApart == { <<row(n1, 1), row(n2, 1), row(n3, 1), row(n4, 1), row(n5, 1)>> }

MCTables ==
  MCTablesApart \cup
  { <<row(n1, 2), row(n2, 2), row(n3, 1), row(n4, 1)>>,
    <<row(n4, 1), row(n3, 1), row(n2, 2), row(n1, 1)>> }

=============================================================================
