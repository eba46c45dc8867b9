------------------------------ MODULE MCScribe ------------------------------
(* Scribe on two watchers. *)
EXTENDS Scribe, TLC

CONSTANTS w1, w2

\* w1 asks w2, which only answers.
MCOneAsks == [w \in Watcher |-> IF w = w1 THEN {w2} ELSE {}]

\* Two lists of w1 may overtake each other.
MCTwoLists == [w \in Watcher |-> IF w = w1 THEN 2 ELSE 1]
MCOneList  == [w \in Watcher |-> 1]

\* The server begins in its pool.
MCInit == Init /\ in_pool = TRUE

MCFairSpec == MCInit /\ [][Next]_vars /\ AllFair

=============================================================================
