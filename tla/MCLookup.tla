------------------------------ MODULE MCLookup ------------------------------
(* Lookup of two names that share a wildcard. *)
EXTENDS Lookup, TLC

CONSTANTS n1, n2, wild, A, h1

MCCandidates == (n1 :> <<n1, wild>>) @@ (n2 :> <<n2, wild>>)

MCQuestion == {<<n1, A>>, <<n2, A>>}

\* n1 has a row of its own; n2 has only the wildcard's.
MCRecord == { [owner |-> n1, type |-> A, house |-> h1], [owner |-> wild, type |-> A, house |-> h1] }

=============================================================================
