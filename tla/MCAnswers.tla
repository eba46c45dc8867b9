----------------------------- MODULE MCAnswers -----------------------------
(* A name, the zone it is in, which may be made anew, and the zone around it. *)
EXTENDS Answers, TLC

CONSTANTS i1, i2, i3, outer, inner, n1, p1, p2, a, b

MCNameOf == (i1 :> outer) @@ (i2 :> inner) @@ (i3 :> inner)
MCSuffixes == n1 :> <<inner, outer>>
MCLength == (outer :> 3) @@ (inner :> 5)

MCRecord == { [stored |-> "full", length |-> 5, house |-> p1], [stored |-> "host", length |-> 2, house |-> p2] }

\* Two of three rows, drawn, one server being there twice; and both of two, as
\* -1 is a limit of 255.
MCPool == (p1 :> [content |-> <<a, a, b>>, num_results |-> 2, random_results |-> TRUE])
       @@ (p2 :> [content |-> <<a, b>>, num_results |-> -1, random_results |-> FALSE])

=============================================================================
