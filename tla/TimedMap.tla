------------------------------ MODULE TimedMap ------------------------------
(***************************************************************************)
(* What the callers of Cache rely on: a map whose entries age, that gives   *)
(* out the entry of the key it was asked for, and only while that entry is   *)
(* younger than TIMEOUT.  There are no pointers here: no object to delete,   *)
(* none to remember.  Module Cache implements it.                           *)
(***************************************************************************)
EXTENDS Integers

CONSTANTS Key, TIMEOUT, Nothing

MaxAge == TIMEOUT + 1

VARIABLES
  entry,  \* key -> the age of what the map holds for it
  phase,  \* where the caller is
  asked,  \* the key it asked for
  given   \* the <<key, age>> of what it was given, or Nothing

vars == <<entry, phase, asked, given>>

Init ==
  /\ entry = [k \in {} |-> 0]
  /\ phase = "idle" /\ asked \in Key /\ given = Nothing

\* Forget entries that are past their time, or all of them.
Forget ==
  /\ phase = "idle"
  /\ \/ entry' = [k \in {j \in DOMAIN entry : entry[j] <= TIMEOUT} |-> entry[k]] /\ phase' = "idle"
     \/ entry' = [k \in {} |-> 0] /\ phase' = "gone"
  /\ UNCHANGED <<asked, given>>

Ask(k) ==
  /\ phase = "idle"
  /\ asked' = k
  /\ phase' = IF k \in DOMAIN entry /\ entry[k] < TIMEOUT THEN "valid" ELSE "missed"
  /\ UNCHANGED <<entry, given>>

Store(k) ==
  /\ phase \in {"idle", "missed"}
  /\ entry' = [j \in DOMAIN entry \cup {k} |-> IF j = k THEN 0 ELSE entry[j]]
  /\ asked' = k /\ phase' = "filled"
  /\ UNCHANGED given

Give ==
  /\ phase \in {"valid", "filled"}
  /\ given' = <<asked, entry[asked]>>
  /\ phase' = "served"
  /\ UNCHANGED <<entry, asked>>

\* The caller is done, and may have found what it was given unusable.
Done ==
  /\ phase \in {"served", "missed", "filled", "gone"}
  /\ phase' = "idle" /\ given' = Nothing
  /\ \/ UNCHANGED entry
     \/ /\ phase = "served"
        /\ entry' = [k \in DOMAIN entry \ {asked} |-> entry[k]]
  /\ UNCHANGED asked

Age ==
  /\ phase = "idle"
  /\ entry' = [k \in DOMAIN entry |-> IF entry[k] < MaxAge THEN entry[k] + 1 ELSE entry[k]]
  /\ UNCHANGED <<phase, asked, given>>

Next == Forget \/ Give \/ Done \/ Age \/ \E k \in Key : Ask(k) \/ Store(k)

Spec == Init /\ [][Next]_vars

=============================================================================
