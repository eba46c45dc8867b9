---------------------------- MODULE PoolService ----------------------------
(***************************************************************************)
(* The web service between the watchers and the database (public_html): it  *)
(* takes a server out of its pool, puts it back, and lists the pools.  Each *)
(* request is a PHP script of its own: it reads in_pool, then updates it,   *)
(* then answers, with nothing that keeps two scripts apart, so the scripts   *)
(* of several requests interleave between any two of those.  The log row    *)
(* and the mails a script ends with are left out: no watcher reads them.    *)
(*                                                                         *)
(* The module follows one row of table pool; rows do not affect each other.  *)
(* The answers 'notreq' and 'failed' change nothing at the watcher that      *)
(* gets them, so a request that ends that way just disappears here, as does  *)
(* one that is lost with its connection or whose script dies.               *)
(***************************************************************************)
EXTENDS Integers, FiniteSets

CONSTANTS
  Watcher,   \* the monitors
  Nobody,    \* stands for the watchers that ended while a script was serving them
  MaxCalls   \* bound: requests for a change under way at one time

ASSUME ServiceAssumption == MaxCalls \in Nat \ {0} /\ Nobody \notin Watcher

Caller == Watcher \cup {Nobody}

\* What is asked for (index.php, parse_request).  /pool/set-pool_weight is left
\* out: it reads an undefined variable and always ends in 'failed'.
Kind == {"out", "in", "list"}

\* Where a request is: on its way; past is_in_pool(); past the UPDATE, with the
\* answer on its way back.  For a list, the answer carries in_pool as it was read.
Stage == {"sent", "checked", "success", "listed_in", "listed_out"}

Call == Caller \X Kind \X Stage

VARIABLES
  in_pool,  \* pool.in_pool of the row
  calls     \* how many requests of each caller and kind are at each stage

serviceVars == <<in_pool, calls>>

\* The number of messages, when messages says how many there are of each.
Total(messages) == Cardinality(UNION {{m} \X (1 .. messages[m]) : m \in DOMAIN messages})

Changes == Total([c \in Caller \X {"out", "in"} \X Stage |-> calls[c]])

\* A request is made, or lost when MaxCalls are under way; it ends; it goes from
\* one stage to the next.
Put(w, kind) ==
  calls' = IF kind = "list" \/ Changes < MaxCalls
             THEN [calls EXCEPT ![<<w, kind, "sent">>] = @ + 1]
             ELSE calls
Take(w, kind, stage) == calls' = [calls EXCEPT ![<<w, kind, stage>>] = @ - 1]
Move(w, kind, stage, next) ==
  calls' = [calls EXCEPT ![<<w, kind, stage>>] = @ - 1,
                         ![<<w, kind, next>>] = @ + 1]

At(w, kind, stage) == calls[<<w, kind, stage>>] > 0

\* The in_pool a request asks for.
Wanted(kind) == kind = "in"

-----------------------------------------------------------------------------
ServiceInit ==
  /\ in_pool \in BOOLEAN
  /\ calls = [c \in Call |-> 0]

\* A request that would change nothing is answered 'notreq'.
Looks(w, kind, is_in_pool) ==
  /\ kind \in {"out", "in"} /\ At(w, kind, "sent")
  /\ IF is_in_pool = Wanted(kind)
       THEN Take(w, kind, "sent")
       ELSE Move(w, kind, "sent", "checked")
  /\ UNCHANGED in_pool

\* is_in_pool(); when its query fails it returns false as well.
Check(w, kind) == Looks(w, kind, in_pool)
IsInPoolFails(w, kind) == Looks(w, kind, FALSE)

\* put_back_into_pool(), take_out_of_pool(): the UPDATE does not look again.  The
\* answer 'success' that follows is as good as sent: it may be late or lost.
Update(w, kind) ==
  /\ kind \in {"out", "in"} /\ At(w, kind, "checked")
  /\ in_pool' = Wanted(kind)
  /\ Move(w, kind, "checked", "success")

\* send_pool_list(): the answer carries the value read here.
List(w) ==
  /\ At(w, "list", "sent")
  /\ Move(w, "list", "sent", IF in_pool THEN "listed_in" ELSE "listed_out")
  /\ UNCHANGED in_pool

\* A request or an answer is lost, a script dies, the database refuses.
Lose(w, kind, stage) ==
  /\ At(w, kind, stage)
  /\ Take(w, kind, stage)
  /\ UNCHANGED in_pool

\* A watcher ends.  The scripts that serve it do not notice, so what they have
\* still to change they change; their answers, and its lists, go nowhere.
Abandon(w) ==
  calls' = [c \in Call |->
    IF c[1] = w THEN 0
    ELSE IF c[1] = Nobody /\ c[2] # "list" /\ c[3] \in {"sent", "checked"}
      THEN calls[c] + calls[<<w, c[2], c[3]>>]
    ELSE calls[c]]

\* A script goes on.
ServiceStep(w, kind) == Check(w, kind) \/ Update(w, kind) \/ (kind = "list" /\ List(w))

=============================================================================
