------------------------------- MODULE Scribe -------------------------------
(***************************************************************************)
(* The watchers: what scribe.js, speaker.js and listener.js of every        *)
(* watcher do about one server, together with the pool service they call.   *)
(* Servers do not affect each other in a watcher, but for the removal of    *)
(* those that a list no longer names, which is not modelled.               *)
(*                                                                         *)
(* A watcher checks the server, and when it has had no contact for 30 s it  *)
(* asks its peers; PEER_CONFIRM_LIMIT answers that agree make it ask the    *)
(* pool service to take the server out.  Putting it back is symmetrical.    *)
(* Every handler runs to its end before the next one of that watcher; the   *)
(* questions, answers and calls in between are lost, or arrive in any order  *)
(* and at any time: the timeout handlers of speaker.js report the timeout    *)
(* and leave the request alive, so an answer counts however late it is.     *)
(*                                                                         *)
(* There is no clock: last_contact is null, "fresh" (at most                *)
(* MAX_NO_RESPONSE_MS old) or "stale".  The period of the checks is        *)
(* MAX_NO_RESPONSE_MS as well, so a late check is enough to go stale.      *)
(* last_rtt is left out: nothing reads it.                                 *)
(***************************************************************************)
EXTENDS PoolService

CONSTANTS
  PeersOf,             \* config "peer": watcher -> the watchers it asks
  PEER_CONFIRM_LIMIT,  \* scribe.js: 3
  Refetch,   \* bound: who fetches the list again after the first time
  MaxLists,  \* bound: watcher -> its lists under way at one time
  Restarts,  \* bound: who may be restarted
  Flaky,     \* whether a server that works may fail a check or go stale
  Settles,   \* whether the server and the network may come to rest
  MaxAsk     \* bound: questions and answers under way

ASSUME ScribeAssumption ==
  /\ PeersOf \in [Watcher -> SUBSET Watcher]
  /\ PEER_CONFIRM_LIMIT \in Nat \ {0}
  /\ MaxAsk \in Nat \ {0} /\ MaxLists \in [Watcher -> Nat \ {0}]
  /\ Refetch \subseteq Watcher /\ Restarts \subseteq Watcher
  /\ Flaky \in BOOLEAN /\ Settles \in BOOLEAN

VARIABLES
  host_up,       \* whether the server works
  settled,       \* whether it stays that way, and nothing more is lost
  known,         \* watcher -> whether the server is in its arrServers
  in,            \* its copy of in_pool
  last_contact,  \* "null", "fresh" or "stale"
  peer_confirms_offline,
  peer_confirms_online,
  run_checks,    \* what the next check_servers will do
  checking,      \* whether network checks of the server have begun
  questions,     \* <<about, asker, peer>> -> questions on their way
  answers,       \* <<about, asker>> -> answers on their way that agree
  lost, seen,    \* history: who ever lost contact, who ever had it
  started_in     \* history: in_pool when it all began

hostVars  == <<in, last_contact, peer_confirms_offline, peer_confirms_online>>
peerVars  == <<questions, answers>>
history   == <<lost, seen, started_in>>
worldVars == <<host_up, settled>>
vars == <<serviceVars, worldVars, known, hostVars, run_checks, checking, peerVars, history>>

About == {"down", "up"}

-----------------------------------------------------------------------------
(* Asking peers *)

\* check_host_down, check_host_up: one question to every peer of the watcher.
AskPeers(w, about) ==
  questions' = [q \in DOMAIN questions |->
    IF /\ q[1] = about /\ q[2] = w /\ q[3] \in PeersOf[w]
       /\ Total(questions) + Total(answers) + Cardinality(PeersOf[w]) <= MaxAsk
      THEN questions[q] + 1
      ELSE questions[q]]

\* Variant: a peer that never had contact agrees with whatever it is asked.
AgreesUnlessItKnows(p, about) ==
  known[p] /\ last_contact[p] # (IF about = "down" THEN "fresh" ELSE "stale")

\* confirm_host_status_for_peer gives the status the question hopes for.  The
\* other statuses, and errors, have no effect at the asker.
Agrees(p, about) ==
  known[p] /\ last_contact[p] = (IF about = "down" THEN "stale" ELSE "fresh")

\* Counts above the limit are all alike to the code.
Counted(n) == IF n < PEER_CONFIRM_LIMIT THEN n + 1 ELSE n

\* Calls to the pool service made by a handler.
Request(w, kind, condition) == IF condition THEN Put(w, kind) ELSE UNCHANGED calls

\* What may happen to a watcher while the server works, or fails.
MayFail    == ~ host_up \/ (Flaky /\ ~ settled)
MaySucceed == host_up

-----------------------------------------------------------------------------
Init ==
  /\ ServiceInit
  /\ host_up \in BOOLEAN /\ settled = FALSE
  /\ known = [w \in Watcher |-> FALSE]
  /\ in = [w \in Watcher |-> 1]
  /\ last_contact = [w \in Watcher |-> "null"]
  /\ peer_confirms_offline = [w \in Watcher |-> 0]
  /\ peer_confirms_online = [w \in Watcher |-> 0]
  /\ run_checks = [w \in Watcher |-> TRUE]
  /\ checking = [w \in Watcher |-> FALSE]
  /\ questions = [q \in About \X Watcher \X Watcher |-> 0]
  /\ answers = [a \in About \X Watcher |-> 0]
  /\ lost = {} /\ seen = {} /\ started_in = in_pool

\* check_servers when run_checks is true: a network check is started, whether or
\* not earlier ones have ended, so from now on results may arrive at any time.
StartChecks(w) ==
  /\ run_checks[w]
  /\ run_checks' = [run_checks EXCEPT ![w] = FALSE]
  /\ checking' = [checking EXCEPT ![w] = known[w]]
  /\ UNCHANGED <<serviceVars, worldVars, known, hostVars, peerVars, history>>

\* What check_servers calls a server that has timed out.
Silent(w) == known[w] /\ last_contact[w] = "stale" /\ in[w] = 1

\* check_servers when run_checks is false: peers are asked about the silent.
CheckResponses(w) ==
  /\ ~ run_checks[w]
  /\ run_checks' = [run_checks EXCEPT ![w] = TRUE]
  /\ IF Silent(w) THEN AskPeers(w, "down") ELSE UNCHANGED questions
  /\ UNCHANGED <<serviceVars, worldVars, known, hostVars, checking, answers, history>>

\* Variant: peers are asked when contact returns, and not again.
CheckSucceedsAsksOnce(w) ==
  /\ checking[w] /\ MaySucceed
  /\ last_contact' = [last_contact EXCEPT ![w] = "fresh"]
  /\ IF in[w] = 0 /\ last_contact[w] # "fresh" THEN AskPeers(w, "up") ELSE UNCHANGED questions
  /\ peer_confirms_offline' = [peer_confirms_offline EXCEPT ![w] = 0]
  /\ seen' = seen \cup {w}
  /\ UNCHANGED <<serviceVars, worldVars, known, in, peer_confirms_online, run_checks, checking,
                 answers, lost, started_in>>

\* process_results_callback with rtt > 0.
CheckSucceeds(w) ==
  /\ checking[w] /\ MaySucceed
  /\ last_contact' = [last_contact EXCEPT ![w] = "fresh"]
  /\ IF in[w] = 0 THEN AskPeers(w, "up") ELSE UNCHANGED questions
  /\ peer_confirms_offline' = [peer_confirms_offline EXCEPT ![w] = 0]
  /\ seen' = seen \cup {w}
  /\ UNCHANGED <<serviceVars, worldVars, known, in, peer_confirms_online, run_checks, checking,
                 answers, lost, started_in>>

\* Variant: a failed check takes one confirmation back, not all of them.
CheckFailsTakesOne(w) ==
  /\ checking[w] /\ MayFail
  /\ peer_confirms_online' = [peer_confirms_online EXCEPT ![w] = @ - 1]
  /\ UNCHANGED <<serviceVars, worldVars, known, in, last_contact, peer_confirms_offline,
                 run_checks, checking, peerVars, history>>

\* process_results_callback with rtt = 0.
CheckFails(w) ==
  /\ checking[w] /\ MayFail
  /\ peer_confirms_online' = [peer_confirms_online EXCEPT ![w] = 0]
  /\ UNCHANGED <<serviceVars, worldVars, known, in, last_contact, peer_confirms_offline,
                 run_checks, checking, peerVars, history>>

\* More than MAX_NO_RESPONSE_MS since the last contact.
GoStale(w) ==
  /\ last_contact[w] = "fresh"
  /\ MayFail
  /\ last_contact' = [last_contact EXCEPT ![w] = "stale"]
  /\ lost' = lost \cup {w}
  /\ UNCHANGED <<serviceVars, worldVars, known, in, peer_confirms_offline,
                 peer_confirms_online, run_checks, checking, peerVars, seen, started_in>>

\* listener.js: a peer receives a question and answers it at once.
Answer(about, w, p) ==
  /\ questions[<<about, w, p>>] > 0
  /\ questions' = [questions EXCEPT ![<<about, w, p>>] = @ - 1]
  /\ answers' = IF Agrees(p, about) THEN [answers EXCEPT ![<<about, w>>] = @ + 1] ELSE answers
  /\ UNCHANGED <<serviceVars, worldVars, known, hostVars, run_checks, checking, history>>

\* check_host_down_callback with HOST_OFFLINE.
CheckHostDownCallback(w) ==
  /\ answers[<<"down", w>>] > 0
  /\ answers' = [answers EXCEPT ![<<"down", w>>] = @ - 1]
  /\ peer_confirms_offline' = [peer_confirms_offline EXCEPT ![w] =
       IF known[w] /\ in[w] = 1 THEN Counted(@) ELSE @]
  /\ Request(w, "out", known[w] /\ peer_confirms_offline'[w] >= PEER_CONFIRM_LIMIT)
  /\ UNCHANGED <<in_pool, worldVars, known, in, last_contact, peer_confirms_online,
                 run_checks, checking, questions, history>>

\* check_host_up_callback with HOST_ONLINE.
CheckHostUpCallback(w) ==
  /\ answers[<<"up", w>>] > 0
  /\ answers' = [answers EXCEPT ![<<"up", w>>] = @ - 1]
  /\ peer_confirms_online' = [peer_confirms_online EXCEPT ![w] = IF known[w] THEN Counted(@) ELSE @]
  /\ Request(w, "in", known[w] /\ peer_confirms_online'[w] >= PEER_CONFIRM_LIMIT)
  /\ UNCHANGED <<in_pool, worldVars, known, in, last_contact, peer_confirms_offline,
                 run_checks, checking, questions, history>>

\* confirm_pool_out_callback, confirm_pool_in_callback with 'success'.
ConfirmPoolCallback(w, kind) ==
  /\ kind \in {"out", "in"} /\ At(w, kind, "success")
  /\ Take(w, kind, "success")
  /\ IF known[w]
       THEN /\ in' = [in EXCEPT ![w] = IF kind = "in" THEN 1 ELSE 0]
            /\ peer_confirms_offline' = [peer_confirms_offline EXCEPT ![w] = 0]
            /\ peer_confirms_online' = [peer_confirms_online EXCEPT ![w] = 0]
       ELSE UNCHANGED <<in, peer_confirms_offline, peer_confirms_online>>
  /\ UNCHANGED <<in_pool, worldVars, known, last_contact, run_checks, checking,
                 peerVars, history>>

\* The lists a watcher waits for.
Lists(w) == Total([stage \in Stage |-> calls[<<w, "list", stage>>]])

\* update_pool_list: the list is asked for, whether or not earlier ones have come.
UpdatePoolList(w) ==
  /\ ~ known[w] \/ w \in Refetch
  /\ Lists(w) < MaxLists[w]
  /\ Put(w, "list")
  /\ UNCHANGED <<in_pool, worldVars, known, hostVars, run_checks, checking, peerVars, history>>

\* Variant: a list adds servers and changes nothing of those that are known.
UpdatePoolListCallbackKeepsIn(w, stage) ==
  /\ stage \in {"listed_in", "listed_out"} /\ At(w, "list", stage)
  /\ Take(w, "list", stage)
  /\ in' = [in EXCEPT ![w] = IF known[w] THEN @ ELSE IF stage = "listed_in" THEN 1 ELSE 0]
  /\ known' = [known EXCEPT ![w] = TRUE]
  /\ UNCHANGED <<in_pool, worldVars, last_contact, peer_confirms_offline,
                 peer_confirms_online, run_checks, checking, peerVars, history>>

\* update_pool_list_callback: the copy of in_pool is overwritten, the counters
\* are not; a server seen for the first time starts without contact.
UpdatePoolListCallback(w, stage) ==
  /\ stage \in {"listed_in", "listed_out"} /\ At(w, "list", stage)
  /\ Take(w, "list", stage)
  /\ in' = [in EXCEPT ![w] = IF stage = "listed_in" THEN 1 ELSE 0]
  /\ known' = [known EXCEPT ![w] = TRUE]
  /\ UNCHANGED <<in_pool, worldVars, last_contact, peer_confirms_offline,
                 peer_confirms_online, run_checks, checking, peerVars, history>>

\* The watcher process ends and starts again (watcher.js): nothing is kept, and
\* what was on its way to the old process is gone.  Its calls run on.
RestartWith(w, contact) ==
  /\ w \in Restarts
  /\ known' = [known EXCEPT ![w] = FALSE]
  /\ in' = [in EXCEPT ![w] = 1]
  /\ last_contact' = [last_contact EXCEPT ![w] = contact]
  /\ peer_confirms_offline' = [peer_confirms_offline EXCEPT ![w] = 0]
  /\ peer_confirms_online' = [peer_confirms_online EXCEPT ![w] = 0]
  /\ run_checks' = [run_checks EXCEPT ![w] = TRUE]
  /\ checking' = [checking EXCEPT ![w] = FALSE]
  /\ questions' = [q \in DOMAIN questions |-> IF w \in {q[2], q[3]} THEN 0 ELSE questions[q]]
  /\ answers' = [a \in DOMAIN answers |-> IF a[2] = w THEN 0 ELSE answers[a]]
  /\ Abandon(w)
  /\ UNCHANGED <<in_pool, worldVars, history>>

\* Variants: a server begins with a last_contact of 0, or of now.
RestartLongAgo(w) == RestartWith(w, "stale")
RestartJustNow(w) == RestartWith(w, "fresh")

\* A server begins without contact.
Restart(w) == RestartWith(w, "null")

\* The server breaks down or recovers.
HostChanges ==
  /\ ~ settled
  /\ host_up' = ~ host_up
  /\ UNCHANGED <<serviceVars, settled, known, hostVars, run_checks, checking, peerVars, history>>

\* From here on nothing outside the program changes or goes wrong.
Settle ==
  /\ Settles /\ ~ settled
  /\ settled' = TRUE
  /\ UNCHANGED <<serviceVars, host_up, known, hostVars, run_checks, checking, peerVars, history>>

\* A question or an answer is lost, or runs into an error.
LosePeerMessage ==
  /\ ~ settled
  /\ \/ \E q \in DOMAIN questions :
          questions[q] > 0 /\ questions' = [questions EXCEPT ![q] = @ - 1] /\ UNCHANGED answers
     \/ \E a \in DOMAIN answers :
          answers[a] > 0 /\ answers' = [answers EXCEPT ![a] = @ - 1] /\ UNCHANGED questions
  /\ UNCHANGED <<serviceVars, worldVars, known, hostVars, run_checks, checking, history>>

Service(w, kind) ==
  /\ ServiceStep(w, kind)
  /\ UNCHANGED <<worldVars, known, hostVars, run_checks, checking, peerVars, history>>

\* Something goes wrong with a request.
LoseCall ==
  /\ ~ settled
  /\ \E w \in Caller, kind \in Kind :
       IsInPoolFails(w, kind) \/ \E stage \in Stage : Lose(w, kind, stage)
  /\ UNCHANGED <<worldVars, known, hostVars, run_checks, checking, peerVars, history>>

Handler(w) ==
  \/ StartChecks(w) \/ CheckResponses(w) \/ CheckSucceeds(w) \/ CheckFails(w) \/ GoStale(w)
  \/ \E about \in About, p \in Watcher : Answer(about, w, p)
  \/ CheckHostDownCallback(w) \/ CheckHostUpCallback(w)
  \/ \E kind \in Kind : ConfirmPoolCallback(w, kind)
  \/ UpdatePoolList(w) \/ \E stage \in Stage : UpdatePoolListCallback(w, stage)
  \/ Restart(w)

Next ==
  \/ HostChanges \/ Settle \/ LosePeerMessage \/ LoseCall
  \/ \E w \in Watcher : Handler(w)
  \/ \E c \in Caller, kind \in Kind : Service(c, kind)

Spec == Init /\ [][Next]_vars

\* The timers of a watcher fire, its checks end, time passes, and its lists come.
Fairness(w) ==
  /\ WF_vars(StartChecks(w) \/ CheckResponses(w))
  /\ WF_vars(CheckSucceeds(w) \/ CheckFails(w))
  /\ WF_vars(GoStale(w))
  /\ WF_vars(UpdatePoolList(w)) /\ WF_vars(Service(w, "list"))
  /\ WF_vars(\E stage \in Stage : UpdatePoolListCallback(w, stage))

\* What a watcher that has peers sends arrives, unless it is lost.
DeliveryFairness(w) ==
  /\ WF_vars(\E about \in About, p \in Watcher : Answer(about, w, p))
  /\ WF_vars(CheckHostDownCallback(w)) /\ WF_vars(CheckHostUpCallback(w))
  /\ WF_vars(\E kind \in Kind : ConfirmPoolCallback(w, kind))
  /\ WF_vars(Service(w, "out")) /\ WF_vars(Service(w, "in"))

AllFair ==
  /\ \A w \in Watcher : Fairness(w)
  /\ \A w \in {v \in Watcher : PeersOf[v] # {}} : DeliveryFairness(w)

FairSpec == Spec /\ AllFair

-----------------------------------------------------------------------------
(* Properties *)

TypeOK ==
  /\ in_pool \in BOOLEAN /\ calls \in [Call -> Nat]
  /\ host_up \in BOOLEAN /\ settled \in BOOLEAN
  /\ known \in [Watcher -> BOOLEAN] /\ in \in [Watcher -> {0, 1}]
  /\ last_contact \in [Watcher -> {"null", "fresh", "stale"}]
  /\ peer_confirms_offline \in [Watcher -> 0 .. PEER_CONFIRM_LIMIT]
  /\ peer_confirms_online \in [Watcher -> 0 .. PEER_CONFIRM_LIMIT]
  /\ run_checks \in [Watcher -> BOOLEAN] /\ checking \in [Watcher -> BOOLEAN]
  /\ questions \in [About \X Watcher \X Watcher -> Nat]
  /\ answers \in [About \X Watcher -> Nat]
  /\ lost \subseteq Watcher /\ seen \subseteq Watcher /\ started_in \in BOOLEAN

\* Two watchers, one of them asked by the other, are both in the set.
TwoOf(views) == \E w \in views : PeersOf[w] \cap views # {}

\* No watcher takes a server out of its pool on its own view: it was itself out
\* of contact, and so was a peer it asked, whatever is lost, late or restarted
\* in between (scribe.js:52-54, 196-209, 290-292).
RemovalNeedsTwoViews == started_in /\ ~ in_pool => TwoOf(lost)

\* No watcher puts a server back on its own view: it had contact, and so had a
\* peer it asked (scribe.js:76-77, 248-260, 293-295).
RestoreNeedsTwoViews == ~ started_in /\ in_pool => TwoOf(seen)

\* A server that has failed for good is out of its pool for good in the end, once
\* every watcher had contact with it, whatever was lost before and whatever is
\* late (scribe.js:48-65, 110-126, 193-216).
DownIsRemoved ==
  (settled /\ ~ host_up /\ \A w \in Watcher : last_contact[w] # "null") ~> [] ~ in_pool

\* A server that works for good is back in its pool for good in the end
\* (scribe.js:70-82, 245-267).
UpIsRestored == (settled /\ host_up) ~> []in_pool

\* What README.md:9 says of a server that has failed: no watcher needs to have
\* seen it work.  A watcher that started after the failure has a last_contact of
\* null and never asks or confirms (scribe.js:52, 289-299).
EveryDownIsRemoved == (settled /\ ~ host_up) ~> [] ~ in_pool

=============================================================================
