---------------------------- MODULE ScribeProofs ----------------------------
(***************************************************************************)
(* Proofs about Scribe, for every set of watchers, every choice of peers,    *)
(* every PEER_CONFIRM_LIMIT and every bound on what is under way.            *)
(*                                                                         *)
(* The argument.  A change of the pool is the end of a chain: a question, an *)
(* answer, a confirmation counted, a request, an update.  The links are at   *)
(* watchers and under way, and any of them may outlive the state that made   *)
(* it, so none says anything of last_contact as it is now.  What each link   *)
(* carries is what was once true: the asker, and from the answer on a peer   *)
(* of it too, was in that state at some time (IInv, one conjunct per link).  *)
(***************************************************************************)
EXTENDS Scribe, TLAPS

\* The watchers that ever had the view a question is about, the counter of its
\* confirmations and the request they lead to.
View(about)     == IF about = "down" THEN lost ELSE seen
Confirms(about) == IF about = "down" THEN peer_confirms_offline ELSE peer_confirms_online
KindOf(about)   == IF about = "down" THEN "out" ELSE "in"

\* w and one of the peers it asks ever had the view.
Shared(about, w) == w \in View(about) /\ PeersOf[w] \cap View(about) # {}

ContactInv ==
  \A w \in Watcher :
    /\ last_contact[w] = "stale" => w \in View("down")
    /\ last_contact[w] = "fresh" => w \in View("up")

QuestionInv ==
  \A about \in About, w \in Watcher, p \in Watcher :
    questions[<<about, w, p>>] > 0 => w \in View(about) /\ p \in PeersOf[w]

AnswerInv ==
  \A about \in About, w \in Watcher : answers[<<about, w>>] > 0 => Shared(about, w)

ConfirmInv ==
  \A about \in About, w \in Watcher : Confirms(about)[w] > 0 => Shared(about, w)

\* A request of the kind is under way, whoever made it.
UnderWay(kind) == \E c \in Caller, stage \in Stage : calls[<<c, kind, stage>>] > 0

CallInv == \A about \in About : UnderWay(KindOf(about)) => TwoOf(View(about))

PoolInv == RemovalNeedsTwoViews /\ RestoreNeedsTwoViews

IInv == TypeOK /\ ContactInv /\ QuestionInv /\ AnswerInv /\ ConfirmInv /\ CallInv /\ PoolInv

-----------------------------------------------------------------------------
(* Lemmas on the operators *)

\* What was once a view of two watchers stays one.
LEMMA TwoOfGrows ==
  ASSUME NEW A, NEW B, A \subseteq B, TwoOf(A)
  PROVE  TwoOf(B)
  BY DEF TwoOf

\* A shared view is a view of two.
LEMMA SharedIsTwo ==
  ASSUME NEW about, NEW w, Shared(about, w)
  PROVE  TwoOf(View(about))
  BY DEF Shared, TwoOf

\* Counting never passes the limit, and what it gives is positive.
LEMMA CountedType ==
  ASSUME NEW n \in 0 .. PEER_CONFIRM_LIMIT
  PROVE  Counted(n) \in 0 .. PEER_CONFIRM_LIMIT
  BY ScribeAssumption DEF Counted

\* Kinds and stages of calls.
LEMMA CallIndex ==
  ASSUME NEW w \in Caller, NEW kind \in Kind, NEW stage \in Stage
  PROVE  <<w, kind, stage>> \in Call
  BY DEF Call

LEMMA PutType ==
  ASSUME calls \in [Call -> Nat], NEW w \in Caller, NEW kind \in Kind, Put(w, kind)
  PROVE  calls' \in [Call -> Nat]
<1>1. <<w, kind, "sent">> \in Call
  BY CallIndex DEF Stage
<1>2. [calls EXCEPT ![<<w, kind, "sent">>] = @ + 1] \in [Call -> Nat]
  BY <1>1
<1> QED
  BY <1>2 DEF Put

LEMMA TakeType ==
  ASSUME calls \in [Call -> Nat], NEW w \in Caller, NEW kind \in Kind, NEW stage \in Stage,
         At(w, kind, stage), Take(w, kind, stage)
  PROVE  calls' \in [Call -> Nat]
<1>1. <<w, kind, stage>> \in Call
  BY CallIndex
<1>2. calls[<<w, kind, stage>>] - 1 \in Nat
  BY <1>1 DEF At
<1> QED
  BY <1>1, <1>2 DEF Take

LEMMA MoveType ==
  ASSUME calls \in [Call -> Nat], NEW w \in Caller, NEW kind \in Kind, NEW stage \in Stage,
         NEW next \in Stage, next # stage, At(w, kind, stage), Move(w, kind, stage, next)
  PROVE  calls' \in [Call -> Nat]
<1>1. <<w, kind, stage>> \in Call /\ <<w, kind, next>> \in Call
  BY CallIndex
<1>2. calls[<<w, kind, stage>>] - 1 \in Nat
  BY <1>1 DEF At
<1> QED
  BY <1>1, <1>2 DEF Move

LEMMA LooksType ==
  ASSUME calls \in [Call -> Nat], NEW w \in Caller, NEW kind \in Kind, NEW is, Looks(w, kind, is)
  PROVE  calls' \in [Call -> Nat]
<1>1. "sent" \in Stage /\ "checked" \in Stage
  BY DEF Stage
<1>2. At(w, kind, "sent")
  BY DEF Looks
<1>3. Take(w, kind, "sent") \/ Move(w, kind, "sent", "checked")
  BY DEF Looks
<1> QED
  BY <1>1, <1>2, <1>3, TakeType, MoveType

LEMMA AbandonType ==
  ASSUME calls \in [Call -> Nat], NEW w \in Watcher, Abandon(w)
  PROVE  calls' \in [Call -> Nat]
<1>1. ASSUME NEW c \in Call
      PROVE  calls[<<w, c[2], c[3]>>] \in Nat
  <2>1. <<w, c[2], c[3]>> \in Call
    BY DEF Call, Caller
  <2> QED
    BY <2>1
<1>2. \A c \in Call : calls[c] \in Nat /\ calls[c] + calls[<<w, c[2], c[3]>>] \in Nat
  BY <1>1
<1> QED
  BY <1>2 DEF Abandon

\* A request that is made may be the only one of its kind under way.
LEMMA PutUnderWay ==
  ASSUME TypeOK, NEW w \in Caller, NEW kind \in Kind, Put(w, kind),
         NEW k \in Kind, UnderWay(k)', k # kind
  PROVE  UnderWay(k)
<1>1. PICK c \in Caller, stage \in Stage : calls'[<<c, k, stage>>] > 0
  BY DEF UnderWay
<1>2. <<c, k, stage>> \in Call /\ <<c, k, stage>> # <<w, kind, "sent">>
  BY CallIndex
<1>3. calls[<<c, k, stage>>] > 0
  BY <1>1, <1>2 DEF Put, TypeOK
<1> QED
  BY <1>3 DEF UnderWay

\* One that ends, or goes on, was under way before.
LEMMA TakeUnderWay ==
  ASSUME TypeOK, NEW w \in Caller, NEW kind \in Kind, NEW s \in Stage, Take(w, kind, s),
         NEW k \in Kind, UnderWay(k)'
  PROVE  UnderWay(k)
<1>1. PICK c \in Caller, stage \in Stage : calls'[<<c, k, stage>>] > 0
  BY DEF UnderWay
<1>2. <<c, k, stage>> \in Call /\ <<w, kind, s>> \in Call
  BY CallIndex
<1>3. calls[<<c, k, stage>>] \in Nat
  BY <1>2 DEF TypeOK
<1>4. calls'[<<c, k, stage>>] \in {calls[<<c, k, stage>>], calls[<<c, k, stage>>] - 1}
  BY <1>2 DEF Take, TypeOK
<1> QED
  BY <1>1, <1>3, <1>4 DEF UnderWay

LEMMA MoveUnderWay ==
  ASSUME TypeOK, NEW w \in Caller, NEW kind \in Kind, NEW s \in Stage, NEW next \in Stage,
         At(w, kind, s), Move(w, kind, s, next), NEW k \in Kind, UnderWay(k)'
  PROVE  UnderWay(k)
<1>1. PICK c \in Caller, stage \in Stage : calls'[<<c, k, stage>>] > 0
  BY DEF UnderWay
<1>2. <<c, k, stage>> \in Call /\ <<w, kind, s>> \in Call /\ <<w, kind, next>> \in Call
  BY CallIndex
<1>3. CASE k = kind
  BY <1>3 DEF UnderWay, At
<1>4. CASE k # kind
  <2>1. calls[<<c, k, stage>>] > 0
    BY <1>1, <1>2, <1>4 DEF Move, TypeOK
  <2> QED
    BY <2>1 DEF UnderWay
<1> QED
  BY <1>3, <1>4

LEMMA LooksUnderWay ==
  ASSUME TypeOK, NEW w \in Caller, NEW kind \in Kind, NEW is, Looks(w, kind, is),
         NEW k \in Kind, UnderWay(k)'
  PROVE  UnderWay(k)
<1>1. "sent" \in Stage /\ "checked" \in Stage
  BY DEF Stage
<1>2. At(w, kind, "sent")
  BY DEF Looks
<1>3. Take(w, kind, "sent") \/ Move(w, kind, "sent", "checked")
  BY DEF Looks
<1> QED
  BY <1>1, <1>2, <1>3, TakeUnderWay, MoveUnderWay

\* What a restart leaves behind was under way before.
LEMMA AbandonUnderWay ==
  ASSUME TypeOK, NEW w \in Watcher, Abandon(w), NEW k \in Kind, UnderWay(k)'
  PROVE  UnderWay(k)
<1>1. PICK c \in Caller, stage \in Stage : calls'[<<c, k, stage>>] > 0
  BY DEF UnderWay
<1>2. <<c, k, stage>> \in Call /\ <<w, k, stage>> \in Call
  BY CallIndex DEF Caller
<1>3. calls'[<<c, k, stage>>] \in {0, calls[<<c, k, stage>>], calls[<<c, k, stage>>] + calls[<<w, k, stage>>]}
  BY <1>2 DEF Abandon
<1>4. calls[<<c, k, stage>>] > 0 \/ calls[<<w, k, stage>>] > 0
  BY <1>1, <1>2, <1>3 DEF TypeOK
<1> QED
  BY <1>4 DEF UnderWay, Caller

-----------------------------------------------------------------------------
(* Type correctness *)

LEMMA TypeInit ==
  ASSUME Init
  PROVE  TypeOK
<1>1. 1 \in {0, 1} /\ 0 \in 0 .. PEER_CONFIRM_LIMIT
  BY ScribeAssumption
<1> QED
  BY <1>1 DEF Init, ServiceInit, TypeOK

\* Questions and answers keep their types.
LEMMA AskType ==
  ASSUME TypeOK, NEW w \in Watcher, NEW about \in About, AskPeers(w, about)
  PROVE  questions' \in [About \X Watcher \X Watcher -> Nat]
<1>1. \A q \in About \X Watcher \X Watcher : questions[q] \in Nat /\ questions[q] + 1 \in Nat
  BY DEF TypeOK
<1>2. DOMAIN questions = About \X Watcher \X Watcher
  BY DEF TypeOK
<1> QED
  BY <1>1, <1>2 DEF AskPeers

LEMMA AnswerType ==
  ASSUME TypeOK, NEW w \in Watcher, NEW p \in Watcher, NEW about \in About, Answer(about, w, p)
  PROVE  /\ questions' \in [About \X Watcher \X Watcher -> Nat]
         /\ answers' \in [About \X Watcher -> Nat]
<1>1. questions[<<about, w, p>>] - 1 \in Nat
  BY DEF Answer, TypeOK
<1>2. answers[<<about, w>>] + 1 \in Nat
  BY DEF TypeOK
<1>3. questions' \in [About \X Watcher \X Watcher -> Nat]
  BY <1>1 DEF Answer, TypeOK
<1>4. answers' \in [About \X Watcher -> Nat]
  BY <1>2 DEF Answer, TypeOK
<1> QED
  BY <1>3, <1>4

\* An answer that is taken leaves the others.
LEMMA TakeAnswer ==
  ASSUME TypeOK, NEW w \in Watcher, NEW about \in About, answers[<<about, w>>] > 0,
         answers' = [answers EXCEPT ![<<about, w>>] = @ - 1]
  PROVE  /\ answers' \in [About \X Watcher -> Nat]
         /\ \A a \in About, v \in Watcher : answers'[<<a, v>>] > 0 => answers[<<a, v>>] > 0
<1>1. answers[<<about, w>>] - 1 \in Nat
  BY DEF TypeOK
<1>2. answers' \in [About \X Watcher -> Nat]
  BY <1>1 DEF TypeOK
<1>3. ASSUME NEW a \in About, NEW v \in Watcher, answers'[<<a, v>>] > 0
      PROVE  answers[<<a, v>>] > 0
  BY <1>3 DEF TypeOK
<1> QED
  BY <1>2, <1>3

LEMMA TypeStep ==
  ASSUME TypeOK, [Next]_vars
  PROVE  TypeOK'
<1> USE DEF worldVars, hostVars, peerVars, history, serviceVars
<1>1. ASSUME NEW w \in Watcher, StartChecks(w)
      PROVE  TypeOK'
  BY <1>1 DEF StartChecks, TypeOK
<1>2. ASSUME NEW w \in Watcher, CheckResponses(w)
      PROVE  TypeOK'
  <2>1. questions' \in [About \X Watcher \X Watcher -> Nat]
    BY <1>2, AskType DEF CheckResponses, TypeOK, About
  <2> QED
    BY <1>2, <2>1 DEF CheckResponses, TypeOK
<1>3. ASSUME NEW w \in Watcher, CheckSucceeds(w)
      PROVE  TypeOK'
  <2>1. questions' \in [About \X Watcher \X Watcher -> Nat]
    BY <1>3, AskType DEF CheckSucceeds, TypeOK, About
  <2>2. 0 \in 0 .. PEER_CONFIRM_LIMIT
    BY ScribeAssumption
  <2> QED
    BY <1>3, <2>1, <2>2 DEF CheckSucceeds, TypeOK
<1>4. ASSUME NEW w \in Watcher, CheckFails(w)
      PROVE  TypeOK'
  <2>1. 0 \in 0 .. PEER_CONFIRM_LIMIT
    BY ScribeAssumption
  <2> QED
    BY <1>4, <2>1 DEF CheckFails, TypeOK
<1>5. ASSUME NEW w \in Watcher, GoStale(w)
      PROVE  TypeOK'
  BY <1>5 DEF GoStale, TypeOK
<1>6. ASSUME NEW w \in Watcher, NEW about \in About, NEW p \in Watcher, Answer(about, w, p)
      PROVE  TypeOK'
  BY <1>6, AnswerType DEF Answer, TypeOK
<1>7. ASSUME NEW w \in Watcher, CheckHostDownCallback(w)
      PROVE  TypeOK'
  <2>1. calls' \in [Call -> Nat]
    BY <1>7, PutType DEF CheckHostDownCallback, Request, TypeOK, Kind, Caller
  <2>2. answers' \in [About \X Watcher -> Nat]
    BY <1>7, TakeAnswer DEF CheckHostDownCallback, About
  <2>3. peer_confirms_offline' \in [Watcher -> 0 .. PEER_CONFIRM_LIMIT]
    BY <1>7, CountedType DEF CheckHostDownCallback, TypeOK
  <2> QED
    BY <1>7, <2>1, <2>2, <2>3 DEF CheckHostDownCallback, TypeOK
<1>8. ASSUME NEW w \in Watcher, CheckHostUpCallback(w)
      PROVE  TypeOK'
  <2>1. calls' \in [Call -> Nat]
    BY <1>8, PutType DEF CheckHostUpCallback, Request, TypeOK, Kind, Caller
  <2>2. answers' \in [About \X Watcher -> Nat]
    BY <1>8, TakeAnswer DEF CheckHostUpCallback, About
  <2>3. peer_confirms_online' \in [Watcher -> 0 .. PEER_CONFIRM_LIMIT]
    BY <1>8, CountedType DEF CheckHostUpCallback, TypeOK
  <2> QED
    BY <1>8, <2>1, <2>2, <2>3 DEF CheckHostUpCallback, TypeOK
<1>9. ASSUME NEW w \in Watcher, NEW kind \in Kind, ConfirmPoolCallback(w, kind)
      PROVE  TypeOK'
  <2>1. calls' \in [Call -> Nat]
    BY <1>9, TakeType DEF ConfirmPoolCallback, TypeOK, Caller, Stage
  <2>2. 0 \in 0 .. PEER_CONFIRM_LIMIT
    BY ScribeAssumption
  <2> QED
    BY <1>9, <2>1, <2>2 DEF ConfirmPoolCallback, TypeOK
<1>10. ASSUME NEW w \in Watcher, UpdatePoolList(w)
       PROVE  TypeOK'
  <2>1. calls' \in [Call -> Nat]
    BY <1>10, PutType DEF UpdatePoolList, TypeOK, Kind, Caller
  <2> QED
    BY <1>10, <2>1 DEF UpdatePoolList, TypeOK
<1>11. ASSUME NEW w \in Watcher, NEW stage \in Stage, UpdatePoolListCallback(w, stage)
       PROVE  TypeOK'
  <2>1. calls' \in [Call -> Nat]
    BY <1>11, TakeType DEF UpdatePoolListCallback, TypeOK, Kind, Caller
  <2> QED
    BY <1>11, <2>1 DEF UpdatePoolListCallback, TypeOK
<1>12. ASSUME NEW w \in Watcher, Restart(w)
       PROVE  TypeOK'
  <2>1. calls' \in [Call -> Nat]
    BY <1>12, AbandonType DEF Restart, RestartWith, TypeOK
  <2>2. 0 \in 0 .. PEER_CONFIRM_LIMIT
    BY ScribeAssumption
  <2>3. /\ questions' \in [About \X Watcher \X Watcher -> Nat]
        /\ answers' \in [About \X Watcher -> Nat]
    BY <1>12 DEF Restart, RestartWith, TypeOK
  <2> QED
    BY <1>12, <2>1, <2>2, <2>3 DEF Restart, RestartWith, TypeOK
<1>13. ASSUME HostChanges \/ Settle
       PROVE  TypeOK'
  BY <1>13 DEF HostChanges, Settle, TypeOK
<1>14. ASSUME LosePeerMessage
       PROVE  TypeOK'
  <2>1. /\ questions' \in [About \X Watcher \X Watcher -> Nat]
        /\ answers' \in [About \X Watcher -> Nat]
    BY <1>14 DEF LosePeerMessage, TypeOK
  <2> QED
    BY <1>14, <2>1 DEF LosePeerMessage, TypeOK
<1>15. ASSUME LoseCall
       PROVE  TypeOK'
  <2>1. PICK w \in Caller, kind \in Kind :
          IsInPoolFails(w, kind) \/ \E stage \in Stage : Lose(w, kind, stage)
    BY <1>15 DEF LoseCall
  <2>2. calls' \in [Call -> Nat] /\ UNCHANGED in_pool
    BY <2>1, TakeType, LooksType DEF IsInPoolFails, Looks, Lose, TypeOK
  <2> QED
    BY <1>15, <2>2 DEF LoseCall, TypeOK
<1>16. ASSUME NEW c \in Caller, NEW kind \in Kind, Service(c, kind)
       PROVE  TypeOK'
  <2>1. CASE Check(c, kind)
    <3>1. calls' \in [Call -> Nat]
      BY <2>1, LooksType DEF Check, TypeOK
    <3> QED
      BY <1>16, <2>1, <3>1 DEF Service, Check, Looks, TypeOK
  <2>2. CASE Update(c, kind)
    <3>1. calls' \in [Call -> Nat]
      BY <2>2, MoveType DEF Update, TypeOK, Stage
    <3>2. in_pool' \in BOOLEAN
      BY <2>2 DEF Update, Wanted
    <3> QED
      BY <1>16, <3>1, <3>2 DEF Service, TypeOK
  <2>3. CASE List(c)
    <3>1. calls' \in [Call -> Nat]
      BY <2>3, MoveType DEF List, TypeOK, Stage, Kind
    <3> QED
      BY <1>16, <2>3, <3>1 DEF Service, List, TypeOK
  <2> QED
    BY <1>16, <2>1, <2>2, <2>3 DEF Service, ServiceStep
<1>17. CASE UNCHANGED vars
  BY <1>17 DEF vars, TypeOK
<1> QED
  BY <1>1, <1>2, <1>3, <1>4, <1>5, <1>6, <1>7, <1>8, <1>9, <1>10, <1>11, <1>12, <1>13, <1>14,
     <1>15, <1>16, <1>17 DEF Next, Handler

-----------------------------------------------------------------------------
(* What a step that leaves a link alone keeps.  Views only grow. *)

Grows == lost \subseteq lost' /\ seen \subseteq seen'

LEMMA ViewGrows ==
  ASSUME Grows, NEW about
  PROVE  View(about) \subseteq View(about)'
  BY DEF Grows, View

LEMMA SharedGrows ==
  ASSUME Grows, NEW about, NEW w, Shared(about, w)
  PROVE  Shared(about, w)'
  BY ViewGrows DEF Shared

LEMMA TwoGrows ==
  ASSUME Grows, NEW about, TwoOf(View(about))
  PROVE  TwoOf(View(about))'
<1>1. TwoOf(View(about)')
  BY ViewGrows, TwoOfGrows
<1> QED
  BY <1>1 DEF TwoOf

LEMMA KeepContact ==
  ASSUME ContactInv, Grows, UNCHANGED last_contact
  PROVE  ContactInv'
  BY ViewGrows DEF ContactInv

LEMMA KeepQuestions ==
  ASSUME QuestionInv, Grows,
         \A about \in About, w \in Watcher, p \in Watcher :
           questions'[<<about, w, p>>] > 0 => questions[<<about, w, p>>] > 0
  PROVE  QuestionInv'
  BY ViewGrows DEF QuestionInv

LEMMA KeepAnswers ==
  ASSUME AnswerInv, Grows,
         \A about \in About, w \in Watcher : answers'[<<about, w>>] > 0 => answers[<<about, w>>] > 0
  PROVE  AnswerInv'
  BY SharedGrows DEF AnswerInv

LEMMA KeepConfirms ==
  ASSUME ConfirmInv, Grows,
         \A about \in About, w \in Watcher : Confirms(about)'[w] > 0 => Confirms(about)[w] > 0
  PROVE  ConfirmInv'
  BY SharedGrows DEF ConfirmInv

LEMMA KeepCalls ==
  ASSUME CallInv, Grows,
         \A about \in About : UnderWay(KindOf(about))' => UnderWay(KindOf(about))
  PROVE  CallInv'
  BY TwoGrows DEF CallInv, KindOf

LEMMA KeepPool ==
  ASSUME PoolInv, Grows, UNCHANGED <<in_pool, started_in>>
  PROVE  PoolInv'
<1>1. (TwoOf(lost) => TwoOf(lost)') /\ (TwoOf(seen) => TwoOf(seen)')
  BY DEF Grows, TwoOf
<1> QED
  BY <1>1 DEF PoolInv, RemovalNeedsTwoViews, RestoreNeedsTwoViews

-----------------------------------------------------------------------------
(* The links of the chain *)

\* A watcher asks when it has the view.
LEMMA AskPeersSafe ==
  ASSUME TypeOK, QuestionInv, Grows, NEW w \in Watcher, NEW about \in About,
         AskPeers(w, about), w \in View(about)'
  PROVE  QuestionInv'
<1>1. ASSUME NEW a \in About, NEW v \in Watcher, NEW p \in Watcher, questions'[<<a, v, p>>] > 0
      PROVE  questions[<<a, v, p>>] > 0 \/ (a = about /\ v = w /\ p \in PeersOf[w])
  <2>1. <<a, v, p>> \in DOMAIN questions
    BY DEF TypeOK
  <2> QED
    BY <1>1, <2>1 DEF AskPeers
<1> QED
  BY <1>1, ViewGrows DEF QuestionInv

\* A peer agrees when it has the view.
LEMMA AnswerSafe ==
  ASSUME TypeOK, ContactInv, QuestionInv, AnswerInv, UNCHANGED history,
         NEW w \in Watcher, NEW p \in Watcher, NEW about \in About, Answer(about, w, p)
  PROVE  QuestionInv' /\ AnswerInv'
<1>1. Grows
  BY DEF Grows, history
<1>2. ASSUME NEW a \in About, NEW v \in Watcher, NEW q \in Watcher, questions'[<<a, v, q>>] > 0
      PROVE  questions[<<a, v, q>>] > 0
  BY <1>2 DEF Answer, TypeOK
<1>3. Agrees(p, about) => Shared(about, w)
  <2>1. questions[<<about, w, p>>] > 0
    BY DEF Answer
  <2>2. w \in View(about) /\ p \in PeersOf[w]
    BY <2>1 DEF QuestionInv
  <2>3. Agrees(p, about) => p \in View(about)
    BY DEF Agrees, ContactInv, View, About
  <2> QED
    BY <2>2, <2>3 DEF Shared
<1>4. ASSUME NEW a \in About, NEW v \in Watcher, answers'[<<a, v>>] > 0
      PROVE  answers[<<a, v>>] > 0 \/ Shared(a, v)
  <2>1. CASE a = about /\ v = w /\ Agrees(p, about)
    BY <2>1, <1>3
  <2>2. CASE ~ (a = about /\ v = w /\ Agrees(p, about))
    BY <1>4, <2>2 DEF Answer, TypeOK
  <2> QED
    BY <2>1, <2>2
<1> QED
  BY <1>1, <1>2, <1>4, KeepQuestions, SharedGrows DEF AnswerInv

\* A request for what a watcher has confirmed.
LEMMA RequestSafe ==
  ASSUME TypeOK, CallInv, Grows, NEW w \in Watcher, NEW about \in About, NEW condition,
         Request(w, KindOf(about), condition), condition => Shared(about, w)
  PROVE  CallInv'
<1> USE DEF KindOf, About
<1>1. CASE ~ condition
  <2>1. UNCHANGED calls
    BY <1>1 DEF Request
  <2> QED
    BY <2>1, KeepCalls DEF UnderWay
<1>2. CASE condition
  <2>1. Put(w, KindOf(about))
    BY <1>2 DEF Request
  <2>2. ASSUME NEW a \in About, UnderWay(KindOf(a))', a # about
        PROVE  UnderWay(KindOf(a))
    BY <2>1, <2>2, PutUnderWay DEF Kind, Caller
  <2>3. TwoOf(View(about))'
    BY <1>2, SharedIsTwo, TwoGrows
  <2>4. ASSUME NEW a \in About, UnderWay(KindOf(a))'
        PROVE  TwoOf(View(a))'
    BY ONLY <2>2, <2>3, <2>4, TwoGrows, CallInv, Grows, a \in About, about \in About DEF CallInv
  <2> QED
    BY <2>4 DEF CallInv
<1> QED
  BY <1>1, <1>2

\* An update ends the chain.
LEMMA UpdateSafe ==
  ASSUME TypeOK, CallInv, PoolInv, UNCHANGED history, NEW c \in Caller, NEW kind \in Kind,
         Update(c, kind)
  PROVE  PoolInv'
<1>1. UnderWay(kind)
  BY DEF Update, At, UnderWay, Stage
<1>2. kind = "out" => TwoOf(lost)
  BY <1>1 DEF CallInv, About, KindOf, View
<1>3. kind = "in" => TwoOf(seen)
  BY <1>1 DEF CallInv, About, KindOf, View
<1>4. (kind = "out" /\ ~ in_pool') \/ (kind = "in" /\ in_pool')
  BY DEF Update, Wanted
<1>5. (TwoOf(lost) => TwoOf(lost)') /\ (TwoOf(seen) => TwoOf(seen)')
  BY DEF history, TwoOf
<1> QED
  BY <1>2, <1>3, <1>4, <1>5 DEF PoolInv, RemovalNeedsTwoViews, RestoreNeedsTwoViews

LEMMA SafeInit ==
  ASSUME Init
  PROVE  IInv
<1>1. ContactInv
  BY DEF Init, ContactInv
<1>2. QuestionInv /\ AnswerInv
  BY DEF Init, QuestionInv, AnswerInv
<1>3. ConfirmInv
  BY DEF Init, ConfirmInv, Confirms
<1>4. CallInv
  <2>1. \A c \in Caller, kind \in Kind, stage \in Stage : calls[<<c, kind, stage>>] = 0
    BY CallIndex DEF Init, ServiceInit
  <2> QED
    BY <2>1 DEF CallInv, UnderWay, KindOf, Kind
<1>5. PoolInv
  BY DEF Init, PoolInv, RemovalNeedsTwoViews, RestoreNeedsTwoViews
<1> QED
  BY <1>1, <1>2, <1>3, <1>4, <1>5, TypeInit DEF IInv

\* No step breaks the chain.
LEMMA SafeStep ==
  ASSUME IInv, [Next]_vars
  PROVE  IInv'
<1> USE DEF IInv, worldVars, hostVars, peerVars, history, serviceVars
<1> DEFINE Chain == ContactInv /\ QuestionInv /\ AnswerInv /\ ConfirmInv /\ CallInv /\ PoolInv
<1>0. TypeOK'
  BY TypeStep
<1>1. ASSUME NEW w \in Watcher, StartChecks(w)
      PROVE  Chain'
  <2>1. Grows /\ UNCHANGED <<last_contact, questions, answers, calls, in_pool, started_in>>
    BY <1>1 DEF StartChecks, Grows
  <2>2. UNCHANGED <<peer_confirms_offline, peer_confirms_online>>
    BY <1>1 DEF StartChecks
  <2> QED
    BY <2>1, <2>2, KeepContact, KeepQuestions, KeepAnswers, KeepConfirms, KeepCalls, KeepPool
       DEF Confirms, UnderWay
<1>2. ASSUME NEW w \in Watcher, CheckResponses(w)
      PROVE  Chain'
  <2>1. Grows /\ UNCHANGED <<last_contact, answers, calls, in_pool, started_in>>
    BY <1>2 DEF CheckResponses, Grows
  <2>2. UNCHANGED <<peer_confirms_offline, peer_confirms_online>>
    BY <1>2 DEF CheckResponses
  <2>3. QuestionInv'
    <3>1. CASE Silent(w)
      <4>1. w \in View("down")
        BY <3>1 DEF Silent, ContactInv
      <4>2. w \in View("down")'
        BY <4>1, <2>1, ViewGrows
      <4> QED
        BY <1>2, <3>1, <4>2, <2>1, AskPeersSafe DEF CheckResponses, About
    <3>2. CASE ~ Silent(w)
      BY <1>2, <3>2, <2>1, KeepQuestions DEF CheckResponses
    <3> QED
      BY <3>1, <3>2
  <2> QED
    BY <2>1, <2>2, <2>3, KeepContact, KeepAnswers, KeepConfirms, KeepCalls, KeepPool
       DEF Confirms, UnderWay
<1>3. ASSUME NEW w \in Watcher, CheckSucceeds(w)
      PROVE  Chain'
  <2>1. Grows /\ UNCHANGED <<answers, calls, in_pool, started_in>>
    BY <1>3 DEF CheckSucceeds, Grows
  <2>2. w \in View("up")'
    BY <1>3 DEF CheckSucceeds, View
  <2>3. ContactInv'
    BY <1>3, <2>1, <2>2, ViewGrows DEF CheckSucceeds, ContactInv, TypeOK
  <2>4. QuestionInv'
    <3>1. CASE in[w] = 0
      BY <1>3, <3>1, <2>1, <2>2, AskPeersSafe DEF CheckSucceeds, About
    <3>2. CASE in[w] # 0
      BY <1>3, <3>2, <2>1, KeepQuestions DEF CheckSucceeds
    <3> QED
      BY <3>1, <3>2
  <2>5. ConfirmInv'
    BY <1>3, <2>1, KeepConfirms DEF CheckSucceeds, Confirms, TypeOK
  <2> QED
    BY <2>1, <2>3, <2>4, <2>5, KeepAnswers, KeepCalls, KeepPool DEF UnderWay
<1>4. ASSUME NEW w \in Watcher, CheckFails(w)
      PROVE  Chain'
  <2>1. Grows /\ UNCHANGED <<last_contact, questions, answers, calls, in_pool, started_in>>
    BY <1>4 DEF CheckFails, Grows
  <2>2. ConfirmInv'
    BY <1>4, <2>1, KeepConfirms DEF CheckFails, Confirms, TypeOK
  <2> QED
    BY <2>1, <2>2, KeepContact, KeepQuestions, KeepAnswers, KeepCalls, KeepPool DEF UnderWay
<1>5. ASSUME NEW w \in Watcher, GoStale(w)
      PROVE  Chain'
  <2>1. Grows /\ UNCHANGED <<questions, answers, calls, in_pool, started_in>>
    BY <1>5 DEF GoStale, Grows
  <2>2. UNCHANGED <<peer_confirms_offline, peer_confirms_online>>
    BY <1>5 DEF GoStale
  <2>3. w \in View("down")'
    BY <1>5 DEF GoStale, View
  <2>4. ContactInv'
    BY <1>5, <2>1, <2>3, ViewGrows DEF GoStale, ContactInv, TypeOK
  <2> QED
    BY <2>1, <2>2, <2>4, KeepQuestions, KeepAnswers, KeepConfirms, KeepCalls, KeepPool
       DEF Confirms, UnderWay
<1>6. ASSUME NEW w \in Watcher, NEW about \in About, NEW p \in Watcher, Answer(about, w, p)
      PROVE  Chain'
  <2>1. Grows /\ UNCHANGED <<last_contact, calls, in_pool, started_in>>
    BY <1>6 DEF Answer, Grows
  <2>2. UNCHANGED <<peer_confirms_offline, peer_confirms_online>>
    BY <1>6 DEF Answer
  <2>3. QuestionInv' /\ AnswerInv'
    BY <1>6, AnswerSafe DEF Answer
  <2> QED
    BY <2>1, <2>2, <2>3, KeepContact, KeepConfirms, KeepCalls, KeepPool DEF Confirms, UnderWay
<1>7. ASSUME NEW w \in Watcher, CheckHostDownCallback(w)
      PROVE  Chain'
  <2>1. Grows /\ UNCHANGED <<last_contact, questions, in_pool, started_in, peer_confirms_online>>
    BY <1>7 DEF CheckHostDownCallback, Grows
  <2>2. Shared("down", w)
    BY <1>7 DEF CheckHostDownCallback, AnswerInv, About
  <2>3. AnswerInv'
    BY <1>7, <2>1, TakeAnswer, KeepAnswers DEF CheckHostDownCallback, About
  <2>4. ConfirmInv'
    <3>1. ASSUME NEW v \in Watcher, v # w
          PROVE  peer_confirms_offline'[v] = peer_confirms_offline[v]
      BY <1>7, <3>1 DEF CheckHostDownCallback, TypeOK
    <3> QED
      BY <2>1, <2>2, <3>1, SharedGrows DEF ConfirmInv, Confirms, About
  <2>5. CallInv'
    <3> DEFINE enough == known[w] /\ peer_confirms_offline'[w] >= PEER_CONFIRM_LIMIT
    <3>1. Request(w, KindOf("down"), enough)
      BY <1>7 DEF CheckHostDownCallback, KindOf
    <3> QED
      BY ONLY IInv, <2>1, <2>2, <3>1, RequestSafe, w \in Watcher DEF IInv, About
  <2> QED
    BY <2>1, <2>3, <2>4, <2>5, KeepContact, KeepQuestions, KeepPool
<1>8. ASSUME NEW w \in Watcher, CheckHostUpCallback(w)
      PROVE  Chain'
  <2>1. Grows /\ UNCHANGED <<last_contact, questions, in_pool, started_in, peer_confirms_offline>>
    BY <1>8 DEF CheckHostUpCallback, Grows
  <2>2. Shared("up", w)
    BY <1>8 DEF CheckHostUpCallback, AnswerInv, About
  <2>3. AnswerInv'
    BY <1>8, <2>1, TakeAnswer, KeepAnswers DEF CheckHostUpCallback, About
  <2>4. ConfirmInv'
    <3>1. ASSUME NEW v \in Watcher, v # w
          PROVE  peer_confirms_online'[v] = peer_confirms_online[v]
      BY <1>8, <3>1 DEF CheckHostUpCallback, TypeOK
    <3> QED
      BY <2>1, <2>2, <3>1, SharedGrows DEF ConfirmInv, Confirms, About
  <2>5. CallInv'
    <3> DEFINE enough == known[w] /\ peer_confirms_online'[w] >= PEER_CONFIRM_LIMIT
    <3>1. Request(w, KindOf("up"), enough)
      BY <1>8 DEF CheckHostUpCallback, KindOf
    <3> QED
      BY ONLY IInv, <2>1, <2>2, <3>1, RequestSafe, w \in Watcher DEF IInv, About
  <2> QED
    BY <2>1, <2>3, <2>4, <2>5, KeepContact, KeepQuestions, KeepPool
<1>9. ASSUME NEW w \in Watcher, NEW kind \in Kind, ConfirmPoolCallback(w, kind)
      PROVE  Chain'
  <2>1. Grows /\ UNCHANGED <<last_contact, questions, answers, in_pool, started_in>>
    BY <1>9 DEF ConfirmPoolCallback, Grows
  <2>2. ConfirmInv'
    BY <1>9, <2>1, KeepConfirms DEF ConfirmPoolCallback, Confirms, TypeOK
  <2>3. CallInv'
    BY <1>9, <2>1, TakeUnderWay, KeepCalls DEF ConfirmPoolCallback, KindOf, Kind, Stage, Caller
  <2> QED
    BY <2>1, <2>2, <2>3, KeepContact, KeepQuestions, KeepAnswers, KeepPool
<1>10. ASSUME NEW w \in Watcher, UpdatePoolList(w)
       PROVE  Chain'
  <2>1. Grows /\ UNCHANGED <<last_contact, questions, answers, in_pool, started_in>>
    BY <1>10 DEF UpdatePoolList, Grows
  <2>2. UNCHANGED <<peer_confirms_offline, peer_confirms_online>>
    BY <1>10 DEF UpdatePoolList
  <2>3. CallInv'
    BY <1>10, <2>1, PutUnderWay, KeepCalls DEF UpdatePoolList, KindOf, Kind, Caller
  <2> QED
    BY <2>1, <2>2, <2>3, KeepContact, KeepQuestions, KeepAnswers, KeepConfirms, KeepPool DEF Confirms
<1>11. ASSUME NEW w \in Watcher, NEW stage \in Stage, UpdatePoolListCallback(w, stage)
       PROVE  Chain'
  <2>1. Grows /\ UNCHANGED <<last_contact, questions, answers, in_pool, started_in>>
    BY <1>11 DEF UpdatePoolListCallback, Grows
  <2>2. UNCHANGED <<peer_confirms_offline, peer_confirms_online>>
    BY <1>11 DEF UpdatePoolListCallback
  <2>3. CallInv'
    BY <1>11, <2>1, TakeUnderWay, KeepCalls DEF UpdatePoolListCallback, KindOf, Kind, Caller
  <2> QED
    BY <2>1, <2>2, <2>3, KeepContact, KeepQuestions, KeepAnswers, KeepConfirms, KeepPool DEF Confirms
<1>12. ASSUME NEW w \in Watcher, Restart(w)
       PROVE  Chain'
  <2>1. Grows /\ UNCHANGED <<in_pool, started_in>>
    BY <1>12 DEF Restart, RestartWith, Grows
  <2>2. ContactInv'
    BY <1>12, <2>1, ViewGrows DEF Restart, RestartWith, ContactInv, TypeOK
  <2>3. QuestionInv' /\ AnswerInv'
    <3>1. \A about \in About, v \in Watcher, p \in Watcher :
            questions'[<<about, v, p>>] \in {0, questions[<<about, v, p>>]}
      BY <1>12 DEF Restart, RestartWith, TypeOK
    <3>2. \A about \in About, v \in Watcher : answers'[<<about, v>>] \in {0, answers[<<about, v>>]}
      BY <1>12 DEF Restart, RestartWith, TypeOK
    <3> QED
      BY <2>1, <3>1, <3>2, KeepQuestions, KeepAnswers
  <2>4. ConfirmInv'
    BY <1>12, <2>1, KeepConfirms DEF Restart, RestartWith, Confirms, TypeOK
  <2>5. CallInv'
    BY <1>12, <2>1, AbandonUnderWay, KeepCalls DEF Restart, RestartWith, KindOf, Kind
  <2> QED
    BY <2>1, <2>2, <2>3, <2>4, <2>5, KeepPool
<1>13. ASSUME HostChanges \/ Settle
       PROVE  Chain'
  <2>1. Grows /\ UNCHANGED <<last_contact, questions, answers, calls, in_pool, started_in>>
    BY <1>13 DEF HostChanges, Settle, Grows
  <2>2. UNCHANGED <<peer_confirms_offline, peer_confirms_online>>
    BY <1>13 DEF HostChanges, Settle
  <2> QED
    BY <2>1, <2>2, KeepContact, KeepQuestions, KeepAnswers, KeepConfirms, KeepCalls, KeepPool
       DEF Confirms, UnderWay
<1>14. ASSUME LosePeerMessage
       PROVE  Chain'
  <2>1. Grows /\ UNCHANGED <<last_contact, calls, in_pool, started_in>>
    BY <1>14 DEF LosePeerMessage, Grows
  <2>2. UNCHANGED <<peer_confirms_offline, peer_confirms_online>>
    BY <1>14 DEF LosePeerMessage
  <2>3. /\ \A about \in About, v \in Watcher, p \in Watcher :
             questions'[<<about, v, p>>] > 0 => questions[<<about, v, p>>] > 0
        /\ \A about \in About, v \in Watcher : answers'[<<about, v>>] > 0 => answers[<<about, v>>] > 0
    BY <1>14 DEF LosePeerMessage, TypeOK
  <2> QED
    BY <2>1, <2>2, <2>3, KeepContact, KeepQuestions, KeepAnswers, KeepConfirms, KeepCalls, KeepPool
       DEF Confirms, UnderWay
<1>15. ASSUME LoseCall
       PROVE  Chain'
  <2>1. PICK w \in Caller, kind \in Kind :
          IsInPoolFails(w, kind) \/ \E stage \in Stage : Lose(w, kind, stage)
    BY <1>15 DEF LoseCall
  <2>2. Grows /\ UNCHANGED <<last_contact, questions, answers, in_pool, started_in>>
    BY <1>15, <2>1 DEF LoseCall, IsInPoolFails, Looks, Lose, Grows
  <2>3. UNCHANGED <<peer_confirms_offline, peer_confirms_online>>
    BY <1>15 DEF LoseCall
  <2>4. CallInv'
    BY <2>1, <2>2, TakeUnderWay, LooksUnderWay, KeepCalls DEF IsInPoolFails, Lose, KindOf, Kind
  <2> QED
    BY <2>2, <2>3, <2>4, KeepContact, KeepQuestions, KeepAnswers, KeepConfirms, KeepPool DEF Confirms
<1>16. ASSUME NEW c \in Caller, NEW kind \in Kind, Service(c, kind)
       PROVE  Chain'
  <2>1. Grows /\ UNCHANGED <<last_contact, questions, answers, started_in>>
    BY <1>16 DEF Service, Grows
  <2>2. UNCHANGED <<peer_confirms_offline, peer_confirms_online>>
    BY <1>16 DEF Service
  <2>3. CASE Check(c, kind)
    <3>1. CallInv'
      BY <2>1, <2>3, LooksUnderWay, KeepCalls DEF Check, KindOf, Kind
    <3>2. PoolInv'
      BY <2>1, <2>3, KeepPool DEF Check, Looks
    <3> QED
      BY <2>1, <2>2, <3>1, <3>2, KeepContact, KeepQuestions, KeepAnswers, KeepConfirms DEF Confirms
  <2>4. CASE Update(c, kind)
    <3>1. CallInv'
      BY <2>1, <2>4, MoveUnderWay, KeepCalls DEF Update, KindOf, Kind, Stage
    <3>2. PoolInv'
      BY <1>16, <2>4, UpdateSafe DEF Service
    <3> QED
      BY <2>1, <2>2, <3>1, <3>2, KeepContact, KeepQuestions, KeepAnswers, KeepConfirms DEF Confirms
  <2>5. CASE List(c)
    <3>1. CallInv'
      BY <2>1, <2>5, MoveUnderWay, KeepCalls DEF List, KindOf, Kind, Stage
    <3>2. PoolInv'
      BY <2>1, <2>5, KeepPool DEF List
    <3> QED
      BY <2>1, <2>2, <3>1, <3>2, KeepContact, KeepQuestions, KeepAnswers, KeepConfirms DEF Confirms
  <2> QED
    BY <1>16, <2>3, <2>4, <2>5 DEF Service, ServiceStep
<1>17. CASE UNCHANGED vars
  <2>1. Grows /\ UNCHANGED <<last_contact, questions, answers, calls, in_pool, started_in>>
    BY <1>17 DEF vars, Grows
  <2>2. UNCHANGED <<peer_confirms_offline, peer_confirms_online>>
    BY <1>17 DEF vars
  <2> QED
    BY <1>0, <2>1, <2>2, KeepContact, KeepQuestions, KeepAnswers, KeepConfirms, KeepCalls, KeepPool
       DEF Confirms, UnderWay
<1>18. Chain'
  BY ONLY [Next]_vars, <1>1, <1>2, <1>3, <1>4, <1>5, <1>6, <1>7, <1>8, <1>9, <1>10, <1>11, <1>12,
     <1>13, <1>14, <1>15, <1>16, <1>17 DEF Next, Handler
<1> QED
  BY <1>0, <1>18

-----------------------------------------------------------------------------
(* Theorems *)

\* The strengthened invariant: every link of the chain carries the views it
\* rests on (scribe.js:182-283, class-metadns.php:127-177).
THEOREM IInvHolds == Spec => []IInv
<1>1. IInv /\ [Next]_vars => IInv'
  BY SafeStep
<1> QED
  BY <1>1, SafeInit, PTL DEF Spec

\* Counters stay within the limit, and no message is taken that is not there.
THEOREM TypeCorrect == Spec => []TypeOK
<1>1. IInv => TypeOK
  BY DEF IInv
<1> QED
  BY <1>1, IInvHolds, PTL

\* A server leaves its pool only after a watcher and a peer it asks both lost
\* contact with it (scribe.js:52-54, 196-209, 289-292).
THEOREM RemovalSafe == Spec => []RemovalNeedsTwoViews
<1>1. IInv => RemovalNeedsTwoViews
  BY DEF IInv, PoolInv
<1> QED
  BY <1>1, IInvHolds, PTL

\* A server comes back only after a watcher and a peer it asks both had contact
\* with it (scribe.js:76-77, 248-260, 293-295).
THEOREM RestoreSafe == Spec => []RestoreNeedsTwoViews
<1>1. IInv => RestoreNeedsTwoViews
  BY DEF IInv, PoolInv
<1> QED
  BY <1>1, IInvHolds, PTL

-----------------------------------------------------------------------------
(* A server that is never seen.  Contact is lost only where there was contact, *)
(* so the views that take a server out are views of watchers that saw it work. *)

LostWereSeen == lost \subseteq seen

\* Removal needs two watchers that had contact, one of them asked by the other.
RemovalNeedsTwoSightings == started_in /\ ~ in_pool => TwoOf(seen)

\* Only GoStale loses contact, and what it loses is fresh (scribe.js:52).
LEMMA LostWereSeenStep ==
  ASSUME IInv, LostWereSeen, [Next]_vars
  PROVE  LostWereSeen'
<1> USE DEF LostWereSeen
<1>1. ASSUME NEW w \in Watcher, GoStale(w)
      PROVE  LostWereSeen'
  <2>1. w \in seen
    BY <1>1 DEF GoStale, IInv, ContactInv, View
  <2> QED
    BY <1>1, <2>1 DEF GoStale
<1>2. ASSUME NEW w \in Watcher, CheckSucceeds(w)
      PROVE  LostWereSeen'
  BY <1>2 DEF CheckSucceeds
<1>3. ASSUME NEW w \in Watcher, Handler(w), ~ GoStale(w), ~ CheckSucceeds(w)
      PROVE  UNCHANGED <<lost, seen>>
  BY <1>3 DEF Handler, StartChecks, CheckResponses, CheckFails, Answer, CheckHostDownCallback,
     CheckHostUpCallback, ConfirmPoolCallback, UpdatePoolList, UpdatePoolListCallback, Restart,
     RestartWith, history
<1>4. ASSUME HostChanges \/ Settle \/ LosePeerMessage \/ LoseCall
             \/ (\E c \in Caller, kind \in Kind : Service(c, kind)) \/ UNCHANGED vars
      PROVE  UNCHANGED <<lost, seen>>
  BY <1>4 DEF HostChanges, Settle, LosePeerMessage, LoseCall, Service, vars, history
<1> QED
  BY <1>1, <1>2, <1>3, <1>4 DEF Next

\* A server that no two watchers, one asked by the other, ever saw working stays
\* in its pool, broken or not: a last_contact of null neither asks nor confirms
\* (scribe.js:52, 289-299), although README.md:9 has failed servers removed.
THEOREM UnseenIsNotRemoved == Spec => []RemovalNeedsTwoSightings
<1>1. Init => LostWereSeen
  BY DEF Init, LostWereSeen
<1>2. IInv /\ LostWereSeen /\ [Next]_vars => LostWereSeen'
  BY LostWereSeenStep
<1>3. IInv /\ LostWereSeen => RemovalNeedsTwoSightings
  BY TwoOfGrows DEF IInv, PoolInv, LostWereSeen, RemovalNeedsTwoViews, RemovalNeedsTwoSightings
<1> QED
  BY <1>1, <1>2, <1>3, IInvHolds, PTL DEF Spec

=============================================================================
