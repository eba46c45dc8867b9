---------------------------- MODULE AnswersProofs ----------------------------
(***************************************************************************)
(* Proofs about Answers, for every set of zones, names, rows and pools and    *)
(* every pair of timeouts.                                                  *)
(*                                                                         *)
(* The argument.  What the caches and a call know of table domain was true    *)
(* when it was read.  As no tick passes within a call, and unchanged starts   *)
(* anew with every change, what is younger than the last change is still     *)
(* true: an entry of the SOA cache from the age it has (SCInv), the suffixes  *)
(* a search has passed over within a call (TodoInv), the id PowerDNS took     *)
(* from the SOA cache after SOA_TIMEOUT (SdInv), and an entry of the lookup   *)
(* cache, which may rest on one of the SOA cache, SOA_TIMEOUT after its own    *)
(* age (LCInv): after both timeouts everything is right.                     *)
(*                                                                         *)
(* m_results is emptied by the call that fills it, and left over only by an   *)
(* exception (ResultsInv); m_qname and m_origin are those of the call once    *)
(* its rows are prepared (NameInv).                                          *)
(***************************************************************************)
EXTENDS Answers, TLAPS

\* Every zone and its SOA are switched on and off together.
NoLapse == \A i \in Id : domain[i] # "no_soa"

\* How many suffixes a search has passed over.
Tried == Len(Suffixes[asked]) - Len(todo)

\* What is left are the last suffixes, and none before them is a zone.
TodoInv ==
  /\ (phase = "getSOA" /\ asked # NoName) \/ (phase = "lookup" /\ sd = NoId) =>
       /\ Tried \in Nat
       /\ \A k \in DOMAIN todo : todo[k] = Suffixes[asked][Tried + k]
  /\ phase = "getSOA" /\ asked # NoName /\ unchanged > 0 =>
       \A k \in 1 .. Tried : WithSOA(Suffixes[asked][k]) = {}
  /\ phase = "lookup" /\ sd = NoId /\ unchanged > 0 =>
       \A k \in 1 .. Tried : Active(Suffixes[asked][k]) = {}

\* An entry that is younger than the last change is right.
SCInv ==
  \A z \in DOMAIN m_SC : m_SC[z][2] < unchanged => m_SC[z][1] \in WithSOA(z)

\* One that was made SOA_TIMEOUT after the last change is right.
LCInv ==
  \A n \in DOMAIN m_LC :
    m_LC[n][2] + SOA_TIMEOUT <= unchanged /\ NoLapse => ZoneOf(n, m_LC[n][1])

\* So is the id of a call.
SdInv ==
  phase = "lookup" /\ sd # NoId /\ unchanged >= SOA_TIMEOUT => ZoneOf(asked, sd)

\* Results are those of the call, or left over by an exception.
ResultsInv ==
  /\ phase \in {"idle", "getSOA", "lookup", "list"} =>
       zone = NoId /\ (m_results = << >> \/ torn)
  /\ phase = "prepare" => \A k \in DOMAIN m_results : m_results[k].zone = zone
  /\ phase = "get" => \/ \A k \in DOMAIN m_results : m_results[k].zone = zone
                      \/ zone = NoId /\ torn

\* m_qname and m_origin belong to the call, once its rows are prepared.
NameInv ==
  /\ phase \in {"prepare", "get"} /\ asked = NoName => zone # NoId /\ m_origin = NameOf[zone]
  /\ phase = "get" /\ asked # NoName /\ zone # NoId => m_qname = asked
  /\ given # Nothing => phase = "get"

IInv == /\ TypeOK /\ TodoInv /\ SCInv /\ LCInv /\ SdInv /\ ResultsInv /\ NameInv
        /\ SettledZone /\ NamesAreRight

-----------------------------------------------------------------------------
\* The timeouts, and the age at which nothing cached is older than a change.
LEMMA Timeouts ==
  /\ SOA_TIMEOUT \in Nat \ {0} /\ LOOKUP_TIMEOUT \in Nat \ {0}
  /\ Settled \in Nat \ {0} /\ Settled >= SOA_TIMEOUT
<1>1. SOA_TIMEOUT \in Nat \ {0} /\ LOOKUP_TIMEOUT \in Nat \ {0}
  BY AnswersAssumption
<1> QED
  BY <1>1 DEF Settled

\* At first nothing is cached and no call is under way.
LEMMA InitInv == Init => IInv
<1> SUFFICES ASSUME Init PROVE IInv
  OBVIOUS
<1>1. TypeOK
  <2>1. domain \in [Id -> {"active", "inactive", "no_soa", "gone"}]
    BY DEF Init
  <2>2. Cached(m_SC, Zone, SOA_TIMEOUT) /\ Cached(m_LC, Name, LOOKUP_TIMEOUT)
    BY DEF Init, Cached
  <2>3. 0 \in 0 .. Settled
    BY Timeouts
  <2>4. m_results \in Seq(Entry) /\ todo \in Seq(Zone)
    BY DEF Init
  <2>5. /\ m_qname = NoName /\ m_origin = NoZone /\ asked = NoName /\ sd = NoId /\ zone = NoId
        /\ left = {} /\ unchanged = 0 /\ torn = FALSE /\ phase = "idle"
    BY DEF Init
  <2> QED
    BY <2>1, <2>2, <2>3, <2>4, <2>5 DEF TypeOK
<1>2. DOMAIN m_SC = {} /\ DOMAIN m_LC = {}
  BY DEF Init
<1>3. TodoInv /\ SCInv /\ LCInv /\ SdInv
  BY <1>2 DEF Init, TodoInv, SCInv, LCInv, SdInv
<1>4. ResultsInv /\ NameInv
  BY DEF Init, ResultsInv, NameInv, Nothing
<1>5. SettledZone /\ NamesAreRight
  BY DEF Init, SettledZone, NamesAreRight
<1> QED
  BY <1>1, <1>3, <1>4, <1>5 DEF IInv

-----------------------------------------------------------------------------
(* Caches *)

\* A new entry is of age 0.
LEMMA StoreType ==
  ASSUME NEW cache, NEW Key, NEW timeout \in Nat \ {0}, Cached(cache, Key, timeout),
         NEW k \in Key, NEW i \in Id
  PROVE  Cached(Store(cache, k, i), Key, timeout)
<1>1. 0 \in 0 .. timeout - 1
  OBVIOUS
<1> QED
  BY <1>1 DEF Cached, Store

\* What is left of a cache after a tick was in it, a tick younger.
LEMMA AgedType ==
  ASSUME NEW cache, NEW Key, NEW timeout \in Nat \ {0}, Cached(cache, Key, timeout)
  PROVE  /\ Cached(Aged(cache, timeout), Key, timeout)
         /\ DOMAIN Aged(cache, timeout) \subseteq DOMAIN cache
         /\ \A k \in DOMAIN Aged(cache, timeout) :
              Aged(cache, timeout)[k] = <<cache[k][1], cache[k][2] + 1>> /\ cache[k][2] \in Nat
<1>1. \A k \in DOMAIN cache : cache[k][1] \in Id /\ cache[k][2] \in 0 .. timeout - 1
  BY DEF Cached
<1>2. /\ DOMAIN Aged(cache, timeout) = {k \in DOMAIN cache : cache[k][2] + 1 < timeout}
      /\ \A k \in DOMAIN Aged(cache, timeout) : Aged(cache, timeout)[k] = <<cache[k][1], cache[k][2] + 1>>
  BY DEF Aged
<1>3. \A k \in DOMAIN Aged(cache, timeout) : cache[k][2] + 1 \in 0 .. timeout - 1
  BY <1>1, <1>2
<1>4. \A k \in DOMAIN Aged(cache, timeout) : k \in DOMAIN cache /\ k \in Key
  BY <1>2 DEF Cached
<1>5. ASSUME NEW k \in DOMAIN Aged(cache, timeout)
      PROVE  Aged(cache, timeout)[k] \in Id \X (0 .. timeout - 1)
  <2>1. cache[k][1] \in Id /\ cache[k][2] + 1 \in 0 .. timeout - 1
    BY <1>1, <1>3, <1>4
  <2>2. <<cache[k][1], cache[k][2] + 1>> \in Id \X (0 .. timeout - 1)
    BY <2>1
  <2> QED
    BY <1>2, <2>2
<1>6. Cached(Aged(cache, timeout), Key, timeout)
  BY <1>4, <1>5 DEF Cached
<1>7. \A k \in DOMAIN Aged(cache, timeout) : cache[k][2] \in Nat
  BY <1>1, <1>4
<1> QED
  BY <1>2, <1>4, <1>6, <1>7

\* SOA_TIMEOUT after the last change every entry is right.
LEMMA FoundInCache ==
  ASSUME TypeOK, SCInv, NEW z \in DOMAIN m_SC, unchanged >= SOA_TIMEOUT
  PROVE  m_SC[z][1] \in WithSOA(z)
<1>1. m_SC[z][2] \in 0 .. SOA_TIMEOUT - 1 /\ unchanged \in Nat
  BY DEF TypeOK, Cached
<1>2. m_SC[z][2] < unchanged
  BY <1>1, AnswersAssumption
<1> QED
  BY <1>2 DEF SCInv

-----------------------------------------------------------------------------
(* Pools *)

\* f places c in a pool, each of its servers once.
IsOrder(f, p, c) ==
  /\ f \in [1 .. Len(p.content) -> 1 .. Len(p.content)]
  /\ \A i, j \in 1 .. Len(p.content) : i # j => f[i] # f[j]
  /\ c = [i \in 1 .. Share(p) |-> p.content[f[i]]]

\* The answers from a pool are places of it, as many as its share, each once.
LEMMA PoolOrder ==
  ASSUME NEW r \in Record, NEW c \in FromPool(r.house)
  PROVE  LET p == Pool[r.house]
             n == Len(p.content)
         IN  /\ Share(p) \in 0 .. n /\ n \in Nat /\ p.content \in Seq(Content)
             /\ \E f : IsOrder(f, p, c)
<1> DEFINE p == Pool[r.house]
           n == Len(p.content)
<1>1. p.content \in Seq(Content) /\ p.num_results \in Int
  BY AnswersAssumption
<1>2. n \in Nat
  BY <1>1
<1>3. Share(p) \in 0 .. n
  <2>1. p.num_results % 256 \in Nat
    BY <1>1
  <2> HIDE DEF p
  <2> QED
    BY <1>2, <2>1 DEF Share, Limit
<1>4. \E f : IsOrder(f, p, c)
  <2>1. CASE p.random_results
    BY <2>1 DEF FromPool, IsOrder
  <2>2. CASE ~ p.random_results
    <3> DEFINE f == [i \in 1 .. n |-> i]
    <3>1. c = [i \in 1 .. Share(p) |-> p.content[f[i]]]
      BY <2>2 DEF FromPool
    <3>2. f \in [1 .. n -> 1 .. n] /\ \A i, j \in 1 .. n : i # j => f[i] # f[j]
      OBVIOUS
    <3> HIDE DEF f
    <3>3. IsOrder(f, p, c)
      BY <3>1, <3>2 DEF IsOrder
    <3> QED
      BY <3>3
  <2> QED
    BY <2>1, <2>2
<1> QED
  BY <1>1, <1>2, <1>3, <1>4

\* So they are servers.
LEMMA PoolContents ==
  ASSUME NEW r \in Record, NEW c \in FromPool(r.house) \cup {<< >>}
  PROVE  c \in Seq(Content)
<1>1. CASE c \in FromPool(r.house)
  <2> DEFINE p == Pool[r.house]
             n == Len(p.content)
  <2>1. Share(p) \in 0 .. n /\ n \in Nat /\ p.content \in Seq(Content)
    BY <1>1, PoolOrder
  <2>2. PICK f : f \in [1 .. n -> 1 .. n] /\ c = [i \in 1 .. Share(p) |-> p.content[f[i]]]
    BY <1>1, PoolOrder DEF IsOrder
  <2>3. \A i \in 1 .. Share(p) : p.content[f[i]] \in Content
    <3>1. \A i \in 1 .. n : p.content[i] \in Content
      BY <2>1
    <3>2. \A i \in 1 .. Share(p) : f[i] \in 1 .. n
      BY <2>1, <2>2
    <3> QED
      BY <3>1, <3>2
  <2>4. Share(p) \in Nat
    BY <2>1
  <2>5. c \in [1 .. Share(p) -> Content]
    BY <2>2, <2>3
  <2> QED
    BY <2>4, <2>5
<1>2. CASE c = << >>
  BY <1>2
<1> QED
  BY <1>1, <1>2

\* Entries of m_results for a row, of the zone of the call.
LEMMA EntriesType ==
  ASSUME NEW r \in Record, NEW c \in Seq(Content), zone \in Id
  PROVE  /\ Entries(r, c) \in Seq(Entry) /\ DOMAIN Entries(r, c) = DOMAIN c
         /\ \A k \in DOMAIN c : Entries(r, c)[k] = [zone |-> zone, row |-> r, content |-> c[k]]
<1>1. DOMAIN c = 1 .. Len(c) /\ Len(c) \in Nat /\ \A k \in 1 .. Len(c) : c[k] \in Content
  OBVIOUS
<1>2. \A k \in 1 .. Len(c) : [zone |-> zone, row |-> r, content |-> c[k]] \in Entry
  BY <1>1 DEF Entry
<1>3. Entries(r, c) = [k \in 1 .. Len(c) |-> [zone |-> zone, row |-> r, content |-> c[k]]]
  BY <1>1 DEF Entries
<1> QED
  BY <1>1, <1>2, <1>3

-----------------------------------------------------------------------------
(* The questions *)

LEMMA AskInv == ASSUME IInv, NEW n \in Name, Ask(n) PROVE IInv'
<1> USE DEF IInv, Ask
<1>1. Suffixes[n] \in Seq(Zone) /\ n # NoName
  BY AnswersAssumption
<1>2. TypeOK'
  BY <1>1 DEF TypeOK, dbVars, answerVars
<1>3. TodoInv'
  <2>1. Tried' = 0
    BY <1>1 DEF Tried
  <2> QED
    BY <1>1, <2>1 DEF TodoInv
<1>4. SCInv' /\ LCInv'
  BY DEF SCInv, LCInv, NoLapse, ZoneOf, WithSOA, dbVars
<1>5. SdInv' /\ ResultsInv' /\ NameInv' /\ SettledZone' /\ NamesAreRight'
  BY DEF SdInv, ResultsInv, NameInv, SettledZone, NamesAreRight, answerVars
<1> QED
  BY <1>2, <1>3, <1>4, <1>5

LEMMA AskAnywhereInv == ASSUME IInv, NEW n \in Name, AskAnywhere(n) PROVE IInv'
<1> USE DEF IInv, AskAnywhere
<1>1. Suffixes[n] \in Seq(Zone) /\ Suffixes[n] # << >> /\ n # NoName
  BY AnswersAssumption
<1>2. TypeOK'
  BY <1>1 DEF TypeOK, dbVars, answerVars
<1>3. TodoInv'
  <2>1. Tried' = 0
    BY <1>1 DEF Tried
  <2> QED
    BY <1>1, <2>1 DEF TodoInv
<1>4. SCInv' /\ LCInv'
  BY DEF SCInv, LCInv, NoLapse, ZoneOf, WithSOA, dbVars
<1>5. SdInv' /\ ResultsInv' /\ NameInv' /\ SettledZone' /\ NamesAreRight'
  BY DEF SdInv, ResultsInv, NameInv, SettledZone, NamesAreRight, answerVars
<1> QED
  BY <1>2, <1>3, <1>4, <1>5

LEMMA AskTransferInv == ASSUME IInv, NEW z \in Zone, AskTransfer(z) PROVE IInv'
<1> USE DEF IInv, AskTransfer
<1>1. TypeOK'
  BY DEF TypeOK, dbVars, answerVars
<1>2. TodoInv'
  BY DEF TodoInv
<1>3. SCInv' /\ LCInv'
  BY DEF SCInv, LCInv, NoLapse, ZoneOf, WithSOA, dbVars
<1>4. SdInv' /\ ResultsInv' /\ NameInv' /\ SettledZone' /\ NamesAreRight'
  BY DEF SdInv, ResultsInv, NameInv, SettledZone, NamesAreRight, answerVars
<1> QED
  BY <1>1, <1>2, <1>3, <1>4

-----------------------------------------------------------------------------
(* The zone of a name *)

\* The first suffix that is left is the zone, when the ones before it are none.
LEMMA FirstLeft ==
  ASSUME TypeOK, asked \in Name, todo # << >>, Tried \in Nat,
         \A k \in DOMAIN todo : todo[k] = Suffixes[asked][Tried + k],
         \A k \in 1 .. Tried : WithSOA(Suffixes[asked][k]) = {},
         NEW i \in WithSOA(Head(todo))
  PROVE  ZoneOf(asked, i)
<1>1. /\ 1 \in DOMAIN todo /\ Head(todo) = todo[1] /\ Len(todo) \in Nat /\ Len(todo) > 0
  <2>1. todo \in Seq(Zone)
    BY DEF TypeOK
  <2> QED
    BY <2>1
<1>2. Suffixes[asked] \in Seq(Zone)
  BY AnswersAssumption
<1>3. Tried + 1 \in DOMAIN Suffixes[asked]
  <2>1. Tried + 1 \in 1 .. Len(Suffixes[asked])
    BY <1>1, <1>2 DEF Tried
  <2> QED
    BY <1>2, <2>1
<1>4. Head(todo) = Suffixes[asked][Tried + 1]
  BY <1>1
<1>5. \A j \in 1 .. (Tried + 1) - 1 : WithSOA(Suffixes[asked][j]) = {}
  <2>1. \A j \in 1 .. (Tried + 1) - 1 : j \in 1 .. Tried
    OBVIOUS
  <2> QED
    BY <2>1
<1> QED
  BY <1>3, <1>4, <1>5 DEF ZoneOf

\* A sequence without its head.
LEMMA TailOfSeq ==
  ASSUME NEW S, NEW s \in Seq(S), s # << >>
  PROVE  /\ 1 \in DOMAIN s /\ Head(s) = s[1] /\ Len(s) \in Nat
         /\ Len(Tail(s)) = Len(s) - 1
         /\ \A k \in DOMAIN Tail(s) : k \in Nat /\ k + 1 \in DOMAIN s /\ Tail(s)[k] = s[k + 1]
<1>1. 1 \in DOMAIN s /\ Head(s) = s[1] /\ Len(s) \in Nat
  OBVIOUS
<1>2. Len(Tail(s)) = Len(s) - 1
  OBVIOUS
<1>3. \A k \in DOMAIN Tail(s) : k \in Nat /\ k + 1 \in DOMAIN s /\ Tail(s)[k] = s[k + 1]
  OBVIOUS
<1> QED
  BY <1>1, <1>2, <1>3

\* When it is none either, the search goes on.
LEMMA OneMoreTried ==
  ASSUME TypeOK, asked \in Name, todo # << >>, Tried \in Nat,
         \A k \in DOMAIN todo : todo[k] = Suffixes[asked][Tried + k],
         todo' = Tail(todo), asked' = asked
  PROVE  /\ Tried' = Tried + 1 /\ Tried' \in Nat
         /\ \A k \in DOMAIN todo' : todo'[k] = Suffixes[asked][Tried + 1 + k]
         /\ Head(todo) = Suffixes[asked][Tried + 1]
<1>1. todo \in Seq(Zone)
  BY DEF TypeOK
<1>2. Suffixes[asked] \in Seq(Zone)
  BY AnswersAssumption
<1>3. Len(Suffixes[asked]) \in Nat
  BY <1>2
<1>4. /\ 1 \in DOMAIN todo /\ Head(todo) = todo[1] /\ Len(todo) \in Nat
      /\ Len(Tail(todo)) = Len(todo) - 1
      /\ \A k \in DOMAIN Tail(todo) : k \in Nat /\ k + 1 \in DOMAIN todo /\ Tail(todo)[k] = todo[k + 1]
  BY <1>1, TailOfSeq
<1>5. Tried' = Tried + 1
  BY <1>3, <1>4 DEF Tried
<1>6. \A k \in DOMAIN todo' : todo'[k] = Suffixes[asked][Tried + 1 + k]
  <2> SUFFICES ASSUME NEW k \in DOMAIN todo' PROVE todo'[k] = Suffixes[asked][Tried + 1 + k]
    OBVIOUS
  <2>1. k \in Nat /\ todo'[k] = Suffixes[asked][Tried + (k + 1)]
    BY <1>4
  <2>2. Tried + (k + 1) = Tried + 1 + k
    BY <2>1
  <2> QED
    BY <2>1, <2>2
<1>7. Head(todo) = Suffixes[asked][Tried + 1]
  BY <1>4
<1>8. Tried + 1 \in Nat
  OBVIOUS
<1> QED
  BY <1>5, <1>6, <1>7, <1>8

LEMMA GetSOAInv == ASSUME IInv, GetSOA PROVE IInv'
<1> DEFINE z == Head(todo)
<1> USE DEF IInv
<1>1. /\ phase = "getSOA" /\ todo # << >>
      /\ UNCHANGED <<domain, unchanged, m_LC, m_results, m_qname, m_origin, torn, asked, zone, left, given>>
      /\ todo \in Seq(Zone) /\ z \in Zone
  BY DEF GetSOA, TypeOK, dbVars, answerVars
<1>2. Settled \in Nat /\ unchanged \in Nat /\ SOA_TIMEOUT \in Nat \ {0}
  BY Timeouts DEF TypeOK
<1>3. LCInv' /\ ResultsInv' /\ NameInv' /\ SettledZone' /\ NamesAreRight'
  <2>1. phase' \in {"getSOA", "lookup", "list"}
    BY <1>1 DEF GetSOA, FoundSOA
  <2> QED
    BY <1>1, <2>1 DEF LCInv, NoLapse, ZoneOf, WithSOA, ResultsInv, NameInv, SettledZone, NamesAreRight
<1>4. ASSUME NEW i \in Id, FoundSOA(i), todo' = todo,
             unchanged >= SOA_TIMEOUT => i \in WithSOA(z),
             Cached(m_SC', Zone, SOA_TIMEOUT), SCInv'
      PROVE  IInv'
  <2>1. TypeOK'
    BY <1>1, <1>4 DEF TypeOK, FoundSOA
  <2>2. TodoInv'
    BY <1>4, AnswersAssumption DEF TodoInv, FoundSOA
  <2>3. SdInv'
    <3>1. ASSUME asked # NoName, unchanged >= SOA_TIMEOUT
          PROVE  ZoneOf(asked, i)
      <4>1. asked \in Name /\ unchanged > 0
        BY <1>2, <3>1 DEF TypeOK
      <4>2. /\ Tried \in Nat /\ \A k \in DOMAIN todo : todo[k] = Suffixes[asked][Tried + k]
            /\ \A k \in 1 .. Tried : WithSOA(Suffixes[asked][k]) = {}
        BY <1>1, <3>1, <4>1 DEF TodoInv
      <4> QED
        BY <1>1, <1>4, <3>1, <4>1, <4>2, FirstLeft
    <3>2. ZoneOf(asked, i)' = ZoneOf(asked, i)
      BY <1>1 DEF ZoneOf, WithSOA
    <3> QED
      BY <1>1, <1>4, <3>1, <3>2 DEF SdInv, FoundSOA
  <2> QED
    BY <1>3, <1>4, <2>1, <2>2, <2>3
<1>5. CASE z \in DOMAIN m_SC /\ FoundSOA(m_SC[z][1]) /\ UNCHANGED <<m_SC, todo>>
  <2>1. m_SC[z][1] \in Id
    BY <1>5 DEF TypeOK, Cached
  <2>2. Cached(m_SC', Zone, SOA_TIMEOUT) /\ SCInv'
    BY <1>1, <1>5 DEF TypeOK, SCInv, WithSOA
  <2>3. unchanged >= SOA_TIMEOUT => m_SC[z][1] \in WithSOA(z)
    BY <1>5, FoundInCache
  <2> QED
    BY <1>4, <1>5, <2>1, <2>2, <2>3
<1>6. ASSUME NEW i \in WithSOA(z), FoundSOA(i), m_SC' = Store(m_SC, z, i), UNCHANGED todo
      PROVE  IInv'
  <2>1. i \in Id
    BY DEF WithSOA
  <2>2. Cached(m_SC', Zone, SOA_TIMEOUT)
    BY <1>1, <1>2, <1>6, <2>1, StoreType DEF TypeOK
  <2>3. SCInv'
    BY <1>1, <1>6 DEF SCInv, Store, WithSOA
  <2> QED
    BY <1>4, <1>6, <2>1, <2>2, <2>3
<1>7. CASE WithSOA(z) = {} /\ todo' = Tail(todo) /\ UNCHANGED <<m_SC, phase, sd>>
  <2>1. TypeOK'
    BY <1>1, <1>7 DEF TypeOK
  <2>2. SCInv' /\ SdInv'
    BY <1>1, <1>7 DEF SCInv, SdInv, WithSOA
  <2>3. TodoInv'
    <3>1. CASE asked = NoName
      BY <1>1, <1>7, <3>1 DEF TodoInv
    <3>2. CASE asked # NoName
      <4>1. /\ Tried' = Tried + 1 /\ Tried' \in Nat /\ Tried \in Nat
            /\ \A k \in DOMAIN todo' : todo'[k] = Suffixes[asked][Tried + 1 + k]
            /\ z = Suffixes[asked][Tried + 1]
        <5>1. asked \in Name
          BY <3>2 DEF TypeOK
        <5>2. Tried \in Nat /\ \A k \in DOMAIN todo : todo[k] = Suffixes[asked][Tried + k]
          BY <1>1, <3>2 DEF TodoInv
        <5> QED
          BY <1>1, <1>7, <5>1, <5>2, OneMoreTried
      <4>2. unchanged > 0 => \A k \in 1 .. Tried : WithSOA(Suffixes[asked][k]) = {}
        BY <1>1, <3>2 DEF TodoInv
      <4>3. unchanged > 0 => \A k \in 1 .. Tried + 1 : WithSOA(Suffixes[asked][k]) = {}
        <5>1. \A k \in 1 .. Tried + 1 : k \in 1 .. Tried \/ k = Tried + 1
          BY <4>1
        <5> QED
          BY <1>7, <4>1, <4>2, <5>1
      <4>4. \A y : WithSOA(y)' = WithSOA(y)
        BY <1>1 DEF WithSOA
      <4> QED
        BY <1>1, <1>7, <4>1, <4>3, <4>4 DEF TodoInv
    <3> QED
      BY <3>1, <3>2
  <2> QED
    BY <1>3, <2>1, <2>2, <2>3
<1> QED
  BY <1>5, <1>6, <1>7 DEF GetSOA

-----------------------------------------------------------------------------
(* lookup() and list() *)

\* The rows of a zone are to be prepared: what it takes to keep every part.
LEMMA PrepareInv ==
  ASSUME IInv, NEW i \in Id, Prepare(i), phase \in {"lookup", "list"},
         UNCHANGED <<dbVars, m_SC, m_qname, asked, sd, given>>, todo' \in Seq(Zone),
         m_origin' \in Zone \cup {NoZone}, asked = NoName => m_origin' = NameOf[i],
         Cached(m_LC', Name, LOOKUP_TIMEOUT), LCInv',
         unchanged = Settled /\ NoLapse /\ asked # NoName => ZoneOf(asked, i)
  PROVE  IInv'
<1> USE DEF IInv, Prepare
<1>1. i # NoId /\ << >> \in Seq(Entry) /\ DOMAIN m_results' = {}
  BY AnswersAssumption
<1>2. TypeOK'
  BY <1>1 DEF TypeOK, dbVars
<1>3. TodoInv' /\ SdInv' /\ SCInv'
  BY DEF TodoInv, SdInv, SCInv, WithSOA, dbVars
<1>4. ResultsInv' /\ NameInv' /\ NamesAreRight'
  BY <1>1 DEF ResultsInv, NameInv, NamesAreRight
<1>5. SettledZone'
  BY DEF SettledZone, NoLapse, ZoneOf, WithSOA, dbVars
<1> QED
  BY <1>2, <1>3, <1>4, <1>5

\* What is the zone now is a right entry of the lookup cache.
LEMMA LookupEntry ==
  ASSUME TypeOK, LCInv, asked \in Name, NEW i \in Id, LookupIn(i), UNCHANGED dbVars,
         unchanged >= SOA_TIMEOUT /\ NoLapse => ZoneOf(asked, i)
  PROVE  /\ Cached(m_LC', Name, LOOKUP_TIMEOUT) /\ LCInv'
         /\ unchanged = Settled /\ NoLapse => ZoneOf(asked, i)
         /\ m_origin' \in Zone /\ Prepare(i)
<1>1. m_LC' = Store(m_LC, asked, i) /\ Prepare(i) /\ m_origin' = NameOf[i]
  BY DEF LookupIn
<1>2. SOA_TIMEOUT \in Nat \ {0} /\ LOOKUP_TIMEOUT \in Nat \ {0} /\ unchanged \in Nat /\ Settled >= SOA_TIMEOUT
  BY Timeouts DEF TypeOK
<1>3. Cached(m_LC', Name, LOOKUP_TIMEOUT)
  BY <1>1, <1>2, StoreType DEF TypeOK
<1>4. LCInv'
  <2>1. /\ DOMAIN m_LC' = DOMAIN m_LC \cup {asked} /\ m_LC'[asked] = <<i, 0>>
        /\ \A n \in DOMAIN m_LC : n # asked => m_LC'[n] = m_LC[n]
    BY <1>1 DEF Store
  <2>2. NoLapse' = NoLapse /\ \A n, j : ZoneOf(n, j)' = ZoneOf(n, j)
    BY DEF NoLapse, ZoneOf, WithSOA, dbVars
  <2>3. unchanged' = unchanged
    BY DEF dbVars
  <2> QED
    BY <1>2, <2>1, <2>2, <2>3 DEF LCInv
<1> QED
  BY <1>1, <1>2, <1>3, <1>4, AnswersAssumption

LEMMA LookupCachedInv == IInv /\ LookupCached => IInv'
<1> SUFFICES ASSUME IInv, LookupCached PROVE IInv'
  OBVIOUS
<1> DEFINE i == m_LC[asked][1]
<1>1. asked \in DOMAIN m_LC /\ phase = "lookup" /\ asked \in Name /\ asked # NoName
  BY AnswersAssumption DEF LookupCached, IInv, TypeOK
<1>2. i \in Id /\ m_LC[asked][2] \in 0 .. LOOKUP_TIMEOUT - 1
  BY <1>1 DEF IInv, TypeOK, Cached
<1>3. unchanged = Settled /\ NoLapse => ZoneOf(asked, i)
  <2>1. SOA_TIMEOUT \in Nat /\ LOOKUP_TIMEOUT \in Nat
    BY AnswersAssumption
  <2> QED
    BY <1>1, <1>2, <2>1 DEF IInv, LCInv, Settled
<1>4. Cached(m_LC', Name, LOOKUP_TIMEOUT) /\ LCInv'
  BY DEF LookupCached, IInv, TypeOK, LCInv, NoLapse, ZoneOf, WithSOA, dbVars
<1>5. m_origin' \in Zone \cup {NoZone} /\ todo' \in Seq(Zone)
  BY DEF LookupCached, IInv, TypeOK
<1> QED
  BY <1>1, <1>2, <1>3, <1>4, <1>5, PrepareInv DEF LookupCached

LEMMA LookupByIdInv == IInv /\ LookupById => IInv'
<1> SUFFICES ASSUME IInv, LookupById PROVE IInv'
  OBVIOUS
<1>1. sd \in Id /\ phase = "lookup" /\ asked \in Name /\ asked # NoName /\ todo' \in Seq(Zone) /\ LookupIn(sd)
  BY AnswersAssumption DEF LookupById, IInv, TypeOK
<1>2. unchanged >= SOA_TIMEOUT => ZoneOf(asked, sd)
  BY <1>1, AnswersAssumption DEF IInv, SdInv
<1>3. /\ Cached(m_LC', Name, LOOKUP_TIMEOUT) /\ LCInv'
      /\ unchanged = Settled /\ NoLapse => ZoneOf(asked, sd)
      /\ m_origin' \in Zone /\ Prepare(sd)
  BY <1>1, <1>2, LookupEntry DEF LookupById, IInv
<1> QED
  BY <1>1, <1>3, PrepareInv DEF LookupById

LEMMA LookupAnywhereInv == IInv /\ LookupAnywhere => IInv'
<1> SUFFICES ASSUME IInv, LookupAnywhere PROVE IInv'
  OBVIOUS
<1>1. /\ phase = "lookup" /\ sd = NoId /\ asked \in Name /\ asked # NoName /\ todo # << >>
      /\ UNCHANGED <<dbVars, m_SC, m_qname, asked, sd, given>>
  BY AnswersAssumption DEF LookupAnywhere, IInv, TypeOK
<1>2. /\ Tried \in Nat /\ \A k \in DOMAIN todo : todo[k] = Suffixes[asked][Tried + k]
      /\ unchanged > 0 => \A k \in 1 .. Tried : Active(Suffixes[asked][k]) = {}
  BY <1>1 DEF IInv, TodoInv
<1>3. ASSUME NEW i \in Active(Head(todo)), LookupIn(i), UNCHANGED todo
      PROVE  IInv'
  <2>1. i \in Id
    BY DEF Active
  <2>2. ASSUME unchanged >= SOA_TIMEOUT, NoLapse
        PROVE  ZoneOf(asked, i)
    <3>1. \A z : Active(z) = WithSOA(z)
      BY <2>2 DEF Active, WithSOA, NoLapse
    <3>2. unchanged > 0
      BY <2>2, AnswersAssumption DEF IInv, TypeOK
    <3> QED
      BY <1>1, <1>2, <3>1, <3>2, FirstLeft DEF IInv
  <2>3. /\ Cached(m_LC', Name, LOOKUP_TIMEOUT) /\ LCInv'
        /\ unchanged = Settled /\ NoLapse => ZoneOf(asked, i)
        /\ m_origin' \in Zone /\ Prepare(i)
    BY <1>1, <1>3, <2>1, <2>2, LookupEntry DEF IInv
  <2>4. todo' \in Seq(Zone)
    BY <1>3 DEF IInv, TypeOK
  <2> QED
    BY <1>1, <1>3, <2>1, <2>3, <2>4, PrepareInv
<1>4. ASSUME Active(Head(todo)) = {}, todo' = Tail(todo), m_origin' = NoZone,
             phase' = IF todo' = << >> THEN "get" ELSE "lookup",
             UNCHANGED <<m_LC, m_results, torn, zone, left>>
      PROVE  IInv'
  <2> USE DEF IInv
  <2>1. TypeOK'
    <3>1. Tail(todo) \in Seq(Zone)
      BY <1>1 DEF TypeOK
    <3> QED
      BY <1>1, <1>4, <3>1 DEF TypeOK, dbVars
  <2>2. TodoInv'
    <3>1. /\ Tried' = Tried + 1 /\ Tried' \in Nat
          /\ \A k \in DOMAIN todo' : todo'[k] = Suffixes[asked][Tried + 1 + k]
          /\ Head(todo) = Suffixes[asked][Tried + 1]
      BY <1>1, <1>2, <1>4, OneMoreTried
    <3>2. unchanged > 0 => \A k \in 1 .. Tried + 1 : Active(Suffixes[asked][k]) = {}
      <4>1. \A k \in 1 .. Tried + 1 : k \in 1 .. Tried \/ k = Tried + 1
        BY <1>2
      <4> QED
        BY <1>2, <1>4, <3>1, <4>1
    <3>3. \A y : Active(y)' = Active(y)
      BY <1>1 DEF Active, dbVars
    <3>4. unchanged' = unchanged /\ asked' = asked
      BY <1>1 DEF dbVars
    <3> QED
      BY <1>1, <1>4, <3>1, <3>2, <3>3, <3>4 DEF TodoInv
  <2>3. SCInv' /\ LCInv' /\ SdInv'
    BY <1>1, <1>4 DEF SCInv, LCInv, SdInv, NoLapse, ZoneOf, WithSOA, dbVars
  <2>4. ResultsInv'
    <3>1. zone' = NoId /\ (m_results' = << >> \/ torn')
      BY <1>1, <1>4 DEF ResultsInv
    <3>2. phase' \in {"get", "lookup"}
      BY <1>4
    <3> QED
      BY <3>1, <3>2 DEF ResultsInv
  <2>5. NameInv' /\ SettledZone' /\ NamesAreRight'
    <3>1. zone' = NoId /\ phase' \in {"get", "lookup"} /\ given' = Nothing
      BY <1>1, <1>4 DEF ResultsInv, NameInv
    <3> QED
      BY <1>1, <3>1 DEF NameInv, SettledZone, NamesAreRight
  <2> QED
    BY <2>1, <2>2, <2>3, <2>4, <2>5
<1> QED
  BY <1>3, <1>4 DEF LookupAnywhere

LEMMA ListInv == IInv /\ List => IInv'
<1> SUFFICES ASSUME IInv, List PROVE IInv'
  OBVIOUS
<1>1. sd \in Id /\ asked = NoName /\ NameOf[sd] \in Zone /\ todo' \in Seq(Zone)
  BY AnswersAssumption DEF List, IInv, TypeOK
<1>2. Cached(m_LC', Name, LOOKUP_TIMEOUT) /\ LCInv'
  BY DEF List, IInv, TypeOK, LCInv, NoLapse, ZoneOf, WithSOA, dbVars
<1> QED
  BY <1>1, <1>2, PrepareInv DEF List

-----------------------------------------------------------------------------
(* prepare_records() and get() *)

LEMMA PrepareRowInv == ASSUME IInv, NEW r \in Record, PrepareRow(r) PROVE IInv'
<1> USE DEF IInv, PrepareRow
<1>1. PICK c \in FromPool(r.house) \cup {<< >>} : m_results' = m_results \o Entries(r, c)
  OBVIOUS
<1>2. c \in Seq(Content) /\ zone \in Id /\ m_results \in Seq(Entry)
  BY PoolContents DEF TypeOK
<1>3. /\ Entries(r, c) \in Seq(Entry) /\ DOMAIN Entries(r, c) = DOMAIN c
      /\ \A k \in DOMAIN c : Entries(r, c)[k].zone = zone
  <2>1. /\ Entries(r, c) \in Seq(Entry) /\ DOMAIN Entries(r, c) = DOMAIN c
        /\ \A k \in DOMAIN c : Entries(r, c)[k] = [zone |-> zone, row |-> r, content |-> c[k]]
    BY <1>2, EntriesType
  <2> QED
    BY <2>1
<1>4. m_results' \in Seq(Entry)
  BY <1>1, <1>2, <1>3
<1>5. TypeOK'
  BY <1>4 DEF TypeOK, dbVars
<1>6. \A k \in DOMAIN m_results' : m_results'[k].zone = zone
  <2>1. \A k \in DOMAIN m_results : m_results[k].zone = zone
    BY DEF ResultsInv
  <2>2. ASSUME NEW k \in DOMAIN m_results', k \notin DOMAIN m_results
        PROVE  k - Len(m_results) \in DOMAIN Entries(r, c) /\ m_results'[k] = Entries(r, c)[k - Len(m_results)]
    BY <1>1, <1>2, <1>3, <2>2
  <2>3. \A k \in DOMAIN m_results : m_results'[k] = m_results[k]
    <3>1. m_results \in Seq(Entry) /\ Entries(r, c) \in Seq(Entry) /\ m_results' = m_results \o Entries(r, c)
      BY <1>1, <1>2, <1>3
    <3> QED
      BY ONLY <3>1
  <2> QED
    BY <1>3, <2>1, <2>2, <2>3
<1>7. ResultsInv' /\ NameInv' /\ NamesAreRight'
  BY <1>6 DEF ResultsInv, NameInv, NamesAreRight
<1>8. TodoInv' /\ SCInv' /\ LCInv' /\ SdInv' /\ SettledZone'
  BY DEF TodoInv, SCInv, LCInv, SdInv, SettledZone, NoLapse, ZoneOf, WithSOA, dbVars
<1> QED
  BY <1>5, <1>7, <1>8

LEMMA PreparedInv == IInv /\ Prepared => IInv'
<1> SUFFICES ASSUME IInv, Prepared PROVE IInv'
  OBVIOUS
<1> USE DEF IInv, Prepared
<1>1. TypeOK'
  BY DEF TypeOK, dbVars
<1>2. ResultsInv' /\ NameInv' /\ NamesAreRight'
  BY DEF ResultsInv, NameInv, NamesAreRight
<1>3. TodoInv' /\ SCInv' /\ LCInv' /\ SdInv' /\ SettledZone'
  BY DEF TodoInv, SCInv, LCInv, SdInv, SettledZone, NoLapse, ZoneOf, WithSOA, dbVars
<1> QED
  BY <1>1, <1>2, <1>3

\* The name of a row of the zone that the call found.
LEMMA NamedRight ==
  ASSUME TypeOK, ResultsInv, NameInv, phase = "get", m_results # << >>
  PROVE  LET e == Head(m_results)
             r == e.row
             z == NameOf[e.zone]
         IN  \/ torn
             \/ asked # NoName /\ Named(r) = <<asked>>
             \/ asked = NoName /\ m_qname # NoName
             \/ asked = NoName /\ r.stored = "full" /\ Named(r) = <<r.stored>>
             \/ asked = NoName /\ r.stored = "host" /\ r.length < Length[z] /\ Named(r) = <<r.stored, z>>
             \/ asked = NoName /\ r.stored = "host" /\ r.length \notin 1 .. Length[z] - 1
<1> DEFINE e == Head(m_results)
           r == e.row
<1>1. e \in Entry /\ 1 \in DOMAIN m_results /\ e = m_results[1]
  BY DEF TypeOK
<1>2. r \in Record /\ e.zone \in Id
  BY <1>1 DEF Entry
<1>3. e.zone = zone \/ (zone = NoId /\ torn)
  BY <1>1 DEF ResultsInv
<1>4. CASE asked # NoName
  <2>1. (zone = NoId /\ torn) \/ m_qname = asked
    BY <1>2, <1>3, <1>4, AnswersAssumption DEF NameInv
  <2> QED
    BY <1>4, <2>1 DEF Named
<1>5. CASE asked = NoName /\ m_qname = NoName
  <2>1. e.zone = zone /\ m_origin = NameOf[e.zone] /\ m_origin \in Zone /\ m_origin # NoZone
    BY <1>2, <1>3, <1>5, AnswersAssumption DEF NameInv
  <2>2. /\ r.stored \in {"full", "host"} /\ r.length \in Nat /\ Length[m_origin] \in Nat
        /\ r.stored = "full" => r.length >= Length[m_origin]
    BY <1>2, <2>1, AnswersAssumption
  <2>3. Shorter(r) <=> r.length < Length[m_origin]
    BY <2>1 DEF Shorter
  <2>4. CASE r.stored = "full"
    <3>1. ~ Shorter(r)
      BY <2>1, <2>2, <2>3, <2>4
    <3> QED
      BY <1>5, <2>4, <3>1 DEF Named
  <2>5. CASE r.stored = "host" /\ Shorter(r)
    BY <1>5, <2>1, <2>3, <2>5 DEF Named
  <2>6. CASE r.stored = "host" /\ ~ Shorter(r)
    BY <1>5, <2>1, <2>2, <2>3, <2>6
  <2> QED
    BY <2>2, <2>4, <2>5, <2>6
<1> QED
  BY <1>4, <1>5

LEMMA GetInv == IInv /\ Get => IInv'
<1> SUFFICES ASSUME IInv, Get PROVE IInv'
  OBVIOUS
<1> USE DEF IInv, Get
<1>1. /\ m_results \in Seq(Entry) /\ m_results # << >> /\ m_results' = Tail(m_results)
  BY DEF TypeOK
<1>2. /\ Tail(m_results) \in Seq(Entry)
      /\ \A k \in DOMAIN Tail(m_results) : k + 1 \in DOMAIN m_results /\ Tail(m_results)[k] = m_results[k + 1]
  BY <1>1
<1>3. TypeOK'
  BY <1>2 DEF TypeOK, dbVars, callVars
<1>4. ResultsInv'
  BY <1>1, <1>2 DEF ResultsInv, callVars
<1>5. NameInv'
  BY DEF NameInv, callVars
<1>6. NamesAreRight'
  <2>1. given' = [name |-> Named(Head(m_results).row), entry |-> Head(m_results)]
    OBVIOUS
  <2>2. given'.name = Named(Head(m_results).row) /\ given'.entry = Head(m_results)
    BY <2>1
  <2>3. asked' = asked /\ torn' = torn /\ m_qname' = m_qname
    BY DEF callVars
  <2> QED
    BY <2>2, <2>3, NamedRight DEF NamesAreRight
<1>7. TodoInv' /\ SCInv' /\ LCInv' /\ SdInv' /\ SettledZone'
  BY DEF TodoInv, SCInv, LCInv, SdInv, SettledZone, NoLapse, ZoneOf, WithSOA, Tried, dbVars, callVars
<1> QED
  BY <1>3, <1>4, <1>5, <1>6, <1>7

-----------------------------------------------------------------------------
(* The end of a call *)

LEMMA EndInv ==
  ASSUME IInv, End, UNCHANGED <<dbVars, m_SC, m_LC, m_results, m_qname>>, given' = Nothing,
         m_origin' \in Zone \cup {NoZone}, torn' \in BOOLEAN, m_results = << >> \/ torn'
  PROVE  IInv'
<1> USE DEF IInv, End
<1>1. TypeOK'
  BY DEF TypeOK, dbVars
<1>2. TodoInv' /\ SCInv' /\ LCInv' /\ SdInv'
  BY DEF TodoInv, SCInv, LCInv, SdInv, NoLapse, ZoneOf, WithSOA, dbVars
<1>3. ResultsInv' /\ NameInv' /\ SettledZone' /\ NamesAreRight'
  BY DEF ResultsInv, NameInv, SettledZone, NamesAreRight
<1> QED
  BY <1>1, <1>2, <1>3

LEMMA DoneInv == IInv /\ Done => IInv'
<1> SUFFICES ASSUME IInv, Done PROVE IInv'
  OBVIOUS
<1>1. m_results = << >> \/ torn
  BY DEF Done, IInv, ResultsInv
<1>2. m_origin' \in Zone \cup {NoZone} /\ torn' \in BOOLEAN /\ torn' = torn
  BY DEF Done, IInv, TypeOK, answerVars
<1> QED
  BY <1>1, <1>2, EndInv DEF Done, answerVars

LEMMA FailsInv == IInv /\ (LookupThrows \/ QueryFails \/ PrepareFails) => IInv'
<1> SUFFICES ASSUME IInv, LookupThrows \/ QueryFails \/ PrepareFails PROVE IInv'
  OBVIOUS
<1>1. /\ phase \in {"getSOA", "lookup", "list", "prepare"} /\ End
      /\ UNCHANGED <<dbVars, m_SC, m_LC, m_results, m_qname, given>>
  BY DEF LookupThrows, QueryFails, PrepareFails
<1>2. given' = Nothing
  BY <1>1 DEF IInv, NameInv
<1>3. m_origin' \in Zone \cup {NoZone} /\ torn' \in BOOLEAN
  <2>1. CASE UNCHANGED m_origin \/ m_origin' = NoZone
    BY <2>1 DEF LookupThrows, QueryFails, PrepareFails, IInv, TypeOK
  <2>2. CASE QueryFails /\ \E i \in Id : m_origin' = NameOf[i]
    BY <2>2, AnswersAssumption DEF QueryFails, IInv, TypeOK
  <2>3. Found \subseteq Id
    BY DEF Found, Active
  <2>4. phase = "list" => sd \in Id
    BY DEF IInv, TypeOK
  <2> QED
    BY <2>1, <2>2, <2>3, <2>4 DEF LookupThrows, QueryFails, PrepareFails
<1>4. m_results = << >> \/ torn'
  BY DEF LookupThrows, QueryFails, PrepareFails, IInv, ResultsInv
<1> QED
  BY <1>1, <1>2, <1>3, <1>4, EndInv

-----------------------------------------------------------------------------
(* The world *)

LEMMA ChangeInv ==
  ASSUME IInv, NEW i \in Id, NEW state \in {"active", "inactive", "no_soa", "gone"}, Change(i, state)
  PROVE  IInv'
<1> USE DEF IInv, Change
<1>1. Settled \in Nat \ {0} /\ SOA_TIMEOUT \in Nat \ {0}
  BY Timeouts
<1>2. TypeOK'
  BY <1>1 DEF TypeOK, answerVars, callVars
<1>3. TodoInv'
  BY DEF TodoInv, Tried, callVars
<1>4. SCInv' /\ LCInv'
  <2>1. /\ \A z \in DOMAIN m_SC : m_SC[z][2] \in Nat
        /\ \A n \in DOMAIN m_LC : m_LC[n][2] \in Nat
    <3>1. \A z \in DOMAIN m_SC : m_SC[z][2] \in 0 .. SOA_TIMEOUT - 1
      BY DEF TypeOK, Cached
    <3>2. \A n \in DOMAIN m_LC : m_LC[n][2] \in 0 .. LOOKUP_TIMEOUT - 1
      BY DEF TypeOK, Cached
    <3> QED
      BY <3>1, <3>2
  <2> QED
    BY <1>1, <2>1 DEF SCInv, LCInv
<1>5. SdInv' /\ SettledZone'
  BY <1>1 DEF SdInv, SettledZone
<1>6. ResultsInv' /\ NameInv' /\ NamesAreRight'
  BY DEF ResultsInv, NameInv, NamesAreRight, answerVars, callVars
<1> QED
  BY <1>2, <1>3, <1>4, <1>5, <1>6

LEMMA TickInv == IInv /\ Tick => IInv'
<1> SUFFICES ASSUME IInv, Tick PROVE IInv'
  OBVIOUS
<1> USE DEF IInv, Tick
<1>1. SOA_TIMEOUT \in Nat \ {0} /\ LOOKUP_TIMEOUT \in Nat \ {0} /\ Settled \in Nat /\ unchanged \in 0 .. Settled
  <2>1. SOA_TIMEOUT \in Nat \ {0} /\ LOOKUP_TIMEOUT \in Nat \ {0}
    BY Timeouts
  <2>2. Settled \in Nat
    BY Timeouts
  <2>3. unchanged \in 0 .. Settled
    BY DEF TypeOK
  <2> QED
    BY <2>1, <2>2, <2>3
<1>2. unchanged' \in 0 .. Settled /\ unchanged' <= unchanged + 1
  BY <1>1
<1>3. /\ Cached(m_SC', Zone, SOA_TIMEOUT) /\ DOMAIN m_SC' \subseteq DOMAIN m_SC
      /\ \A k \in DOMAIN m_SC' : m_SC'[k] = <<m_SC[k][1], m_SC[k][2] + 1>> /\ m_SC[k][2] \in Nat
  BY <1>1, AgedType DEF TypeOK
<1>4. /\ Cached(m_LC', Name, LOOKUP_TIMEOUT) /\ DOMAIN m_LC' \subseteq DOMAIN m_LC
      /\ \A k \in DOMAIN m_LC' : m_LC'[k] = <<m_LC[k][1], m_LC[k][2] + 1>> /\ m_LC[k][2] \in Nat
  BY <1>1, AgedType DEF TypeOK
<1>5. TypeOK'
  BY <1>2, <1>3, <1>4 DEF TypeOK, answerVars, callVars
<1>6. SCInv'
  <2>1. \A z : WithSOA(z)' = WithSOA(z)
    BY DEF WithSOA
  <2> QED
    BY <1>1, <1>2, <1>3, <2>1 DEF SCInv
<1>7. LCInv'
  <2>1. NoLapse' = NoLapse /\ \A n, j : ZoneOf(n, j)' = ZoneOf(n, j)
    BY DEF NoLapse, ZoneOf, WithSOA
  <2> QED
    BY <1>1, <1>2, <1>4, <2>1 DEF LCInv
<1>8. TodoInv' /\ SdInv' /\ SettledZone'
  BY DEF TodoInv, SdInv, SettledZone, callVars
<1>9. ResultsInv' /\ NameInv' /\ NamesAreRight'
  BY DEF ResultsInv, NameInv, NamesAreRight, answerVars, callVars
<1> QED
  BY <1>5, <1>6, <1>7, <1>8, <1>9

-----------------------------------------------------------------------------
(* Theorems *)

LEMMA NextInv == IInv /\ [Next]_vars => IInv'
<1> SUFFICES ASSUME IInv, [Next]_vars PROVE IInv'
  OBVIOUS
<1>1. ASSUME NEW n \in Name, Ask(n) \/ AskAnywhere(n) PROVE IInv'
  BY <1>1, AskInv, AskAnywhereInv
<1>2. ASSUME NEW z \in Zone, AskTransfer(z) PROVE IInv'
  BY <1>2, AskTransferInv
<1>3. CASE GetSOA \/ LookupCached \/ LookupAnywhere \/ LookupById \/ List
  BY <1>3, GetSOAInv, LookupCachedInv, LookupAnywhereInv, LookupByIdInv, ListInv
<1>4. ASSUME NEW r \in Record, PrepareRow(r) PROVE IInv'
  BY <1>4, PrepareRowInv
<1>5. CASE Prepared \/ Get \/ Done
  BY <1>5, PreparedInv, GetInv, DoneInv
<1>6. CASE LookupThrows \/ QueryFails \/ PrepareFails
  BY <1>6, FailsInv
<1>7. CASE Tick
  BY <1>7, TickInv
<1>8. ASSUME NEW i \in Id, NEW state \in {"active", "inactive", "no_soa", "gone"}, Change(i, state)
      PROVE  IInv'
  BY <1>8, ChangeInv
<1>9. CASE UNCHANGED vars
  BY <1>9 DEF vars, dbVars, answerVars, callVars, IInv, TypeOK, TodoInv, Tried, SCInv, LCInv, SdInv, ResultsInv,
    NameInv, SettledZone, NamesAreRight, NoLapse, ZoneOf, WithSOA, Active
<1> QED
  BY <1>1, <1>2, <1>3, <1>4, <1>5, <1>6, <1>7, <1>8, <1>9 DEF Next

\* The inductive invariant holds in every reachable state.
THEOREM Invariant == Spec => []IInv
  BY InitInv, NextInv, PTL DEF Spec

\* Type correctness: no entry of the two caches reaches its timeout.
THEOREM TypeCorrect == Spec => []TypeOK
  BY Invariant, PTL DEF IInv

\* When the zones have been left alone for both timeouts, a name is answered
\* from the longest zone it is in (wpmetabackend.cc:276, 405, 463).
THEOREM Settles == Spec => []SettledZone
  BY Invariant, PTL DEF IInv

\* get() returns rows of the zone the call found, but after an exception
\* (wpmetabackend.cc:151, 193, 508, 596).
THEOREM OwnZone == Spec => []AnswersAreOfTheZone
<1>1. IInv => AnswersAreOfTheZone
  BY DEF IInv, ResultsInv, AnswersAreOfTheZone
<1> QED
  BY <1>1, Invariant, PTL

\* An answer bears the name that was asked for, or in a transfer that of its row
\* (wpmetabackend.cc:603-612).
THEOREM RightNames == Spec => []NamesAreRight
  BY Invariant, PTL DEF IInv

-----------------------------------------------------------------------------
(* The share of a row *)

RowsOf(r) == {k \in DOMAIN m_results : m_results[k].row = r}

HasShare(r) ==
  \/ RowsOf(r) = {}
  \/ /\ \E k \in RowsOf(r) : RowsOf(r) = k .. k + Share(Pool[r.house]) - 1
     /\ \E f \in [RowsOf(r) -> DOMAIN Pool[r.house].content] :
          /\ \A j, k \in RowsOf(r) : f[j] = f[k] => j = k
          /\ \A k \in RowsOf(r) : m_results[k].content = Pool[r.house].content[f[k]]

\* Rows are prepared one after the other, and a row that is left has nothing yet.
ShareInv ==
  /\ phase = "prepare" => \A r \in left : RowsOf(r) = {}
  /\ phase = "prepare" \/ (phase = "get" /\ given = Nothing /\ zone # NoId) =>
       \A r \in Record : HasShare(r)

\* What is appended of a pool is the share of its row.
LEMMA OneShare ==
  ASSUME TypeOK, zone \in Id, NEW r \in Record, NEW c \in FromPool(r.house), RowsOf(r) = {},
         m_results' = m_results \o Entries(r, c)
  PROVE  HasShare(r)'
<1> DEFINE p == Pool[r.house]
           n == Len(p.content)
           l == Len(m_results)
<1>1. Share(p) \in 0 .. n /\ n \in Nat /\ p.content \in Seq(Content)
  BY PoolOrder
<1>0. PICK f : IsOrder(f, p, c)
  BY PoolOrder
<1>2. /\ f \in [1 .. n -> 1 .. n] /\ \A i, j \in 1 .. n : i # j => f[i] # f[j]
      /\ c = [i \in 1 .. Share(p) |-> p.content[f[i]]]
  BY <1>0 DEF IsOrder
<1>3. c \in Seq(Content) /\ DOMAIN c = 1 .. Share(p) /\ Len(c) = Share(p)
  <2>1. c \in Seq(Content)
    BY PoolContents
  <2>2. Share(p) \in Nat
    BY <1>1
  <2>3. DOMAIN c = 1 .. Share(p)
    BY <1>2
  <2> QED
    BY <2>1, <2>2, <2>3
<1>4. /\ Entries(r, c) \in Seq(Entry) /\ DOMAIN Entries(r, c) = DOMAIN c
      /\ \A k \in DOMAIN c : Entries(r, c)[k] = [zone |-> zone, row |-> r, content |-> c[k]]
  BY <1>3, EntriesType
<1>5. m_results \in Seq(Entry) /\ l \in Nat /\ DOMAIN m_results = 1 .. l
  BY DEF TypeOK
<1>6. /\ DOMAIN m_results' = 1 .. l + Share(p)
      /\ \A k \in 1 .. l : m_results'[k] = m_results[k]
      /\ \A k \in 1 .. Share(p) : m_results'[l + k] = Entries(r, c)[k]
  <2>1. Len(Entries(r, c)) = Share(p)
    BY <1>1, <1>3, <1>4
  <2> HIDE DEF p, l
  <2> QED
    BY <1>1, <1>3, <1>4, <1>5, <2>1 DEF l
<1>7. RowsOf(r)' = l + 1 .. l + Share(p)
  <2>1. \A k \in 1 .. l : m_results'[k].row # r
    BY <1>5, <1>6 DEF RowsOf
  <2>2. ASSUME NEW k \in 1 .. Share(p)
        PROVE  m_results'[l + k].row = r
    <3>1. m_results'[l + k] = [zone |-> zone, row |-> r, content |-> c[k]]
      BY <1>3, <1>4, <1>6
    <3> QED
      BY <3>1
  <2>3. \A k \in l + 1 .. l + Share(p) : k - l \in 1 .. Share(p) /\ k = l + (k - l)
    BY <1>1, <1>5
  <2>4. \A k \in l + 1 .. l + Share(p) : m_results'[k].row = r
    BY <2>2, <2>3
  <2>5. \A k \in 1 .. l + Share(p) : k \in 1 .. l \/ k \in l + 1 .. l + Share(p)
    BY <1>1, <1>5
  <2>6. \A k \in l + 1 .. l + Share(p) : k \in 1 .. l + Share(p)
    BY <1>1, <1>5
  <2> HIDE DEF l, p
  <2> QED
    BY <1>6, <2>1, <2>4, <2>5, <2>6 DEF RowsOf
<1>8. \A k \in RowsOf(r)' : k - l \in 1 .. Share(p) /\ m_results'[k].content = p.content[f[k - l]]
  <2>1. \A k \in RowsOf(r)' : k - l \in 1 .. Share(p) /\ k = l + (k - l)
    BY <1>1, <1>5, <1>7
  <2>2. ASSUME NEW k \in 1 .. Share(p)
        PROVE  m_results'[l + k].content = p.content[f[k]]
    <3>1. m_results'[l + k] = [zone |-> zone, row |-> r, content |-> c[k]]
      BY <1>3, <1>4, <1>6
    <3>2. c[k] = p.content[f[k]]
      BY <1>2
    <3> QED
      BY <3>1, <3>2
  <2> QED
    BY <2>1, <2>2
<1>9. \A k \in 1 .. Share(p) : k \in 1 .. n /\ f[k] \in DOMAIN p.content
  <2>1. \A k \in 1 .. Share(p) : k \in 1 .. n
    BY <1>1
  <2>2. DOMAIN p.content = 1 .. n
    BY <1>1
  <2> QED
    BY <1>2, <2>1, <2>2
<1>10. \E g \in [RowsOf(r)' -> DOMAIN p.content] :
         /\ \A j, k \in RowsOf(r)' : g[j] = g[k] => j = k
         /\ \A k \in RowsOf(r)' : m_results'[k].content = p.content[g[k]]
  <2> DEFINE g == [k \in RowsOf(r)' |-> f[k - l]]
  <2>1. g \in [RowsOf(r)' -> DOMAIN p.content]
    BY <1>8, <1>9
  <2>2. ASSUME NEW j \in RowsOf(r)', NEW k \in RowsOf(r)', j # k
        PROVE  g[j] # g[k]
    <3>1. j - l \in 1 .. Share(p) /\ k - l \in 1 .. Share(p) /\ j - l # k - l
      BY <1>5, <1>7, <1>8, <2>2
    <3>2. f[j - l] # f[k - l]
      BY <1>2, <1>9, <3>1
    <3> QED
      BY <3>2
  <2>3. \A k \in RowsOf(r)' : m_results'[k].content = p.content[g[k]]
    BY <1>8
  <2> HIDE DEF g
  <2> QED
    BY <2>1, <2>2, <2>3
<1>12. RowsOf(r)' = {} \/ \E k \in RowsOf(r)' : RowsOf(r)' = k .. k + Share(p) - 1
  <2>1. CASE Share(p) = 0
    BY <1>5, <1>7, <2>1
  <2>2. CASE Share(p) # 0
    <3>1. Share(p) \in Nat /\ Share(p) # 0 /\ l \in Nat
      BY <1>1, <1>5, <2>2
    <3> HIDE DEF l, p
    <3>2. l + 1 \in l + 1 .. l + Share(p) /\ l + Share(p) = (l + 1) + Share(p) - 1
      BY <3>1
    <3> QED
      BY <1>7, <3>2
  <2> QED
    BY <2>1, <2>2
<1> QED
  BY <1>10, <1>12 DEF HasShare

\* A share that is where it was is a share.
LEMMA ShareKept ==
  ASSUME NEW q, HasShare(q), RowsOf(q)' = RowsOf(q), \A k \in RowsOf(q) : m_results'[k] = m_results[k]
  PROVE  HasShare(q)'
  BY DEF HasShare

\* What is appended for another row leaves a share as it is.
LEMMA OtherShare ==
  ASSUME TypeOK, zone \in Id, NEW r \in Record, NEW c \in Seq(Content), NEW q \in Record, q # r,
         m_results' = m_results \o Entries(r, c)
  PROVE  RowsOf(q)' = RowsOf(q) /\ \A k \in RowsOf(q) : m_results'[k] = m_results[k]
<1> DEFINE l == Len(m_results)
<1>1. m_results \in Seq(Entry) /\ l \in Nat /\ DOMAIN m_results = 1 .. l
  BY DEF TypeOK
<1>2. /\ Entries(r, c) \in Seq(Entry) /\ DOMAIN Entries(r, c) = DOMAIN c
      /\ \A k \in DOMAIN c : Entries(r, c)[k] = [zone |-> zone, row |-> r, content |-> c[k]]
  BY EntriesType
<1>3. \A k \in DOMAIN Entries(r, c) : Entries(r, c)[k].row = r
  BY <1>2
<1>4. /\ \A k \in DOMAIN m_results : k \in DOMAIN m_results' /\ m_results'[k] = m_results[k]
      /\ \A k \in DOMAIN m_results' : k \notin DOMAIN m_results =>
           k - l \in DOMAIN Entries(r, c) /\ m_results'[k] = Entries(r, c)[k - l]
  BY <1>1, <1>2
<1> HIDE DEF l
<1> QED
  BY <1>3, <1>4 DEF RowsOf

LEMMA ShareNext == IInv /\ ShareInv /\ [Next]_vars => ShareInv'
<1> SUFFICES ASSUME IInv, ShareInv, [Next]_vars PROVE ShareInv'
  OBVIOUS
<1>1. ASSUME phase' \notin {"prepare", "get"} PROVE ShareInv'
  BY <1>1 DEF ShareInv
<1>2. ASSUME NEW i, Prepare(i) PROVE ShareInv'
  <2>1. m_results' = << >> /\ phase' = "prepare"
    BY <1>2 DEF Prepare
  <2>2. DOMAIN m_results' = {}
    BY <2>1
  <2>3. \A r : RowsOf(r)' = {}
    BY <2>2 DEF RowsOf
  <2> QED
    BY <2>1, <2>3 DEF ShareInv, HasShare
<1>3. ASSUME NEW r \in Record, PrepareRow(r) PROVE ShareInv'
  <2> USE <1>3 DEF PrepareRow
  <2>1. PICK c \in FromPool(r.house) \cup {<< >>} : m_results' = m_results \o Entries(r, c)
    OBVIOUS
  <2>2. /\ phase = "prepare" /\ phase' = "prepare" /\ zone \in Id /\ left \subseteq Record /\ TypeOK
        /\ RowsOf(r) = {} /\ left' = left \ {r} /\ c \in Seq(Content)
    BY PoolContents DEF IInv, TypeOK, ShareInv
  <2>3. ASSUME NEW q \in Record, q # r
        PROVE  HasShare(q)' /\ (q \in left => RowsOf(q)' = {})
    <3>1. RowsOf(q)' = RowsOf(q) /\ \A k \in RowsOf(q) : m_results'[k] = m_results[k]
      BY <2>1, <2>2, <2>3, OtherShare
    <3>2. HasShare(q) /\ (q \in left => RowsOf(q) = {})
      BY <2>2 DEF ShareInv
    <3>3. HasShare(q)'
      BY <3>1, <3>2, ShareKept
    <3> QED
      BY <3>1, <3>2, <3>3
  <2>4. HasShare(r)'
    <3>1. CASE c \in FromPool(r.house)
      BY <2>1, <2>2, <3>1, OneShare
    <3>2. CASE c = << >>
      <4>1. m_results \in Seq(Entry) /\ Entries(r, << >>) = << >>
        BY DEF IInv, TypeOK, Entries
      <4>2. m_results' = m_results
        BY <2>1, <3>2, <4>1
      <4> QED
        BY <2>2, <4>2 DEF HasShare, RowsOf
    <3> QED
      BY <3>1, <3>2
  <2> QED
    BY <2>2, <2>3, <2>4 DEF ShareInv
<1>4. CASE Prepared
  <2>1. phase = "prepare" /\ phase' = "get" /\ m_results' = m_results
    BY <1>4 DEF Prepared
  <2>2. \A r \in Record : HasShare(r) /\ RowsOf(r)' = RowsOf(r)
    BY <2>1 DEF ShareInv, RowsOf
  <2> QED
    BY <2>1, <2>2 DEF ShareInv, HasShare
<1>5. CASE Get
  <2>1. given' = [name |-> Named(Head(m_results).row), entry |-> Head(m_results)] /\ phase' = "get"
    BY <1>5 DEF Get, callVars
  <2>2. "name" \in DOMAIN given'
    BY <2>1
  <2>3. given' # Nothing
    BY <2>2 DEF Nothing
  <2> QED
    BY <2>1, <2>3 DEF ShareInv
<1>6. CASE LookupAnywhere
  <2>1. CASE \E i \in Active(Head(todo)) : LookupIn(i)
    BY <1>2, <2>1 DEF LookupIn
  <2>2. CASE phase' = "get" /\ UNCHANGED zone
    BY <1>6, <2>2 DEF LookupAnywhere, ShareInv, IInv, ResultsInv
  <2>3. CASE phase' = "lookup"
    BY <1>1, <2>3
  <2> QED
    BY <1>6, <2>1, <2>2, <2>3 DEF LookupAnywhere
<1>7. CASE UNCHANGED <<phase, m_results, left, given, zone>>
  <2>1. \A r \in Record : RowsOf(r)' = RowsOf(r)
    BY <1>7 DEF RowsOf
  <2>2. \A r \in Record : HasShare(r) => HasShare(r)'
    BY <1>7, <2>1 DEF HasShare
  <2>3. left' = left /\ phase' = phase /\ given' = given /\ zone' = zone
    BY <1>7
  <2>4. phase = "prepare" => left \subseteq Record
    BY DEF IInv, TypeOK
  <2> QED
    BY <2>1, <2>2, <2>3, <2>4 DEF ShareInv
<1>8. CASE LookupCached \/ LookupById \/ List
  BY <1>2, <1>8 DEF LookupCached, LookupById, List, LookupIn
<1>9. CASE GetSOA
  BY <1>1, <1>9 DEF GetSOA, FoundSOA
<1>10. ASSUME NEW n \in Name, Ask(n) \/ AskAnywhere(n) PROVE ShareInv'
  BY <1>1, <1>10 DEF Ask, AskAnywhere
<1>11. ASSUME NEW z \in Zone, AskTransfer(z) PROVE ShareInv'
  BY <1>1, <1>11 DEF AskTransfer
<1>12. CASE Done \/ LookupThrows \/ QueryFails \/ PrepareFails
  BY <1>1, <1>12 DEF Done, LookupThrows, QueryFails, PrepareFails, End
<1>13. ASSUME NEW i \in Id, NEW state \in {"active", "inactive", "no_soa", "gone"}, Change(i, state)
       PROVE  ShareInv'
  BY <1>7, <1>13 DEF Change, answerVars, callVars
<1>14. CASE Tick
  BY <1>7, <1>14 DEF Tick, answerVars, callVars
<1>15. CASE UNCHANGED vars
  BY <1>7, <1>15 DEF vars, answerVars, callVars
<1> QED
  BY <1>3, <1>4, <1>5, <1>6, <1>8, <1>9, <1>10, <1>11, <1>12, <1>13, <1>14, <1>15 DEF Next

\* A row is answered with its share of its pool, no row of the pool twice,
\* whatever order was drawn and whatever the pool holds (wpmetabackend.cc:91-115).
THEOREM EachShare == Spec => []EachRowHasItsShare
<1>1. Init => ShareInv
  BY DEF Init, ShareInv
<1>2. ShareInv => EachRowHasItsShare
  BY DEF ShareInv, EachRowHasItsShare, HasShare, RowsOf
<1> QED
  BY <1>1, <1>2, ShareNext, Invariant, PTL DEF Spec

=============================================================================
