---------------------------- MODULE LookupProofs ----------------------------
(* Theorems of module Lookup, for every table, timeout and list of candidates. *)
EXTENDS Lookup, TLAPS, SequenceTheorems

\* An entry of the record cache is at least as good as the table was at its age.
RecordsAsOld ==
  \A f \in DOMAIN m_RC : unchanged > m_RC[f][2] =>
    /\ m_RC[f][1] \subseteq Select(record, f)
    /\ whole > m_RC[f][2] => m_RC[f][1] = Select(record, f)

\* An entry of the lookup cache names the owner the table had at its age.
LookupsAsOld ==
  \A q \in DOMAIN m_LC : unchanged > m_LC[q][2] /\ whole > m_LC[q][2] =>
    OwnerOf(record, q, m_LC[q][1])

\* The loop of lookup() has found no rows for the candidates before those to try.
TriedInVain ==
  phase = "resolve" =>
    LET c == Candidates[asked[1]]
    IN  \E k \in 1 .. Len(c) :
          /\ todo = SubSeq(c, k, Len(c))
          /\ unchanged > 0 /\ whole > 0 =>
               \A i \in 1 .. k - 1 : Select(record, <<c[i], asked[2]>>) = {}

\* The owner a lookup goes by is no older than the lookup cache allows.
OwnerAsOld ==
  phase \in {"reload", "prepare"} /\ unchanged >= LOOKUP_TIMEOUT /\ whole >= LOOKUP_TIMEOUT =>
    OwnerOf(record, asked, found)

\* Nothing in the record cache is younger than the loss of the connection.
NoneSinceClosed ==
  ~ m_connected =>
    /\ \A f \in DOMAIN m_RC : closed_for <= m_RC[f][2]
    /\ phase = "prepare" => closed_for < RECORDS_TIMEOUT

IInv ==
  /\ TypeOK /\ RecordsAsOld /\ LookupsAsOld /\ TriedInVain
  /\ OwnerAsOld /\ RowsAreRecent /\ NoneSinceClosed

-----------------------------------------------------------------------------
(* Lemmas *)

\* Storing an entry of age 0 keeps a cache of its type.
LEMMA StoreType ==
  ASSUME NEW cache, NEW Key, NEW Value, NEW timeout \in Nat \ {0},
         Cached(cache, Key, Value, timeout), NEW key \in Key, NEW v \in Value
  PROVE  Cached(Store(cache, key, <<v, 0>>), Key, Value, timeout)
BY DEF Cached, Store

\* A tick keeps a cache of its type: what reaches its timeout leaves.
LEMMA AgedType ==
  ASSUME NEW cache, NEW Key, NEW Value, NEW timeout \in Nat \ {0},
         Cached(cache, Key, Value, timeout)
  PROVE  /\ Cached(Aged(cache, timeout - 1), Key, Value, timeout)
         /\ \A k \in DOMAIN Aged(cache, timeout - 1) :
              /\ k \in DOMAIN cache
              /\ Aged(cache, timeout - 1)[k] = <<cache[k][1], cache[k][2] + 1>>
              /\ cache[k][2] \in Nat /\ cache[k][2] + 1 < timeout
<1> DEFINE aged == Aged(cache, timeout - 1)
<1>1. ASSUME NEW k \in DOMAIN aged
      PROVE  /\ k \in DOMAIN cache /\ aged[k] = <<cache[k][1], cache[k][2] + 1>>
             /\ cache[k][2] < timeout - 1
  BY DEF Aged
<1>2. ASSUME NEW k \in DOMAIN cache
      PROVE  k \in Key /\ cache[k][1] \in Value /\ cache[k][2] \in 0 .. timeout - 1
  BY DEF Cached
<1>3. ASSUME NEW k \in DOMAIN aged
      PROVE  k \in Key /\ aged[k] \in Value \X (0 .. timeout - 1)
  <2>1. cache[k][2] + 1 \in 0 .. timeout - 1
    BY <1>1, <1>2
  <2> QED BY <1>1, <1>2, <2>1
<1>4. Cached(aged, Key, Value, timeout)
  BY <1>3 DEF Cached
<1> HIDE DEF aged
<1>5. ASSUME NEW k \in DOMAIN aged
      PROVE  cache[k][2] \in Nat /\ cache[k][2] + 1 < timeout
  BY <1>1, <1>2
<1> QED BY <1>1, <1>4, <1>5 DEF aged

\* What is left of a list from a place on: its head, and what is left after that.
LEMMA Suffix ==
  ASSUME NEW S, NEW c \in Seq(S), NEW k \in 1 .. Len(c)
  PROVE  LET s == SubSeq(c, k, Len(c))
         IN  /\ s \in Seq(S) /\ s # << >> /\ Head(s) = c[k]
             /\ Tail(s) # << >> => k + 1 \in 1 .. Len(c) /\ Tail(s) = SubSeq(c, k + 1, Len(c))
             /\ Tail(s) = << >> => k = Len(c)
<1> DEFINE s == SubSeq(c, k, Len(c))
<1>1. s \in Seq(S) /\ Len(s) = Len(c) - k + 1 /\ \A i \in 1 .. Len(c) - k + 1 : s[i] = c[k + i - 1]
  BY SubSeqProperties
<1> HIDE DEF s
<1>2. s # << >> /\ Head(s) = c[k]
  <2>1. Len(s) > 0 /\ 1 \in 1 .. Len(c) - k + 1
    BY <1>1
  <2>2. s # << >> /\ Head(s) = s[1]
    BY <1>1, <2>1
  <2> QED BY <1>1, <2>1, <2>2
<1>3. Tail(s) \in Seq(S) /\ Len(Tail(s)) = Len(c) - k /\ \A i \in 1 .. Len(c) - k : Tail(s)[i] = c[k + i]
  BY <1>1, <1>2, HeadTailProperties
<1>4. Tail(s) = << >> => k = Len(c)
  <2>1. Len(c) \in Nat /\ k \in Int
    OBVIOUS
  <2>2. Tail(s) = << >> => Len(Tail(s)) = 0
    BY EmptySeq, Zenon
  <2> QED BY <1>3, <2>1, <2>2
<1>5. ASSUME Tail(s) # << >>
      PROVE  k + 1 \in 1 .. Len(c) /\ Tail(s) = SubSeq(c, k + 1, Len(c))
  <2>1. k + 1 \in 1 .. Len(c)
    BY <1>3, <1>5
  <2>2. /\ SubSeq(c, k + 1, Len(c)) \in Seq(S)
        /\ Len(SubSeq(c, k + 1, Len(c))) = Len(c) - k
        /\ \A i \in 1 .. Len(c) - k : SubSeq(c, k + 1, Len(c))[i] = c[k + i]
    BY <2>1, SubSeqProperties
  <2> QED BY <1>3, <2>1, <2>2, SeqEqual
<1> QED BY <1>1, <1>2, <1>4, <1>5 DEF s

\* The whole list is what is left from its first place on.
LEMMA WholeSuffix ==
  ASSUME NEW S, NEW c \in Seq(S), c # << >>
  PROVE  1 \in 1 .. Len(c) /\ SubSeq(c, 1, Len(c)) = c
<1>1. 1 \in 1 .. Len(c)
  OBVIOUS
<1>2. /\ SubSeq(c, 1, Len(c)) \in Seq(S) /\ Len(SubSeq(c, 1, Len(c))) = Len(c)
      /\ \A i \in 1 .. Len(c) : SubSeq(c, 1, Len(c))[i] = c[i]
  BY <1>1, SubSeqProperties
<1> QED BY <1>1, <1>2, SeqEqual

\* What the assumptions say of a question.
LEMMA Questions ==
  ASSUME NEW q \in Question
  PROVE  /\ q[1] \in Name /\ q[2] \in Type \cup {ANY}
         /\ Candidates[q[1]] \in Seq(Owner) /\ Candidates[q[1]] # << >>
         /\ Candidates[q[1]][1] \in Owner
         /\ \A o \in Owner : <<o, q[2]>> \in Fields
<1>1. q[1] \in Name /\ q[2] \in Type \cup {ANY}
  BY LookupAssumption
<1>2. Candidates[q[1]] \in Seq(Owner) /\ Candidates[q[1]] # << >>
  BY <1>1, LookupAssumption
<1>3. Candidates[q[1]][1] \in Owner
  BY <1>2
<1> QED BY <1>1, <1>2, <1>3 DEF Fields

\* What is said of a cache stays true while it and the table are let alone, though
\* a result may be cut short.
LEMMA CachesKept ==
  ASSUME IInv, UNCHANGED <<record, unchanged>>, whole' \in {whole, 0}
  PROVE  /\ UNCHANGED m_RC => RecordsAsOld'
         /\ UNCHANGED m_LC => LookupsAsOld'
<1>1. ASSUME UNCHANGED m_RC
      PROVE  RecordsAsOld'
  <2>1. \A f \in DOMAIN m_RC : m_RC[f][2] \in Nat
    BY DEF IInv, TypeOK, Cached
  <2>2. \A f \in DOMAIN m_RC : whole' > m_RC[f][2] => whole > m_RC[f][2]
    BY <2>1
  <2> QED BY <1>1, <2>2 DEF IInv, RecordsAsOld, Select
<1>2. ASSUME UNCHANGED m_LC
      PROVE  LookupsAsOld'
  <2>1. \A q \in DOMAIN m_LC : m_LC[q][2] \in Nat
    BY DEF IInv, TypeOK, Cached
  <2>2. \A q \in DOMAIN m_LC : whole' > m_LC[q][2] => whole > m_LC[q][2]
    BY <2>1
  <2> QED BY <1>2, <2>2 DEF IInv, LookupsAsOld
<1> QED BY <1>1, <1>2

-----------------------------------------------------------------------------
(* The invariant is inductive *)

\* A new backend has empty caches and no lookup.
LEMMA InitIInv == Init => IInv
<1> SUFFICES ASSUME Init PROVE IInv
  OBVIOUS
<1> USE DEF Init
<1>1. DOMAIN m_LC = {} /\ DOMAIN m_RC = {} /\ DOMAIN m_HC = {}
  OBVIOUS
<1>2. TypeOK
  <2>1. << >> \in Seq(Owner)
    OBVIOUS
  <2> QED BY <1>1, <2>1, LookupAssumption DEF TypeOK, Cached
<1> QED BY <1>1, <1>2 DEF IInv, RecordsAsOld, LookupsAsOld, TriedInVain, OwnerAsOld, RowsAreRecent, NoneSinceClosed

\* A lookup served from the caches is as old as its entries; another tries all.
LEMMA AskIInv ==
  ASSUME IInv, NEW q \in Question, Ask(q)
  PROVE  IInv'
<1> USE DEF IInv, dbVars, cacheVars
<1>0. /\ phase = "idle" /\ asked' = q
      /\ UNCHANGED <<record, reachable, unchanged, m_connected, m_LC, m_RC, m_HC, whole, closed_for>>
  BY DEF Ask
<1>1. CASE q \in DOMAIN m_LC /\ <<m_LC[q][1], q[2]>> \in DOMAIN m_RC
  <2> DEFINE f == <<m_LC[q][1], q[2]>>
  <2>1. /\ phase' = "prepare" /\ found' = m_LC[q][1] /\ todo' = << >>
        /\ rows' = m_RC[f][1] /\ left' = m_RC[f][1]
    BY <1>1 DEF Ask, Prepare
  <2>2. /\ m_LC[q][1] \in Owner /\ m_LC[q][2] \in 0 .. LOOKUP_TIMEOUT - 1
        /\ m_RC[f][1] \in SUBSET Record /\ m_RC[f][2] \in 0 .. RECORDS_TIMEOUT - 1
    BY <1>1 DEF TypeOK, Cached
  <2> HIDE DEF f
  <2>3. TypeOK'
    BY <1>0, <2>1, <2>2 DEF TypeOK
  <2>4. RecordsAsOld' /\ LookupsAsOld' /\ TriedInVain'
    <3>1. RecordsAsOld' /\ LookupsAsOld'
      BY <1>0, CachesKept
    <3>2. TriedInVain'
      BY <2>1 DEF TriedInVain
    <3> QED BY <3>1, <3>2
  <2>5. OwnerAsOld'
    <3>1. phase' = "prepare" /\ found' = m_LC[q][1]
      BY <2>1
    <3>2. m_LC[q][2] \in 0 .. LOOKUP_TIMEOUT - 1
      BY <2>2
    <3> QED BY <1>0, <1>1, <3>1, <3>2, LookupAssumption DEF OwnerAsOld, LookupsAsOld, TypeOK
  <2>6. RowsAreRecent'
    <3>1. /\ f \in DOMAIN m_RC /\ f = <<found', asked'[2]>> /\ rows' = m_RC[f][1]
          /\ UNCHANGED <<record, unchanged, whole>>
      BY <1>0, <1>1, <2>1 DEF f
    <3>2. /\ unchanged' >= RECORDS_TIMEOUT => unchanged > m_RC[f][2]
          /\ whole' >= RECORDS_TIMEOUT => whole > m_RC[f][2]
      BY <2>2, <3>1, LookupAssumption DEF TypeOK
    <3>3. unchanged' >= RECORDS_TIMEOUT =>
            /\ rows' \subseteq Select(record, f)
            /\ whole' >= RECORDS_TIMEOUT => rows' = Select(record, f)
      BY <3>1, <3>2 DEF RecordsAsOld
    <3> QED BY <3>1, <3>3 DEF RowsAreRecent, Select
  <2>7. NoneSinceClosed'
    <3>1. f \in DOMAIN m_RC /\ m_RC[f][2] < RECORDS_TIMEOUT
      BY <1>1, <2>2, LookupAssumption DEF f
    <3>2. ~ m_connected => closed_for < RECORDS_TIMEOUT
      BY <2>2, <3>1, LookupAssumption DEF NoneSinceClosed, TypeOK
    <3> QED BY <1>0, <3>2 DEF NoneSinceClosed
  <2> QED BY <2>3, <2>4, <2>5, <2>6, <2>7
<1>2. CASE q \in DOMAIN m_LC /\ <<m_LC[q][1], q[2]>> \notin DOMAIN m_RC
  <2>1. phase' = "reload" /\ found' = m_LC[q][1] /\ todo' = << >> /\ UNCHANGED <<rows, left>>
    BY <1>2 DEF Ask
  <2>2. m_LC[q][1] \in Owner /\ m_LC[q][2] \in 0 .. LOOKUP_TIMEOUT - 1
    BY <1>2 DEF TypeOK, Cached
  <2>3. TypeOK'
    BY <1>0, <2>1, <2>2 DEF TypeOK
  <2>4. OwnerAsOld'
    BY <1>0, <1>2, <2>1, <2>2, LookupAssumption DEF OwnerAsOld, LookupsAsOld, TypeOK
  <2>5. RecordsAsOld' /\ LookupsAsOld' /\ TriedInVain' /\ RowsAreRecent' /\ NoneSinceClosed'
    <3>1. RecordsAsOld' /\ LookupsAsOld'
      BY <1>0, CachesKept
    <3>2. TriedInVain' /\ RowsAreRecent' /\ NoneSinceClosed'
      BY <1>0, <2>1 DEF TriedInVain, RowsAreRecent, NoneSinceClosed
    <3> QED BY <3>1, <3>2
  <2> QED BY <2>3, <2>4, <2>5
<1>3. CASE q \notin DOMAIN m_LC
  <2>1. phase' = "resolve" /\ todo' = Candidates[q[1]] /\ UNCHANGED <<found, rows, left>>
    BY <1>3 DEF Ask
  <2>2. TypeOK'
    BY <1>0, <2>1, Questions DEF TypeOK
  <2>3. TriedInVain'
    <3> DEFINE c == Candidates[q[1]]
    <3>1. 1 \in 1 .. Len(c) /\ SubSeq(c, 1, Len(c)) = c
      BY Questions, WholeSuffix
    <3>2. \A i \in 1 .. 1 - 1 : Select(record, <<c[i], q[2]>>)' = {}
      OBVIOUS
    <3> QED BY <1>0, <2>1, <3>1, <3>2 DEF TriedInVain
  <2>4. RecordsAsOld' /\ LookupsAsOld' /\ OwnerAsOld' /\ RowsAreRecent' /\ NoneSinceClosed'
    <3>1. RecordsAsOld' /\ LookupsAsOld'
      BY <1>0, CachesKept
    <3>2. OwnerAsOld' /\ RowsAreRecent' /\ NoneSinceClosed'
      BY <1>0, <2>1 DEF OwnerAsOld, RowsAreRecent, NoneSinceClosed
    <3> QED BY <3>1, <3>2
  <2> QED BY <2>2, <2>3, <2>4
<1> QED BY <1>1, <1>2, <1>3

\* Old entries are not disturbed by an entry for what has just been read.
LEMMA FetchedRecords ==
  ASSUME IInv, NEW f \in Fields, NEW g \in Fields, NEW selected, Fetch(f, selected),
         UNCHANGED <<record, unchanged>>,
         unchanged > 0 => selected \subseteq Select(record, g),
         unchanged > 0 /\ whole' > 0 => selected = Select(record, g),
         m_RC' = Store(m_RC, g, <<selected, 0>>)
  PROVE  RecordsAsOld' /\ Cached(m_RC, Fields, SUBSET Record, RECORDS_TIMEOUT)'
<1>1. Cached(m_RC, Fields, SUBSET Record, RECORDS_TIMEOUT)'
  <2>1. selected \in SUBSET Record
    BY DEF IInv, TypeOK, Fetch, Select
  <2> QED BY <2>1, StoreType, LookupAssumption DEF IInv, TypeOK
<1>2. whole' \in {whole, 0}
  BY DEF Fetch
<1>3. ASSUME NEW e \in DOMAIN m_RC', unchanged > m_RC'[e][2]
      PROVE  /\ m_RC'[e][1] \subseteq Select(record, e)
             /\ whole' > m_RC'[e][2] => m_RC'[e][1] = Select(record, e)
  <2>1. CASE e = g
    BY <1>3, <2>1 DEF Store
  <2>2. CASE e # g
    <3>1. e \in DOMAIN m_RC /\ m_RC'[e] = m_RC[e] /\ m_RC[e][2] \in Nat
      BY <2>2 DEF Store, IInv, TypeOK, Cached
    <3> QED BY <1>2, <1>3, <3>1 DEF IInv, RecordsAsOld
  <2> QED BY <2>1, <2>2
<1>4. RecordsAsOld'
  BY <1>3 DEF RecordsAsOld, Select
<1> QED BY <1>1, <1>4

\* A query that fails leaves the caches and takes note of the loss.
LEMMA UnansweredIInv ==
  ASSUME IInv, phase \in {"reload", "resolve"}, Unanswered
  PROVE  IInv'
<1> USE DEF IInv
<1>1. /\ m_connected' = FALSE /\ phase' = "failed" /\ closed_for' \in {0, closed_for}
      /\ UNCHANGED <<record, reachable, unchanged, m_LC, m_RC, m_HC, asked, found, todo, rows, left, whole>>
  BY DEF Unanswered, Fail, dbVars, cacheVars
<1>2. m_connected => closed_for' = 0
  BY DEF Unanswered
<1>3. TypeOK'
  <2>1. asked' \in Question /\ closed_for' \in 0 .. RECORDS_TIMEOUT
    BY <1>1, LookupAssumption DEF TypeOK
  <2> QED BY <1>1, <2>1 DEF TypeOK
<1>4. NoneSinceClosed'
  BY <1>1, <1>2 DEF NoneSinceClosed, TypeOK, Cached
<1>5. RecordsAsOld' /\ LookupsAsOld'
  BY <1>1, CachesKept
<1>6. TriedInVain' /\ OwnerAsOld' /\ RowsAreRecent'
  BY <1>1 DEF TriedInVain, OwnerAsOld, RowsAreRecent
<1> QED BY <1>3, <1>4, <1>5, <1>6

\* The rows read again are those of the owner the lookup is for.
LEMMA ReloadIInv ==
  ASSUME IInv, Reload
  PROVE  IInv'
<1> USE DEF IInv
<1>1. CASE Unanswered
  BY <1>1, UnansweredIInv DEF Reload
<1>2. CASE ~ Unanswered
  <2> DEFINE f == <<found, asked[2]>>
  <2>0. phase = "reload" /\ asked \in Question /\ found \in Owner /\ f \in Fields
    BY Questions DEF Reload, TypeOK
  <2>1. PICK selected \in SUBSET record :
          /\ Fetch(f, selected)
          /\ m_RC' = Store(m_RC, f, <<selected, 0>>)
          /\ Prepare(found, selected)
          /\ UNCHANGED <<dbVars, m_LC, m_HC, asked, todo>>
    BY <1>2 DEF Reload
  <2> HIDE DEF f
  <2>2. /\ phase' = "prepare" /\ found' = found /\ rows' = selected /\ left' = selected
        /\ UNCHANGED <<record, reachable, unchanged, m_LC, m_HC, asked, todo>>
        /\ m_connected' = TRUE /\ closed_for' = closed_for
        /\ selected \subseteq Select(record, f)
        /\ whole' = IF selected = Select(record, f) THEN whole ELSE 0
    BY <2>1 DEF Fetch, Answered, Prepare, dbVars
  <2>3. RecordsAsOld' /\ Cached(m_RC, Fields, SUBSET Record, RECORDS_TIMEOUT)'
    <3>1. UNCHANGED <<record, unchanged>>
      BY <2>2
    <3>2. whole' > 0 => selected = Select(record, f)
      BY <2>2
    <3> QED BY <2>0, <2>1, <2>2, <3>1, <3>2, FetchedRecords
  <2>4. TypeOK'
    BY <2>0, <2>2, <2>3, LookupAssumption DEF TypeOK
  <2>5. whole' \in {whole, 0}
    BY <2>2
  <2>6. LookupsAsOld'
    BY <2>2, <2>5, CachesKept
  <2>7. TriedInVain'
    BY <2>2 DEF TriedInVain
  <2>8. OwnerAsOld'
    <3>1. unchanged' >= LOOKUP_TIMEOUT /\ whole' >= LOOKUP_TIMEOUT => whole = whole'
      BY <2>5, LookupAssumption
    <3>2. OwnerOf(record, asked, found)' <=> OwnerOf(record, asked, found)
      BY <2>2
    <3> QED BY <2>0, <2>2, <3>1, <3>2 DEF OwnerAsOld
  <2>9. RowsAreRecent'
    BY <2>2, LookupAssumption DEF RowsAreRecent, f, TypeOK, Select
  <2>10. NoneSinceClosed'
    BY <2>2 DEF NoneSinceClosed
  <2> QED BY <2>3, <2>4, <2>6, <2>7, <2>8, <2>9, <2>10
<1> QED BY <1>1, <1>2

\* The candidate with rows is the first, or there is none: as far as the table
\* has not changed since the lookup began.
LEMMA ResolveIInv ==
  ASSUME IInv, Resolve
  PROVE  IInv'
<1> USE DEF IInv
<1>1. CASE Unanswered
  BY <1>1, UnansweredIInv DEF Resolve
<1>2. CASE ~ Unanswered
  <2> DEFINE c == Candidates[asked[1]]
             g == <<Head(todo), asked[2]>>
  <2>0. phase = "resolve" /\ asked \in Question
    BY DEF Resolve, TypeOK
  <2>1. PICK selected \in SUBSET record :
          /\ Fetch(g, selected)
          /\ IF selected = {} /\ Tail(todo) # << >>
               THEN todo' = Tail(todo) /\ UNCHANGED <<phase, found, rows, left, m_LC, m_RC>>
               ELSE LET o == IF selected = {} THEN NothingFound ELSE Head(todo)
                    IN  /\ m_LC' = Store(m_LC, asked, <<o, 0>>)
                        /\ m_RC' = Store(m_RC, <<o, asked[2]>>, <<selected, 0>>)
                        /\ todo' = << >>
                        /\ Prepare(o, selected)
          /\ UNCHANGED <<dbVars, m_HC, asked>>
    BY <1>2 DEF Resolve
  <2>2. /\ UNCHANGED <<record, reachable, unchanged, m_HC, asked>>
        /\ m_connected' = TRUE /\ closed_for' = closed_for
        /\ selected \subseteq Select(record, g)
        /\ whole' = IF selected = Select(record, g) THEN whole ELSE 0
    BY <2>1 DEF Fetch, Answered, dbVars
  <2>3. whole' \in {whole, 0} /\ (whole' > 0 => selected = Select(record, g) /\ whole' = whole)
    BY <2>2
  <2>4. PICK k \in 1 .. Len(c) :
          /\ todo = SubSeq(c, k, Len(c))
          /\ unchanged > 0 /\ whole > 0 =>
               \A i \in 1 .. k - 1 : Select(record, <<c[i], asked[2]>>) = {}
    BY <2>0 DEF TriedInVain
  <2>5. c \in Seq(Owner) /\ c # << >> /\ c[1] \in Owner /\ c[k] \in Owner
    BY <2>0, Questions
  <2> HIDE DEF c, g
  <2>6. /\ todo \in Seq(Owner) /\ Head(todo) = c[k] /\ Tail(todo) \in Seq(Owner)
        /\ Tail(todo) # << >> => k + 1 \in 1 .. Len(c) /\ Tail(todo) = SubSeq(c, k + 1, Len(c))
        /\ Tail(todo) = << >> => k = Len(c)
    <3>1. todo # << >> /\ todo \in Seq(Owner)
      BY <2>4, <2>5, Suffix
    <3>2. Tail(todo) \in Seq(Owner)
      BY <3>1
    <3> QED BY <2>4, <2>5, <3>1, <3>2, Suffix
  <2>7. g = <<c[k], asked[2]>> /\ NothingFound = c[1] /\ g \in Fields /\ <<c[1], asked[2]>> \in Fields
    BY <2>0, <2>5, <2>6, Questions DEF c, g, NothingFound
  <2>8. CASE selected = {} /\ Tail(todo) # << >>
    <3>1. todo' = Tail(todo) /\ UNCHANGED <<phase, found, rows, left, m_LC, m_RC>>
      BY <2>1, <2>8
    <3>2. TypeOK'
      <4>1. whole' \in 0 .. LOOKUP_TIMEOUT
        BY <2>3, LookupAssumption DEF TypeOK
      <4>2. todo' \in Seq(Owner) /\ todo' # << >> /\ phase' = "resolve" /\ asked' \in Question
        BY <2>0, <2>2, <2>6, <2>8, <3>1
      <4> QED BY <2>2, <3>1, <4>1, <4>2 DEF TypeOK
    <3>3. RecordsAsOld' /\ LookupsAsOld'
      BY <2>2, <2>3, <3>1, CachesKept
    <3>4. TriedInVain'
      <4>1. k + 1 \in 1 .. Len(c) /\ todo' = SubSeq(c, k + 1, Len(c))
        BY <2>6, <2>8, <3>1
      <4>2. ASSUME unchanged > 0, whole' > 0, NEW i \in 1 .. (k + 1) - 1
            PROVE  Select(record, <<c[i], asked[2]>>) = {}
        <5>1. CASE i = k
          BY <2>3, <2>7, <2>8, <4>2, <5>1
        <5>2. CASE i # k
          <6>1. i \in 1 .. k - 1
            BY <4>2, <5>2
          <6> QED BY <2>3, <2>4, <4>2, <6>1
        <5> QED BY <5>1, <5>2
      <4>3. \E j \in 1 .. Len(c) :
              /\ todo' = SubSeq(c, j, Len(c))
              /\ unchanged > 0 /\ whole' > 0 =>
                   \A i \in 1 .. j - 1 : Select(record, <<c[i], asked[2]>>) = {}
        BY <4>1, <4>2
      <4> QED BY <2>2, <4>3 DEF TriedInVain, Select, c
    <3>5. OwnerAsOld' /\ RowsAreRecent' /\ NoneSinceClosed'
      BY <2>0, <2>2, <3>1 DEF OwnerAsOld, RowsAreRecent, NoneSinceClosed
    <3> QED BY <3>2, <3>3, <3>4, <3>5
  <2>9. CASE ~ (selected = {} /\ Tail(todo) # << >>)
    <3> DEFINE o == IF selected = {} THEN c[1] ELSE c[k]
               f == <<o, asked[2]>>
    <3>1. /\ m_LC' = Store(m_LC, asked, <<o, 0>>) /\ m_RC' = Store(m_RC, f, <<selected, 0>>)
          /\ todo' = << >> /\ phase' = "prepare" /\ found' = o /\ rows' = selected /\ left' = selected
      BY <2>1, <2>6, <2>7, <2>9 DEF Prepare
    <3>2. o \in Owner /\ f \in Fields /\ selected \in SUBSET Record
      BY <2>5, <2>7, <2>2 DEF TypeOK, Select
    <3>3. selected \subseteq Select(record, f)
      BY <2>2, <2>7
    <3>4. ASSUME unchanged > 0, whole' > 0
          PROVE  selected = Select(record, f) /\ OwnerOf(record, asked, o)
      <4>1. selected = Select(record, <<c[k], asked[2]>>)
        BY <2>3, <2>7, <3>4
      <4>2. \A i \in 1 .. k - 1 : Select(record, <<c[i], asked[2]>>) = {}
        BY <2>3, <2>4, <3>4
      <4>3. k \in DOMAIN c /\ DOMAIN c = 1 .. Len(c)
        BY <2>4, <2>5
      <4>4. CASE selected # {}
        BY <4>1, <4>2, <4>3, <4>4 DEF OwnerOf, c
      <4>5. CASE selected = {}
        <5>1. k = Len(c)
          BY <2>6, <2>9, <4>5
        <5>2. \A i \in 1 .. Len(c) : Select(record, <<c[i], asked[2]>>) = {}
          BY <2>4, <4>1, <4>2, <4>5, <5>1
        <5>3. 1 \in 1 .. Len(c)
          BY <2>4
        <5>4. o = c[1] /\ selected = Select(record, f)
          BY <4>5, <5>2, <5>3
        <5> QED BY <4>3, <5>2, <5>4 DEF OwnerOf, c
      <4> QED BY <4>4, <4>5, <4>1
    <3> HIDE DEF o, f
    <3>5. RecordsAsOld' /\ Cached(m_RC, Fields, SUBSET Record, RECORDS_TIMEOUT)'
      <4>1. unchanged > 0 /\ whole' > 0 => selected = Select(record, f)
        BY <3>4
      <4> QED BY <2>1, <2>2, <2>7, <3>1, <3>2, <3>3, <4>1, FetchedRecords
    <3>6. TypeOK'
      <4>1. Cached(m_LC, Question, Owner, LOOKUP_TIMEOUT)'
        <5>1. LOOKUP_TIMEOUT \in Nat \ {0}
          BY LookupAssumption
        <5>2. Cached(m_LC, Question, Owner, LOOKUP_TIMEOUT)
          BY DEF TypeOK
        <5> QED BY <2>0, <3>1, <3>2, <5>1, <5>2, StoreType
      <4> QED BY <2>0, <2>2, <2>3, <3>1, <3>2, <3>5, <4>1, LookupAssumption DEF TypeOK
    <3>7. LookupsAsOld'
      <4>1. ASSUME NEW q \in DOMAIN m_LC', unchanged > m_LC'[q][2], whole' > m_LC'[q][2]
            PROVE  OwnerOf(record, q, m_LC'[q][1])
        <5>1. CASE q = asked
          BY <3>1, <3>4, <4>1, <5>1 DEF Store
        <5>2. CASE q # asked
          <6>1. q \in DOMAIN m_LC /\ m_LC'[q] = m_LC[q] /\ m_LC[q][2] \in Nat
            BY <3>1, <5>2 DEF Store, TypeOK, Cached
          <6> QED BY <2>3, <4>1, <6>1 DEF LookupsAsOld
        <5> QED BY <5>1, <5>2
      <4> QED BY <2>2, <4>1 DEF LookupsAsOld
    <3>8. OwnerAsOld' /\ RowsAreRecent'
      <4>1. f = <<found', asked'[2]>>
        BY <2>2, <3>1 DEF f
      <4>2. unchanged' >= RECORDS_TIMEOUT => unchanged > 0
        BY <2>2, LookupAssumption DEF TypeOK
      <4>3. whole' >= RECORDS_TIMEOUT => whole' > 0
        BY <2>3, LookupAssumption DEF TypeOK
      <4>4. RowsAreRecent'
        BY <2>2, <3>1, <3>3, <3>4, <4>1, <4>2, <4>3 DEF RowsAreRecent
      <4>5. unchanged' >= LOOKUP_TIMEOUT /\ whole' >= LOOKUP_TIMEOUT => OwnerOf(record, asked, o)
        BY <2>2, <2>3, <3>4, LookupAssumption DEF TypeOK
      <4> QED BY <2>2, <3>1, <4>4, <4>5 DEF OwnerAsOld
    <3>9. TriedInVain' /\ NoneSinceClosed'
      BY <2>2, <3>1 DEF TriedInVain, NoneSinceClosed
    <3> QED BY <3>5, <3>6, <3>7, <3>8, <3>9
  <2> QED BY <2>8, <2>9
<1> QED BY <1>1, <1>2

\* Rows are prepared without touching what was looked up.
LEMMA PrepareIInv ==
  ASSUME IInv, NEW r \in Record, PrepareRow(r) \/ PrepareFails(r)
  PROVE  IInv'
<1> USE DEF IInv
<1>1. CASE PrepareRow(r)
  <2>1. /\ left' = left \ {r}
        /\ UNCHANGED <<record, reachable, unchanged, m_connected, m_LC, m_RC, phase, asked, found,
                       todo, rows, whole, closed_for>>
    BY <1>1 DEF PrepareRow, dbVars
  <2>2. DOMAIN m_HC' \subseteq House /\ \A h \in DOMAIN m_HC' : m_HC'[h] \in 0 .. HOUSE_TIMEOUT - 1
    <3>1. r.house \in House
      BY LookupAssumption
    <3>2. m_HC' \in {m_HC, Store(m_HC, r.house, 0)}
      BY <1>1 DEF PrepareRow
    <3> QED BY <3>1, <3>2, LookupAssumption DEF TypeOK, Store
  <2>3. TypeOK'
    BY <2>1, <2>2 DEF TypeOK
  <2>4. RecordsAsOld' /\ LookupsAsOld'
    BY <2>1, CachesKept
  <2>5. TriedInVain'
    BY <2>1 DEF TriedInVain, Select
  <2>6. OwnerAsOld' /\ NoneSinceClosed'
    BY <2>1 DEF OwnerAsOld, NoneSinceClosed
  <2>7. RowsAreRecent'
    BY <2>1 DEF RowsAreRecent, Select
  <2> QED BY <2>3, <2>4, <2>5, <2>6, <2>7
<1>2. CASE PrepareFails(r)
  <2>1. /\ phase = "prepare" /\ phase' = "failed" /\ m_connected' = FALSE
        /\ closed_for' = IF m_connected THEN 0 ELSE closed_for
        /\ UNCHANGED <<record, reachable, unchanged, m_LC, m_RC, m_HC, asked, found, todo, rows, left, whole>>
    BY <1>2 DEF PrepareFails, Fail, dbVars, cacheVars
  <2>2. asked' \in Question /\ closed_for' \in 0 .. RECORDS_TIMEOUT
    BY <2>1, LookupAssumption DEF TypeOK
  <2>3. TypeOK'
    BY <2>1, <2>2 DEF TypeOK
  <2>4. RecordsAsOld' /\ LookupsAsOld'
    BY <2>1, CachesKept
  <2>5. NoneSinceClosed'
    BY <2>1 DEF NoneSinceClosed, TypeOK, Cached
  <2>6. TriedInVain' /\ OwnerAsOld' /\ RowsAreRecent'
    BY <2>1 DEF TriedInVain, OwnerAsOld, RowsAreRecent
  <2> QED BY <2>3, <2>4, <2>5, <2>6
<1> QED BY <1>1, <1>2

\* Nothing is claimed of an idle backend but of its caches.
LEMMA DoneIInv ==
  ASSUME IInv, Done
  PROVE  IInv'
<1> USE DEF IInv
<1>1. /\ phase' = "idle" /\ asked' = NoQuestion /\ found' = NoOwner
      /\ todo' = << >> /\ rows' = {} /\ left' = {}
      /\ UNCHANGED <<record, reachable, unchanged, m_connected, m_LC, m_RC, m_HC, whole, closed_for>>
  BY DEF Done, dbVars, cacheVars
<1>2. << >> \in Seq(Owner)
  OBVIOUS
<1>3. TypeOK'
  BY <1>1, <1>2 DEF TypeOK
<1>4. RecordsAsOld' /\ LookupsAsOld'
  BY <1>1, CachesKept
<1>5. TriedInVain' /\ OwnerAsOld' /\ RowsAreRecent' /\ NoneSinceClosed'
  BY <1>1 DEF TriedInVain, OwnerAsOld, RowsAreRecent, NoneSinceClosed
<1> QED BY <1>3, <1>4, <1>5

\* When the table changes, no entry and no lookup under way is held to it any more.
LEMMA ChangeIInv ==
  ASSUME IInv, NEW r \in Record, Change(r)
  PROVE  IInv'
<1> USE DEF IInv
<1>1. /\ record' \subseteq Record /\ unchanged' = 0
      /\ UNCHANGED <<reachable, m_connected, m_LC, m_RC, m_HC, phase, asked, found, todo, rows, left,
                     whole, closed_for>>
  BY DEF Change, cacheVars, callVars, TypeOK
<1>2. TypeOK'
  BY <1>1, LookupAssumption DEF TypeOK
<1>3. RecordsAsOld' /\ LookupsAsOld'
  BY <1>1 DEF RecordsAsOld, LookupsAsOld, TypeOK, Cached
<1>4. OwnerAsOld' /\ RowsAreRecent'
  BY <1>1, LookupAssumption DEF OwnerAsOld, RowsAreRecent
<1>5. TriedInVain'
  BY <1>1 DEF TriedInVain
<1>6. NoneSinceClosed'
  BY <1>1 DEF NoneSinceClosed
<1> QED BY <1>2, <1>3, <1>4, <1>5, <1>6

\* The invariant does not speak of the database being in reach.
LEMMA StutterIInv ==
  ASSUME IInv, Network \/ UNCHANGED vars
  PROVE  IInv'
<1> USE DEF IInv
<1>1. /\ reachable' \in BOOLEAN
      /\ UNCHANGED <<record, unchanged, m_connected, m_LC, m_RC, m_HC, phase, asked, found, todo, rows,
                     left, whole, closed_for>>
  BY DEF Network, vars, dbVars, cacheVars, callVars, TypeOK
<1>2. TypeOK'
  BY <1>1 DEF TypeOK
<1>3. RecordsAsOld' /\ LookupsAsOld'
  BY <1>1, CachesKept
<1>4. TriedInVain'
  BY <1>1 DEF TriedInVain, Select
<1>5. OwnerAsOld' /\ NoneSinceClosed'
  BY <1>1 DEF OwnerAsOld, NoneSinceClosed
<1>6. RowsAreRecent'
  BY <1>1 DEF RowsAreRecent, Select
<1> QED BY <1>2, <1>3, <1>4, <1>5, <1>6

\* Entries age together with what they are compared with.
LEMMA TickIInv ==
  ASSUME IInv, Tick
  PROVE  IInv'
<1> USE DEF IInv
<1>1. /\ phase = "idle"
      /\ m_LC' = Aged(m_LC, LOOKUP_TIMEOUT - 1) /\ m_RC' = Aged(m_RC, RECORDS_TIMEOUT - 1)
      /\ m_HC' = [h \in {g \in DOMAIN m_HC : m_HC[g] + 1 < HOUSE_TIMEOUT} |-> m_HC[h] + 1]
      /\ unchanged' = Older(unchanged, LOOKUP_TIMEOUT) /\ whole' = Older(whole, LOOKUP_TIMEOUT)
      /\ closed_for' = Older(closed_for, RECORDS_TIMEOUT)
      /\ UNCHANGED <<record, reachable, m_connected, phase, asked, found, todo, rows, left>>
  BY DEF Tick, callVars, LookupsLeave, RecordsLeave
<1>2. LOOKUP_TIMEOUT \in Nat \ {0} /\ RECORDS_TIMEOUT \in Nat \ {0} /\ RECORDS_TIMEOUT <= LOOKUP_TIMEOUT
  BY LookupAssumption
<1>3. /\ Cached(m_RC', Fields, SUBSET Record, RECORDS_TIMEOUT)
      /\ \A f \in DOMAIN m_RC' :
           /\ f \in DOMAIN m_RC /\ m_RC'[f] = <<m_RC[f][1], m_RC[f][2] + 1>>
           /\ m_RC[f][2] \in Nat /\ m_RC[f][2] + 1 < RECORDS_TIMEOUT
  <2>1. Cached(m_RC, Fields, SUBSET Record, RECORDS_TIMEOUT)
    BY DEF TypeOK
  <2> QED BY <1>1, <1>2, <2>1, AgedType
<1>4. /\ Cached(m_LC', Question, Owner, LOOKUP_TIMEOUT)
      /\ \A q \in DOMAIN m_LC' :
           /\ q \in DOMAIN m_LC /\ m_LC'[q] = <<m_LC[q][1], m_LC[q][2] + 1>>
           /\ m_LC[q][2] \in Nat /\ m_LC[q][2] + 1 < LOOKUP_TIMEOUT
  <2>1. Cached(m_LC, Question, Owner, LOOKUP_TIMEOUT)
    BY DEF TypeOK
  <2> QED BY <1>1, <1>2, <2>1, AgedType
<1>5. /\ unchanged' \in 0 .. LOOKUP_TIMEOUT /\ whole' \in 0 .. LOOKUP_TIMEOUT
      /\ closed_for' \in 0 .. RECORDS_TIMEOUT /\ closed_for' <= closed_for + 1
      /\ \A age \in Nat : age + 1 < LOOKUP_TIMEOUT =>
           /\ unchanged' > age + 1 => unchanged > age
           /\ whole' > age + 1 => whole > age
  BY <1>1, <1>2 DEF Older, TypeOK
<1>6. TypeOK'
  <2>1. DOMAIN m_HC' \subseteq House /\ \A h \in DOMAIN m_HC' : m_HC'[h] \in 0 .. HOUSE_TIMEOUT - 1
    BY <1>1, LookupAssumption DEF TypeOK
  <2> QED BY <1>1, <1>3, <1>4, <1>5, <2>1 DEF TypeOK
<1>7. RecordsAsOld'
  <2>1. ASSUME NEW f \in DOMAIN m_RC', unchanged' > m_RC'[f][2]
        PROVE  /\ m_RC'[f][1] \subseteq Select(record, f)
               /\ whole' > m_RC'[f][2] => m_RC'[f][1] = Select(record, f)
    <3>1. /\ f \in DOMAIN m_RC /\ m_RC'[f][1] = m_RC[f][1] /\ m_RC'[f][2] = m_RC[f][2] + 1
          /\ m_RC[f][2] \in Nat /\ m_RC[f][2] + 1 < LOOKUP_TIMEOUT
      BY <1>2, <1>3
    <3>2. unchanged > m_RC[f][2] /\ (whole' > m_RC'[f][2] => whole > m_RC[f][2])
      BY <1>5, <2>1, <3>1
    <3> QED BY <3>1, <3>2 DEF RecordsAsOld
  <2> QED BY <1>1, <2>1 DEF RecordsAsOld, Select
<1>8. LookupsAsOld'
  <2>1. ASSUME NEW q \in DOMAIN m_LC', unchanged' > m_LC'[q][2], whole' > m_LC'[q][2]
        PROVE  OwnerOf(record, q, m_LC'[q][1])
    <3>1. /\ q \in DOMAIN m_LC /\ m_LC'[q][1] = m_LC[q][1] /\ m_LC'[q][2] = m_LC[q][2] + 1
          /\ m_LC[q][2] \in Nat /\ m_LC[q][2] + 1 < LOOKUP_TIMEOUT
      BY <1>4
    <3>2. unchanged > m_LC[q][2] /\ whole > m_LC[q][2]
      BY <1>5, <2>1, <3>1
    <3> QED BY <3>1, <3>2 DEF LookupsAsOld
  <2> QED BY <1>1, <2>1 DEF LookupsAsOld
<1>9. NoneSinceClosed'
  <2>1. ASSUME ~ m_connected, NEW f \in DOMAIN m_RC'
        PROVE  closed_for' <= m_RC'[f][2]
    <3>1. f \in DOMAIN m_RC /\ m_RC'[f][2] = m_RC[f][2] + 1 /\ m_RC[f][2] \in Nat
      BY <1>3
    <3>2. closed_for <= m_RC[f][2] /\ closed_for \in Nat
      BY <2>1, <3>1 DEF NoneSinceClosed, TypeOK
    <3> QED BY <1>5, <3>1, <3>2
  <2> QED BY <1>1, <2>1 DEF NoneSinceClosed
<1>10. TriedInVain' /\ OwnerAsOld' /\ RowsAreRecent'
  BY <1>1 DEF TriedInVain, OwnerAsOld, RowsAreRecent
<1> QED BY <1>6, <1>7, <1>8, <1>9, <1>10

\* The invariant holds at every step.
LEMMA Invariance == Spec => []IInv
<1>1. ASSUME IInv, [Next]_vars
      PROVE  IInv'
  <2>1. CASE \E q \in Question : Ask(q)
    BY <1>1, <2>1, AskIInv
  <2>2. CASE \E r \in Record : PrepareRow(r) \/ PrepareFails(r)
    BY <1>1, <2>2, PrepareIInv
  <2>3. CASE \E r \in Record : Change(r)
    BY <1>1, <2>3, ChangeIInv
  <2>4. CASE Reload
    BY <1>1, <2>4, ReloadIInv
  <2>5. CASE Resolve
    BY <1>1, <2>5, ResolveIInv
  <2>6. CASE Done
    BY <1>1, <2>6, DoneIInv
  <2>7. CASE Tick
    BY <1>1, <2>7, TickIInv
  <2>8. CASE Network \/ UNCHANGED vars
    BY <1>1, <2>8, StutterIInv
  <2> QED BY <1>1, <2>1, <2>2, <2>3, <2>4, <2>5, <2>6, <2>7, <2>8 DEF Next
<1> QED BY <1>1, InitIInv, PTL DEF Spec

-----------------------------------------------------------------------------
(* Theorems *)

\* Every variable has its type in every reachable state.
THEOREM TypeCorrect == Spec => []TypeOK
<1>1. IInv => TypeOK
  BY DEF IInv
<1> QED BY <1>1, Invariance, PTL

\* Rows served are at most CACHE_RECORDS_TIMEOUT old (wpmetabackend.cc:410-432).
THEOREM Recent == Spec => []RowsAreRecent
<1>1. IInv => RowsAreRecent
  BY DEF IInv
<1> QED BY <1>1, Invariance, PTL

\* A table that has settled is served as it is, whichever of two queries of one
\* lookup it changed between (wpmetabackend.cc:405-432, 533-581).
THEOREM Settled == Spec => []SettledIsServed
<1>1. IInv => SettledIsServed
  <2> SUFFICES ASSUME IInv, phase = "prepare", unchanged >= LOOKUP_TIMEOUT, whole >= LOOKUP_TIMEOUT
               PROVE  OwnerOf(record, asked, found) /\ rows = Select(record, <<found, asked[2]>>)
    BY DEF SettledIsServed
  <2>1. OwnerOf(record, asked, found)
    BY DEF IInv, OwnerAsOld
  <2>2. unchanged >= RECORDS_TIMEOUT /\ whole >= RECORDS_TIMEOUT
    BY LookupAssumption DEF IInv, TypeOK
  <2> QED BY <2>1, <2>2 DEF IInv, RowsAreRecent
<1> QED BY <1>1, Invariance, PTL

\* A lost connection makes lookups fail for less than CACHE_RECORDS_TIMEOUT once
\* the database is in reach (wpmetabackend.cc:52-56, 193).
THEOREM Brief == Spec => FailsBriefly
<1> DEFINE Step == phase # "failed" /\ phase' = "failed" /\ reachable => closed_for' < RECORDS_TIMEOUT
<1>1. IInv /\ [Next]_vars => [Step]_vars
  <2> SUFFICES ASSUME IInv, Next, phase # "failed", phase' = "failed", reachable
               PROVE  closed_for' < RECORDS_TIMEOUT
    OBVIOUS
  <2>1. Unanswered \/ \E r \in Record : PrepareFails(r)
    <3>1. ASSUME ~ Unanswered, Reload \/ Resolve
          PROVE  FALSE
      BY <3>1 DEF Reload, Resolve, Prepare, IInv, TypeOK
    <3>2. ASSUME NEW q \in Question, Ask(q)
          PROVE  FALSE
      BY <3>2 DEF Ask, Prepare
    <3>3. ASSUME NEW r \in Record, PrepareRow(r) \/ Change(r)
          PROVE  FALSE
      BY <3>3 DEF PrepareRow, Change, callVars
    <3>4. ASSUME Done \/ Network \/ Tick
          PROVE  FALSE
      BY <3>4 DEF Done, Network, Tick, callVars
    <3> QED BY <3>1, <3>2, <3>3, <3>4 DEF Next
  <2>2. CASE Unanswered
    BY <2>2, LookupAssumption DEF Unanswered
  <2>3. CASE \E r \in Record : PrepareFails(r)
    BY <2>3, LookupAssumption DEF PrepareFails, IInv, NoneSinceClosed
  <2> QED BY <2>1, <2>2, <2>3
<1> QED BY <1>1, Invariance, PTL DEF Spec, FailsBriefly

=============================================================================
