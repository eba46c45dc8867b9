---------------------------- MODULE CacheProofs ----------------------------
(***************************************************************************)
(* Proofs about Cache, for every set of keys and addresses and every        *)
(* timeout.                                                                *)
(*                                                                         *)
(* The argument.  m_current_item may dangle, but only while the caller is   *)
(* idle or has just missed: CallerInv says what it is in the other states.   *)
(* That map and heap agree (MapOwnsObjects) rests on one fact of the code,   *)
(* ReplacedIsRemoved: whatever get_object remembers, freshen_cache takes    *)
(* the update() path whenever the key is in the map.                        *)
(***************************************************************************)
EXTENDS Cache, TLAPS

\* An object is kept under the key it was made for.
StoredInv == \A k \in DOMAIN m_items : loaded_for[m_items[k]] = k

\* What the remembered pointer is when the caller is about to use it.
CallerInv ==
  /\ pc \in {"valid", "served"} =>
       /\ asked \in DOMAIN m_items /\ m_current_item = m_items[asked]
       /\ age[m_items[asked]] < TIMEOUT
  /\ pc = "filled" =>
       /\ asked \in DOMAIN m_items /\ m_current_item = NULL
       /\ age[m_items[asked]] = 0
  /\ pc = "gone" => m_items = EmptyMap

IInv == TypeOK /\ MapOwnsObjects /\ StoredInv /\ CallerInv

-----------------------------------------------------------------------------
(* Lemmas on the operators *)

\* freshen_cache deletes what the map held for the key, if anything, whatever
\* m_current_item is.
LEMMA ReplacedIsRemoved ==
  ASSUME TypeOK, NEW k \in Key
  PROVE  Replaced(k) = Removed(k)
<1>1. k \in DOMAIN m_items => m_items[k] # NULL
  BY CacheAssumption DEF TypeOK
<1> QED
  BY <1>1 DEF Replaced, Removed, GetObject

\* freshen_cache leaves nothing remembered.
LEMMA FreshenForgets == \A k : CurrentAfterFreshen(k) = NULL
  BY DEF CurrentAfterFreshen, CurrentAfterRemove

\* A new age is an age.
LEMMA AgeType ==
  /\ 0 \in 0 .. MaxAge /\ 0 < TIMEOUT
  /\ \A a \in 0 .. MaxAge : a < MaxAge => a + 1 \in 0 .. MaxAge
  BY CacheAssumption DEF MaxAge

\* Taking keys out of the map and their objects out of the heap keeps them in
\* agreement.
LEMMA DropOwns ==
  ASSUME TypeOK, MapOwnsObjects, StoredInv, NEW K,
         m_items' = Drop(m_items, K),
         live' = live \ {m_items[k] : k \in DOMAIN m_items \cap K},
         UNCHANGED loaded_for
  PROVE  /\ DOMAIN m_items' \subseteq Key /\ m_items' \in [DOMAIN m_items' -> Obj]
         /\ live' \subseteq Obj
         /\ MapOwnsObjects' /\ StoredInv'
<1>1. /\ DOMAIN m_items' = DOMAIN m_items \ K
      /\ \A k \in DOMAIN m_items' : m_items'[k] = m_items[k]
      /\ m_items' = [k \in DOMAIN m_items' |-> m_items'[k]]
  BY DEF Drop
<1>2. /\ DOMAIN m_items' \subseteq Key /\ m_items' \in [DOMAIN m_items' -> Obj]
      /\ live' \subseteq Obj
  BY <1>1 DEF TypeOK
<1>3. \A j, k \in DOMAIN m_items : m_items[j] = m_items[k] => j = k
  BY DEF MapOwnsObjects
<1>4. live' = Values(m_items')
  <2>1. live = Values(m_items)
    BY DEF MapOwnsObjects
  <2> QED
    BY <1>1, <1>3, <2>1 DEF Values
<1>5. MapOwnsObjects'
  BY <1>1, <1>3, <1>4 DEF MapOwnsObjects
<1>6. StoredInv'
  BY <1>1 DEF StoredInv
<1> QED
  BY <1>2, <1>5, <1>6

-----------------------------------------------------------------------------
(* The inductive invariant *)

LEMMA InitIInv == Init => IInv
<1> SUFFICES ASSUME Init PROVE IInv
  OBVIOUS
<1>1. TypeOK
  BY AgeType DEF Init, TypeOK, EmptyMap
<1>2. MapOwnsObjects /\ StoredInv
  BY DEF Init, MapOwnsObjects, StoredInv, EmptyMap, Values
<1>3. CallerInv
  BY DEF Init, CallerInv
<1> QED
  BY <1>1, <1>2, <1>3 DEF IInv

LEMMA PurgeIInv == IInv /\ PurgeCache => IInv'
<1> SUFFICES ASSUME IInv, PurgeCache PROVE IInv'
  OBVIOUS
<1> USE DEF IInv
<1>1. /\ pc = "idle" /\ UNCHANGED <<loaded_for, age, pc, asked, m_current_item>>
      /\ m_items' = Drop(m_items, Outdated)
      /\ live' = live \ {m_items[k] : k \in Outdated}
  BY DEF PurgeCache, CurrentAfterPurge
<1>2. DOMAIN m_items \cap Outdated = Outdated
  BY DEF Outdated
<1>3. /\ DOMAIN m_items' \subseteq Key /\ m_items' \in [DOMAIN m_items' -> Obj]
      /\ live' \subseteq Obj /\ MapOwnsObjects' /\ StoredInv'
  BY <1>1, <1>2, DropOwns
<1>4. TypeOK' /\ CallerInv'
  BY <1>1, <1>3 DEF TypeOK, CallerInv
<1> QED
  BY <1>3, <1>4

LEMMA HaveValidIInv == ASSUME NEW k \in Key PROVE IInv /\ HaveValidCache(k) => IInv'
<1> SUFFICES ASSUME IInv, HaveValidCache(k) PROVE IInv'
  OBVIOUS
<1> USE DEF IInv, HaveValidCache
<1>1. LookUp(k) = IF k \in DOMAIN m_items THEN m_items[k] ELSE NULL
  BY DEF LookUp, GetObject
<1>2. LookUp(k) \in Obj \cup {NULL}
  BY <1>1 DEF TypeOK
<1>3. TypeOK'
  BY <1>2 DEF TypeOK
<1>4. MapOwnsObjects' /\ StoredInv'
  BY DEF MapOwnsObjects, StoredInv, Values
<1>5. CallerInv'
  BY <1>1 DEF CallerInv, Valid
<1> QED
  BY <1>3, <1>4, <1>5

LEMMA ServeIInv == IInv /\ Serve => IInv'
<1> SUFFICES ASSUME IInv, Serve PROVE IInv'
  OBVIOUS
<1> USE DEF IInv, Serve
<1>1. /\ asked \in DOMAIN m_items /\ age[m_items[asked]] < TIMEOUT
      /\ m_items[asked] \in Obj
  BY AgeType DEF CallerInv, TypeOK
<1>2. m_current_item' = m_items[asked]
  BY <1>1, CacheAssumption DEF CallerInv, GetObject
<1>3. TypeOK' /\ CallerInv'
  BY <1>1, <1>2 DEF TypeOK, CallerInv
<1>4. MapOwnsObjects' /\ StoredInv'
  BY DEF MapOwnsObjects, StoredInv, Values
<1> QED
  BY <1>3, <1>4

LEMMA DoneIInv == IInv /\ (Done \/ Construct) => IInv'
<1> SUFFICES ASSUME IInv, Done \/ Construct PROVE IInv'
  OBVIOUS
<1>1. UNCHANGED <<m_items, m_current_item, live, loaded_for, age, asked>> /\ pc' = "idle"
  BY DEF Done, Construct
<1>2. TypeOK' /\ CallerInv'
  BY <1>1 DEF IInv, TypeOK, CallerInv
<1>3. MapOwnsObjects' /\ StoredInv'
  BY <1>1 DEF IInv, MapOwnsObjects, StoredInv, Values
<1> QED
  BY <1>2, <1>3 DEF IInv

LEMMA FreshenIInv == ASSUME NEW k \in Key PROVE IInv /\ FreshenCache(k) => IInv'
<1> SUFFICES ASSUME IInv, FreshenCache(k) PROVE IInv'
  OBVIOUS
<1> USE DEF IInv
<1>1. PICK o \in Obj \ live :
        /\ live' = (live \ Replaced(k)) \cup {o}
        /\ m_items' = [j \in DOMAIN m_items \cup {k} |-> IF j = k THEN o ELSE m_items[j]]
        /\ loaded_for' = [loaded_for EXCEPT ![o] = k]
        /\ age' = [age EXCEPT ![o] = 0]
  BY DEF FreshenCache
<1>2. m_current_item' = NULL /\ pc' = "filled" /\ asked' = k
  BY FreshenForgets DEF FreshenCache
<1>3. /\ DOMAIN m_items' = DOMAIN m_items \cup {k} /\ m_items'[k] = o
      /\ \A j \in DOMAIN m_items : j # k => m_items'[j] = m_items[j]
      /\ m_items' = [j \in DOMAIN m_items' |-> m_items'[j]]
  BY <1>1
<1>4. /\ DOMAIN m_items \subseteq Key /\ \A j \in DOMAIN m_items : m_items[j] \in Obj
      /\ live \subseteq Obj
      /\ loaded_for \in [Obj -> Key] /\ age \in [Obj -> 0 .. MaxAge]
  BY DEF TypeOK
<1>5. /\ live = Values(m_items)
      /\ \A i, j \in DOMAIN m_items : m_items[i] = m_items[j] => i = j
      /\ \A j \in DOMAIN m_items : m_items[j] # o
  BY <1>1 DEF MapOwnsObjects, Values
<1>6. live \ Replaced(k) = {m_items[j] : j \in DOMAIN m_items \ {k}}
  BY <1>5, ReplacedIsRemoved DEF Removed, Values
<1>7. TypeOK'
  <2>1. DOMAIN m_items' \subseteq Key /\ m_items' \in [DOMAIN m_items' -> Obj]
    BY <1>1, <1>3, <1>4
  <2>2. loaded_for' \in [Obj -> Key] /\ age' \in [Obj -> 0 .. MaxAge] /\ live' \subseteq Obj
    BY <1>1, <1>4, AgeType
  <2> QED
    BY <1>2, <2>1, <2>2 DEF TypeOK
<1>8. MapOwnsObjects'
  <2>1. live' = Values(m_items')
    BY <1>1, <1>3, <1>6 DEF Values
  <2>2. \A i, j \in DOMAIN m_items' : m_items'[i] = m_items'[j] => i = j
    BY <1>3, <1>5
  <2> QED
    BY <2>1, <2>2 DEF MapOwnsObjects
<1>9. StoredInv'
  <2>1. \A x \in Obj : loaded_for'[x] = IF x = o THEN k ELSE loaded_for[x]
    BY <1>1, <1>4
  <2> QED
    BY <1>1, <1>3, <1>4, <1>5, <2>1 DEF StoredInv
<1>10. CallerInv'
  <2>1. age'[o] = 0
    BY <1>1, <1>4
  <2> QED
    BY <1>2, <1>3, <2>1 DEF CallerInv
<1> QED
  BY <1>7, <1>8, <1>9, <1>10

LEMMA ReleaseIInv == IInv /\ ReleaseCache => IInv'
<1> SUFFICES ASSUME IInv, ReleaseCache PROVE IInv'
  OBVIOUS
<1> USE DEF IInv
<1>1. /\ pc' = "idle" /\ m_current_item' = NULL /\ UNCHANGED <<loaded_for, age, asked>>
      /\ m_items' = Drop(m_items, {asked})
      /\ live' = live \ Removed(asked)
  BY DEF ReleaseCache, CurrentAfterRemove
<1>2. Removed(asked) = {m_items[k] : k \in DOMAIN m_items \cap {asked}}
  BY DEF Removed
<1>3. /\ DOMAIN m_items' \subseteq Key /\ m_items' \in [DOMAIN m_items' -> Obj]
      /\ live' \subseteq Obj /\ MapOwnsObjects' /\ StoredInv'
  BY <1>1, <1>2, DropOwns
<1>4. TypeOK' /\ CallerInv'
  BY <1>1, <1>3 DEF TypeOK, CallerInv
<1> QED
  BY <1>3, <1>4

LEMMA DestroyIInv == IInv /\ Destroy => IInv'
<1> SUFFICES ASSUME IInv, Destroy PROVE IInv'
  OBVIOUS
<1> USE DEF IInv
<1>1. /\ pc' = "gone" /\ m_current_item' = NULL /\ UNCHANGED <<loaded_for, age, asked>>
      /\ m_items' = EmptyMap /\ live' = live \ Values(m_items)
  BY DEF Destroy
<1>2. live' = {}
  BY <1>1 DEF MapOwnsObjects
<1>3. MapOwnsObjects' /\ StoredInv' /\ CallerInv'
  BY <1>1, <1>2 DEF MapOwnsObjects, StoredInv, CallerInv, EmptyMap, Values
<1>4. TypeOK'
  BY <1>1, <1>2 DEF TypeOK, EmptyMap
<1> QED
  BY <1>3, <1>4

LEMMA TickIInv == IInv /\ Tick => IInv'
<1> SUFFICES ASSUME IInv, Tick PROVE IInv'
  OBVIOUS
<1> USE DEF IInv
<1>1. /\ pc = "idle" /\ UNCHANGED <<m_items, m_current_item, live, loaded_for, pc, asked>>
      /\ age' = [o \in Obj |-> IF o \in live /\ age[o] < MaxAge THEN age[o] + 1 ELSE age[o]]
  BY DEF Tick
<1>2. age' \in [Obj -> 0 .. MaxAge]
  BY <1>1, AgeType DEF TypeOK
<1>3. TypeOK' /\ CallerInv'
  BY <1>1, <1>2 DEF TypeOK, CallerInv
<1>4. MapOwnsObjects' /\ StoredInv'
  BY <1>1 DEF MapOwnsObjects, StoredInv, Values
<1> QED
  BY <1>3, <1>4

\* The strengthened invariant holds in every reachable state.
THEOREM IInvHolds == Spec => []IInv
<1>1. IInv /\ UNCHANGED vars => IInv'
  BY DEF IInv, vars, TypeOK, MapOwnsObjects, StoredInv, CallerInv, Values
<1>2. IInv /\ [Next]_vars => IInv'
  BY <1>1, PurgeIInv, HaveValidIInv, ServeIInv, DoneIInv, FreshenIInv, ReleaseIInv,
     DestroyIInv, TickIInv DEF Next
<1> QED
  BY <1>2, InitIInv, PTL DEF Spec

-----------------------------------------------------------------------------
(* What follows from the invariant *)

\* Type correctness.
THEOREM TypeCorrect == Spec => []TypeOK
<1>1. IInv => TypeOK
  BY DEF IInv
<1> QED
  BY <1>1, IInvHolds, PTL

\* A caller never follows a deleted pointer and never gets the object of another
\* key, although get_object does not look at the key it is given.
THEOREM RightObject == Spec => []ServedIsRight
<1>1. IInv => ServedIsRight
  <2> SUFFICES ASSUME IInv, pc = "served"
               PROVE  /\ m_current_item \in live
                      /\ loaded_for[m_current_item] = asked
                      /\ asked \in DOMAIN m_items /\ m_items[asked] = m_current_item
    BY DEF ServedIsRight
  <2>1. asked \in DOMAIN m_items /\ m_current_item = m_items[asked]
    BY DEF IInv, CallerInv
  <2> QED
    BY <2>1 DEF IInv, MapOwnsObjects, Values, StoredInv
<1> QED
  BY <1>1, IInvHolds, PTL

\* Nothing older than the timeout is served.
THEOREM YoungObject == Spec => []ServedIsYoung
<1>1. IInv => ServedIsYoung
  BY DEF IInv, CallerInv, ServedIsYoung
<1> QED
  BY <1>1, IInvHolds, PTL

\* No object leaks, none is in the map after it was deleted, and none can be
\* deleted twice.
THEOREM NoLeak == Spec => []MapOwnsObjects
<1>1. IInv => MapOwnsObjects
  BY DEF IInv
<1> QED
  BY <1>1, IInvHolds, PTL

-----------------------------------------------------------------------------
(* The cache implements a map whose entries age *)

Entry == [k \in DOMAIN m_items |-> age[m_items[k]]]

\* Given is what a caller that is being served reads, and NULL otherwise.
LEMMA GivenValue ==
  IInv => Given = IF pc = "served" THEN <<asked, Entry[asked]>> ELSE NULL
<1> SUFFICES ASSUME IInv
             PROVE  Given = IF pc = "served" THEN <<asked, Entry[asked]>> ELSE NULL
  OBVIOUS
<1>1. CASE pc # "served"
  BY <1>1 DEF Given
<1>2. CASE pc = "served"
  <2>1. asked \in DOMAIN m_items /\ m_current_item = m_items[asked]
    BY <1>2 DEF IInv, CallerInv
  <2>2. m_current_item \in live /\ loaded_for[m_current_item] = asked
    BY <2>1 DEF IInv, MapOwnsObjects, Values, StoredInv
  <2> QED
    BY <1>2, <2>1, <2>2 DEF Given, Entry
<1> QED
  BY <1>1, <1>2

\* Initial states map to initial states.
LEMMA InitMaps == Init => Map!Init
  BY DEF Init, Map!Init, EmptyMap, Given

\* Every step maps to a step or leaves the abstract state as it is.
LEMMA StepMaps == IInv /\ IInv' /\ [Next]_vars => [Map!Next]_Map!vars
<1> SUFFICES ASSUME IInv, IInv', [Next]_vars PROVE [Map!Next]_Map!vars
  OBVIOUS
<1>1. /\ Given  = IF pc = "served" THEN <<asked, Entry[asked]>> ELSE NULL
      /\ Given' = IF pc' = "served" THEN <<asked', Entry'[asked']>> ELSE NULL
  <2>1. (IInv => Given = IF pc = "served" THEN <<asked, Entry[asked]>> ELSE NULL)'
    BY GivenValue, PTL
  <2> QED
    BY <2>1, GivenValue
<1>2. /\ DOMAIN m_items \subseteq Key /\ \A k \in DOMAIN m_items : m_items[k] \in Obj /\ m_items[k] \in live
      /\ age \in [Obj -> 0 .. MaxAge]
      /\ MaxAge \in Nat /\ TIMEOUT \in Nat /\ Map!MaxAge = MaxAge
  BY CacheAssumption DEF IInv, TypeOK, MapOwnsObjects, Values, MaxAge, Map!MaxAge
<1>3. ASSUME PurgeCache PROVE Map!Forget
  <2>1. /\ UNCHANGED <<loaded_for, age, pc, asked>> /\ pc = "idle"
        /\ m_items' = [k \in DOMAIN m_items \ Outdated |-> m_items[k]]
    BY <1>3 DEF PurgeCache, Drop
  <2>2. DOMAIN m_items \ Outdated = {j \in DOMAIN Entry : Entry[j] <= TIMEOUT}
    BY <1>2 DEF Outdated, Entry
  <2>3. Entry' = [k \in {j \in DOMAIN Entry : Entry[j] <= TIMEOUT} |-> Entry[k]]
    BY <2>1, <2>2 DEF Entry
  <2> QED
    BY <1>1, <2>1, <2>3 DEF Map!Forget, Entry
<1>4. ASSUME Destroy PROVE Map!Forget
  <2>1. Entry' = [k \in {} |-> 0]
    BY <1>4 DEF Destroy, EmptyMap, Entry
  <2> QED
    BY <1>1, <1>4, <2>1 DEF Destroy, Map!Forget, Entry
<1>5. ASSUME NEW k \in Key, HaveValidCache(k) PROVE Map!Ask(k)
  <2>1. Valid(LookUp(k)) <=> k \in DOMAIN Entry /\ Entry[k] < TIMEOUT
    BY <1>2, CacheAssumption DEF Valid, LookUp, GetObject, Entry
  <2>2. Entry' = Entry
    BY <1>5 DEF HaveValidCache, Entry
  <2> QED
    BY <1>1, <1>5, <2>1, <2>2 DEF HaveValidCache, Map!Ask, Entry
<1>6. ASSUME NEW k \in Key, FreshenCache(k) PROVE Map!Store(k)
  <2>1. PICK o \in Obj \ live :
          /\ m_items' = [j \in DOMAIN m_items \cup {k} |-> IF j = k THEN o ELSE m_items[j]]
          /\ age' = [age EXCEPT ![o] = 0]
    BY <1>6 DEF FreshenCache
  <2>2. Entry' = [j \in DOMAIN Entry \cup {k} |-> IF j = k THEN 0 ELSE Entry[j]]
    <3>1. DOMAIN Entry = DOMAIN m_items /\ DOMAIN m_items' = DOMAIN m_items \cup {k}
      BY <2>1 DEF Entry
    <3>2. \A j \in DOMAIN m_items' : age'[m_items'[j]] = IF j = k THEN 0 ELSE Entry[j]
      BY <1>2, <2>1 DEF Entry
    <3> QED
      BY <3>1, <3>2 DEF Entry
  <2> QED
    BY <1>1, <1>6, <2>2 DEF FreshenCache, Map!Store, Entry
<1>7. ASSUME Serve PROVE Map!Give
  <2>1. Entry' = Entry /\ pc' = "served" /\ asked' = asked
    BY <1>7 DEF Serve, Entry
  <2> QED
    BY <1>1, <1>7, <2>1 DEF Serve, Map!Give, Entry
<1>8. ASSUME Done \/ Construct PROVE Map!Done
  <2>1. Entry' = Entry
    BY <1>8 DEF Done, Construct, Entry
  <2> QED
    BY <1>1, <1>8, <2>1 DEF Done, Construct, Map!Done, Entry
<1>9. ASSUME ReleaseCache PROVE Map!Done
  <2>1. Entry' = [k \in DOMAIN Entry \ {asked} |-> Entry[k]]
    BY <1>9 DEF ReleaseCache, Drop, Entry
  <2> QED
    BY <1>1, <1>9, <2>1 DEF ReleaseCache, Map!Done, Entry
<1>10. ASSUME Tick PROVE Map!Age
  <2>1. Entry' = [k \in DOMAIN Entry |-> IF Entry[k] < MaxAge THEN Entry[k] + 1 ELSE Entry[k]]
    BY <1>2, <1>10 DEF Tick, Entry
  <2> QED
    BY <1>1, <1>2, <1>10, <2>1 DEF Tick, Map!Age, Entry
<1>11. ASSUME UNCHANGED vars PROVE UNCHANGED Map!vars
  BY <1>1, <1>11 DEF vars, Map!vars, Entry
<1> QED
  BY <1>3, <1>4, <1>5, <1>6, <1>7, <1>8, <1>9, <1>10, <1>11 DEF Next, Map!Next

\* The remembered pointer never shows: Cache implements TimedMap.
THEOREM Refinement == Spec => ImplementsTimedMap
<1>1. Spec => Map!Init /\ [][Map!Next]_Map!vars
  BY InitMaps, StepMaps, IInvHolds, PTL DEF Spec
<1> QED
  BY <1>1 DEF ImplementsTimedMap, Map!Spec

=============================================================================
