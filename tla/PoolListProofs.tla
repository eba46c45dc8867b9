--------------------------- MODULE PoolListProofs ---------------------------
(***************************************************************************)
(* Proofs about PoolList, for every finite set of servers, every set of      *)
(* tables and every number of lists under way.                              *)
(*                                                                         *)
(* The argument.  An array is rebuilt from one whose servers are all          *)
(* different (Updated keeps the ids, Added appends ids that are not there,     *)
(* each once), by taking out positions.  Without(a, gone) is defined by       *)
(* counting: its k-th element is the position with k - 1 others before it     *)
(* that stay.  Counting is an injection of the positions that stay into 1 ..  *)
(* n, of which there are n, and so it is onto: every position that stays is   *)
(* in the result, and in one place (Moved).  What splice takes out is         *)
(* inactive, so that what the list names is not among it.                    *)
(***************************************************************************)
EXTENDS PoolList, FiniteSetTheorems, WellFoundedInduction, TLAPS

IInv == TypeOK /\ NoServerTwice /\ ListIsTaken

\* The servers of an array are all different.
Once(a) == \A j, k \in DOMAIN a : a[j].id = a[k].id => j = k

-----------------------------------------------------------------------------
(* Taking positions out of an array *)

\* How many positions up to j stay.
Rank(S, j) == Cardinality({i \in S : i <= j})

\* Counting gives the positions that stay the numbers 1 .. n, each once.
LEMMA RankOnto ==
  ASSUME NEW m \in Nat, NEW S, S \subseteq 1 .. m
  PROVE  /\ Cardinality(S) \in Nat
         /\ \A j \in S : Rank(S, j) \in 1 .. Cardinality(S)
         /\ \A i, j \in S : Rank(S, i) = Rank(S, j) => i = j
         /\ \A k \in 1 .. Cardinality(S) : \E j \in S : Rank(S, j) = k
<1> DEFINE n == Cardinality(S)
           r == [j \in S |-> Rank(S, j)]
<1>1. IsFiniteSet(S) /\ n \in Nat
  <2>1. IsFiniteSet(1 .. m)
    BY FS_Interval
  <2>2. IsFiniteSet(S)
    BY <2>1, FS_Subset
  <2> QED
    BY <2>2, FS_CardinalityType
<1>2. ASSUME NEW j \in S
      PROVE  Rank(S, j) \in 1 .. n
  <2> DEFINE U == {i \in S : i <= j}
  <2>1. IsFiniteSet(U) /\ Cardinality(U) \in Nat /\ Cardinality(U) <= n
    BY <1>1, FS_Subset, FS_CardinalityType
  <2>2. j \in U
    OBVIOUS
  <2>3. Cardinality(U) # 0
    BY <2>1, <2>2, FS_EmptySet
  <2> HIDE DEF U, n
  <2>4. Cardinality(U) \in 1 .. n
    BY <1>1, <2>1, <2>3
  <2> QED
    BY <2>4 DEF Rank, U
<1>3. ASSUME NEW i \in S, NEW j \in S, i < j
      PROVE  Rank(S, i) # Rank(S, j)
  <2> DEFINE U == {k \in S : k <= i}
             V == {k \in S : k <= j}
  <2>1. U \subseteq V /\ j \in V /\ j \notin U
    <3>1. \A k \in S : k \in Int
      OBVIOUS
    <3>2. \A k \in S : k <= i => k <= j
      BY <1>3, <3>1
    <3>3. ~ (j <= i) /\ j <= j
      BY <1>3, <3>1
    <3> QED
      BY <3>2, <3>3, Zenon
  <2>2. IsFiniteSet(V)
    BY <1>1, FS_Subset
  <2>3. U # V
    BY <2>1
  <2> HIDE DEF U, V
  <2>4. Cardinality(U) # Cardinality(V)
    BY <2>1, <2>2, <2>3, FS_Subset
  <2> QED
    BY <2>4 DEF Rank, U, V
<1>4. \A i, j \in S : Rank(S, i) = Rank(S, j) => i = j
  <2>1. \A i, j \in S : i = j \/ i < j \/ j < i
    OBVIOUS
  <2> QED
    BY <1>3, <2>1
<1>5. \A k \in 1 .. n : \E j \in S : Rank(S, j) = k
  <2>1. r \in Injection(S, 1 .. n)
    <3>1. r \in [S -> 1 .. n]
      BY <1>2
    <3> QED
      BY <1>4, <3>1 DEF Injection, IsInjective
  <2>2. IsFiniteSet(1 .. n) /\ Cardinality(1 .. n) = n
    <3> HIDE DEF n
    <3> QED
      BY <1>1, FS_Interval
  <2>3. r \in Surjection(S, 1 .. n)
    <3> HIDE DEF r
    <3> QED
      BY <2>1, <2>2, FS_Injection
  <2> QED
    BY <2>3 DEF Surjection
<1> QED
  BY <1>1, <1>2, <1>4, <1>5

\* Each element of the result is one that stays, and its place is its rank.
LEMMA Moved ==
  ASSUME NEW A, NEW a \in Seq(A), NEW gone, gone \subseteq DOMAIN a
  PROVE  LET S == DOMAIN a \ gone
         IN  /\ Cardinality(S) \in Nat /\ DOMAIN Without(a, gone) = 1 .. Cardinality(S)
             /\ \A k \in 1 .. Cardinality(S) : \E j \in S :
                  Rank(S, j) = k /\ Without(a, gone)[k] = [id |-> a[j].id, ip |-> a[j].ip]
<1> DEFINE S == DOMAIN a \ gone
           P(k) == CHOOSE j \in S : Cardinality({i \in S : i <= j}) = k
<1>1. DOMAIN a = 1 .. Len(a) /\ Len(a) \in Nat
  OBVIOUS
<1>2. /\ Cardinality(S) \in Nat
      /\ \A k \in 1 .. Cardinality(S) : \E j \in S : Rank(S, j) = k
  BY <1>1, RankOnto
<1>3. Len(a) - Cardinality(gone) = Cardinality(S)
  <2>1. IsFiniteSet(DOMAIN a) /\ Cardinality(DOMAIN a) = Len(a)
    <3>1. \A m \in Nat : IsFiniteSet(1 .. m) /\ Cardinality(1 .. m) = m
      BY FS_Interval
    <3> QED
      BY <1>1, <3>1
  <2>2. IsFiniteSet(gone) /\ Cardinality(gone) \in Nat
    BY <2>1, FS_Subset, FS_CardinalityType
  <2>3. DOMAIN a \cap gone = gone
    OBVIOUS
  <2>4. Cardinality(S) = Cardinality(DOMAIN a) - Cardinality(DOMAIN a \cap gone)
    BY <2>1, FS_Difference
  <2> HIDE DEF S
  <2> QED
    BY <1>1, <2>1, <2>2, <2>3, <2>4
<1>4. Without(a, gone) = [k \in 1 .. Cardinality(S) |-> [id |-> a[P(k)].id, ip |-> a[P(k)].ip]]
  BY <1>3 DEF Without
<1>5. ASSUME NEW k \in 1 .. Cardinality(S)
      PROVE  P(k) \in S /\ Rank(S, P(k)) = k
  <2>1. \E j \in S : Cardinality({i \in S : i <= j}) = k
    BY <1>2 DEF Rank
  <2> HIDE DEF S
  <2> QED
    BY <2>1 DEF Rank
<1> HIDE DEF P, S
<1> QED
  BY <1>2, <1>4, <1>5 DEF S

\* Taking out positions takes nothing else, and makes nothing twice.
LEMMA WithoutFacts ==
  ASSUME NEW A, NEW a \in Seq(A), NEW gone, gone \subseteq DOMAIN a
  PROVE  LET w == Without(a, gone)
         IN  /\ \E n \in Nat : DOMAIN w = 1 .. n
             /\ w = [k \in DOMAIN w |-> w[k]]
             /\ \A k \in DOMAIN w : \E j \in DOMAIN a \ gone : w[k] = [id |-> a[j].id, ip |-> a[j].ip]
             /\ \A j \in DOMAIN a \ gone : \E k \in DOMAIN w : w[k] = [id |-> a[j].id, ip |-> a[j].ip]
             /\ Once(a) => Once(w)
<1> DEFINE S == DOMAIN a \ gone
           w == Without(a, gone)
           n == Cardinality(S)
<1>1. n \in Nat /\ DOMAIN w = 1 .. n
  BY Moved
<1>2. \A k \in 1 .. n : \E j \in S : Rank(S, j) = k /\ w[k] = [id |-> a[j].id, ip |-> a[j].ip]
  BY Moved
<1>3. /\ \A j \in S : Rank(S, j) \in 1 .. n
      /\ \A i, j \in S : Rank(S, i) = Rank(S, j) => i = j
  <2>1. Len(a) \in Nat /\ S \subseteq 1 .. Len(a)
    OBVIOUS
  <2> QED
    BY <2>1, RankOnto
<1>4. S \subseteq DOMAIN a
  OBVIOUS
<1>9. w = [k \in DOMAIN w |-> w[k]]
  BY DEF Without
<1> HIDE DEF w, n, S
<1>5. \A k \in DOMAIN w : \E j \in S : w[k] = [id |-> a[j].id, ip |-> a[j].ip]
  BY <1>1, <1>2
<1>6. ASSUME NEW j \in S PROVE \E k \in DOMAIN w : w[k] = [id |-> a[j].id, ip |-> a[j].ip]
  <2>1. PICK i \in S : /\ Rank(S, i) = Rank(S, j)
                       /\ w[Rank(S, j)] = [id |-> a[i].id, ip |-> a[i].ip]
    BY <1>2, <1>3
  <2>2. i = j
    BY <1>3, <2>1
  <2> QED
    BY <1>1, <1>3, <2>1, <2>2
<1>7. ASSUME Once(a), NEW k \in DOMAIN w, NEW l \in DOMAIN w, w[k].id = w[l].id
      PROVE  k = l
  <2>1. PICK i \in S : Rank(S, i) = k /\ w[k] = [id |-> a[i].id, ip |-> a[i].ip]
    BY <1>1, <1>2
  <2>2. PICK j \in S : Rank(S, j) = l /\ w[l] = [id |-> a[j].id, ip |-> a[j].ip]
    BY <1>1, <1>2
  <2>3. a[i].id = a[j].id
    BY <1>7, <2>1, <2>2
  <2>4. i = j
    BY <1>4, <1>7, <2>3 DEF Once
  <2> QED
    BY <2>1, <2>2, <2>4
<1>8. Once(a) => Once(w)
  BY <1>7 DEF Once
<1> QED
  BY <1>1, <1>5, <1>6, <1>8, <1>9 DEF w, S

-----------------------------------------------------------------------------
(* The array that a list makes *)

Full == [id : Server, ip : Ip, active : BOOLEAN]

\* What the array holds is updated in its place.
LEMMA UpdatedFacts ==
  ASSUME TypeOK, NoServerTwice, NEW list \in Table
  PROVE  /\ Updated(list) \in Seq(Full) /\ DOMAIN Updated(list) = DOMAIN arrServers
         /\ \A k \in DOMAIN arrServers :
              LET s == arrServers[k].id
              IN  /\ Updated(list)[k].id = s
                  /\ Updated(list)[k].active <=> Listed(list, s)
                  /\ Listed(list, s) => Updated(list)[k] = [id |-> s, ip |-> list[s], active |-> TRUE]
         /\ Once(Updated(list))
<1>1. arrServers \in Seq([id : Server, ip : Ip]) /\ list \in [Server -> Ip \cup {NoIp}]
  BY PoolListAssumption DEF TypeOK
<1>2. Len(arrServers) \in Nat /\ DOMAIN arrServers = 1 .. Len(arrServers)
  BY <1>1
<1>3. DOMAIN Updated(list) = DOMAIN arrServers
  BY DEF Updated
<1>4. ASSUME NEW k \in DOMAIN arrServers
      PROVE  /\ Updated(list)[k] \in Full /\ Updated(list)[k].id = arrServers[k].id
             /\ Updated(list)[k].active <=> Listed(list, arrServers[k].id)
             /\ Listed(list, arrServers[k].id) =>
                  Updated(list)[k] = [id |-> arrServers[k].id, ip |-> list[arrServers[k].id], active |-> TRUE]
  <2> DEFINE s == arrServers[k].id
  <2>1. arrServers[k] \in [id : Server, ip : Ip]
    <3> DEFINE E == [id : Server, ip : Ip]
    <3>1. arrServers \in Seq(E)
      BY <1>1
    <3> HIDE DEF E
    <3>2. arrServers[k] \in E
      BY <3>1
    <3> QED
      BY <3>2 DEF E
  <2>2. Updated(list)[k] =
          [id |-> s, ip |-> IF Listed(list, s) THEN list[s] ELSE arrServers[k].ip, active |-> Listed(list, s)]
    BY DEF Updated
  <2>3. s \in Server /\ arrServers[k].ip \in Ip
    BY <2>1
  <2>4. list[s] \in Ip \cup {NoIp}
    BY <1>1, <2>3
  <2> HIDE DEF s
  <2>7. Updated(list)[k].active <=> Listed(list, s)
    BY <2>2
  <2>5. CASE Listed(list, s)
    <3>1. list[s] \in Ip
      BY <2>4, <2>5 DEF Listed
    <3>2. Updated(list)[k] = [id |-> s, ip |-> list[s], active |-> TRUE]
      BY <2>2, <2>5
    <3> QED
      BY <2>3, <2>7, <3>1, <3>2 DEF Full, s
  <2>6. CASE ~ Listed(list, s)
    <3>1. Updated(list)[k] = [id |-> s, ip |-> arrServers[k].ip, active |-> Listed(list, s)]
      BY <2>2, <2>6
    <3>2. Listed(list, s) \in BOOLEAN
      BY DEF Listed
    <3>3. Updated(list)[k] \in Full
      BY <2>3, <3>1, <3>2 DEF Full
    <3>4. Updated(list)[k].id = s
      BY <3>1
    <3> QED
      BY <2>6, <2>7, <3>3, <3>4 DEF s
  <2> QED
    BY <2>5, <2>6
<1>5. Updated(list) \in Seq(Full)
  <2>1. Updated(list) = [k \in 1 .. Len(arrServers) |-> Updated(list)[k]]
    BY <1>2 DEF Updated
  <2>2. \A k \in 1 .. Len(arrServers) : Updated(list)[k] \in Full
    BY <1>2, <1>4
  <2>3. Updated(list) \in [1 .. Len(arrServers) -> Full]
    BY <2>1, <2>2
  <2> QED
    BY <1>2, <2>3
<1>6. Once(Updated(list))
  BY <1>3, <1>4 DEF Once, NoServerTwice
<1> QED
  BY <1>3, <1>4, <1>5, <1>6

\* The servers that are appended, each once.
LEMMA AddedFacts ==
  ASSUME NEW list \in Table, NEW new \in Added(list)
  PROVE  /\ new \in Seq(Full)
         /\ Once(new)
         /\ \A k \in DOMAIN new : new[k].id \notin Ids /\ new[k].active /\ Listed(list, new[k].id)
         /\ \A s \in Server : Listed(list, s) /\ s \notin Ids =>
              \E k \in DOMAIN new : new[k] = [id |-> s, ip |-> list[s], active |-> TRUE]
<1> DEFINE T == {s \in Server : Listed(list, s) /\ s \notin Ids}
           n == Cardinality(T)
<1>1. PICK f \in [1 .. n -> T] :
        /\ \A i, j \in 1 .. n : i # j => f[i] # f[j]
        /\ new = [k \in 1 .. n |-> [id |-> f[k], ip |-> list[f[k]], active |-> TRUE]]
  BY DEF Added
<1>2. IsFiniteSet(T) /\ n \in Nat
  <2>1. IsFiniteSet(T)
    BY PoolListAssumption, FS_Subset
  <2> QED
    BY <2>1, FS_CardinalityType
<1>3. \A s \in T : s \in Server /\ s \notin Ids /\ Listed(list, s) /\ list[s] \in Ip
  BY PoolListAssumption DEF Listed
<1>4. \A s \in T : \E k \in 1 .. n : f[k] = s
  <2>1. IsFiniteSet(1 .. n) /\ Cardinality(1 .. n) = n
    <3>1. \A m \in Nat : IsFiniteSet(1 .. m) /\ Cardinality(1 .. m) = m
      BY FS_Interval
    <3> HIDE DEF n
    <3> QED
      BY <1>2, <3>1
  <2>2. f \in Injection(1 .. n, T)
    BY <1>1 DEF Injection, IsInjective
  <2> HIDE DEF T
  <2>3. f \in Surjection(1 .. n, T)
    BY <1>2, <2>1, <2>2, FS_Injection
  <2> QED
    BY <2>3 DEF Surjection
<1>5. T = {s \in Server : Listed(list, s) /\ s \notin Ids}
  OBVIOUS
<1> HIDE DEF n, T
<1>6. \A k \in 1 .. n : new[k] \in Full /\ new[k].id = f[k] /\ new[k].active /\ f[k] \in T
  BY <1>1, <1>3 DEF Full
<1>7. DOMAIN new = 1 .. n
  BY <1>1
<1>8. new \in Seq(Full)
  <2>1. new \in [1 .. n -> Full]
    <3>1. new = [k \in 1 .. n |-> new[k]]
      BY <1>1
    <3> QED
      BY <1>6, <3>1
  <2> QED
    BY <1>2, <2>1
<1>9. Once(new)
  BY <1>1, <1>6, <1>7 DEF Once
<1>10. ASSUME NEW s \in T
       PROVE  \E k \in DOMAIN new : new[k] = [id |-> s, ip |-> list[s], active |-> TRUE]
  BY <1>1, <1>4, <1>7
<1> QED
  BY <1>3, <1>5, <1>6, <1>7, <1>8, <1>9, <1>10

-----------------------------------------------------------------------------
(* The steps *)

\* Taking the i-th list off those under way leaves a shorter sequence of tables.
LEMMA ListsShorter ==
  ASSUME TypeOK, NEW i \in DOMAIN lists,
         lists' = [k \in 1 .. Len(lists) - 1 |-> lists[IF k < i THEN k ELSE k + 1]]
  PROVE  lists' \in Seq(Table) /\ Len(lists') <= MaxLists
<1>1. lists \in Seq(Table) /\ Len(lists) <= MaxLists
  BY DEF TypeOK
<1>2. Len(lists) \in Nat \ {0} /\ i \in 1 .. Len(lists) /\ MaxLists \in Nat
  BY <1>1, PoolListAssumption
<1>3. \A k \in 1 .. Len(lists) - 1 : lists[IF k < i THEN k ELSE k + 1] \in Table
  BY <1>1, <1>2
<1>4. Len(lists) - 1 \in Nat
  BY <1>2
<1>5. lists' \in [1 .. Len(lists) - 1 -> Table]
  BY <1>3
<1>6. lists' \in Seq(Table) /\ Len(lists') = Len(lists) - 1
  BY <1>4, <1>5
<1> QED
  BY <1>1, <1>2, <1>6

\* What is taken out is not active.
LEMMA RemovedInactive ==
  ASSUME NEW a \in Seq(Full)
  PROVE  Removed(a) \subseteq DOMAIN a /\ \A k \in Removed(a) : ~ a[k].active
<1>1. ASSUME NEW k \in DOMAIN a, Odd(a, k) PROVE ~ a[k].active
  <2>1. PICK j \in 1 .. k : \A i \in j .. k : ~ a[i].active
    BY <1>1 DEF Odd
  <2>2. k \in Nat
    OBVIOUS
  <2>3. k \in j .. k
    BY <2>1, <2>2
  <2> QED
    BY <2>1, <2>3
<1> QED
  BY <1>1 DEF Removed

\* The array before splice: no server twice, and all those of the list active.
LEMMA JoinedFacts ==
  ASSUME TypeOK, NoServerTwice, NEW list \in Table, NEW new \in Added(list)
  PROVE  LET a == Updated(list) \o new
         IN  /\ a \in Seq(Full)
             /\ Once(a)
             /\ \A k \in DOMAIN a : /\ a[k].active <=> Listed(list, a[k].id)
                                    /\ ~ a[k].active => a[k].id \in Ids
             /\ \A s \in Server : Listed(list, s) =>
                  \E k \in DOMAIN a : a[k] = [id |-> s, ip |-> list[s], active |-> TRUE]
<1> DEFINE u == Updated(list)
           a == u \o new
           E(s) == [id |-> s, ip |-> list[s], active |-> TRUE]
<1>1. /\ u \in Seq(Full) /\ DOMAIN u = DOMAIN arrServers /\ Once(u)
      /\ \A k \in DOMAIN arrServers : /\ u[k].id = arrServers[k].id
                                      /\ u[k].active <=> Listed(list, arrServers[k].id)
                                      /\ Listed(list, arrServers[k].id) => u[k] = E(arrServers[k].id)
  BY UpdatedFacts
<1>2. /\ new \in Seq(Full) /\ Once(new)
      /\ \A k \in DOMAIN new : new[k].id \notin Ids /\ new[k].active /\ Listed(list, new[k].id)
      /\ \A s \in Server : Listed(list, s) /\ s \notin Ids => \E k \in DOMAIN new : new[k] = E(s)
  BY AddedFacts
<1> HIDE DEF u, E
<1>3. /\ a \in Seq(Full) /\ Len(u) \in Nat /\ Len(new) \in Nat
      /\ DOMAIN u = 1 .. Len(u) /\ DOMAIN new = 1 .. Len(new)
      /\ DOMAIN a = 1 .. Len(u) + Len(new)
  BY <1>1, <1>2
<1>4. /\ \A k \in 1 .. Len(u) : a[k] = u[k]
      /\ \A k \in 1 .. Len(u) + Len(new) : k > Len(u) => k - Len(u) \in 1 .. Len(new) /\ a[k] = new[k - Len(u)]
  BY <1>1, <1>2, <1>3
<1>5. \A k \in DOMAIN new : k + Len(u) \in DOMAIN a /\ a[k + Len(u)] = new[k]
  BY <1>1, <1>2, <1>3
<1>6. \A k \in DOMAIN u : u[k].id \in Ids
  BY <1>1 DEF Ids
<1> HIDE DEF a
<1>7. ASSUME NEW j \in DOMAIN a, NEW k \in DOMAIN a, a[j].id = a[k].id
      PROVE  j = k
  <2>1. j \in 1 .. Len(u) + Len(new) /\ k \in 1 .. Len(u) + Len(new)
    BY <1>3
  <2>2. CASE j <= Len(u) /\ k <= Len(u)
    <3>1. j \in DOMAIN u /\ k \in DOMAIN u
      BY <1>3, <2>1, <2>2
    <3> QED
      BY <1>1, <1>3, <1>4, <1>7, <3>1 DEF Once
  <2>3. CASE j <= Len(u) /\ k > Len(u)
    <3>1. j \in DOMAIN u /\ a[j] = u[j]
      BY <1>3, <1>4, <2>1, <2>3
    <3>2. k - Len(u) \in DOMAIN new /\ a[k] = new[k - Len(u)]
      BY <1>3, <1>4, <2>1, <2>3
    <3> QED
      BY <1>2, <1>6, <1>7, <3>1, <3>2
  <2>4. CASE j > Len(u) /\ k <= Len(u)
    <3>1. k \in DOMAIN u /\ a[k] = u[k]
      BY <1>3, <1>4, <2>1, <2>4
    <3>2. j - Len(u) \in DOMAIN new /\ a[j] = new[j - Len(u)]
      BY <1>3, <1>4, <2>1, <2>4
    <3> QED
      BY <1>2, <1>6, <1>7, <3>1, <3>2
  <2>5. CASE j > Len(u) /\ k > Len(u)
    <3>1. k - Len(u) \in DOMAIN new /\ a[k] = new[k - Len(u)]
      BY <1>3, <1>4, <2>1, <2>5
    <3>2. j - Len(u) \in DOMAIN new /\ a[j] = new[j - Len(u)]
      BY <1>3, <1>4, <2>1, <2>5
    <3>3. j - Len(u) = k - Len(u)
      BY <1>2, <1>7, <3>1, <3>2 DEF Once
    <3> QED
      BY <1>3, <2>1, <3>3
  <2> QED
    BY <1>3, <2>1, <2>2, <2>3, <2>4, <2>5
<1>8. ASSUME NEW s \in Server, Listed(list, s)
      PROVE  \E k \in DOMAIN a : a[k] = E(s)
  <2>1. CASE s \in Ids
    <3>1. PICK k \in DOMAIN arrServers : arrServers[k].id = s
      BY <2>1 DEF Ids
    <3>2. k \in DOMAIN u /\ u[k] = E(s)
      BY <1>1, <1>8, <3>1
    <3>3. k \in DOMAIN a /\ a[k] = u[k]
      BY <1>3, <1>4, <3>2
    <3> QED
      BY <3>2, <3>3
  <2>2. CASE s \notin Ids
    BY <1>2, <1>5, <1>8, <2>2
  <2> QED
    BY <2>1, <2>2
<1>9. Once(a)
  BY <1>7 DEF Once
<1>10. ASSUME NEW k \in DOMAIN a
       PROVE  (a[k].active <=> Listed(list, a[k].id)) /\ (~ a[k].active => a[k].id \in Ids)
  <2>1. k \in 1 .. Len(u) + Len(new)
    BY <1>3
  <2>2. CASE k <= Len(u)
    <3>1. k \in DOMAIN u /\ a[k] = u[k]
      BY <1>3, <1>4, <2>1, <2>2
    <3> QED
      BY <1>1, <1>6, <3>1
  <2>3. CASE k > Len(u)
    <3>1. k - Len(u) \in DOMAIN new /\ a[k] = new[k - Len(u)]
      BY <1>3, <1>4, <2>1, <2>3
    <3> QED
      BY <1>2, <3>1
  <2> QED
    BY <1>3, <2>1, <2>2, <2>3
<1> QED
  BY <1>3, <1>8, <1>9, <1>10 DEF a, u, E

\* A list is taken: the array has each of its servers, once.
LEMMA CallbackStep ==
  ASSUME IInv, NEW i \in DOMAIN lists, UpdatePoolListCallback(i)
  PROVE  IInv'
<1> DEFINE list == lists[i]
<1>1. list \in Table
  BY DEF IInv, TypeOK
<1>2. PICK new \in Added(list) :
        arrServers' = Without(Updated(list) \o new, Removed(Updated(list) \o new))
  BY DEF UpdatePoolListCallback
<1>3. taken' = list /\ pool' = pool
      /\ lists' = [k \in 1 .. Len(lists) - 1 |-> lists[IF k < i THEN k ELSE k + 1]]
  BY DEF UpdatePoolListCallback
<1> DEFINE a == Updated(list) \o new
<1> HIDE DEF list
<1>4. /\ a \in Seq(Full) /\ Once(a)
      /\ \A s \in Server : Listed(list, s) =>
           \E k \in DOMAIN a : a[k] = [id |-> s, ip |-> list[s], active |-> TRUE]
  BY <1>1, JoinedFacts DEF IInv
<1>5. arrServers' = Without(a, Removed(a))
  BY <1>2
<1> HIDE DEF a
<1>6. Removed(a) \subseteq DOMAIN a /\ \A k \in Removed(a) : ~ a[k].active
  BY <1>4, RemovedInactive
<1> DEFINE w == arrServers'
<1>7. /\ \E n \in Nat : DOMAIN w = 1 .. n
      /\ w = [k \in DOMAIN w |-> w[k]]
      /\ \A k \in DOMAIN w : \E j \in DOMAIN a \ Removed(a) : w[k] = [id |-> a[j].id, ip |-> a[j].ip]
      /\ \A j \in DOMAIN a \ Removed(a) : \E k \in DOMAIN w : w[k] = [id |-> a[j].id, ip |-> a[j].ip]
      /\ Once(w)
  <2>1. LET v == Without(a, Removed(a))
        IN  /\ \E n \in Nat : DOMAIN v = 1 .. n
            /\ v = [k \in DOMAIN v |-> v[k]]
            /\ \A k \in DOMAIN v : \E j \in DOMAIN a \ Removed(a) : v[k] = [id |-> a[j].id, ip |-> a[j].ip]
            /\ \A j \in DOMAIN a \ Removed(a) : \E k \in DOMAIN v : v[k] = [id |-> a[j].id, ip |-> a[j].ip]
            /\ Once(a) => Once(v)
    BY <1>4, <1>6, WithoutFacts
  <2> QED
    BY <1>4, <1>5, <2>1
<1>8. w \in Seq([id : Server, ip : Ip])
  <2> DEFINE T == [id : Server, ip : Ip]
  <2>1. \A j \in DOMAIN a : a[j] \in Full
    BY <1>4
  <2>2. \A j \in DOMAIN a : [id |-> a[j].id, ip |-> a[j].ip] \in T
    BY <2>1 DEF Full
  <2> HIDE DEF T, w
  <2>3. \A k \in DOMAIN w : w[k] \in T
    BY <1>7, <2>2
  <2>4. PICK n \in Nat : DOMAIN w = 1 .. n
    BY <1>7
  <2>5. w \in [1 .. n -> T]
    BY <1>7, <2>3, <2>4
  <2>6. w \in Seq(T)
    BY <2>4, <2>5
  <2> QED
    BY <2>6 DEF T, w
<1>9. TypeOK'
  <2>1. lists' \in Seq(Table) /\ Len(lists') <= MaxLists
    BY <1>3, ListsShorter DEF IInv
  <2>2. pool' \in Table /\ taken' \in Table \cup {NoList}
    BY <1>1, <1>3 DEF IInv, TypeOK
  <2> QED
    BY <1>8, <2>1, <2>2 DEF TypeOK
<1>10. NoServerTwice'
  BY <1>7 DEF NoServerTwice, Once
<1>11. ListIsTaken'
  <2>1. ASSUME NEW s \in Server, Listed(list, s)
        PROVE  \E k \in DOMAIN w : w[k] = [id |-> s, ip |-> list[s]]
    <3>1. PICK j \in DOMAIN a : a[j] = [id |-> s, ip |-> list[s], active |-> TRUE]
      BY <1>4, <2>1
    <3>2. a[j].active /\ a[j].id = s /\ a[j].ip = list[s]
      BY <3>1
    <3>3. j \in DOMAIN a \ Removed(a)
      BY <1>6, <3>2
    <3> QED
      BY <1>7, <3>2, <3>3
  <2>2. \A s \in Server : Listed(list, s) =>
          [id |-> s, ip |-> list[s]] \in {w[k] : k \in DOMAIN w}
    BY <2>1
  <2> QED
    BY <1>3, <2>2 DEF ListIsTaken, Listed
<1> QED
  BY <1>9, <1>10, <1>11 DEF IInv

\* A set of numbers has a least one.
LEMMA LeastNumber ==
  ASSUME NEW T, T \subseteq Nat, T # {}
  PROVE  \E m \in T : \A k \in T : m <= k
<1> DEFINE R == OpToRel(<, Nat)
<1>1. \A x, y \in Nat : x < y => <<x, y>> \in R
  BY DEF OpToRel
<1>2. IsWellFoundedOn(R, Nat)
  BY NatLessThanWellFounded
<1> HIDE DEF R
<1>3. PICK m \in T : \A k \in T : <<k, m>> \notin R
  BY <1>2, WFMin
<1>4. \A k \in T : k \in Nat /\ m \in Nat /\ ~ (k < m)
  BY <1>1, <1>3
<1> QED
  BY <1>4

\* The loop passes over an inactive server only if it removed the one before.
LEMMA PassedOver ==
  ASSUME NEW a \in Seq(Full), NEW k \in DOMAIN a, ~ a[k].active, ~ Odd(a, k)
  PROVE  k - 1 \in Removed(a)
<1>1. k \in Nat \ {0} /\ DOMAIN a = 1 .. Len(a) /\ Len(a) \in Nat /\ k <= Len(a)
  OBVIOUS
<1> DEFINE T == {j \in 1 .. k - 1 : \A i \in j .. k - 1 : ~ a[i].active}
<1>2. k # 1 /\ ~ a[k - 1].active
  <2> SUFFICES ASSUME k = 1 \/ a[k - 1].active PROVE Odd(a, k)
    OBVIOUS
  <2>1. k \in 1 .. k /\ (k - k) % 2 = 0 /\ \A i \in k .. k : i = k
    BY <1>1
  <2> QED
    BY <2>1 DEF Odd
<1>3. k - 1 \in T
  <2>1. k - 1 \in 1 .. k - 1 /\ \A i \in k - 1 .. k - 1 : i = k - 1
    BY <1>1, <1>2
  <2> QED
    BY <1>2, <2>1
<1>4. T \subseteq Nat
  BY <1>1
<1>5. PICK m \in T : \A j \in T : m <= j
  BY <1>3, <1>4, LeastNumber
<1>6. m \in 1 .. k - 1 /\ \A i \in m .. k - 1 : ~ a[i].active
  OBVIOUS
<1>7. m = 1 \/ a[m - 1].active
  <2> SUFFICES ASSUME m # 1, ~ a[m - 1].active PROVE FALSE
    OBVIOUS
  <2>1. m - 1 \in 1 .. k - 1 /\ \A i \in m - 1 .. k - 1 : i = m - 1 \/ i \in m .. k - 1
    BY <1>1, <1>6
  <2>2. m - 1 \in T
    BY <1>6, <2>1
  <2>3. m <= m - 1
    BY <1>5, <2>2
  <2> QED
    BY <1>1, <1>6, <2>3
<1> HIDE DEF T
<1>8. (k - m) % 2 # 0
  <2>1. m \in 1 .. k /\ \A i \in m .. k : i = k \/ i \in m .. k - 1
    BY <1>1, <1>6
  <2> QED
    BY <1>6, <1>7, <2>1 DEF Odd
<1>9. (k - 1 - m) % 2 = 0
  BY <1>1, <1>6, <1>8
<1>10. Odd(a, k - 1)
  BY <1>6, <1>7, <1>9 DEF Odd
<1>11. k - 1 \in DOMAIN a
  BY <1>1, <1>6
<1> QED
  BY <1>10, <1>11 DEF Removed

\* At least half of the servers that are not active are removed.
LEMMA HalfRemoved ==
  ASSUME NEW a \in Seq(Full)
  PROVE  LET I == {k \in DOMAIN a : ~ a[k].active}
             P == I \ Removed(a)
         IN  /\ IsFiniteSet(I) /\ IsFiniteSet(P)
             /\ 2 * Cardinality(P) <= Cardinality(I)
<1> DEFINE I == {k \in DOMAIN a : ~ a[k].active}
           R == Removed(a)
           P == I \ R
           f == [k \in P |-> k - 1]
<1>1. DOMAIN a = 1 .. Len(a) /\ Len(a) \in Nat
  OBVIOUS
<1>2. IsFiniteSet(I)
  <2>1. IsFiniteSet(1 .. Len(a))
    BY <1>1, FS_Interval
  <2> QED
    BY <1>1, <2>1, FS_Subset
<1>3. R \subseteq I
  BY RemovedInactive
<1>4. \A k \in P : k \in Int /\ k - 1 \in R
  BY PassedOver DEF Removed
<1> HIDE DEF I, R
<1>5. f \in Injection(P, R)
  <2>1. f \in [P -> R] /\ \A k, l \in P : f[k] = f[l] => k = l
    BY <1>4
  <2> QED
    BY <2>1 DEF Injection, IsInjective
<1> HIDE DEF f
<1>6. IsFiniteSet(R) /\ IsFiniteSet(P) /\ P = I \ R /\ I \cap R = R
  BY <1>2, <1>3, FS_Subset
<1>7. Cardinality(P) = Cardinality(I) - Cardinality(R)
  BY <1>2, <1>6, FS_Difference
<1>8. Cardinality(P) <= Cardinality(R)
  BY <1>5, <1>6, FS_Injection
<1>9. Cardinality(I) \in Nat /\ Cardinality(R) \in Nat /\ Cardinality(P) \in Nat
  BY <1>2, <1>6, FS_CardinalityType
<1>10. 2 * Cardinality(P) <= Cardinality(I)
  BY <1>7, <1>8, <1>9
<1> QED
  BY <1>2, <1>6, <1>10 DEF I, R

\* A list takes out at least half of the servers that it does not name.
LEMMA CallbackHalves ==
  ASSUME IInv, NEW i \in DOMAIN lists, UpdatePoolListCallback(i),
         NEW list \in Table, lists[i] = list
  PROVE  2 * Cardinality(Unlisted(list)') <= Cardinality(Unlisted(list))
<1>2. PICK new \in Added(list) :
        arrServers' = Without(Updated(list) \o new, Removed(Updated(list) \o new))
  BY DEF UpdatePoolListCallback
<1> DEFINE a == Updated(list) \o new
           w == arrServers'
           I == {k \in DOMAIN a : ~ a[k].active}
           P == I \ Removed(a)
           before == {s \in Ids : ~ Listed(list, s)}
           after == {s \in {w[k].id : k \in DOMAIN w} : ~ Listed(list, s)}
<1>3. /\ a \in Seq(Full) /\ Once(a)
      /\ \A k \in DOMAIN a : /\ a[k].active <=> Listed(list, a[k].id)
                             /\ ~ a[k].active => a[k].id \in Ids
  <2>1. TypeOK /\ NoServerTwice
    BY DEF IInv
  <2> QED
    BY <2>1, JoinedFacts
<1>4. w = Without(a, Removed(a))
  BY <1>2
<1> HIDE DEF a
<1>5. IsFiniteSet(I) /\ IsFiniteSet(P) /\ 2 * Cardinality(P) <= Cardinality(I)
  BY <1>3, HalfRemoved
<1>6. Removed(a) \subseteq DOMAIN a
  BY <1>3, RemovedInactive
<1>7. \A k \in DOMAIN w : \E j \in DOMAIN a \ Removed(a) : w[k] = [id |-> a[j].id, ip |-> a[j].ip]
  <2>1. LET v == Without(a, Removed(a))
        IN  \A k \in DOMAIN v : \E j \in DOMAIN a \ Removed(a) : v[k] = [id |-> a[j].id, ip |-> a[j].ip]
    BY <1>3, <1>6, WithoutFacts
  <2> QED
    BY <1>4, <2>1
<1> HIDE DEF w
<1>8. Cardinality(after) <= Cardinality(P) /\ IsFiniteSet(after)
  <2> DEFINE out == {a[k].id : k \in P}
             g == [k \in P |-> a[k].id]
  <2>1. after \subseteq out
    <3> SUFFICES ASSUME NEW k \in DOMAIN w, ~ Listed(list, w[k].id)
                 PROVE  w[k].id \in out
      OBVIOUS
    <3>1. PICK j \in DOMAIN a \ Removed(a) : w[k] = [id |-> a[j].id, ip |-> a[j].ip]
      BY <1>7
    <3>2. w[k].id = a[j].id
      BY <3>1
    <3>3. ~ a[j].active
      BY <1>3, <3>1, <3>2
    <3>4. j \in P
      BY <3>1, <3>3
    <3> QED
      BY <3>2, <3>4
  <2>2. g \in Surjection(P, out)
    <3> HIDE DEF P
    <3> QED
      BY DEF Surjection
  <2> HIDE DEF g, out, after, P
  <2>3. IsFiniteSet(out) /\ Cardinality(out) <= Cardinality(P)
    BY <1>5, <2>2, FS_Surjection
  <2>4. IsFiniteSet(after) /\ Cardinality(after) <= Cardinality(out)
    BY <2>1, <2>3, FS_Subset
  <2>5. Cardinality(after) \in Nat /\ Cardinality(out) \in Nat /\ Cardinality(P) \in Nat
    BY <1>5, <2>3, <2>4, FS_CardinalityType
  <2> QED
    BY <2>3, <2>4, <2>5
<1>9. Cardinality(I) <= Cardinality(before) /\ IsFiniteSet(before)
  <2> DEFINE g == [k \in I |-> a[k].id]
             h == [k \in DOMAIN arrServers |-> arrServers[k].id]
  <2>1. IsFiniteSet(Ids)
    <3>1. Len(arrServers) \in Nat /\ DOMAIN arrServers = 1 .. Len(arrServers)
      BY DEF IInv, TypeOK
    <3>2. IsFiniteSet(DOMAIN arrServers)
      BY <3>1, FS_Interval
    <3>3. h \in Surjection(DOMAIN arrServers, Ids)
      BY DEF Surjection, Ids
    <3> HIDE DEF h
    <3> QED
      BY <3>2, <3>3, FS_Surjection
  <2>2. IsFiniteSet(before)
    BY <2>1, FS_Subset
  <2>3. g \in Injection(I, before)
    <3>1. \A k \in I : a[k].id \in before
      BY <1>3
    <3>2. \A k, l \in I : a[k].id = a[l].id => k = l
      BY <1>3 DEF Once
    <3> HIDE DEF I, before
    <3> QED
      BY <3>1, <3>2 DEF Injection, IsInjective
  <2> HIDE DEF g, I, before
  <2> QED
    BY <2>2, <2>3, FS_Injection
<1>10. Cardinality(after) \in Nat /\ Cardinality(P) \in Nat
       /\ Cardinality(I) \in Nat /\ Cardinality(before) \in Nat
  BY <1>5, <1>8, <1>9, FS_CardinalityType
<1>11. Unlisted(list) = before
  BY DEF Unlisted
<1>12. Unlisted(list)' = after
  BY DEF Unlisted, Ids, w
<1> HIDE DEF after, before, P, I
<1> QED
  BY <1>5, <1>8, <1>9, <1>10, <1>11, <1>12

LEMMA InitInv == Init => IInv
<1> SUFFICES ASSUME Init PROVE IInv
  OBVIOUS
<1>1. TypeOK
  BY PoolListAssumption DEF Init, TypeOK
<1>2. NoServerTwice
  BY DEF Init, NoServerTwice
<1>3. ListIsTaken
  BY DEF Init, ListIsTaken
<1> QED
  BY <1>1, <1>2, <1>3 DEF IInv

LEMMA NextInv == IInv /\ [Next]_vars => IInv'
<1> SUFFICES ASSUME IInv, [Next]_vars PROVE IInv'
  OBVIOUS
<1>1. CASE Fetch
  <2>1. lists' \in Seq(Table) /\ Len(lists') <= MaxLists
    BY <1>1, PoolListAssumption DEF IInv, TypeOK, Fetch
  <2> QED
    BY <1>1, <2>1 DEF IInv, TypeOK, NoServerTwice, ListIsTaken, Listed, Fetch
<1>2. ASSUME NEW i \in DOMAIN lists, UpdatePoolListCallback(i) PROVE IInv'
  BY <1>2, CallbackStep
<1>3. ASSUME NEW i \in DOMAIN lists, LoseList(i) PROVE IInv'
  <2>1. lists' \in Seq(Table) /\ Len(lists') <= MaxLists
    BY <1>3, ListsShorter DEF IInv, LoseList
  <2> QED
    BY <1>3, <2>1 DEF IInv, TypeOK, NoServerTwice, ListIsTaken, Listed, LoseList
<1>4. ASSUME NEW table \in Table, Change(table) PROVE IInv'
  BY <1>4 DEF IInv, TypeOK, NoServerTwice, ListIsTaken, Listed, Change
<1>5. CASE UNCHANGED vars
  BY <1>5 DEF IInv, TypeOK, NoServerTwice, ListIsTaken, Listed, vars
<1> QED
  BY <1>1, <1>2, <1>3, <1>4, <1>5 DEF Next

\* The inductive invariant holds of every state that a watcher reaches,
\* whatever lists come, in whatever order (scribe.js:110-180).
THEOREM Invariant == Spec => []IInv
<1> QED
  BY InitInv, NextInv, PTL DEF Spec

\* The array is one of servers with addresses, and lists stay lists of the
\* table (scribe.js:110-180).
THEOREM TypeCorrect == Spec => []TypeOK
<1>1. IInv => TypeOK
  BY DEF IInv
<1> QED
  BY <1>1, Invariant, PTL

\* No list makes a watcher hold a server twice (scribe.js:140-171).
THEOREM NoneTwice == Spec => []NoServerTwice
<1>1. IInv => NoServerTwice
  BY DEF IInv
<1> QED
  BY <1>1, Invariant, PTL

\* Splice inside for-in never takes out a server of the list that is taken, and
\* each of them is in the array with its address (scribe.js:137-179).
THEOREM ListTaken == Spec => []ListIsTaken
<1>1. IInv => ListIsTaken
  BY DEF IInv
<1> QED
  BY <1>1, Invariant, PTL

\* Whatever the order of the array, of the servers that a list does not name at
\* most half are left: what the loop passes over is one behind what it removes
\* (scribe.js:174-179).
THEOREM HalfLeaves == Spec => HalfLeave
<1>1. IInv /\ [Next]_vars =>
        [\A i \in DOMAIN lists, l \in Table :
           lists[i] = l /\ UpdatePoolListCallback(i)
             => 2 * Cardinality(Unlisted(l)') <= Cardinality(Unlisted(l))]_vars
  BY CallbackHalves, Zenon
<1> QED
  BY <1>1, Invariant, PTL DEF Spec, HalfLeave
=============================================================================
