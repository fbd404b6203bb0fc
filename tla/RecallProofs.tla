---------------------------- MODULE RecallProofs ----------------------------
(***************************************************************************)
(* What a reader misses is bounded by what changed while it read, for any  *)
(* number of memories, any filters and page sizes and any interleaving.    *)
(***************************************************************************)
EXTENDS Recall, FiniteSetTheorems, TLAPS

(* How many memories a search may list up to m, m and its equals included. *)
Reach(m) == Cardinality(NotBehind(walk.filter, Wanted(walk.filter), m))

(* Memories not shown yet though the first r places hold all their equals. *)
Within(r) == {m \in unseen : Reach(m) <= r}

(* The pages up to a place have passed few memories, and left none behind  *)
(* that the places after it do not hold.                                   *)
FewWithin(at) ==
    \A r \in Nat : at <= r => Cardinality(Within(r)) <= lost + tied + (r - at)

(* Nothing is looked for outside of a search; its statements are in order. *)
Phases == /\ pc = "idle" \/ walk.mode = "hot" => unseen = {}
          /\ pc \in {"count", "page"} => walk.mode = "default"
          /\ pc = "page" => walk.rows = {}

(* Before a page: few were passed, and total bounds what there is to find. *)
(* After it: the bounds WalkToShortPage and WalkToTotal speak of, and      *)
(* after a full page what the next one starts from.                        *)
WalkInv ==
    NoRepeat =>
        /\ pc \in {"count", "page", "decorate", "answered"}
              => unseen \subseteq Wanted(walk.filter)
        /\ pc \in {"count", "page"} => FewWithin(walk.offset)
        /\ pc = "page" => Cardinality(Wanted(walk.filter)) <= walk.total + late
        /\ pc \in {"decorate", "answered"} =>
              /\ Cardinality(walk.rows) < walk.limit
                    => Cardinality(unseen) <= lost + tied
              /\ Cardinality(walk.rows) = walk.limit
                    => FewWithin(walk.offset + walk.limit)
              /\ walk.offset + walk.limit >= walk.total
                    => Cardinality(unseen) <= lost + tied + late

RowsMatch == \A m \in walk.rows : walk.filter.roles \subseteq memory[m].roles

StatsInv ==
    /\ Reporting => Cardinality(LiveOnes) <= report.active + saved
    /\ pc \in {"roleStats", "reported"} =>
          \A t \in DOMAIN report.topics :
              report.topics[t] <= report.active + saved
    /\ pc = "reported" =>
          \A r \in DOMAIN report.roles :
              report.roles[r] <= report.active + saved

IInv == TypeOK /\ Phases /\ WalkInv /\ RowsMatch /\ StatsInv

(***************************************************************************)
(* The order of a search.                                                  *)
(***************************************************************************)
LEMMA Sizes ==
    ASSUME TypeOK, NEW ms \in SUBSET DOMAIN memory
    PROVE  IsFiniteSet(ms) /\ Cardinality(ms) \in Nat
BY FS_Subset, FS_CardinalityType DEF TypeOK

LEMMA Keys ==
    ASSUME TypeOK, NEW f, NEW m \in DOMAIN memory
    PROVE  Similarity(f, m) \in Nat /\ made[m] \in Nat
<1>1. memory[m] \in Row /\ made[m] \in Moment
  BY DEF TypeOK
<1>2. memory[m].content \in Content
  BY <1>1 DEF Row
<1> QED
  BY <1>1, <1>2, RecallAssumption DEF Similarity

(* A finite set that two others cover is no larger than both together. *)
LEMMA Cover ==
    ASSUME NEW S, NEW T, NEW U, IsFiniteSet(T), IsFiniteSet(U),
           S \subseteq T \cup U
    PROVE  /\ IsFiniteSet(S) /\ Cardinality(S) \in Nat
           /\ Cardinality(T) \in Nat /\ Cardinality(U) \in Nat
           /\ Cardinality(S) <= Cardinality(T) + Cardinality(U)
<1>1. T \cap U \in SUBSET T /\ S \in SUBSET (T \cup U)
  OBVIOUS
<1>2. /\ IsFiniteSet(T \cup U)
      /\ Cardinality(T \cup U)
           = Cardinality(T) + Cardinality(U) - Cardinality(T \cap U)
  BY FS_Union
<1>3. /\ Cardinality(S) <= Cardinality(T \cup U) /\ IsFiniteSet(S)
      /\ IsFiniteSet(T \cap U)
  BY <1>1, <1>2, FS_Subset
<1>4. /\ Cardinality(S) \in Nat /\ Cardinality(T \cap U) \in Nat
      /\ Cardinality(T) \in Nat /\ Cardinality(U) \in Nat
  BY <1>3, FS_CardinalityType
<1> QED
  BY <1>2, <1>3, <1>4

LEMMA Interval ==
    ASSUME NEW a \in Nat, NEW b \in Nat, a <= b
    PROVE  IsFiniteSet(a..(b-1)) /\ Cardinality(a..(b-1)) = b - a
<1>1. /\ IsFiniteSet(a..(b-1))
      /\ Cardinality(a..(b-1)) = IF a > b - 1 THEN 0 ELSE (b - 1) - a + 1
  BY FS_Interval
<1>2. CASE a = b
  BY <1>1, <1>2
<1>3. CASE a < b
  BY <1>1, <1>3
<1> QED
  BY <1>2, <1>3

(* Memories with places from a to b - 1 are at most b - a. *)
LEMMA Slots ==
    ASSUME NEW f, NEW S, NEW place \in Orders(f, S), NEW N \in SUBSET S,
           NEW a \in Nat, NEW b \in Nat, a <= b,
           \A m \in N : a <= place[m] /\ place[m] < b
    PROVE  IsFiniteSet(N) /\ Cardinality(N) <= b - a
<1> DEFINE at == [m \in N |-> place[m]]
<1>1. /\ place \in [S -> 0..(Cardinality(S) - 1)]
      /\ \A m, n \in S : place[m] = place[n] => m = n
  BY DEF Orders
<1>2. at \in [N -> a..(b-1)]
  BY <1>1
<1>3. \A m, n \in N : at[m] = at[n] => m = n
  BY <1>1
<1>4. at \in Injection(N, a..(b-1))
  BY <1>2, <1>3 DEF Injection, IsInjective
<1>5. IsFiniteSet(a..(b-1)) /\ Cardinality(a..(b-1)) = b - a
  BY Interval
<1> HIDE DEF at
<1> QED
  BY <1>4, <1>5, FS_Injection

(* The memories in the places from a to b - 1. *)
Between(place, S, a, b) == {m \in S : a <= place[m] /\ place[m] < b}

(* Every place below the number of memories is taken. *)
LEMMA Filled ==
    ASSUME NEW f, NEW S, IsFiniteSet(S), NEW place \in Orders(f, S),
           NEW a \in Nat, NEW b \in Nat, a <= b, b <= Cardinality(S)
    PROVE  b - a <= Cardinality(Between(place, S, a, b))
<1> DEFINE size == Cardinality(S)
           slots == 0..(size - 1)
<1>1. size \in Nat /\ IsFiniteSet(slots) /\ Cardinality(slots) = size
  <2>1. size \in Nat
    BY FS_CardinalityType
  <2> HIDE DEF size
  <2>2. IsFiniteSet(0..(size - 1)) /\ Cardinality(0..(size - 1)) = size - 0
    BY <2>1, Interval
  <2> QED
    BY <2>1, <2>2
<1>2. place \in Injection(S, slots)
  BY DEF Orders, Injection, IsInjective
<1>3. place \in Surjection(S, slots)
  BY <1>1, <1>2, FS_Injection
<1>4. \A i \in slots : \E m \in S : place[m] = i
  BY <1>3 DEF Surjection
<1> DEFINE part == Between(place, S, a, b)
           who == [i \in a..(b-1) |-> CHOOSE m \in S : place[m] = i]
<1>5. \A i \in a..(b-1) : who[i] \in S /\ place[who[i]] = i
  <2> SUFFICES ASSUME NEW i \in a..(b-1)
               PROVE  \E m \in S : place[m] = i
    OBVIOUS
  <2> QED
    BY <1>1, <1>4
<1>6. who \in [a..(b-1) -> part]
  BY <1>5 DEF Between
<1>7. who \in Injection(a..(b-1), part)
  BY <1>5, <1>6 DEF Injection, IsInjective
<1>8. IsFiniteSet(part)
  BY FS_Subset DEF Between
<1>9. Cardinality(a..(b-1)) = b - a
  BY Interval
<1> HIDE DEF who, part
<1>10. Cardinality(a..(b-1)) <= Cardinality(part)
  BY <1>7, <1>8, FS_Injection
<1> QED
  BY <1>9, <1>10 DEF part

(* In any order of the answer a memory has its place behind all that come  *)
(* before it and before all that come behind it.                           *)
LEMMA Places ==
    ASSUME NEW f, NEW S, IsFiniteSet(S), NEW place \in Orders(f, S),
           NEW m \in S
    PROVE  /\ Cardinality(Ahead(f, S, m)) \in Nat
           /\ Cardinality(NotBehind(f, S, m)) \in Nat
           /\ place[m] \in Nat /\ place[m] < Cardinality(S)
           /\ Cardinality(Ahead(f, S, m)) <= place[m]
           /\ place[m] < Cardinality(NotBehind(f, S, m))
<1>1. /\ Cardinality(S) \in Nat
      /\ \A n \in S : place[n] \in 0..(Cardinality(S) - 1)
      /\ \A n, k \in S : Before(f, n, k) => place[n] < place[k]
  BY FS_CardinalityType DEF Orders
<1>2. Ahead(f, S, m) \in SUBSET S /\ NotBehind(f, S, m) \in SUBSET S
  BY DEF Ahead, NotBehind
<1>3. /\ IsFiniteSet(NotBehind(f, S, m))
      /\ Cardinality(Ahead(f, S, m)) \in Nat
      /\ Cardinality(NotBehind(f, S, m)) \in Nat
  BY <1>2, FS_Subset, FS_CardinalityType
<1>4. Cardinality(Ahead(f, S, m)) <= place[m] - 0
  <2>1. \A n \in Ahead(f, S, m) : 0 <= place[n] /\ place[n] < place[m]
    BY <1>1 DEF Ahead
  <2>2. 0 <= place[m] /\ place[m] \in Nat
    BY <1>1
  <2> QED
    BY <1>2, <2>1, <2>2, Slots
<1>5. (place[m] + 1) - 0 <= Cardinality(Between(place, S, 0, place[m] + 1))
  <2>1. /\ place[m] + 1 \in Nat /\ 0 <= place[m] + 1
        /\ place[m] + 1 <= Cardinality(S)
    BY <1>1
  <2> QED
    BY <2>1, Filled
<1>6. Between(place, S, 0, place[m] + 1) \in SUBSET NotBehind(f, S, m)
  <2> SUFFICES ASSUME NEW n \in S, place[n] < place[m] + 1
               PROVE  ~ Before(f, m, n)
    BY DEF Between, NotBehind
  <2> QED
    BY <1>1
<1>7. /\ Cardinality(Between(place, S, 0, place[m] + 1))
           <= Cardinality(NotBehind(f, S, m))
      /\ Cardinality(Between(place, S, 0, place[m] + 1)) \in Nat
  BY <1>3, <1>6, FS_Subset, FS_CardinalityType
<1> QED
  BY <1>1, <1>3, <1>4, <1>5, <1>7

Behind(f, S, m) == {n \in S : Before(f, m, n)}
HasLast(f, B) == \E m \in B : \A n \in B : ~ Before(f, m, n)

(* Of some memories one comes last: of the sets of those behind one, a     *)
(* smallest one has none of them.                                          *)
LEMMA LastOf ==
    ASSUME TypeOK, NEW f, NEW S \in SUBSET DOMAIN memory,
           NEW B \in SUBSET S, B # {}
    PROVE  HasLast(f, B)
<1> DEFINE T == {Behind(f, S, m) : m \in B}
           R == StrictSubsetOrdering(S)
<1>1. IsFiniteSet(S)
  BY Sizes
<1>2. IsWellFoundedOn(R, FiniteSubsetsOf(S))
  BY FS_StrictSubsetOrderingWellFounded
<1>3. T \subseteq FiniteSubsetsOf(S) /\ T # {}
  <2>1. T \subseteq SUBSET S /\ T # {}
    BY DEF Behind
  <2>2. FiniteSubsetsOf(S) = SUBSET S
    BY <1>1, FS_FiniteSubsetsOfFinite
  <2> QED
    BY <2>1, <2>2
<1> HIDE DEF T, R
<1>4. PICK ms \in T : \A ns \in T : <<ns, ms>> \notin R
  BY <1>2, <1>3, WFMin
<1>5. PICK m \in B : ms = Behind(f, S, m)
  BY <1>4 DEF T
<1>6. ASSUME NEW n \in B, Before(f, m, n)
      PROVE  FALSE
  <2>1. \A k \in S : Before(f, n, k) => Before(f, m, k)
    BY <1>6, Keys DEF Before
  <2>2. ~ Before(f, n, n)
    BY Keys DEF Before
  <2>3. /\ Behind(f, S, n) \subseteq Behind(f, S, m)
        /\ n \in Behind(f, S, m) /\ n \notin Behind(f, S, n)
    BY <1>6, <2>1, <2>2 DEF Behind
  <2>4. /\ Behind(f, S, n) \in T
        /\ Behind(f, S, n) \subseteq S /\ Behind(f, S, m) \subseteq S
    BY DEF T, Behind
  <2>5. <<Behind(f, S, n), ms>> \in R
    BY <1>5, <2>3, <2>4 DEF R, StrictSubsetOrdering
  <2> QED
    BY <1>4, <2>4, <2>5
<1> QED
  BY <1>6 DEF HasLast

(* No more than r memories find room, with their equals, in r places. *)
LEMMA Bottom ==
    ASSUME TypeOK, NEW f, NEW S \in SUBSET DOMAIN memory, NEW r \in Nat
    PROVE  Cardinality({m \in S : Cardinality(NotBehind(f, S, m)) <= r}) <= r
<1> DEFINE B == {m \in S : Cardinality(NotBehind(f, S, m)) <= r}
<1>1. CASE B = {}
  BY <1>1, FS_EmptySet
<1>2. CASE B # {}
  <2>1. HasLast(f, B)
    <3>1. B \in SUBSET S
      OBVIOUS
    <3> HIDE DEF B
    <3> QED
      BY <1>2, <3>1, LastOf
  <2>2. PICK m \in B : \A n \in B : ~ Before(f, m, n)
    BY <2>1 DEF HasLast
  <2>3. B \in SUBSET NotBehind(f, S, m) /\ NotBehind(f, S, m) \in SUBSET DOMAIN memory
    BY <2>2 DEF NotBehind
  <2>4. IsFiniteSet(NotBehind(f, S, m)) /\ Cardinality(NotBehind(f, S, m)) \in Nat
    BY <2>3, Sizes
  <2>5. Cardinality(NotBehind(f, S, m)) <= r
    OBVIOUS
  <2> HIDE DEF B
  <2>6. Cardinality(B) <= Cardinality(NotBehind(f, S, m)) /\ Cardinality(B) \in Nat
    BY <2>3, <2>4, FS_Subset, FS_CardinalityType
  <2>7. Cardinality(B) <= r
    BY <2>4, <2>5, <2>6
  <2> QED
    BY <2>7 DEF B
<1> QED
  BY <1>1, <1>2

(***************************************************************************)
(* What the joins find.                                                    *)
(***************************************************************************)
LEMMA InDomain ==
    ASSUME NEW f
    PROVE  /\ Found(f) \subseteq Conditions(f) /\ Wanted(f) \subseteq Conditions(f)
           /\ Conditions(f) \subseteq LiveOnes /\ LiveOnes \subseteq DOMAIN memory
BY DEF Found, Wanted, Conditions, LiveOnes

(* All of a finite set is in another one when as many are.                 *)
LEMMA AllIn ==
    ASSUME NEW S, NEW T, IsFiniteSet(S), Cardinality(S \cap T) = Cardinality(S)
    PROVE  S \subseteq T
<1>1. S \cap T \in SUBSET S
  OBVIOUS
<1>2. S \cap T = S
  BY <1>1, FS_Subset
<1> QED
  BY <1>2

(* HAVING COUNT(DISTINCT r.name) = len(roles) finds memories with all the  *)
(* roles, and all of those when no name is repeated.                       *)
LEMMA JoinFinds ==
    ASSUME NEW f \in Filter \cup {NoFilter}
    PROVE  /\ Found(f) \subseteq Wanted(f)
           /\ f.asked = Cardinality(f.roles) => Found(f) = Wanted(f)
<1>1. /\ IsFiniteSet(f.roles) /\ Cardinality(f.roles) \in Nat
      /\ f.asked \in Nat /\ Cardinality(f.roles) <= f.asked
  <2>1. CASE f = NoFilter
    BY <2>1, FS_EmptySet DEF NoFilter
  <2>2. CASE f \in Filter
    BY <2>2, RecallAssumption, FS_CardinalityType
  <2> QED
    BY <2>1, <2>2
<1>2. ASSUME NEW m \in Conditions(f), f.roles # {},
             Cardinality(f.roles \cap memory[m].roles) = f.asked
      PROVE  f.roles \subseteq memory[m].roles
  <2>1. f.roles \cap memory[m].roles \in SUBSET f.roles
    OBVIOUS
  <2>2. Cardinality(f.roles \cap memory[m].roles) = Cardinality(f.roles)
    <3>1. /\ Cardinality(f.roles \cap memory[m].roles) <= Cardinality(f.roles)
          /\ IsFiniteSet(f.roles \cap memory[m].roles)
      BY <1>1, <2>1, FS_Subset
    <3>2. Cardinality(f.roles \cap memory[m].roles) \in Nat
      BY <3>1, FS_CardinalityType
    <3> QED
      BY <1>1, <1>2, <3>1, <3>2
  <2> QED
    BY <1>1, <2>2, AllIn
<1>3. ASSUME NEW m \in Conditions(f), f.asked = Cardinality(f.roles),
             f.roles \subseteq memory[m].roles
      PROVE  Cardinality(f.roles \cap memory[m].roles) = f.asked
  <2>1. f.roles \cap memory[m].roles = f.roles
    BY <1>3
  <2> QED
    BY <1>3, <2>1
<1> QED
  BY <1>2, <1>3 DEF Found, Wanted

LEMMA PlaceType ==
    ASSUME TypeOK, NEW m
    PROVE  /\ Reach(m) \in Nat
           /\ Wanted(walk.filter) \in SUBSET DOMAIN memory
           /\ Found(walk.filter) \in SUBSET DOMAIN memory
           /\ LiveOnes \in SUBSET DOMAIN memory
<1>1. /\ Wanted(walk.filter) \in SUBSET DOMAIN memory
      /\ Found(walk.filter) \in SUBSET DOMAIN memory
      /\ LiveOnes \in SUBSET DOMAIN memory
  BY InDomain
<1>2. NotBehind(walk.filter, Wanted(walk.filter), m) \in SUBSET DOMAIN memory
  BY <1>1 DEF NotBehind
<1> QED
  BY <1>1, <1>2, Sizes DEF Reach

LEMMA WithinType ==
    ASSUME TypeOK, NEW r
    PROVE  /\ IsFiniteSet(Within(r)) /\ Cardinality(Within(r)) \in Nat
           /\ IsFiniteSet(unseen) /\ Cardinality(unseen) \in Nat
           /\ Cardinality(Within(r)) <= Cardinality(unseen)
<1>1. /\ unseen \in SUBSET DOMAIN memory /\ Within(r) \in SUBSET unseen
      /\ Within(r) \in SUBSET DOMAIN memory
  BY DEF TypeOK, Within
<1> QED
  BY <1>1, Sizes, FS_Subset

(***************************************************************************)
(* The calls of others.                                                    *)
(***************************************************************************)
LEMMA StoreStep ==
    ASSUME TypeOK, Store!Next
    PROVE  /\ memory' \in [DOMAIN memory' -> Row]
           /\ DOMAIN topics' \subseteq TopicIds
           /\ topics' \in [DOMAIN topics' -> {"open", "closed"}]
           /\ DOMAIN memory \subseteq DOMAIN memory'
           /\ \/ DOMAIN memory' = DOMAIN memory
              \/ \E m \in Id : DOMAIN memory' = DOMAIN memory \cup {m}
           /\ \A m \in DOMAIN memory :
                 /\ memory'[m].roles = memory[m].roles
                 /\ memory[m].is_deleted => memory'[m].is_deleted
<1> DEFINE Same == \A i \in DOMAIN memory :
                      /\ memory'[i].roles = memory[i].roles
                      /\ memory[i].is_deleted => memory'[i].is_deleted
           Typed == /\ memory' \in [DOMAIN memory' -> Row]
                    /\ DOMAIN topics' \subseteq TopicIds
                    /\ topics' \in [DOMAIN topics' -> {"open", "closed"}]
<1>1. ASSUME NEW m \in Id, NEW row \in Store!SavedRow, Store!Save(m, row)
      PROVE  Typed /\ Same /\ DOMAIN memory' = DOMAIN memory \cup {m}
  <2>1. row \in Row
    BY DEF Store!SavedRow, Row
  <2> QED
    BY <1>1, <2>1 DEF Store!Save, TypeOK
<1>2. ASSUME NEW m \in Id, Store!Forget(m)
      PROVE  Typed /\ Same /\ DOMAIN memory' = DOMAIN memory
  <2>1. \A i \in DOMAIN memory : memory[i] \in Row
    BY DEF TypeOK
  <2> QED
    <3>1. [memory[m] EXCEPT !.is_deleted = TRUE] \in Row
          /\ [memory[m] EXCEPT !.is_deleted = TRUE].roles = memory[m].roles
          /\ [memory[m] EXCEPT !.is_deleted = TRUE].is_deleted = TRUE
      BY <1>2, <2>1 DEF Store!Forget, Row
    <3>2. /\ memory' = [memory EXCEPT ![m] = [memory[m] EXCEPT !.is_deleted = TRUE]]
          /\ topics' = topics /\ m \in DOMAIN memory
      BY <1>2 DEF Store!Forget
    <3> DEFINE r == [memory[m] EXCEPT !.is_deleted = TRUE]
    <3> HIDE DEF r
    <3> QED
      BY <3>1, <3>2 DEF r, TypeOK
<1>3. ASSUME NEW m \in Id, NEW text \in Content, Store!Edit(m, text)
      PROVE  Typed /\ Same /\ DOMAIN memory' = DOMAIN memory
  <2>1. \A i \in DOMAIN memory : memory[i] \in Row
    BY DEF TypeOK
  <2> QED
    BY <1>3, <2>1 DEF Store!Edit, TypeOK, Row
<1>4. ASSUME NEW t \in TopicIds, NEW add, NEW remove
      PROVE  LET R == Store!Relinked(t, add, remove)
             IN  /\ R \in [DOMAIN memory -> Row]
                 /\ \A i \in DOMAIN memory :
                       /\ R[i].roles = memory[i].roles
                       /\ R[i].is_deleted = memory[i].is_deleted
  <2>1. \A i \in DOMAIN memory : memory[i] \in Row
    BY DEF TypeOK
  <2>2. ASSUME NEW i \in DOMAIN memory, NEW a \in SUBSET TopicIds
        PROVE  /\ [memory[i] EXCEPT !.topics = a] \in Row
               /\ [memory[i] EXCEPT !.topics = a].roles = memory[i].roles
               /\ [memory[i] EXCEPT !.topics = a].is_deleted = memory[i].is_deleted
    BY <2>1 DEF Row
  <2>3. ASSUME NEW i \in DOMAIN memory
        PROVE  ((memory[i].topics \cup {x \in {t} : i \in add})
                  \ {x \in {t} : i \in remove}) \in SUBSET TopicIds
    BY <2>1 DEF Row
  <2>4. ASSUME NEW i \in DOMAIN memory
        PROVE  Store!Relinked(t, add, remove)[i]
                 = [memory[i] EXCEPT !.topics =
                      (memory[i].topics \cup {x \in {t} : i \in add})
                        \ {x \in {t} : i \in remove}]
    BY DEF Store!Relinked
  <2>5. ASSUME NEW i \in DOMAIN memory
        PROVE  /\ Store!Relinked(t, add, remove)[i] \in Row
               /\ Store!Relinked(t, add, remove)[i].roles = memory[i].roles
               /\ Store!Relinked(t, add, remove)[i].is_deleted = memory[i].is_deleted
    <3> DEFINE a == (memory[i].topics \cup {x \in {t} : i \in add})
                      \ {x \in {t} : i \in remove}
    <3>1. a \in SUBSET TopicIds
      BY <2>3, <2>5
    <3>2. Store!Relinked(t, add, remove)[i] = [memory[i] EXCEPT !.topics = a]
      BY <2>4, <2>5
    <3> HIDE DEF a
    <3> QED
      BY <2>2, <2>5, <3>1, <3>2
  <2> QED
    BY <2>5 DEF Store!Relinked
<1>5. ASSUME NEW t \in TopicIds, NEW ms \in IdList, Store!Open(t, ms)
      PROVE  Typed /\ Same /\ DOMAIN memory' = DOMAIN memory
  <2>1. memory' = Store!Relinked(t, ms, {})
    BY <1>5 DEF Store!Open
  <2>2. DOMAIN topics' \subseteq TopicIds
        /\ topics' \in [DOMAIN topics' -> {"open", "closed"}]
    BY <1>5 DEF Store!Open, TypeOK
  <2> QED
    BY <1>4, <2>1, <2>2
<1>6. ASSUME NEW t \in TopicIds,
             Store!Toggle(t, "open", "closed") \/ Store!Toggle(t, "closed", "open")
      PROVE  Typed /\ Same /\ DOMAIN memory' = DOMAIN memory
  BY <1>6 DEF Store!Toggle, TypeOK
<1>7. ASSUME NEW t \in TopicIds, NEW add, NEW remove,
             Store!Relink(t, add, remove)
      PROVE  Typed /\ Same /\ DOMAIN memory' = DOMAIN memory
  <2>1. memory' = Store!Relinked(t, add, remove) /\ topics' = topics
    BY <1>7 DEF Store!Relink
  <2> QED
    BY <1>4, <2>1 DEF TypeOK
<1>8. (\E m \in Id, row \in Store!SavedRow : Store!Save(m, row))
        => /\ Typed /\ Same
           /\ \E m \in Id : DOMAIN memory' = DOMAIN memory \cup {m}
  BY <1>1
<1>9. ~ (\E m \in Id, row \in Store!SavedRow : Store!Save(m, row))
        => Typed /\ Same /\ DOMAIN memory' = DOMAIN memory
  BY <1>2, <1>3, <1>5, <1>6, <1>7 DEF Store!Next
<1> QED
  BY <1>8, <1>9

LEMMA WriteMade ==
    ASSUME TypeOK, Write
    PROVE  /\ DOMAIN memory' \subseteq Id /\ IsFiniteSet(DOMAIN memory')
           /\ made' \in [DOMAIN memory' -> Moment]
           /\ \A m \in DOMAIN memory : made'[m] = made[m]
           /\ IsFiniteSet(DOMAIN memory' \ DOMAIN memory)
<1>1. Store!Next
  BY DEF Write
<1>2. CASE DOMAIN memory' = DOMAIN memory
  <2>1. made' = made
    BY <1>2 DEF Write
  <2>2. IsFiniteSet(DOMAIN memory' \ DOMAIN memory)
    BY <1>2, FS_Subset DEF TypeOK
  <2> QED
    BY <1>2, <2>1, <2>2 DEF TypeOK
<1>3. CASE DOMAIN memory' # DOMAIN memory
  <2>1. PICK n \in Id : DOMAIN memory' = DOMAIN memory \cup {n}
    BY <1>1, <1>3, StoreStep
  <2>2. PICK k \in Moment :
            made' = [m \in DOMAIN memory' |->
                        IF m \in DOMAIN made THEN made[m] ELSE k]
    BY <1>3 DEF Write
  <2>3. DOMAIN made = DOMAIN memory
    BY DEF TypeOK
  <2>4. IsFiniteSet(DOMAIN memory')
    BY <2>1, FS_AddElement DEF TypeOK
  <2>5. IsFiniteSet(DOMAIN memory' \ DOMAIN memory)
    BY <2>4, FS_Difference
  <2>6. made' \in [DOMAIN memory' -> Moment]
    BY <2>2, <2>3 DEF TypeOK
  <2> QED
    BY <2>1, <2>2, <2>3, <2>4, <2>5, <2>6 DEF TypeOK
<1> QED
  BY <1>2, <1>3

LEMMA Changes ==
    ASSUME TypeOK, Write
    PROVE  /\ IsFiniteSet(Gone) /\ Cardinality(Gone) \in Nat
           /\ IsFiniteSet(Come) /\ Cardinality(Come) \in Nat
<1>1. Gone \in SUBSET DOMAIN memory
  BY InDomain DEF Gone
<1>2. Come \in SUBSET DOMAIN memory'
  BY DEF Come, Wanted, Conditions, LiveOnes
<1>3. IsFiniteSet(DOMAIN memory')
  BY WriteMade
<1> QED
  BY <1>1, <1>2, <1>3, Sizes, FS_Subset, FS_CardinalityType

(* A call of another brings a memory that stays no more places forward     *)
(* than memories leave.                                                    *)
LEMMA Shift ==
    ASSUME TypeOK, Write, NEW y \in Wanted(walk.filter), y \notin Gone
    PROVE  /\ Reach(y)' \in Nat
           /\ Reach(y) <= Reach(y)' + Cardinality(Gone)
<1> DEFINE f == walk.filter
           A == NotBehind(f, Wanted(f), y)
           B == NotBehind(f, Wanted(f), y)'
           Sim(m) == Similarity(f, m)
<1>1. walk' = walk /\ Store!Next
  BY DEF Write
<1>2. /\ \A m \in DOMAIN memory : made'[m] = made[m]
      /\ IsFiniteSet(DOMAIN memory')
  BY WriteMade
<1>3. y \in Wanted(f)' /\ Sim(y)' = Sim(y) /\ y \in DOMAIN memory
  BY <1>1, InDomain DEF Gone
<1>4. B = {n \in Wanted(f)' : ~ (\/ Sim(y)' > Sim(n)'
                                 \/ Sim(y)' = Sim(n)' /\ made'[y] > made'[n])}
  BY <1>1 DEF NotBehind, Before
<1>5. A = {n \in Wanted(f) : ~ (\/ Sim(y) > Sim(n)
                                \/ Sim(y) = Sim(n) /\ made[y] > made[n])}
  BY DEF NotBehind, Before
<1>6. ASSUME NEW n \in A, n \notin Gone
      PROVE  n \in B
  <2>1. n \in Wanted(f)' /\ Sim(n)' = Sim(n) /\ n \in DOMAIN memory
    BY <1>1, <1>5, <1>6, InDomain DEF Gone
  <2> HIDE DEF Sim, A, B
  <2> QED
    BY <1>2, <1>3, <1>4, <1>5, <1>6, <2>1
<1>7. B \in SUBSET DOMAIN memory'
  BY <1>4, InDomain DEF Wanted, Conditions, LiveOnes
<1>8. Reach(y) = Cardinality(A) /\ Reach(y)' = Cardinality(B)
  BY <1>1 DEF Reach
<1>9. IsFiniteSet(B) /\ IsFiniteSet(Gone)
  BY <1>2, <1>7, FS_Subset, Changes
<1> HIDE DEF A, B
<1>10. A \subseteq B \cup Gone
  BY <1>6
<1> QED
  BY <1>8, <1>9, <1>10, Cover

LEMMA WriteNotes ==
    ASSUME TypeOK, Write
    PROVE  /\ lost' \in Nat /\ lost <= lost' /\ late' \in Nat /\ late <= late'
           /\ saved' \in Nat /\ unseen' \subseteq unseen
           /\ Walking => /\ lost' = lost + Cardinality(Gone)
                         /\ unseen' = unseen \ Gone
           /\ ~ Walking => unseen' = unseen
           /\ pc = "page" => late' = late + Cardinality(Come)
           /\ pc # "page" => late' = late
           /\ Reporting => saved' = saved
                              + Cardinality(DOMAIN memory' \ DOMAIN memory)
           /\ ~ Reporting => saved' = saved
           /\ pc' = pc /\ walk' = walk /\ report' = report /\ tied' = tied
<1>1. Note /\ pc' = pc /\ walk' = walk /\ report' = report
  BY DEF Write
<1>2. /\ Cardinality(Gone) \in Nat /\ Cardinality(Come) \in Nat
      /\ Cardinality(DOMAIN memory' \ DOMAIN memory) \in Nat
  BY Changes, WriteMade, FS_CardinalityType
<1>3. lost \in Nat /\ late \in Nat /\ saved \in Nat
  BY DEF TypeOK
<1> DEFINE g == Cardinality(Gone)
           c == Cardinality(Come)
           n == Cardinality(DOMAIN memory' \ DOMAIN memory)
<1>4. /\ IF Walking THEN lost' = lost + g /\ unseen' = unseen \ Gone
                    ELSE lost' = lost /\ unseen' = unseen
      /\ tied' = tied
      /\ late' = IF pc = "page" THEN late + c ELSE late
      /\ saved' = IF Reporting THEN saved + n ELSE saved
  BY <1>1 DEF Note
<1>5. g \in Nat /\ c \in Nat /\ n \in Nat
  BY <1>2
<1> HIDE DEF g, c, n
<1>6. /\ lost' \in Nat /\ lost <= lost' /\ late' \in Nat /\ late <= late'
      /\ saved' \in Nat /\ unseen' \subseteq unseen
  BY <1>3, <1>4, <1>5
<1> QED
  BY <1>1, <1>4, <1>6 DEF g, c, n

LEMMA WriteType ==
    ASSUME TypeOK, Write
    PROVE  TypeOK'
<1> USE DEF TypeOK
<1>1. Store!Next
  BY DEF Write
<1>2. /\ memory' \in [DOMAIN memory' -> Row]
      /\ DOMAIN topics' \subseteq TopicIds
      /\ topics' \in [DOMAIN topics' -> {"open", "closed"}]
      /\ DOMAIN memory \subseteq DOMAIN memory'
      /\ \A m \in DOMAIN memory : memory'[m].roles = memory[m].roles
  BY <1>1, StoreStep
<1>3. /\ DOMAIN memory' \subseteq Id /\ IsFiniteSet(DOMAIN memory')
      /\ made' \in [DOMAIN memory' -> Moment]
  BY WriteMade
<1>4. /\ lost' \in Nat /\ late' \in Nat /\ saved' \in Nat
      /\ unseen' \subseteq unseen
      /\ pc' = pc /\ walk' = walk /\ report' = report /\ tied' = tied
  BY WriteNotes
<1>5. walk.shown = [m \in DOMAIN walk.shown |-> memory'[m].roles]
  BY <1>2
<1> QED
  BY <1>2, <1>3, <1>4, <1>5

(* Few are passed after a call of another when few were before: what is    *)
(* within r places now was within as many more as memories left.           *)
LEMMA WriteWithin ==
    ASSUME TypeOK, Write, unseen \subseteq Wanted(walk.filter),
           Walking, NEW at \in Nat, FewWithin(at), NEW r \in Nat, at <= r
    PROVE  Cardinality(Within(r)') <= lost' + tied' + (r - at)
<1> DEFINE g == Cardinality(Gone)
<1>1. /\ lost' = lost + g /\ unseen' = unseen \ Gone /\ g \in Nat
      /\ tied' = tied /\ lost \in Nat /\ tied \in Nat
  BY WriteNotes, Changes DEF TypeOK
<1> DEFINE wide == Within(r + g)
           now == Within(r)'
<1>2. now = {m \in unseen \ Gone : Reach(m)' <= r}
  BY <1>1 DEF Within
<1>3. now \in SUBSET wide
  <2> SUFFICES ASSUME NEW m \in unseen \ Gone, Reach(m)' <= r
               PROVE  Reach(m) <= r + g
    BY <1>2 DEF Within
  <2>1. Reach(m)' \in Nat /\ Reach(m) <= Reach(m)' + g /\ Reach(m) \in Nat
    BY Shift, PlaceType
  <2> HIDE DEF g
  <2> QED
    BY <1>1, <2>1
<1>4. IsFiniteSet(wide) /\ Cardinality(wide) \in Nat
  BY WithinType
<1>5. Cardinality(wide) <= lost + tied + ((r + g) - at)
  <2>1. r + g \in Nat /\ at <= r + g
    BY <1>1
  <2> QED
    BY <2>1 DEF FewWithin
<1> HIDE DEF g, wide, now
<1>6. Cardinality(now) <= Cardinality(wide) /\ Cardinality(now) \in Nat
  BY <1>3, <1>4, FS_Subset, FS_CardinalityType
<1>7. Cardinality(now) <= lost' + tied' + (r - at)
  BY <1>1, <1>4, <1>5, <1>6
<1> QED
  BY <1>7 DEF now

LEMMA WriteWalk ==
    ASSUME IInv, Write
    PROVE  WalkInv'
<1> USE DEF IInv
<1>1. /\ lost' \in Nat /\ lost <= lost' /\ late' \in Nat /\ late <= late'
      /\ unseen' \subseteq unseen /\ pc' = pc /\ walk' = walk
      /\ lost \in Nat /\ late \in Nat /\ tied' = tied /\ tied \in Nat
  BY WriteNotes DEF TypeOK
<1>2. SUFFICES ASSUME NoRepeat, pc \in {"count", "page", "decorate", "answered"}
               PROVE  WalkInv'
  BY <1>1 DEF WalkInv, NoRepeat
<1>3. /\ Cardinality(unseen) \in Nat /\ Cardinality(unseen') \in Nat
      /\ Cardinality(unseen') <= Cardinality(unseen)
  <2>1. unseen' \in SUBSET unseen /\ IsFiniteSet(unseen)
    BY <1>1, WithinType
  <2> QED
    BY <2>1, FS_Subset, FS_CardinalityType
<1>4. CASE walk.mode = "hot"
  <2>1. unseen = {} /\ unseen' = {} /\ pc \in {"decorate", "answered"}
    BY <1>1, <1>2, <1>4 DEF Phases
  <2>2. Cardinality({}) = 0 /\ \A r : Within(r)' = {}
    BY <2>1, FS_EmptySet DEF Within
  <2>3. FewWithin(walk.offset + walk.limit)'
    <3>1. walk.offset + walk.limit \in Nat
      BY DEF TypeOK
    <3> SUFFICES ASSUME NEW r \in Nat, walk.offset + walk.limit <= r
                 PROVE  0 <= lost' + tied' + (r - (walk.offset + walk.limit))
      BY <1>1, <2>2 DEF FewWithin
    <3> QED
      BY <1>1, <3>1
  <2> QED
    BY <1>1, <2>1, <2>2, <2>3 DEF WalkInv
<1>5. CASE walk.mode = "default"
  <2>1. Walking
    BY <1>2, <1>5 DEF Walking
  <2>2. unseen' = unseen \ Gone /\ unseen \subseteq Wanted(walk.filter)
    BY <1>2, <2>1, WriteNotes DEF WalkInv
  <2>3. unseen' \subseteq Wanted(walk.filter)'
    BY <1>1, <2>2 DEF Gone
  <2>4. ASSUME NEW at \in Nat, FewWithin(at)
        PROVE  \A r \in Nat : at <= r =>
                  Cardinality(Within(r)') <= lost' + tied' + (r - at)
    BY <2>1, <2>2, <2>4, WriteWithin
  <2>5. walk.offset \in Nat /\ walk.offset + walk.limit \in Nat
    BY DEF TypeOK
  <2>6. pc = "page" => Cardinality(Wanted(walk.filter)') <= walk.total + late'
    <3>1. SUFFICES ASSUME pc = "page"
                   PROVE  Cardinality(Wanted(walk.filter)') <= walk.total + late'
      OBVIOUS
    <3>2. Wanted(walk.filter)' \subseteq Wanted(walk.filter) \cup Come
      BY DEF Come
    <3>3. IsFiniteSet(Wanted(walk.filter)) /\ IsFiniteSet(Come)
      BY PlaceType, Sizes, Changes
    <3>4. /\ Cardinality(Wanted(walk.filter)')
               <= Cardinality(Wanted(walk.filter)) + Cardinality(Come)
          /\ Cardinality(Wanted(walk.filter)') \in Nat
          /\ Cardinality(Wanted(walk.filter)) \in Nat /\ Cardinality(Come) \in Nat
      BY <3>2, <3>3, Cover
    <3>5. /\ Cardinality(Wanted(walk.filter)) <= walk.total + late
          /\ late' = late + Cardinality(Come) /\ walk.total \in Nat
      BY <1>2, <3>1, WriteNotes DEF WalkInv, TypeOK
    <3> QED
      BY <1>1, <3>4, <3>5
  <2>7. pc \in {"count", "page"} => FewWithin(walk.offset)'
    BY <1>1, <1>2, <2>4, <2>5 DEF WalkInv, FewWithin
  <2>8. pc \in {"decorate", "answered"} =>
          /\ Cardinality(walk.rows) < walk.limit
                => Cardinality(unseen') <= lost' + tied'
          /\ Cardinality(walk.rows) = walk.limit
                => FewWithin(walk.offset + walk.limit)'
          /\ walk.offset + walk.limit >= walk.total
                => Cardinality(unseen') <= lost' + tied' + late'
    <3>1. SUFFICES ASSUME pc \in {"decorate", "answered"}
                   PROVE  /\ Cardinality(walk.rows) < walk.limit
                                => Cardinality(unseen') <= lost' + tied'
                          /\ Cardinality(walk.rows) = walk.limit
                                => FewWithin(walk.offset + walk.limit)'
                          /\ walk.offset + walk.limit >= walk.total
                                => Cardinality(unseen') <= lost' + tied' + late'
      OBVIOUS
    <3>2. /\ Cardinality(walk.rows) < walk.limit
                => Cardinality(unseen) <= lost + tied
          /\ Cardinality(walk.rows) = walk.limit
                => FewWithin(walk.offset + walk.limit)
          /\ walk.offset + walk.limit >= walk.total
                => Cardinality(unseen) <= lost + tied + late
      BY <1>2, <3>1 DEF WalkInv
    <3>3. Cardinality(walk.rows) = walk.limit
             => FewWithin(walk.offset + walk.limit)'
      BY <1>1, <2>4, <2>5, <3>2 DEF FewWithin
    <3> QED
      BY <1>1, <1>3, <3>2, <3>3
  <2> QED
    BY <1>1, <2>3, <2>6, <2>7, <2>8 DEF WalkInv
<1> QED
  BY <1>4, <1>5 DEF TypeOK

LEMMA WriteRest ==
    ASSUME IInv, Write
    PROVE  Phases' /\ RowsMatch' /\ StatsInv'
<1> USE DEF IInv
<1>1. /\ lost' \in Nat /\ lost <= lost' /\ unseen' \subseteq unseen
      /\ pc' = pc /\ walk' = walk /\ report' = report
      /\ Reporting => saved' = saved
                         + Cardinality(DOMAIN memory' \ DOMAIN memory)
      /\ ~ Reporting => saved' = saved
      /\ saved \in Nat /\ report.active \in Nat
  BY WriteNotes DEF TypeOK
<1>2. Store!Next
  BY DEF Write
<1>3. Phases'
  BY <1>1 DEF Phases
<1>4. RowsMatch'
  BY <1>1, <1>2, StoreStep DEF RowsMatch, TypeOK
<1> DEFINE new == DOMAIN memory' \ DOMAIN memory
<1>5. IsFiniteSet(new) /\ Cardinality(new) \in Nat
  BY WriteMade, FS_CardinalityType
<1>6. LiveOnes' \subseteq LiveOnes \cup new
  BY <1>2, StoreStep DEF LiveOnes
<1>7. /\ Cardinality(LiveOnes') <= Cardinality(LiveOnes) + Cardinality(new)
      /\ Cardinality(LiveOnes) \in Nat /\ Cardinality(LiveOnes') \in Nat
  <2>1. IsFiniteSet(LiveOnes) /\ Cardinality(LiveOnes) \in Nat
    BY PlaceType, Sizes
  <2> HIDE DEF new
  <2>2. LiveOnes \cap new \in SUBSET new /\ LiveOnes' \in SUBSET (LiveOnes \cup new)
    BY <1>6
  <2>3. Cardinality(LiveOnes \cap new) \in Nat
    BY <1>5, <2>2, FS_Subset, FS_CardinalityType
  <2>4. /\ IsFiniteSet(LiveOnes \cup new)
        /\ Cardinality(LiveOnes \cup new) = Cardinality(LiveOnes)
             + Cardinality(new) - Cardinality(LiveOnes \cap new)
    BY <1>5, <2>1, FS_Union
  <2>5. /\ Cardinality(LiveOnes') <= Cardinality(LiveOnes \cup new)
        /\ Cardinality(LiveOnes') \in Nat
    BY <2>2, <2>4, FS_Subset, FS_CardinalityType
  <2> QED
    BY <1>5, <2>1, <2>3, <2>4, <2>5
<1>8. Reporting' = Reporting
  BY <1>1 DEF Reporting
<1>9. saved <= saved' /\ saved' \in Nat
  <2> HIDE DEF new
  <2>1. saved' = saved + Cardinality(new) \/ saved' = saved
    BY <1>1 DEF new
  <2> QED
    BY <1>1, <1>5, <2>1
<1>10. ASSUME NEW k \in Nat, k <= report.active + saved
       PROVE  k <= report.active + saved'
  BY <1>1, <1>9, <1>10
<1>11. /\ pc \in {"roleStats", "reported"} =>
             \A t \in DOMAIN report.topics :
                 report.topics[t] <= report.active + saved'
       /\ pc = "reported" =>
             \A r \in DOMAIN report.roles :
                 report.roles[r] <= report.active + saved'
  BY <1>10 DEF StatsInv, TypeOK
<1>12. Reporting => Cardinality(LiveOnes') <= report.active + saved'
  <2> HIDE DEF new
  <2>1. Reporting => saved' = saved + Cardinality(new)
    BY <1>1 DEF new
  <2> QED
    BY <1>1, <1>5, <1>7, <2>1 DEF StatsInv
<1>13. StatsInv'
  BY <1>1, <1>8, <1>11, <1>12 DEF StatsInv
<1> QED
  BY <1>3, <1>4, <1>13

(***************************************************************************)
(* The reader.                                                             *)
(***************************************************************************)

(* A SELECT changes no memory, so it moves none.                           *)
LEMMA Reads ==
    ASSUME TypeOK, UNCHANGED store
    PROVE  /\ LiveOnes' = LiveOnes
           /\ walk'.filter = walk.filter =>
                 /\ Wanted(walk.filter)' = Wanted(walk.filter)
                 /\ \A m : Reach(m)' = Reach(m)
                 /\ unseen' = unseen => \A r : Within(r)' = Within(r)
<1>1. memory' = memory /\ made' = made
  BY DEF store
<1>2. LiveOnes' = LiveOnes
  BY <1>1 DEF LiveOnes
<1>3. SUFFICES ASSUME walk'.filter = walk.filter
               PROVE  /\ Wanted(walk.filter)' = Wanted(walk.filter)
                      /\ \A m : Reach(m)' = Reach(m)
                      /\ unseen' = unseen => \A r : Within(r)' = Within(r)
  BY <1>2
<1>4. Wanted(walk.filter)' = Wanted(walk.filter)
  BY <1>1, <1>3 DEF Wanted, Conditions, LiveOnes
<1>5. ASSUME NEW m
      PROVE  Reach(m)' = Reach(m)
  <2> DEFINE W == Wanted(walk.filter)
  <2>1. NotBehind(walk.filter, W, m)' = NotBehind(walk.filter, W, m)
    BY <1>1, <1>3, <1>4 DEF NotBehind, Before, Similarity
  <2> QED
    BY <2>1 DEF Reach
<1>6. unseen' = unseen => \A r : Within(r)' = Within(r)
  BY <1>5 DEF Within
<1> QED
  BY <1>4, <1>5, <1>6

LEMMA SearchStep ==
    ASSUME IInv, NEW f \in Filter, NEW limit \in Limit, Search(f, limit)
    PROVE  IInv'
<1> USE DEF IInv
<1>1. /\ walk' = [NoWalk EXCEPT !.filter = f, !.limit = limit]
      /\ pc' = "count" /\ unseen' = Wanted(f)
      /\ UNCHANGED <<store, report, lost, tied, late, saved>>
      /\ memory' = memory /\ made' = made /\ topics' = topics
      /\ limit \in Nat \ {0}
  BY RecallAssumption DEF Search, Step, store
<1>2. /\ walk'.filter = f /\ walk'.limit = limit /\ walk'.offset = 0
      /\ walk'.mode = "default" /\ walk'.rows = {} /\ walk'.total = 0
      /\ walk'.shown = [m \in {} |-> {}]
  BY <1>1 DEF NoWalk
<1>3. Wanted(f) \subseteq DOMAIN memory
  BY InDomain
<1>4. TypeOK'
  BY <1>1, <1>2, <1>3 DEF TypeOK
<1>5. Phases' /\ RowsMatch' /\ StatsInv'
  BY <1>1, <1>2 DEF Phases, RowsMatch, StatsInv, Reporting
<1>6. unseen' = Wanted(walk.filter)'
  BY <1>1, <1>2 DEF Wanted, Conditions, LiveOnes
<1>7. ASSUME NEW r \in Nat
      PROVE  Cardinality(Within(r)') <= r
  <2>1. Wanted(walk.filter)' = Wanted(f)
    BY <1>1, <1>6
  <2>2. ASSUME NEW m
        PROVE  Reach(m)' = Cardinality(NotBehind(f, Wanted(f), m))
    BY <1>1, <1>2, <2>1 DEF Reach, NotBehind, Before, Similarity
  <2>3. Within(r)' = {m \in Wanted(f) :
                         Cardinality(NotBehind(f, Wanted(f), m)) <= r}
    BY <1>1, <2>2 DEF Within
  <2>4. Wanted(f) \in SUBSET DOMAIN memory
    BY <1>3
  <2> QED
    BY <2>3, <2>4, Bottom
<1>8. ASSUME NEW r \in Nat
      PROVE  Cardinality(Within(r)') <= lost' + tied' + (r - walk'.offset)
  <2>1. Cardinality(Within(r)') \in Nat
    <3>1. Within(r)' \in SUBSET DOMAIN memory
      BY <1>1, <1>3 DEF Within
    <3> QED
      BY <3>1, Sizes
  <2>2. lost' \in Nat /\ tied' \in Nat
    BY <1>4 DEF TypeOK
  <2> QED
    BY <1>2, <1>7, <2>1, <2>2
<1>9. FewWithin(walk.offset)'
  BY <1>8 DEF FewWithin
<1>10. WalkInv'
  BY <1>1, <1>6, <1>9 DEF WalkInv
<1> QED
  BY <1>4, <1>5, <1>10

(* As many as there are reach to every memory of a search. *)
LEMMA LastReach ==
    ASSUME TypeOK, NEW m
    PROVE  Reach(m) <= Cardinality(Wanted(walk.filter))
<1>1. NotBehind(walk.filter, Wanted(walk.filter), m) \in SUBSET Wanted(walk.filter)
  BY DEF NotBehind
<1>2. IsFiniteSet(Wanted(walk.filter))
  BY PlaceType, Sizes
<1> QED
  BY <1>1, <1>2, FS_Subset DEF Reach

LEMMA CountStep ==
    ASSUME IInv, Count
    PROVE  IInv'
<1> USE DEF IInv
<1> DEFINE total == Cardinality(Found(walk.filter))
<1>1. /\ walk' = [walk EXCEPT !.total = total, !.rows = {}, !.shown = NoWalk.shown]
      /\ pc = "count" /\ late' = 0
      /\ \/ pc' = "page"
         \/ pc' = "answered" /\ walk.offset >= total /\ total > 0
      /\ UNCHANGED <<store, report, unseen, lost, tied, saved>>
      /\ memory' = memory /\ made' = made /\ topics' = topics
  BY DEF Count, Step, store
<1>2. total \in Nat
  BY PlaceType, Sizes
<1>3. /\ walk'.mode = walk.mode
      /\ walk'.filter = walk.filter /\ walk'.limit = walk.limit
      /\ walk'.offset = walk.offset /\ walk'.total = total
      /\ walk'.rows = {} /\ walk'.shown = [m \in {} |-> {}]
  BY <1>1 DEF NoWalk
<1> HIDE DEF total
<1>4. TypeOK'
  BY <1>1, <1>2, <1>3 DEF TypeOK
<1>5. Phases' /\ RowsMatch' /\ StatsInv'
  BY <1>1, <1>3 DEF Phases, RowsMatch, StatsInv, Reporting
<1>6. SUFFICES ASSUME NoRepeat
               PROVE  WalkInv'
  BY <1>3, <1>4, <1>5 DEF WalkInv, NoRepeat
<1>7. /\ Wanted(walk.filter)' = Wanted(walk.filter)
      /\ \A r : Within(r)' = Within(r)
  BY <1>1, <1>3, Reads
<1>8. Found(walk.filter) = Wanted(walk.filter)
  BY <1>6, JoinFinds DEF NoRepeat, TypeOK
<1>9. unseen \subseteq Wanted(walk.filter) /\ FewWithin(walk.offset)
  BY <1>1, <1>6 DEF WalkInv
<1>10. /\ walk.offset \in Nat /\ walk.limit \in Nat \ {0}
       /\ lost \in Nat /\ tied \in Nat
  BY DEF TypeOK
<1>11. CASE pc' = "page"
  <2>1. FewWithin(walk.offset)'
    BY <1>1, <1>3, <1>7, <1>9 DEF FewWithin
  <2>2. Cardinality(Wanted(walk.filter)') <= walk'.total + late'
    BY <1>1, <1>2, <1>3, <1>7, <1>8 DEF total
  <2> QED
    BY <1>1, <1>7, <1>9, <1>11, <2>1, <2>2 DEF WalkInv
<1>12. CASE pc' = "answered"
  <2>1. walk.offset >= total
    BY <1>1, <1>12
  <2>2. ASSUME NEW m \in unseen
        PROVE  Reach(m) <= walk.offset
    <3>1. Reach(m) <= total /\ Reach(m) \in Nat
      BY <1>8, LastReach, PlaceType DEF total
    <3> QED
      BY <1>2, <1>10, <2>1, <3>1
  <2>3. Within(walk.offset) = unseen
    BY <2>2 DEF Within
  <2>4. Cardinality(unseen) <= lost + tied + (walk.offset - walk.offset)
    <3>1. walk.offset <= walk.offset
      BY <1>10
    <3> QED
      BY <1>9, <1>10, <2>3, <3>1 DEF FewWithin
  <2>5. Cardinality(unseen) \in Nat
    BY WithinType
  <2>6. /\ Cardinality(unseen') <= lost' + tied'
        /\ Cardinality(unseen') <= lost' + tied' + late'
    BY <1>1, <1>10, <2>4, <2>5
  <2>7. Cardinality(walk'.rows) = 0 /\ walk'.limit # 0
    BY <1>3, <1>10, FS_EmptySet
  <2> QED
    BY <1>1, <1>7, <1>9, <1>12, <2>6, <2>7 DEF WalkInv
<1> QED
  BY <1>1, <1>11, <1>12

(* The unseen memories before a page and those behind it.                  *)
Missed(place, a) == {m \in unseen : place[m] < a}
Later(place, b) == {m \in unseen : b <= place[m]}

(* Before a page stand those whose equals all fit there, and those that    *)
(* its start separates from their equals.                                  *)
LEMMA MissedFew ==
    ASSUME TypeOK, unseen \subseteq Wanted(walk.filter),
           NEW place \in Orders(walk.filter, Wanted(walk.filter)),
           NEW a \in Nat, FewWithin(a)
    PROVE  LET split == Split(walk.filter, Wanted(walk.filter), a)
           IN  /\ IsFiniteSet(Missed(place, a))
               /\ Cardinality(Missed(place, a)) \in Nat
               /\ Cardinality(split) \in Nat
               /\ Cardinality(Missed(place, a))
                    <= lost + tied + Cardinality(split)
<1> DEFINE W == Wanted(walk.filter)
           split == Split(walk.filter, W, a)
<1>1. IsFiniteSet(W)
  BY PlaceType, Sizes
<1>2. split \in SUBSET DOMAIN memory
  BY DEF Split, TypeOK
<1>3. IsFiniteSet(split) /\ IsFiniteSet(Within(a))
  BY <1>2, Sizes, WithinType
<1>4. Missed(place, a) \subseteq Within(a) \cup split
  <2> SUFFICES ASSUME NEW m \in unseen, place[m] < a
               PROVE  m \in Within(a) \/ m \in split
    BY DEF Missed
  <2>1. /\ Cardinality(Ahead(walk.filter, W, m)) \in Nat
        /\ Cardinality(NotBehind(walk.filter, W, m)) \in Nat
        /\ place[m] \in Nat
        /\ Cardinality(Ahead(walk.filter, W, m)) <= place[m]
    BY <1>1, Places
  <2>2. CASE Cardinality(NotBehind(walk.filter, W, m)) <= a
    BY <2>2 DEF Within, Reach
  <2>3. CASE a < Cardinality(NotBehind(walk.filter, W, m))
    <3>1. Cardinality(Ahead(walk.filter, W, m)) < a
      BY <2>1
    <3> QED
      BY <2>3, <3>1 DEF Split
  <2> QED
    BY <2>1, <2>2, <2>3
<1>5. Cardinality(Within(a)) <= lost + tied + (a - a)
  <2>1. a <= a
    OBVIOUS
  <2> QED
    BY <2>1 DEF FewWithin
<1>6. lost \in Nat /\ tied \in Nat
  BY DEF TypeOK
<1> HIDE DEF split
<1>7. /\ IsFiniteSet(Missed(place, a)) /\ Cardinality(Missed(place, a)) \in Nat
      /\ Cardinality(Within(a)) \in Nat /\ Cardinality(split) \in Nat
      /\ Cardinality(Missed(place, a)) <= Cardinality(Within(a)) + Cardinality(split)
  BY <1>3, <1>4, Cover
<1>8. Cardinality(Missed(place, a)) <= lost + tied + Cardinality(split)
  BY <1>5, <1>6, <1>7
<1> QED
  BY <1>7, <1>8 DEF split

(* Behind a page the places that follow it hold at most as many again.     *)
LEMMA NextFew ==
    ASSUME TypeOK, unseen \subseteq Wanted(walk.filter),
           NEW place \in Orders(walk.filter, Wanted(walk.filter)),
           NEW a \in Nat, FewWithin(a), NEW b \in Nat,
           NEW r \in Nat, b <= r
    PROVE  Cardinality({m \in Missed(place, a) \cup Later(place, b) :
                           Reach(m) <= r})
             <= lost + tied
                  + Cardinality(Split(walk.filter, Wanted(walk.filter), a))
                  + (r - b)
<1> DEFINE W == Wanted(walk.filter)
           split == Split(walk.filter, W, a)
           N == {m \in Later(place, b) : place[m] < r}
           P == {m \in Missed(place, a) \cup Later(place, b) : Reach(m) <= r}
<1>1. IsFiniteSet(W)
  BY PlaceType, Sizes
<1>2. IsFiniteSet(N) /\ Cardinality(N) <= r - b
  <2>1. N \in SUBSET W /\ \A m \in N : b <= place[m] /\ place[m] < r
    BY DEF Later
  <2> HIDE DEF N, W
  <2> QED
    BY <2>1, Slots DEF W
<1>3. P \subseteq Missed(place, a) \cup N
  <2> SUFFICES ASSUME NEW m \in Later(place, b), Reach(m) <= r
               PROVE  place[m] < r
    OBVIOUS
  <2>1. m \in W
    BY DEF Later
  <2>2. /\ place[m] \in Nat /\ place[m] < Reach(m) /\ Reach(m) \in Nat
    BY <1>1, <2>1, Places DEF Reach
  <2> QED
    BY <2>2
<1>4. /\ IsFiniteSet(Missed(place, a)) /\ Cardinality(split) \in Nat
      /\ Cardinality(Missed(place, a)) <= lost + tied + Cardinality(split)
  BY MissedFew
<1>5. lost \in Nat /\ tied \in Nat
  BY DEF TypeOK
<1> HIDE DEF split, N, P
<1>6. /\ Cardinality(P) \in Nat /\ Cardinality(N) \in Nat
      /\ Cardinality(Missed(place, a)) \in Nat
      /\ Cardinality(P) <= Cardinality(Missed(place, a)) + Cardinality(N)
  BY <1>2, <1>3, <1>4, Cover
<1>7. Cardinality(P) <= lost + tied + Cardinality(split) + (r - b)
  BY <1>2, <1>4, <1>5, <1>6
<1> QED
  BY <1>7 DEF split, P

(* Nothing follows a short page. *)
LEMMA ShortEnds ==
    ASSUME TypeOK, unseen \subseteq Wanted(walk.filter),
           NEW place \in Orders(walk.filter, Wanted(walk.filter)),
           NEW a \in Nat, NEW b \in Nat, a <= b,
           Cardinality(Between(place, Wanted(walk.filter), a, b)) < b - a
    PROVE  Later(place, b) = {}
<1> DEFINE W == Wanted(walk.filter)
<1>1. IsFiniteSet(W) /\ Cardinality(W) \in Nat
  BY PlaceType, Sizes
<1>2. Cardinality(Between(place, W, a, b)) \in Nat
  <2>1. Between(place, W, a, b) \in SUBSET W
    BY DEF Between
  <2> QED
    BY <1>1, <2>1, FS_Subset, FS_CardinalityType
<1>3. ASSUME NEW m \in Later(place, b)
      PROVE  FALSE
  <2>1. m \in W /\ b <= place[m]
    BY DEF Later
  <2>2. place[m] \in Nat /\ place[m] < Cardinality(W)
    BY <1>1, <2>1, Places
  <2>3. b <= Cardinality(W)
    BY <1>1, <2>1, <2>2
  <2>4. b - a <= Cardinality(Between(place, W, a, b))
    BY <1>1, <2>3, Filled
  <2> QED
    BY <1>2, <2>4
<1> QED
  BY <1>3

(* Behind the place a search ends with total stand no more than came since *)
(* the COUNT.                                                              *)
LEMMA LaterFew ==
    ASSUME TypeOK, unseen \subseteq Wanted(walk.filter),
           NEW place \in Orders(walk.filter, Wanted(walk.filter)),
           NEW b \in Nat, NEW n \in Nat,
           Cardinality(Wanted(walk.filter)) <= b + n
    PROVE  /\ IsFiniteSet(Later(place, b))
           /\ Cardinality(Later(place, b)) <= n
<1> DEFINE W == Wanted(walk.filter)
           size == Cardinality(W)
<1>1. IsFiniteSet(W) /\ size \in Nat
  BY PlaceType, Sizes
<1>2. \A m \in Later(place, b) : m \in W /\ b <= place[m]
  BY DEF Later
<1>3. \A m \in Later(place, b) : place[m] \in Nat /\ place[m] < size
  BY <1>1, <1>2, Places
<1> HIDE DEF size
<1>4. CASE b <= size
  <2>1. Later(place, b) \in SUBSET W
    BY <1>2
  <2>2. IsFiniteSet(Later(place, b)) /\ Cardinality(Later(place, b)) <= size - b
    BY <1>1, <1>2, <1>3, <1>4, <2>1, Slots
  <2>3. Cardinality(Later(place, b)) \in Nat /\ size <= b + n
    BY <2>2, FS_CardinalityType DEF size
  <2> QED
    BY <1>1, <2>2, <2>3
<1>5. CASE size < b
  <2>1. Later(place, b) = {}
    BY <1>1, <1>2, <1>3, <1>5
  <2> QED
    BY <2>1, FS_EmptySet
<1> QED
  BY <1>1, <1>4, <1>5

LEMMA FetchStep ==
    ASSUME IInv, Fetch
    PROVE  IInv'
<1> USE DEF IInv
<1> DEFINE f == walk.filter
           W == Wanted(f)
           a == walk.offset
           b == walk.offset + walk.limit
           split == Split(f, Found(f), a)
<1>1. PICK place \in Orders(f, Found(f)) :
          walk' = [walk EXCEPT !.rows = Page(place, walk.limit, walk.offset)]
  BY DEF Fetch
<1> DEFINE rows == Page(place, walk.limit, walk.offset)
<1>2. /\ pc = "page" /\ pc' \in {"decorate", "answered"}
      /\ unseen' = unseen \ walk'.rows
      /\ tied' = tied + Cardinality(split)
      /\ UNCHANGED <<store, report, lost, late, saved>>
      /\ memory' = memory /\ made' = made /\ topics' = topics
      /\ lost' = lost /\ late' = late
  BY DEF Fetch, store
<1>3. /\ walk'.mode = walk.mode
      /\ walk'.filter = walk.filter /\ walk'.limit = walk.limit
      /\ walk'.offset = walk.offset /\ walk'.total = walk.total
      /\ walk'.rows = rows /\ walk'.shown = walk.shown
  BY <1>1
<1>4. rows = Between(place, Found(f), a, b)
  BY DEF Page, Between, Orders
<1>5. rows \subseteq Found(f) /\ Found(f) \subseteq W /\ W \subseteq DOMAIN memory
  BY <1>4, JoinFinds, PlaceType DEF Between, TypeOK
<1>6. /\ a \in Nat /\ walk.limit \in Nat \ {0} /\ walk.total \in Nat
      /\ b \in Nat /\ lost \in Nat /\ late \in Nat /\ tied \in Nat
      /\ walk.rows = {}
  BY <1>2 DEF TypeOK, Phases
<1>7. Cardinality(split) \in Nat
  <2>1. split \in SUBSET DOMAIN memory
    BY DEF Split, TypeOK
  <2> QED
    BY <2>1, Sizes
<1> HIDE DEF split
<1>8. unseen' = unseen \ rows /\ tied' \in Nat
  BY <1>2, <1>3, <1>6, <1>7
<1>9. TypeOK'
  <2>1. DOMAIN walk.shown \subseteq rows
    BY <1>6 DEF TypeOK
  <2> HIDE DEF rows
  <2> QED
    BY <1>2, <1>3, <1>5, <1>8, <2>1 DEF TypeOK
<1>10. RowsMatch'
  <2> HIDE DEF rows
  <2>1. \A m \in rows : f.roles \subseteq memory[m].roles
    BY <1>5 DEF Wanted
  <2> QED
    BY <1>2, <1>3, <2>1 DEF RowsMatch
<1>11. Phases' /\ StatsInv'
  BY <1>2, <1>3, <1>8 DEF Phases, StatsInv, Reporting, LiveOnes
<1>12. SUFFICES ASSUME NoRepeat
                PROVE  WalkInv'
  BY <1>3, <1>9, <1>10, <1>11 DEF WalkInv, NoRepeat
<1>13. /\ Wanted(walk.filter)' = W /\ \A m : Reach(m)' = Reach(m)
  BY <1>2, <1>3, Reads
<1>14. /\ unseen \subseteq W /\ FewWithin(a)
       /\ Cardinality(W) <= walk.total + late
  BY <1>2, <1>12 DEF WalkInv
<1>15. Found(f) = W
  BY <1>12, JoinFinds DEF NoRepeat, TypeOK
<1>16. place \in Orders(f, W) /\ split = Split(f, W, a)
  BY <1>15 DEF split
<1>17. unseen' = Missed(place, a) \cup Later(place, b)
  <2>1. ASSUME NEW m \in unseen
        PROVE  m \notin rows <=> place[m] < a \/ b <= place[m]
    <3>1. m \in W /\ place[m] \in Nat
      <4>1. IsFiniteSet(W) /\ m \in W
        BY <1>5, <1>14, Sizes
      <4> QED
        BY <1>16, <4>1, Places
    <3> QED
      BY <1>4, <1>6, <1>15, <3>1 DEF Between
  <2> HIDE DEF rows
  <2> QED
    BY <1>8, <2>1 DEF Missed, Later
<1>18. /\ IsFiniteSet(Missed(place, a)) /\ Cardinality(Missed(place, a)) \in Nat
       /\ Cardinality(Missed(place, a)) <= lost' + tied'
  <2>1. /\ IsFiniteSet(Missed(place, a)) /\ Cardinality(Missed(place, a)) \in Nat
        /\ Cardinality(Missed(place, a)) <= lost + tied + Cardinality(split)
    BY <1>6, <1>14, <1>16, MissedFew
  <2> QED
    BY <1>2, <1>6, <1>7, <2>1
<1>19. Cardinality(rows) < walk.limit => Cardinality(unseen') <= lost' + tied'
  <2>1. SUFFICES ASSUME Cardinality(rows) < walk.limit
                 PROVE  Later(place, b) = {}
    BY <1>17, <1>18
  <2>2. Cardinality(Between(place, W, a, b)) < b - a /\ a <= b
    BY <1>4, <1>6, <1>15, <2>1
  <2> QED
    BY <1>6, <1>14, <1>16, <2>2, ShortEnds
<1>20. ASSUME NEW r \in Nat, b <= r
       PROVE  Cardinality(Within(r)') <= lost' + tied' + (r - b)
  <2>1. Within(r)' = {m \in Missed(place, a) \cup Later(place, b) : Reach(m) <= r}
    BY <1>13, <1>17 DEF Within
  <2>2. Cardinality(Within(r)')
          <= lost + tied + Cardinality(split) + (r - b)
    BY <1>6, <1>14, <1>16, <1>20, <2>1, NextFew
  <2> HIDE DEF b
  <2>3. lost' = lost /\ tied' = tied + Cardinality(split)
    BY <1>2
  <2>4. b \in Nat /\ lost \in Nat /\ tied \in Nat /\ Cardinality(split) \in Nat
    BY <1>6, <1>7 DEF b
  <2>5. lost + tied + Cardinality(split) + (r - b) = lost' + tied' + (r - b)
    BY <2>3, <2>4
  <2> QED
    BY <2>2, <2>5
<1>21. FewWithin(walk.offset + walk.limit)'
  BY <1>3, <1>20 DEF FewWithin
<1>22. b >= walk.total => Cardinality(unseen') <= lost' + tied' + late'
  <2>1. SUFFICES ASSUME b >= walk.total
                 PROVE  Cardinality(unseen') <= lost' + tied' + late'
    OBVIOUS
  <2>2. IsFiniteSet(Later(place, b)) /\ Cardinality(Later(place, b)) <= late
    <3>1. Cardinality(W) <= b + late
      <4>1. Cardinality(W) \in Nat
        BY <1>5, Sizes
      <4> QED
        BY <1>6, <1>14, <2>1, <4>1
    <3> QED
      BY <1>6, <1>14, <1>16, <3>1, LaterFew
  <2>3. /\ Cardinality(unseen') <= Cardinality(Missed(place, a))
                                     + Cardinality(Later(place, b))
        /\ Cardinality(unseen') \in Nat /\ Cardinality(Later(place, b)) \in Nat
    BY <1>17, <1>18, <2>2, Cover
  <2> QED
    BY <1>2, <1>6, <1>8, <1>18, <2>2, <2>3
<1>23. unseen' \subseteq Wanted(walk.filter)'
  BY <1>8, <1>13, <1>14
<1> HIDE DEF rows, W
<1> QED
  BY <1>2, <1>3, <1>19, <1>21, <1>22, <1>23 DEF WalkInv

LEMMA DecorateStep ==
    ASSUME IInv, Decorate
    PROVE  IInv'
<1> USE DEF IInv
<1>1. /\ walk' = [walk EXCEPT !.shown = [m \in walk.rows |-> memory[m].roles]]
      /\ pc = "decorate" /\ pc' = "answered"
      /\ UNCHANGED <<store, report, history>>
      /\ memory' = memory /\ made' = made /\ topics' = topics
      /\ unseen' = unseen /\ lost' = lost /\ tied' = tied
      /\ late' = late /\ saved' = saved
  BY DEF Decorate, Step, store, history
<1>2. /\ walk'.mode = walk.mode
      /\ walk'.filter = walk.filter /\ walk'.limit = walk.limit
      /\ walk'.offset = walk.offset /\ walk'.total = walk.total
      /\ walk'.rows = walk.rows
      /\ \/ walk'.shown = [m \in walk.rows |-> memory[m].roles]
         \/ walk'.shown = walk.shown
  BY <1>1
<1>3. TypeOK'
  BY <1>1, <1>2 DEF TypeOK
<1>4. Phases' /\ RowsMatch' /\ StatsInv'
  BY <1>1, <1>2 DEF Phases, RowsMatch, StatsInv, Reporting
<1>5. Wanted(walk.filter)' = Wanted(walk.filter) /\ \A r : Within(r)' = Within(r)
  BY <1>1, <1>2, Reads
<1>6. FewWithin(walk.offset + walk.limit)' <=> FewWithin(walk.offset + walk.limit)
  BY <1>1, <1>2, <1>5 DEF FewWithin
<1>7. WalkInv'
  BY <1>1, <1>2, <1>5, <1>6 DEF WalkInv, NoRepeat
<1> QED
  BY <1>3, <1>4, <1>7

LEMMA NextPageStep ==
    ASSUME IInv, NextPage
    PROVE  IInv'
<1> USE DEF IInv
<1>1. /\ walk' = [walk EXCEPT !.offset = walk.offset + walk.limit]
      /\ pc = "answered" /\ pc' = "count" /\ walk.mode = "default"
      /\ Cardinality(walk.rows) = walk.limit
      /\ UNCHANGED <<store, report, history>>
      /\ memory' = memory /\ made' = made /\ topics' = topics
      /\ unseen' = unseen /\ lost' = lost /\ tied' = tied
      /\ late' = late /\ saved' = saved
  BY DEF NextPage, Step, store, history
<1>2. /\ walk'.mode = walk.mode
      /\ walk'.filter = walk.filter /\ walk'.limit = walk.limit
      /\ walk'.offset = walk.offset + walk.limit \/ walk'.offset = walk.offset
      /\ walk'.total = walk.total /\ walk'.rows = walk.rows
      /\ walk'.shown = walk.shown
  BY <1>1
<1>3. walk'.offset = walk.offset + walk.limit
  BY <1>1 DEF TypeOK
<1>4. TypeOK'
  BY <1>1, <1>2, <1>3 DEF TypeOK
<1>5. Phases' /\ RowsMatch' /\ StatsInv'
  BY <1>1, <1>2 DEF Phases, RowsMatch, StatsInv, Reporting
<1>6. Wanted(walk.filter)' = Wanted(walk.filter) /\ \A r : Within(r)' = Within(r)
  BY <1>1, <1>2, Reads
<1>7. FewWithin(walk.offset)' <=> FewWithin(walk.offset + walk.limit)
  BY <1>1, <1>3, <1>6 DEF FewWithin
<1>8. WalkInv'
  BY <1>1, <1>2, <1>6, <1>7 DEF WalkInv, NoRepeat
<1> QED
  BY <1>4, <1>5, <1>8

LEMMA HotStep ==
    ASSUME IInv, NEW limit \in Limit, Hot(limit)
    PROVE  IInv'
<1> USE DEF IInv
<1>1. PICK rows \in SUBSET LiveOnes :
         walk' = [NoWalk EXCEPT !.mode = "hot", !.limit = limit,
                                !.rows = rows, !.total = Cardinality(rows)]
  BY DEF Hot
<1>2. /\ pc = "idle" /\ pc' = "decorate"
      /\ UNCHANGED <<store, report, history>>
      /\ memory' = memory /\ made' = made /\ topics' = topics
      /\ unseen' = unseen /\ lost' = lost /\ tied' = tied
      /\ late' = late /\ saved' = saved
      /\ limit \in Nat \ {0}
  BY RecallAssumption DEF Hot, Step, store, history
<1>3. /\ walk'.mode = "hot" /\ walk'.filter = NoFilter /\ walk'.limit = limit
      /\ walk'.offset = 0 /\ walk'.total = Cardinality(rows) /\ walk'.rows = rows
      /\ walk'.shown = [m \in {} |-> {}]
  BY <1>1 DEF NoWalk
<1>4. rows \in SUBSET DOMAIN memory /\ Cardinality(rows) \in Nat
  BY PlaceType, Sizes
<1>5. TypeOK'
  BY <1>2, <1>3, <1>4 DEF TypeOK
<1>6. unseen = {} /\ unseen' = {}
  BY <1>2 DEF Phases
<1>7. Phases' /\ RowsMatch' /\ StatsInv'
  BY <1>2, <1>3, <1>6
     DEF Phases, RowsMatch, StatsInv, Reporting, NoFilter
<1>8. lost' \in Nat /\ tied' \in Nat /\ late' \in Nat
  BY <1>5 DEF TypeOK
<1>9. FewWithin(walk.offset + walk.limit)'
  <2>1. \A r : Within(r)' = {}
    BY <1>6 DEF Within
  <2>2. ASSUME NEW r \in Nat, walk'.offset + walk'.limit <= r
        PROVE  Cardinality(Within(r)')
                 <= lost' + tied' + (r - (walk'.offset + walk'.limit))
    <3>1. Cardinality(Within(r)') = 0
      BY <2>1, FS_EmptySet
    <3>2. walk'.offset = 0 /\ walk'.limit = limit /\ limit \in Nat
      BY <1>2, <1>3
    <3>3. limit <= r /\ limit \in Int
      BY <2>2, <3>2
    <3>4. ASSUME NEW x \in Nat, NEW y \in Nat
          PROVE  0 <= x + y + (r - (0 + limit))
      BY <3>3
    <3>5. 0 <= lost' + tied' + (r - (0 + limit))
      BY <1>8, <3>4
    <3> QED
      BY <3>1, <3>2, <3>5
  <2> QED
    BY <2>2 DEF FewWithin
<1>10. WalkInv'
  BY <1>2, <1>6, <1>8, <1>9, FS_EmptySet DEF WalkInv
<1> QED
  BY <1>5, <1>7, <1>10

(* A step that reads for the report leaves the search alone. *)
LEMMA ReportKeeps ==
    ASSUME IInv, UNCHANGED <<store, walk, history>>,
           pc \in {"idle", "topicStats", "roleStats"},
           pc' \in {"topicStats", "roleStats", "reported"},
           report'.least \in Nat, report'.active \in Nat,
           report'.topics \in [DOMAIN report'.topics -> Nat],
           report'.roles \in [DOMAIN report'.roles -> Nat]
    PROVE  TypeOK' /\ Phases' /\ WalkInv' /\ RowsMatch'
<1> USE DEF IInv
<1>1. /\ memory' = memory /\ made' = made /\ topics' = topics /\ walk' = walk
      /\ unseen' = unseen /\ lost' = lost /\ tied' = tied
      /\ late' = late /\ saved' = saved
  BY DEF store, history
<1>2. TypeOK'
  BY <1>1 DEF TypeOK
<1> QED
  BY <1>1, <1>2 DEF Phases, WalkInv, RowsMatch

LEMMA SummaryStep ==
    ASSUME IInv, NEW least \in MinOccurrences, Summary(least)
    PROVE  IInv'
<1> USE DEF IInv
<1>1. /\ report' = [NoReport EXCEPT !.least = least,
                                    !.active = Cardinality(LiveOnes)]
      /\ pc = "idle" /\ pc' = "topicStats" /\ least \in Nat
      /\ UNCHANGED <<store, walk, history>>
  BY RecallAssumption DEF Summary, Step
<1>2. /\ report'.least = least /\ report'.active = Cardinality(LiveOnes)
      /\ report'.topics = [t \in {} |-> 0] /\ report'.roles = [r \in {} |-> 0]
  BY <1>1 DEF NoReport
<1>3. Cardinality(LiveOnes) \in Nat
  BY PlaceType, Sizes
<1>4. TypeOK' /\ Phases' /\ WalkInv' /\ RowsMatch'
  BY <1>1, <1>2, <1>3, ReportKeeps
<1>5. LiveOnes' = LiveOnes /\ saved' = saved /\ saved \in Nat
  BY <1>1, Reads DEF history, TypeOK
<1>6. StatsInv'
  BY <1>1, <1>2, <1>3, <1>5 DEF StatsInv, Reporting
<1> QED
  BY <1>4, <1>6

(* A name is counted with live memories alone. *)
LEMMA UsageBound ==
    ASSUME TypeOK, NEW users
    PROVE  /\ Usage(users) \in [DOMAIN Usage(users) -> Nat]
           /\ \A n \in DOMAIN Usage(users) :
                 Usage(users)[n] <= Cardinality(LiveOnes)
<1>1. IsFiniteSet(LiveOnes) /\ Cardinality(LiveOnes) \in Nat
  BY PlaceType, Sizes
<1>2. ASSUME NEW n
      PROVE  /\ Cardinality(users[n] \cap LiveOnes) \in Nat
             /\ Cardinality(users[n] \cap LiveOnes) <= Cardinality(LiveOnes)
  <2>1. users[n] \cap LiveOnes \in SUBSET LiveOnes
    OBVIOUS
  <2> QED
    BY <1>1, <2>1, FS_Subset, FS_CardinalityType
<1> DEFINE U == Usage(users)
<1>3. /\ DOMAIN U \subseteq DOMAIN users
      /\ U = [n \in DOMAIN U |-> Cardinality(users[n] \cap LiveOnes)]
  BY DEF Usage
<1> HIDE DEF U
<1>4. \A n \in DOMAIN U : U[n] = Cardinality(users[n] \cap LiveOnes)
  BY <1>3
<1>5. /\ U \in [DOMAIN U -> Nat]
      /\ \A n \in DOMAIN U : U[n] <= Cardinality(LiveOnes)
  BY <1>2, <1>3, <1>4
<1> QED
  BY <1>5 DEF U

LEMMA TopicStatsStep ==
    ASSUME IInv, TopicStats
    PROVE  IInv'
<1> USE DEF IInv
<1> DEFINE users == [t \in DOMAIN topics |->
                        {m \in DOMAIN memory : t \in memory[m].topics}]
<1>1. /\ report' = [report EXCEPT !.topics = Usage(users)]
      /\ pc = "topicStats" /\ pc' = "roleStats"
      /\ UNCHANGED <<store, walk, history>>
  BY DEF TopicStats, Step
<1> HIDE DEF users
<1>2. /\ report'.least = report.least /\ report'.active = report.active
      /\ report'.roles = report.roles
      /\ report'.topics = Usage(users) \/ report'.topics = report.topics
  BY <1>1
<1>3. /\ Usage(users) \in [DOMAIN Usage(users) -> Nat]
      /\ \A n \in DOMAIN Usage(users) :
            Usage(users)[n] <= Cardinality(LiveOnes)
  BY UsageBound
<1>4. TypeOK' /\ Phases' /\ WalkInv' /\ RowsMatch'
  BY <1>1, <1>2, <1>3, ReportKeeps DEF TypeOK
<1>5. LiveOnes' = LiveOnes /\ saved' = saved /\ saved \in Nat
      /\ Cardinality(LiveOnes) <= report.active + saved
      /\ Cardinality(LiveOnes) \in Nat /\ report.active \in Nat
  BY <1>1, Reads, PlaceType, Sizes DEF history, TypeOK, StatsInv, Reporting
<1>6. \A t \in DOMAIN Usage(users) :
         Usage(users)[t] <= report.active + saved
  BY <1>3, <1>5
<1>7. StatsInv'
  BY <1>1, <1>2, <1>5, <1>6 DEF StatsInv, Reporting
<1> QED
  BY <1>4, <1>7

LEMMA RoleStatsStep ==
    ASSUME IInv, RoleStats
    PROVE  IInv'
<1> USE DEF IInv
<1> DEFINE users == [r \in UNION {memory[m].roles : m \in DOMAIN memory} |->
                        {m \in DOMAIN memory : r \in memory[m].roles}]
<1>1. /\ report' = [report EXCEPT !.roles = Usage(users)]
      /\ pc = "roleStats" /\ pc' = "reported"
      /\ UNCHANGED <<store, walk, history>>
  BY DEF RoleStats, Step
<1> HIDE DEF users
<1>2. /\ report'.least = report.least /\ report'.active = report.active
      /\ report'.topics = report.topics
      /\ report'.roles = Usage(users) \/ report'.roles = report.roles
  BY <1>1
<1>3. /\ Usage(users) \in [DOMAIN Usage(users) -> Nat]
      /\ \A n \in DOMAIN Usage(users) :
            Usage(users)[n] <= Cardinality(LiveOnes)
  BY UsageBound
<1>4. TypeOK' /\ Phases' /\ WalkInv' /\ RowsMatch'
  BY <1>1, <1>2, <1>3, ReportKeeps DEF TypeOK
<1>5. saved' = saved /\ saved \in Nat
      /\ Cardinality(LiveOnes) <= report.active + saved
      /\ Cardinality(LiveOnes) \in Nat /\ report.active \in Nat
      /\ \A t \in DOMAIN report.topics :
            report.topics[t] <= report.active + saved
  BY <1>1, PlaceType, Sizes DEF history, TypeOK, StatsInv, Reporting
<1>6. \A r \in DOMAIN Usage(users) :
         Usage(users)[r] <= report.active + saved
  BY <1>3, <1>5
<1>7. StatsInv'
  BY <1>1, <1>2, <1>5, <1>6 DEF StatsInv, Reporting
<1> QED
  BY <1>4, <1>7

LEMMA LeaveStep ==
    ASSUME IInv, Leave
    PROVE  IInv'
<1> USE DEF IInv
<1>1. /\ pc' = "idle" /\ walk' = NoWalk /\ report' = NoReport
      /\ unseen' = {} /\ lost' = 0 /\ tied' = 0 /\ late' = 0 /\ saved' = 0
      /\ memory' = memory /\ made' = made /\ topics' = topics
  BY DEF Leave, store
<1>2. TypeOK'
  BY <1>1 DEF TypeOK, NoWalk, NoReport
<1> QED
  BY <1>1, <1>2 DEF Phases, WalkInv, RowsMatch, StatsInv,
                    Reporting, NoWalk, NoReport

(***************************************************************************)
(* The theorems.                                                           *)
(***************************************************************************)
LEMMA InitInv == Init => IInv
<1> SUFFICES ASSUME Init PROVE IInv
  OBVIOUS
<1>1. /\ memory = [m \in {} |-> 0] /\ topics = [t \in {} |-> "open"]
      /\ made = [m \in {} |-> 0] /\ pc = "idle" /\ walk = NoWalk
      /\ report = NoReport /\ unseen = {}
      /\ lost = 0 /\ tied = 0 /\ late = 0 /\ saved = 0
  BY DEF Init, Store!Init
<1>2. TypeOK
  BY <1>1, FS_EmptySet DEF TypeOK, NoWalk, NoReport
<1> QED
  BY <1>1, <1>2 DEF IInv, Phases, WalkInv, RowsMatch, StatsInv,
                    Reporting, NoWalk, NoReport

LEMMA NextInv == IInv /\ [Next]_vars => IInv'
<1> SUFFICES ASSUME IInv, [Next]_vars PROVE IInv'
  OBVIOUS
<1>1. CASE Write
  BY <1>1, WriteMade, WriteType, WriteWalk, WriteRest DEF IInv
<1>2. ASSUME NEW f \in Filter, NEW limit \in Limit, Search(f, limit)
      PROVE  IInv'
  BY <1>2, SearchStep
<1>3. CASE Count
  BY <1>3, CountStep
<1>4. CASE Fetch
  BY <1>4, FetchStep
<1>5. CASE Decorate
  BY <1>5, DecorateStep
<1>6. CASE NextPage
  BY <1>6, NextPageStep
<1>7. ASSUME NEW limit \in Limit, Hot(limit)
      PROVE  IInv'
  BY <1>7, HotStep
<1>8. ASSUME NEW least \in MinOccurrences, Summary(least)
      PROVE  IInv'
  BY <1>8, SummaryStep
<1>9. CASE TopicStats
  BY <1>9, TopicStatsStep
<1>10. CASE RoleStats
  BY <1>10, RoleStatsStep
<1>11. CASE Leave
  BY <1>11, LeaveStep
<1>12. CASE UNCHANGED vars
  <2>1. /\ memory' = memory /\ topics' = topics /\ made' = made /\ pc' = pc
        /\ walk' = walk /\ report' = report /\ unseen' = unseen
        /\ lost' = lost /\ tied' = tied /\ late' = late /\ saved' = saved
        /\ UNCHANGED store
    BY <1>12 DEF vars, store, history
  <2>2. TypeOK' /\ Phases' /\ RowsMatch'
    BY <2>1 DEF IInv, TypeOK, Phases, RowsMatch
  <2>3. /\ LiveOnes' = LiveOnes
        /\ Wanted(walk.filter)' = Wanted(walk.filter)
        /\ \A r : Within(r)' = Within(r)
    BY <2>1, Reads DEF IInv
  <2>4. /\ FewWithin(walk.offset)' <=> FewWithin(walk.offset)
        /\ FewWithin(walk.offset + walk.limit)'
             <=> FewWithin(walk.offset + walk.limit)
    BY <2>1, <2>3 DEF FewWithin
  <2>5. WalkInv' /\ StatsInv'
    BY <2>1, <2>3, <2>4 DEF IInv, WalkInv, NoRepeat, StatsInv, Reporting
  <2> QED
    BY <2>2, <2>3, <2>5 DEF IInv
<1> QED
  BY <1>1, <1>2, <1>3, <1>4, <1>5, <1>6, <1>7, <1>8, <1>9, <1>10, <1>11, <1>12
     DEF Next

THEOREM Invariant == Spec => []IInv
BY InitInv, NextInv, PTL DEF Spec

(* Every reachable state of a reader and the store it reads has its type.  *)
THEOREM TypeCorrect == Spec => []TypeOK
<1>1. IInv => TypeOK
  BY DEF IInv
<1> QED
  BY <1>1, Invariant, PTL

(* searchMessages, called for one page after the other until a page is     *)
(* short, misses no more of the memories that matched all the time than    *)
(* left the result, moved in it, or were split from equals meanwhile.      *)
THEOREM PagesMissFew == Spec => []WalkToShortPage
<1>1. IInv => WalkToShortPage
  BY DEF IInv, WalkInv, WalkToShortPage
<1> QED
  BY <1>1, Invariant, PTL

(* Called until total says that nothing follows, it may miss as many more  *)
(* as came between the COUNT and the page of the last call.                *)
THEOREM TotalMissesFew == Spec => []WalkToTotal
<1>1. IInv => WalkToTotal
  BY DEF IInv, WalkInv, WalkToTotal
<1> QED
  BY <1>1, Invariant, PTL

(* The roles of _getMessageRolesBatch, read after the page, hold those the *)
(* filter asked for, though its rows may have been edited or forgotten.    *)
THEOREM RolesMatch == Spec => []ShownRolesMatch
<1>1. IInv => ShownRolesMatch
  BY DEF IInv, TypeOK, RowsMatch, ShownRolesMatch
<1> QED
  BY <1>1, Invariant, PTL

(* No topic or role of a stats answer counts more memories than the summary *)
(* has active ones and others have stored since.                           *)
THEOREM StatsBounded == Spec => []StatsWithinSummary
<1>1. IInv => StatsWithinSummary
  BY DEF IInv, StatsInv, StatsWithinSummary
<1> QED
  BY <1>1, Invariant, PTL
=============================================================================
