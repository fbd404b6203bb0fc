-------------------------- MODULE DropOrderProofs --------------------------
(***************************************************************************)
(* The drop order is right for every schema: any number of tables and of   *)
(* foreign keys, doubled or circular ones included.                        *)
(***************************************************************************)
EXTENDS DropOrder, FiniteSetTheorems, SequenceTheorems, TLAPS

Sorted == {sorted[i] : i \in 1..Len(sorted)}

(* The parents of c that are not sorted yet. *)
Unsorted(c) == {p \in targets : \E r \in refs : r.child = c /\ r.parent = p} \ Sorted

(* refs are constraints between two targets. *)
RefsBetween == \A r \in refs : /\ r.child \in targets
                               /\ r.parent \in targets
                               /\ r.child # r.parent

(* The degree of a table never falls below the parents it waits for:       *)
(* doubled constraints can only keep it too high.                          *)
DegreeBound == \A c \in targets : Cardinality(Unsorted(c)) <= in_degree[c]

(* Tables queued or sorted wait for no parent, and are one or the other. *)
QueueReady == /\ \A t \in queue \cup Sorted : Unsorted(t) = {}
              /\ queue \cap Sorted = {}

SortedOnce == \A i, j \in 1..Len(sorted) : sorted[i] = sorted[j] => i = j

ParentsBefore ==
    \A r \in refs : \A j \in 1..Len(sorted) :
        sorted[j] = r.child => \E i \in 1..Len(sorted) : i < j /\ sorted[i] = r.parent

DoneSorted == phase = "done" => Len(sorted) = Cardinality(targets)

OrderInv ==
    /\ OrderTypeOK
    /\ RefsBetween
    /\ phase = "sort" => DegreeBound /\ QueueReady
    /\ SortedOnce
    /\ ParentsBefore
    /\ DoneSorted

-----------------------------------------------------------------------------
(* A schema has finitely many constraints. *)
LEMMA FiniteReferences ==
    ASSUME NEW rs \in SUBSET Reference
    PROVE  IsFiniteSet(rs)
<1> DEFINE T == Key \X (Table \X Table)
           f == [r \in Reference |-> <<r.key, <<r.child, r.parent>>>>]
<1>1. IsFiniteSet(T)
  <2>1. IsFiniteSet(Table \X Table)
    BY FS_Product, FiniteSchema
  <2> QED
    BY <2>1, FS_Product, FiniteSchema
<1>2. f \in [Reference -> T]
  BY DEF Reference
<1>3. ASSUME NEW r \in Reference, NEW s \in Reference, f[r] = f[s]
      PROVE  r = s
  BY <1>3 DEF Reference
<1>4. f \in Injection(Reference, T)
  BY <1>2, <1>3 DEF Injection, IsInjective
<1>5. IsFiniteSet(Reference)
  BY <1>1, <1>4, FS_Injection
<1> QED
  BY <1>5, FS_Subset

LEMMA DegreeNat ==
    ASSUME NEW rs \in SUBSET Reference, NEW t
    PROVE  /\ IsFiniteSet({r \in rs : r.child = t})
           /\ Degree(t, rs) \in Nat
BY FiniteReferences, FS_CardinalityType DEF Degree

(* A table has no more parents than constraints: each parent is named by   *)
(* one of them.                                                            *)
LEMMA ParentsWithinDegree ==
    ASSUME NEW rs \in SUBSET Reference, NEW t, NEW ts,
           NEW ps \in SUBSET {p \in ts : \E r \in rs : r.child = t /\ r.parent = p}
    PROVE  Cardinality(ps) <= Degree(t, rs)
<1> DEFINE keys == {r \in rs : r.child = t}
           f == [p \in ps |-> CHOOSE r \in keys : r.parent = p]
<1>1. \A p \in ps : f[p] \in keys /\ f[p].parent = p
  <2> TAKE p \in ps
  <2>1. \E r \in keys : r.parent = p
    OBVIOUS
  <2> QED
    BY <2>1
<1>2. f \in Injection(ps, keys)
  BY <1>1 DEF Injection, IsInjective
<1>3. IsFiniteSet(keys)
  BY DegreeNat
<1> HIDE DEF f
<1> QED
  BY <1>2, <1>3, FS_Injection DEF Degree

(* The sort starts with every degree at the number of constraints. *)
LEMMA CallStarts ==
    ASSUME NEW ts \in SUBSET Table, NEW all \in SUBSET Reference, Call(ts, all)
    PROVE  OrderInv'
<1> DEFINE rs == Between(ts, all)
<1>1. /\ rs \in SUBSET Reference
      /\ \A r \in rs : r.child \in ts /\ r.parent \in ts /\ r.child # r.parent
  BY DEF Between
<1>2. /\ targets' = ts /\ refs' = rs
      /\ in_degree' = [t \in ts |-> Degree(t, rs)]
      /\ queue' = {t \in ts : Degree(t, rs) = 0}
      /\ sorted' = <<>> /\ phase' = "sort"
  BY DEF Call
<1> HIDE DEF rs
<1>3. \A t \in ts : Degree(t, rs) \in Nat
  BY <1>1, DegreeNat
<1>4. OrderTypeOK'
  BY <1>1, <1>2, <1>3 DEF OrderTypeOK
<1>5. Sorted' = {}
  BY <1>2 DEF Sorted
<1>6. DegreeBound'
  <2> SUFFICES ASSUME NEW c \in ts
               PROVE  Cardinality(Unsorted(c)') <= Degree(c, rs)
    BY <1>2 DEF DegreeBound
  <2>1. Unsorted(c)' \in SUBSET {p \in ts : \E r \in rs : r.child = c /\ r.parent = p}
    BY <1>2 DEF Unsorted
  <2> QED
    BY <2>1, <1>1, ParentsWithinDegree
<1>7. QueueReady'
  <2>1. ASSUME NEW t \in ts, Degree(t, rs) = 0, NEW p \in Unsorted(t)'
        PROVE  FALSE
    <3>1. PICK r \in rs : r.child = t
      BY <1>2 DEF Unsorted
    <3>2. {q \in rs : q.child = t} = {}
      BY <1>1, <2>1, DegreeNat, FS_EmptySet DEF Degree
    <3> QED
      BY <3>1, <3>2
  <2> QED
    BY <1>2, <1>5, <2>1 DEF QueueReady
<1> QED
  BY <1>1, <1>2, <1>4, <1>6, <1>7
     DEF OrderInv, RefsBetween, SortedOnce, ParentsBefore, DoneSorted

-----------------------------------------------------------------------------
(* Taking t appends it: it becomes sorted, after its parents. *)
LEMMA TakeSorts ==
    ASSUME OrderInv, NEW t, Take(t)
    PROVE  /\ phase = "sort" /\ t \in queue /\ t \in targets /\ t \notin Sorted
           /\ sorted' \in Seq(targets)
           /\ Len(sorted') = Len(sorted) + 1
           /\ \A i \in 1..Len(sorted) : sorted'[i] = sorted[i]
           /\ sorted'[Len(sorted')] = t
           /\ Sorted' = Sorted \cup {t}
           /\ \A c : Unsorted(c)' = Unsorted(c) \ {t}
<1>1. /\ phase = "sort" /\ t \in queue /\ t \in targets
      /\ sorted \in Seq(targets)
      /\ sorted' = Append(sorted, t)
      /\ targets' = targets /\ refs' = refs
  BY DEF Take, OrderInv, OrderTypeOK
<1>2. t \notin Sorted
  BY <1>1 DEF OrderInv, QueueReady
<1>3. /\ sorted' \in Seq(targets)
      /\ Len(sorted) \in Nat
      /\ Len(sorted') = Len(sorted) + 1
      /\ \A i \in 1..Len(sorted) : sorted'[i] = sorted[i]
      /\ sorted'[Len(sorted')] = t
  BY <1>1
<1>4. Sorted' = Sorted \cup {t}
  <2>1. 1..Len(sorted') = 1..Len(sorted) \cup {Len(sorted')}
    BY <1>3
  <2> QED
    BY <1>3, <2>1 DEF Sorted
<1>5. \A c : Unsorted(c)' = Unsorted(c) \ {t}
  BY <1>1, <1>4 DEF Unsorted
<1> QED
  BY <1>1, <1>2, <1>3, <1>4, <1>5

LEMMA UnsortedFinite ==
    ASSUME OrderTypeOK, NEW c
    PROVE  /\ IsFiniteSet(Unsorted(c))
           /\ Cardinality(Unsorted(c)) \in Nat
BY FS_Subset, FS_CardinalityType, FiniteSchema DEF OrderTypeOK, Unsorted

(* t is among the unsorted parents of its children, and of no other table. *)
LEMMA TakeCounts ==
    ASSUME OrderInv, NEW t, Take(t), NEW c \in targets
    PROVE  /\ c \in Children(t) =>
                 /\ Cardinality(Unsorted(c)') = Cardinality(Unsorted(c)) - 1
                 /\ c \notin queue \cup Sorted
                 /\ c # t
           /\ c \notin Children(t) => Unsorted(c)' = Unsorted(c)
<1>1. OrderTypeOK /\ refs \subseteq Reference
  BY DEF OrderInv, OrderTypeOK
<1>2. t \in Unsorted(c) <=> c \in Children(t)
  <2>1. c \in Children(t) <=> \E r \in refs : r.child = c /\ r.parent = t
    BY DEF Children
  <2> QED
    BY <2>1, TakeSorts DEF Unsorted
<1>3. CASE c \in Children(t)
  <2>1. t \in Unsorted(c)
    BY <1>2, <1>3
  <2>2. Cardinality(Unsorted(c) \ {t}) = Cardinality(Unsorted(c)) - 1
    BY <1>1, <2>1, UnsortedFinite, FS_RemoveElement
  <2>3. c \notin queue \cup Sorted
    BY <2>1, TakeSorts DEF OrderInv, QueueReady
  <2>4. c # t
    BY <2>3, TakeSorts
  <2> QED
    BY <1>3, <2>2, <2>3, <2>4, TakeSorts
<1>4. CASE c \notin Children(t)
  <2>1. Unsorted(c) \ {t} = Unsorted(c)
    BY <1>2, <1>4
  <2> QED
    BY <1>4, <2>1, TakeSorts
<1> QED
  BY <1>3, <1>4

LEMMA TakeKeepsDegrees ==
    ASSUME OrderInv, NEW t, Take(t)
    PROVE  DegreeBound'
<1>1. /\ targets' = targets
      /\ in_degree \in [targets -> Int]
      /\ in_degree' = [c \in targets |-> IF c \in Children(t) THEN in_degree[c] - 1
                                                             ELSE in_degree[c]]
  BY DEF Take, OrderInv, OrderTypeOK
<1>2. DegreeBound
  BY TakeSorts DEF OrderInv
<1>3. SUFFICES ASSUME NEW c \in targets
               PROVE  Cardinality(Unsorted(c)') <= in_degree'[c]
  BY <1>1 DEF DegreeBound
<1>4. /\ Cardinality(Unsorted(c)) <= in_degree[c]
      /\ Cardinality(Unsorted(c)) \in Nat
      /\ in_degree[c] \in Int
  BY <1>1, <1>2, UnsortedFinite DEF DegreeBound, OrderInv
<1>5. CASE c \in Children(t)
  BY <1>1, <1>4, <1>5, TakeCounts
<1>6. CASE c \notin Children(t)
  BY <1>1, <1>4, <1>6, TakeCounts
<1> QED
  BY <1>5, <1>6

(* Whatever is queued waits for nothing: its bound is 0. *)
LEMMA TakeKeepsQueue ==
    ASSUME OrderInv, NEW t, Take(t)
    PROVE  QueueReady'
<1> DEFINE ready == {c \in Children(t) : in_degree[c] = 1}
<1>1. /\ targets' = targets /\ queue \subseteq targets
      /\ queue' = (queue \ {t}) \cup ready
      /\ Children(t) \subseteq targets
  BY DEF Take, OrderInv, OrderTypeOK, RefsBetween, Children
<1>2. DegreeBound /\ QueueReady
  BY TakeSorts DEF OrderInv
<1>3. ASSUME NEW c \in ready
      PROVE  Unsorted(c)' = {} /\ c \notin Sorted'
  <2>1. /\ c \in targets /\ Cardinality(Unsorted(c)) <= 1
        /\ Cardinality(Unsorted(c)) \in Nat
    BY <1>1, <1>2, UnsortedFinite DEF DegreeBound, OrderInv
  <2>2. /\ Cardinality(Unsorted(c)') = Cardinality(Unsorted(c)) - 1
        /\ c \notin Sorted /\ c # t
    BY <2>1, TakeCounts
  <2>3. Unsorted(c)' \subseteq Unsorted(c)
    BY TakeSorts
  <2>4. IsFiniteSet(Unsorted(c)') /\ Cardinality(Unsorted(c)') \in Nat
    BY <2>3, UnsortedFinite, FS_Subset, FS_CardinalityType DEF OrderInv
  <2>5. Cardinality(Unsorted(c)') = 0
    BY <2>1, <2>2, <2>4
  <2> QED
    BY <2>2, <2>4, <2>5, FS_EmptySet, TakeSorts
<1>4. ASSUME NEW c \in (queue \ {t}) \cup Sorted'
      PROVE  Unsorted(c)' = {}
  BY <1>2, TakeSorts DEF QueueReady
<1>5. (queue \ {t}) \cap Sorted' = {}
  BY <1>2, TakeSorts DEF QueueReady
<1> QED
  BY <1>1, <1>3, <1>4, <1>5 DEF QueueReady

LEMMA TakeKeepsOrder ==
    ASSUME OrderInv, NEW t, Take(t)
    PROVE  SortedOnce' /\ ParentsBefore'
<1> DEFINE n == Len(sorted)
<1>1. n \in Nat /\ Len(sorted') = n + 1 /\ refs' = refs
  BY DEF Take, OrderInv, OrderTypeOK
<1>2. \A i \in 1..n : sorted'[i] = sorted[i] /\ sorted'[i] # t
  BY TakeSorts DEF Sorted
<1>3. sorted'[n + 1] = t
  BY <1>1, TakeSorts
<1>4. SortedOnce'
  <2> SUFFICES ASSUME NEW i \in 1..n + 1, NEW j \in 1..n + 1, sorted'[i] = sorted'[j]
               PROVE  i = j
    BY <1>1 DEF SortedOnce
  <2>1. CASE i \in 1..n /\ j \in 1..n
    BY <1>2, <2>1 DEF OrderInv, SortedOnce
  <2>2. CASE i = n + 1 \/ j = n + 1
    BY <1>1, <1>2, <1>3, <2>2
  <2> QED
    BY <1>1, <2>1, <2>2
<1>5. ParentsBefore'
  <2> SUFFICES ASSUME NEW r \in refs, NEW j \in 1..n + 1, sorted'[j] = r.child
               PROVE  \E i \in 1..n + 1 : i < j /\ sorted'[i] = r.parent
    BY <1>1 DEF ParentsBefore
  <2>1. CASE j \in 1..n
    <3>1. PICK i \in 1..n : i < j /\ sorted[i] = r.parent
      BY <1>2, <2>1 DEF OrderInv, ParentsBefore
    <3> QED
      BY <1>1, <1>2, <3>1
  <2>2. CASE j = n + 1
    <3>1. r.parent \in Sorted
      BY <1>3, <2>2, TakeSorts DEF OrderInv, QueueReady, Unsorted, RefsBetween
    <3>2. PICK i \in 1..n : sorted[i] = r.parent
      BY <3>1 DEF Sorted
    <3> QED
      BY <1>1, <1>2, <2>2, <3>2
  <2> QED
    BY <1>1, <2>1, <2>2
<1> QED
  BY <1>4, <1>5

LEMMA TakeStep ==
    ASSUME OrderInv, NEW t, Take(t)
    PROVE  OrderInv'
<1>1. /\ targets' = targets /\ refs' = refs /\ phase' = "sort"
      /\ in_degree' = [c \in targets |-> IF c \in Children(t) THEN in_degree[c] - 1
                                                             ELSE in_degree[c]]
      /\ queue' = (queue \ {t}) \cup {c \in Children(t) : in_degree[c] = 1}
  BY DEF Take
<1>2. /\ targets \subseteq Table /\ refs \subseteq Reference
      /\ in_degree \in [targets -> Int] /\ queue \subseteq targets
      /\ Children(t) \subseteq targets
  BY DEF OrderInv, OrderTypeOK, RefsBetween, Children
<1>3. OrderTypeOK'
  BY <1>1, <1>2, TakeSorts DEF OrderTypeOK
<1>4. RefsBetween' /\ DoneSorted'
  BY <1>1 DEF OrderInv, RefsBetween, DoneSorted
<1> QED
  BY <1>1, <1>3, <1>4, TakeKeepsDegrees, TakeKeepsQueue, TakeKeepsOrder DEF OrderInv

LEMMA ReturnStep ==
    ASSUME OrderInv, Return
    PROVE  OrderInv'
BY DEF Return, OrderInv, OrderTypeOK, RefsBetween, SortedOnce, ParentsBefore, DoneSorted

LEMMA StutterStep ==
    ASSUME OrderInv, UNCHANGED orderVars
    PROVE  OrderInv'
BY DEF orderVars, OrderInv, OrderTypeOK, RefsBetween, DegreeBound, QueueReady,
       Unsorted, Sorted, SortedOnce, ParentsBefore, DoneSorted

LEMMA NoOrderInv ==
    ASSUME NoOrder
    PROVE  OrderInv
BY DEF NoOrder, OrderInv, OrderTypeOK, RefsBetween, SortedOnce, ParentsBefore, DoneSorted

LEMMA ConstraintsType ==
    ASSUME NEW f \in [Key -> Table \X Table]
    PROVE  Constraints(f) \in SUBSET Reference
BY DEF Constraints, Reference

LEMMA OrderInvariant == OrderSpec => []OrderInv
<1>1. NoOrder => OrderInv
  BY NoOrderInv
<1>2. OrderInv /\ [OrderNext]_orderVars => OrderInv'
  BY CallStarts, ConstraintsType, TakeStep, ReturnStep, StutterStep
     DEF OrderNext, OrderStep
<1> QED
  BY <1>1, <1>2, PTL DEF OrderSpec

-----------------------------------------------------------------------------
(* A complete order without repetition has every target. *)
LEMMA AllSorted ==
    ASSUME OrderInv, phase = "done"
    PROVE  Sorted = targets
<1> DEFINE n == Len(sorted)
<1>1. /\ targets \subseteq Table /\ sorted \in Seq(targets)
      /\ n \in Nat /\ n = Cardinality(targets)
      /\ sorted \in [1..n -> targets]
  BY DEF OrderInv, OrderTypeOK, DoneSorted
<1>2. IsFiniteSet(targets)
  BY <1>1, FS_Subset, FiniteSchema
<1>3. sorted \in Injection(1..n, targets)
  BY <1>1 DEF OrderInv, SortedOnce, Injection, IsInjective
<1>4. Cardinality(1..n) = n
  BY <1>1, FS_Interval
<1>5. sorted \in Surjection(1..n, targets)
  BY <1>1, <1>2, <1>3, <1>4, FS_Injection
<1> QED
  BY <1>1, <1>5 DEF Surjection, Sorted

LEMMA InvSafe ==
    ASSUME OrderInv
    PROVE  SafeOrder
<1> DEFINE n == Len(sorted)
<1> SUFFICES ASSUME phase = "done"
             PROVE  /\ \A t \in targets : \E i \in 1..Len(Result) : Result[i] = t
                    /\ \A i, j \in 1..Len(Result) : Result[i] = Result[j] => i = j
                    /\ \A r \in refs : \A i, j \in 1..Len(Result) :
                          Result[i] = r.child /\ Result[j] = r.parent => i < j
  BY DEF SafeOrder
<1>1. n \in Nat
  BY DEF OrderInv, OrderTypeOK
<1>2. Len(Result) = n /\ \A i \in 1..n : Result[i] = sorted[n + 1 - i]
  BY <1>1 DEF Result
<1>3. \A i \in 1..n : n + 1 - i \in 1..n /\ n + 1 - (n + 1 - i) = i
  BY <1>1
<1>4. ASSUME NEW t \in targets
      PROVE  \E i \in 1..n : Result[i] = t
  <2>1. PICK i \in 1..n : sorted[i] = t
    BY AllSorted DEF Sorted
  <2>2. Result[n + 1 - i] = t
    BY <1>2, <1>3, <2>1
  <2> QED
    BY <1>3, <2>2
<1>5. ASSUME NEW i \in 1..n, NEW j \in 1..n, Result[i] = Result[j]
      PROVE  i = j
  <2>1. /\ n + 1 - i \in 1..n /\ n + 1 - j \in 1..n
        /\ sorted[n + 1 - i] = sorted[n + 1 - j]
    BY <1>2, <1>3, <1>5
  <2>2. n + 1 - i = n + 1 - j
    BY <2>1 DEF OrderInv, SortedOnce
  <2> QED
    BY <1>1, <2>2
<1>6. ASSUME NEW r \in refs, NEW i \in 1..n, NEW j \in 1..n,
             Result[i] = r.child, Result[j] = r.parent
      PROVE  i < j
  <2>1. PICK k \in 1..n : k < n + 1 - i /\ sorted[k] = r.parent
    BY <1>2, <1>3, <1>6 DEF OrderInv, ParentsBefore
  <2>2. n + 1 - j \in 1..n /\ sorted[n + 1 - j] = sorted[k]
    BY <1>2, <1>3, <1>6, <2>1
  <2>3. k = n + 1 - j
    BY <2>1, <2>2 DEF OrderInv, SortedOnce
  <2> QED
    BY <1>1, <2>1, <2>3
<1> QED
  BY <1>2, <1>4, <1>5, <1>6

(* The variables of migration_get_drop_order keep their types: no degree   *)
(* is looked up for, and no table queued that is not, a target.            *)
THEOREM TypeCorrect == OrderSpec => []OrderTypeOK
<1>1. OrderInv => OrderTypeOK
  BY DEF OrderInv
<1> QED
  BY <1>1, OrderInvariant, PTL

(* Whatever order migration_get_drop_order returns has every table once,   *)
(* and before the tables it refers to, for any schema.                     *)
THEOREM OrderIsSafe == OrderSpec => []SafeOrder
<1>1. OrderInv => SafeOrder
  BY InvSafe
<1> QED
  BY <1>1, OrderInvariant, PTL

-----------------------------------------------------------------------------
(* Without doubled constraints the degree is exact, and a table that is    *)
(* neither queued nor sorted has one.                                      *)
ExactDegree ==
    \A c \in targets : /\ in_degree[c] = Cardinality(Unsorted(c))
                       /\ c \in queue \cup Sorted \/ in_degree[c] > 0

CycleInv ==
    /\ OrderInv
    /\ SingleKeys(refs) =>
         /\ phase = "sort" => ExactDegree
         /\ phase = "raised" => Cyclic(refs)

(* A parent names its only constraint, so both are counted alike. *)
LEMMA DegreeWithinParents ==
    ASSUME NEW rs \in SUBSET Reference, NEW t, NEW ts, SingleKeys(rs),
           \A r \in rs : r.parent \in ts
    PROVE  Degree(t, rs) = Cardinality({p \in ts : \E r \in rs : r.child = t /\ r.parent = p})
<1> DEFINE keys == {r \in rs : r.child = t}
           ps == {p \in ts : \E r \in rs : r.child = t /\ r.parent = p}
           f == [r \in keys |-> r.parent]
           h == [p \in ps |-> CHOOSE r \in keys : r.parent = p]
<1>1. f \in Injection(keys, ps)
  <2>1. f \in [keys -> ps]
    OBVIOUS
  <2>2. \A r, s \in keys : f[r] = f[s] => r = s
    BY DEF SingleKeys
  <2> QED
    BY <2>1, <2>2 DEF Injection, IsInjective
<1>2. \A p \in ps : h[p] \in keys /\ h[p].parent = p
  <2> TAKE p \in ps
  <2>1. \E r \in keys : r.parent = p
    OBVIOUS
  <2> QED
    BY <2>1
<1>3. h \in Injection(ps, keys)
  BY <1>2 DEF Injection, IsInjective
<1>4. IsFiniteSet(keys) /\ Cardinality(keys) \in Nat
  BY DegreeNat, FS_CardinalityType
<1> HIDE DEF f, h
<1>5. IsFiniteSet(ps) /\ Cardinality(ps) <= Cardinality(keys)
  BY <1>3, <1>4, FS_Injection
<1>6. Cardinality(keys) <= Cardinality(ps)
  BY <1>1, <1>5, FS_Injection
<1>7. Cardinality(ps) \in Nat
  BY <1>5, FS_CardinalityType
<1> QED
  BY <1>4, <1>5, <1>6, <1>7 DEF Degree

LEMMA CallExact ==
    ASSUME NEW ts \in SUBSET Table, NEW all \in SUBSET Reference, Call(ts, all)
    PROVE  CycleInv'
<1> DEFINE rs == Between(ts, all)
<1>1. /\ rs \in SUBSET Reference
      /\ \A r \in rs : r.parent \in ts
  BY DEF Between
<1>2. /\ targets' = ts /\ refs' = rs
      /\ in_degree' = [t \in ts |-> Degree(t, rs)]
      /\ queue' = {t \in ts : Degree(t, rs) = 0}
      /\ sorted' = <<>> /\ phase' = "sort"
  BY DEF Call
<1> HIDE DEF rs
<1>3. Sorted' = {}
  BY <1>2 DEF Sorted
<1>4. ASSUME SingleKeys(rs), NEW c \in ts
      PROVE  /\ Degree(c, rs) = Cardinality(Unsorted(c)')
             /\ c \in queue' \/ Degree(c, rs) > 0
  <2>1. Unsorted(c)' = {p \in ts : \E r \in rs : r.child = c /\ r.parent = p}
    BY <1>2, <1>3 DEF Unsorted
  <2>2. Degree(c, rs) \in Nat
    BY <1>1, DegreeNat
  <2>3. Degree(c, rs) = Cardinality({p \in ts : \E r \in rs : r.child = c /\ r.parent = p})
    BY <1>1, <1>4, DegreeWithinParents
  <2>4. Degree(c, rs) = Cardinality(Unsorted(c)')
    BY <2>1, <2>3
  <2> QED
    BY <1>2, <2>2, <2>4
<1>5. SingleKeys(refs') => ExactDegree'
  BY <1>2, <1>4 DEF ExactDegree
<1> QED
  BY <1>2, <1>5, CallStarts DEF CycleInv

LEMMA TakeExact ==
    ASSUME CycleInv, NEW t, Take(t)
    PROVE  CycleInv'
<1>1. OrderInv
  BY DEF CycleInv
<1>2. /\ targets' = targets /\ refs' = refs /\ phase' = "sort"
      /\ in_degree \in [targets -> Int]
      /\ in_degree' = [c \in targets |-> IF c \in Children(t) THEN in_degree[c] - 1
                                                             ELSE in_degree[c]]
      /\ queue' = (queue \ {t}) \cup {c \in Children(t) : in_degree[c] = 1}
  BY <1>1 DEF Take, OrderInv, OrderTypeOK
<1>3. ASSUME ExactDegree, NEW c \in targets
      PROVE  /\ in_degree'[c] = Cardinality(Unsorted(c)')
             /\ c \in queue' \cup Sorted' \/ in_degree'[c] > 0
  <2>1. /\ in_degree[c] = Cardinality(Unsorted(c))
        /\ c \in queue \cup Sorted \/ in_degree[c] > 0
        /\ in_degree[c] \in Nat
    BY <1>1, <1>3, UnsortedFinite DEF ExactDegree, OrderInv
  <2>2. CASE c \in Children(t)
    BY <1>1, <1>2, <2>1, <2>2, TakeCounts
  <2>3. CASE c \notin Children(t)
    BY <1>1, <1>2, <2>1, <2>3, TakeCounts, TakeSorts
  <2> QED
    BY <2>2, <2>3
<1>4. ExactDegree => ExactDegree'
  BY <1>2, <1>3 DEF ExactDegree
<1> QED
  BY <1>1, <1>2, <1>4, TakeSorts, TakeStep DEF CycleInv

(* What is left when the queue runs dry: tables that all wait for another  *)
(* of them.                                                                *)
LEMMA LeftIsCyclic ==
    ASSUME CycleInv, SingleKeys(refs), phase = "sort", queue = {},
           Len(sorted) # Cardinality(targets)
    PROVE  Cyclic(refs)
<1> DEFINE left == targets \ Sorted
           n == Len(sorted)
<1>1. /\ OrderInv /\ ExactDegree
      /\ targets \subseteq Table
      /\ sorted \in [1..n -> targets]
  BY DEF CycleInv, OrderInv, OrderTypeOK
<1>2. IsFiniteSet(targets)
  BY <1>1, FS_Subset, FiniteSchema
<1>3. left # {}
  <2>1. SUFFICES ASSUME left = {}
                 PROVE  n = Cardinality(targets)
    OBVIOUS
  <2>2. sorted \in Injection(1..n, targets)
    BY <1>1 DEF OrderInv, SortedOnce, Injection, IsInjective
  <2>3. sorted \in Surjection(1..n, targets)
    BY <1>1, <2>1 DEF Sorted, Surjection
  <2>4. n \in Nat
    BY DEF CycleInv, OrderInv, OrderTypeOK
  <2>5. Cardinality(1..n) = IF 1 > n THEN 0 ELSE n - 1 + 1
    BY <2>4, FS_Interval
  <2>6. Cardinality(1..n) = n
    BY <2>4, <2>5
  <2> QED
    BY <1>2, <2>2, <2>3, <2>6, FS_Injection
<1>4. ASSUME NEW t \in left
      PROVE  \E r \in refs : r.child = t /\ r.parent \in left \ {t}
  <2>1. /\ in_degree[t] = Cardinality(Unsorted(t))
        /\ in_degree[t] > 0
    BY <1>1, <1>4 DEF ExactDegree
  <2>2. Unsorted(t) # {}
    BY <2>1, FS_EmptySet
  <2>3. PICK r \in refs : r.child = t /\ r.parent \in targets \ Sorted
    BY <2>2 DEF Unsorted
  <2>4. r.parent # t
    BY <1>1, <2>3 DEF OrderInv, RefsBetween
  <2> QED
    BY <2>3, <2>4
<1>5. left \in SUBSET {r.child : r \in refs}
  BY <1>4
<1> QED
  BY <1>3, <1>4, <1>5 DEF Cyclic

LEMMA ReturnExact ==
    ASSUME CycleInv, Return
    PROVE  CycleInv'
<1>1. /\ phase = "sort" /\ queue = {} /\ refs' = refs
      /\ phase' = IF Len(sorted) = Cardinality(targets) THEN "done" ELSE "raised"
  BY DEF Return
<1>2. OrderInv'
  BY ReturnStep DEF CycleInv
<1> QED
  BY <1>1, <1>2, LeftIsCyclic DEF CycleInv

LEMMA StutterExact ==
    ASSUME CycleInv, UNCHANGED orderVars
    PROVE  CycleInv'
<1>1. OrderInv'
  BY StutterStep DEF CycleInv
<1> QED
  BY <1>1 DEF CycleInv, orderVars, ExactDegree, Unsorted, Sorted

LEMMA NoOrderExact ==
    ASSUME NoOrder
    PROVE  CycleInv
BY NoOrderInv DEF NoOrder, CycleInv

(* Unless a table has two foreign keys to the same parent, only a schema   *)
(* with a cycle is refused.                                                *)
THEOREM RefusalIsRight == OrderSpec => []RefusesCycles
<1>1. NoOrder => CycleInv
  BY NoOrderExact
<1>2. CycleInv /\ [OrderNext]_orderVars => CycleInv'
  BY CallExact, ConstraintsType, TakeExact, ReturnExact, StutterExact
     DEF OrderNext, OrderStep
<1>3. CycleInv => RefusesCycles
  BY DEF CycleInv, RefusesCycles
<1> QED
  BY <1>1, <1>2, <1>3, PTL DEF OrderSpec
=============================================================================
