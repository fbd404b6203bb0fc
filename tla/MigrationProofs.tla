-------------------------- MODULE MigrationProofs --------------------------
(***************************************************************************)
(* Migrations of any schema: no row is lost or doubled, and the order of   *)
(* the tables is right, for any tables, foreign keys, mapping and rows.    *)
(***************************************************************************)
EXTENDS Migration, DropOrderProofs

(***************************************************************************)
(* The inductive invariant.                                                *)
(***************************************************************************)
InTodo(t) == \E i \in 1..Len(call.todo) : call.todo[i] = t

Before(t, u) ==
    \A i, j \in 1..Len(call.todo) : call.todo[i] = t /\ call.todo[j] = u => i < j

(* All rows of t are in its new table, which numbers on above them. *)
HasMoved(t) == /\ t \in Moved /\ t \in db.made
               /\ db.at[t] # "live"
               /\ db.rows[t] = stored[t]
               /\ \A i \in db.rows[t] : i < next[t]

(* Where the stored rows are. *)
RowsKept(d) ==
    /\ \A t \in d.moved : /\ t \in Moved /\ t \in d.made
                          /\ d.at[t] # "live"
                          /\ d.rows[t] = stored[t]
                          /\ d.old[t] \subseteq stored[t]
    /\ \A t \in Moved \ d.moved : /\ d.old[t] = stored[t]
                                  /\ d.rows[t] \in {{}, stored[t]}
                                  /\ d.at[t] = "live" => d.rows[t] = {}
    /\ \A t \in Table \ Moved : d.at[t] = "live" => d.old[t] = stored[t]
    /\ \A t \in Table \ DOMAIN mapping : d.at[t] = "live"

(* New tables are made after their parents. *)
MadeInOrder(d) == /\ d.made \subseteq Moved
                  /\ \A t \in d.made : Parents(t) \cap Moved \subseteq d.made

LiveToLive(d) ==
    Closed => \A t \in Table : \A p \in Parents(t) :
                 d.at[t] = "live" => d.at[p] = "live"

Good(d) == /\ d \in Database
           /\ RowsKept(d) /\ MadeInOrder(d) /\ LiveToLive(d)
           /\ \A t \in d.views : d.at[t] = "live"

Numbered == \A t \in db.moved : \A i \in db.rows[t] : i < next[t]

(* What is committed is never ahead of what is worked on. *)
SavedBehind ==
    /\ saved.made \subseteq db.made /\ saved.moved \subseteq db.moved
    /\ \A t \in Table : db.at[t] = "live" => saved.at[t] = "live"
    /\ call = NoCall /\ tx # "open" => saved = db
    /\ tx = "aborted" => call = NoCall

Sorting ==
    /\ phase # "idle" => call.kind \in {"evacuate", "transfer"} /\ call.todo = <<>>
    /\ call.kind = "evacuate" /\ phase # "idle" =>
         targets = DOMAIN mapping /\ refs = Between(targets, Catalogue(OldNames))
    /\ call.kind = "transfer" /\ phase # "idle" =>
         targets = call.tables /\ refs = Between(targets, Catalogue(NewNames))
    /\ call.kind = "transfer" => call.tables \subseteq Moved

Evacuating ==
    call.kind = "evacuate" /\ phase = "idle" =>
        /\ \A t \in Table : InTodo(t) => t \in DOMAIN mapping
        /\ \A t \in DOMAIN mapping : db.at[t] = "live" => InTodo(t)
        /\ \A t \in DOMAIN mapping : \A p \in Parents(t) \cap DOMAIN mapping :
              db.at[t] = "live" /\ db.at[p] = "live" => Before(t, p)

Transferring ==
    call.kind = "transfer" /\ phase = "idle" =>
        /\ \A t \in Table : InTodo(t) => t \in call.tables
        /\ \A t \in call.tables : InTodo(t) \/ HasMoved(t)
        /\ \A t \in call.tables \cap db.made :
              \A p \in Parents(t) \cap call.tables : Before(p, t)

Unpacking ==
    call.kind = "unpack" =>
        \E t \in Moved : /\ call.tables = {t} /\ call.todo = <<t>>
                         /\ t \in db.made /\ db.at[t] # "live"
                         /\ db.rows[t] = stored[t]

Types ==
    /\ fk \in [Key -> Table \X Table]
    /\ mapping \in Mappings
    /\ renaming \in BOOLEAN
    /\ stored \in [Table -> SUBSET Id]
    /\ next \in [Table -> 1..MaxId + 1]
    /\ tx \in {"none", "open", "aborted"}
    /\ call \in [kind : {"none", "evacuate", "transfer", "unpack"},
                 tables : SUBSET Table, todo : Seq(Table)]

IInv == /\ Types
        /\ CycleInv
        /\ Good(db) /\ Good(saved)
        /\ Numbered /\ SavedBehind
        /\ Sorting /\ Evacuating /\ Transferring /\ Unpacking

(***************************************************************************)
(* Numbering.                                                              *)
(***************************************************************************)

(* A finite set of numbers has a largest: of the sets of those above a     *)
(* member, a smallest one is empty.                                        *)
LEMMA LargestId ==
    ASSUME NEW ids \in SUBSET Id, ids # {}
    PROVE  \E i \in ids : \A j \in ids : j <= i
<1> DEFINE Above(i) == {j \in ids : j > i}
           T == {Above(i) : i \in ids}
           R == StrictSubsetOrdering(ids)
<1>1. ids \subseteq Int
  BY IdBound DEF Id
<1>2. IsFiniteSet(ids)
  <2>1. IsFiniteSet(1..MaxId)
    BY FS_Interval, IdBound
  <2> QED
    BY <2>1, FS_Subset DEF Id
<1>3. IsWellFoundedOn(R, FiniteSubsetsOf(ids))
  BY FS_StrictSubsetOrderingWellFounded
<1>4. T \subseteq FiniteSubsetsOf(ids) /\ T # {}
  <2>1. T \subseteq SUBSET ids /\ T # {}
    OBVIOUS
  <2>2. FiniteSubsetsOf(ids) = SUBSET ids
    BY <1>2, FS_FiniteSubsetsOfFinite
  <2> QED
    BY <2>1, <2>2
<1> HIDE DEF T, R
<1>5. PICK S \in T : \A U \in T : <<U, S>> \notin R
  BY <1>3, <1>4, WFMin
<1>6. PICK i \in ids : S = Above(i)
  BY <1>5 DEF T
<1>7. ASSUME NEW j \in ids, j > i
      PROVE  FALSE
  <2> i \in Int /\ j \in Int
    BY <1>1
  <2>1. /\ Above(j) \subseteq Above(i)
        /\ j \in Above(i) /\ j \notin Above(j)
    <3>1. \A k \in ids : k > j => k > i
      BY <1>1, <1>7
    <3>2. ~ (j > j)
      OBVIOUS
    <3> QED
      BY <1>7, <3>1, <3>2
  <2>2. Above(j) \in T /\ Above(i) \subseteq ids /\ Above(j) \subseteq ids
    BY DEF T
  <2>3. <<Above(j), Above(i)>> \in R
    BY <2>1, <2>2 DEF R, StrictSubsetOrdering
  <2> QED
    BY <1>5, <1>6, <2>2, <2>3
<1> QED
  BY <1>1, <1>7

LEMMA AfterLastIsAbove ==
    ASSUME NEW ids \in SUBSET Id
    PROVE  /\ AfterLast(ids) \in 1..MaxId + 1
           /\ \A i \in ids : i < AfterLast(ids)
<1>1. CASE ids = {}
  BY <1>1, IdBound DEF AfterLast
<1>2. CASE ids # {}
  <2> DEFINE last == CHOOSE i \in ids : \A j \in ids : j <= i
  <2>1. last \in ids /\ \A j \in ids : j <= last
    BY <1>2, LargestId
  <2>2. AfterLast(ids) = 1 + last
    BY <1>2 DEF AfterLast
  <2> HIDE DEF last
  <2>3. ids \subseteq 1..MaxId /\ MaxId \in Nat
    BY IdBound DEF Id
  <2> QED
    BY <2>1, <2>2, <2>3
<1> QED
  BY <1>1, <1>2

(***************************************************************************)
(* What a step keeps.                                                      *)
(***************************************************************************)
LEMMA Typed ==
    ASSUME IInv
    PROVE  /\ DOMAIN mapping \subseteq Table /\ Moved \subseteq DOMAIN mapping
           /\ db \in Database /\ saved \in Database
           /\ call.tables \subseteq Table /\ call.todo \in Seq(Table)
           /\ OrderTypeOK
           /\ call = NoCall => phase = "idle"
           /\ tx = "none" /\ call = NoCall => saved = db
BY DEF IInv, Types, Good, Moved, Mappings, CycleInv, OrderInv, Sorting, NoCall, SavedBehind

LEMMA GoodKept ==
    ASSUME UNCHANGED <<fk, mapping, stored>>
    PROVE  /\ Good(db) /\ db' = db => Good(db)'
           /\ Good(saved) /\ db' = saved => Good(db)'
           /\ Good(saved) /\ saved' = saved => Good(saved)'
           /\ Good(db) /\ saved' = db => Good(saved)'
<1> USE DEF Good, RowsKept, MadeInOrder, LiveToLive, Closed, Parents, Moved
<1>1. Good(db) /\ db' = db => Good(db)'
  OBVIOUS
<1>2. Good(saved) /\ db' = saved => Good(db)'
  OBVIOUS
<1>3. Good(saved) /\ saved' = saved => Good(saved)'
  OBVIOUS
<1>4. Good(db) /\ saved' = db => Good(saved)'
  OBVIOUS
<1> QED
  BY <1>1, <1>2, <1>3, <1>4

LEMMA GoodSaved ==
    ASSUME Good(db)', saved' = db'
    PROVE  Good(saved)'
BY DEF Good, RowsKept, MadeInOrder, LiveToLive

(* No statement is under way. *)
LEMMA Quiet ==
    ASSUME call' = NoCall, phase' = "idle"
    PROVE  Sorting' /\ Evacuating' /\ Transferring' /\ Unpacking'
BY DEF NoCall, Sorting, Evacuating, Transferring, Unpacking

LEMMA NoCallType == NoCall \in [kind : {"none", "evacuate", "transfer", "unpack"},
                                tables : SUBSET Table, todo : Seq(Table)]
BY DEF NoCall

LEMMA Forgotten ==
    ASSUME ForgetOrder
    PROVE  CycleInv' /\ phase' = "idle"
BY DEF ForgetOrder, CycleInv, OrderInv, OrderTypeOK, RefsBetween, SortedOnce,
       ParentsBefore, DoneSorted

(***************************************************************************)
(* Failure.                                                                *)
(***************************************************************************)

(* Going back to what is committed is sound: it was sound when it was      *)
(* committed, and setval has only raised its sequences since.              *)
LEMMA UndoKeeps ==
    ASSUME IInv, Undo, UNCHANGED Schema
    PROVE  /\ Good(db)' /\ Good(saved)'
           /\ Numbered'
           /\ next' \in [Table -> 1..MaxId + 1]
<1>1. db' = saved /\ saved' = saved
  BY DEF Undo
<1>2. Good(db)' /\ Good(saved)'
  BY <1>1, GoodKept DEF IInv, Schema
<1>3. next' \in [Table -> 1..MaxId + 1]
  BY IdBound DEF Undo, IInv, Types
<1>4. Numbered'
  <2> SUFFICES ASSUME NEW t \in saved.moved, NEW i \in saved.rows[t]
               PROVE  i < next'[t]
    BY <1>1 DEF Numbered
  <2>1. /\ t \in Table /\ t \in saved.made /\ t \in db.moved
        /\ saved.rows[t] = stored[t] /\ db.rows[t] = stored[t]
    BY DEF IInv, Good, RowsKept, SavedBehind, Moved, Types, Mappings
  <2>2. next'[t] = next[t]
    BY <2>1 DEF Undo
  <2> QED
    BY <2>1, <2>2 DEF IInv, Numbered
<1> QED
  BY <1>2, <1>3, <1>4

LEMMA RaiseStep ==
    ASSUME IInv, Raise
    PROVE  IInv'
<1>1. /\ Undo /\ UNCHANGED Schema
      /\ call' = NoCall /\ ForgetOrder
      /\ tx' = IF tx = "open" THEN "aborted" ELSE tx
      /\ db' = saved /\ saved' = saved
  BY DEF Raise, Undo
<1>2. Types'
  BY <1>1, UndoKeeps, NoCallType DEF Types, IInv, Schema
<1>3. SavedBehind'
  BY <1>1 DEF SavedBehind
<1> QED
  BY <1>1, <1>2, <1>3, UndoKeeps, Forgotten, Quiet DEF IInv

LEMMA DisconnectStep ==
    ASSUME IInv, Disconnect
    PROVE  IInv'
<1>1. /\ Undo /\ UNCHANGED Schema
      /\ call' = NoCall /\ ForgetOrder
      /\ tx' = "none"
      /\ db' = saved /\ saved' = saved
  BY DEF Disconnect, Undo
<1>2. Types'
  BY <1>1, UndoKeeps, NoCallType DEF Types, IInv, Schema
<1>3. SavedBehind'
  BY <1>1 DEF SavedBehind
<1> QED
  BY <1>1, <1>2, <1>3, UndoKeeps, Forgotten, Quiet DEF IInv

(***************************************************************************)
(* Transactions.                                                           *)
(***************************************************************************)
LEMMA BeginStep ==
    ASSUME IInv, Begin
    PROVE  IInv'
<1>1. /\ call = NoCall /\ call' = call /\ tx = "none" /\ tx' = "open"
      /\ UNCHANGED <<fk, mapping, renaming, stored, db, saved, next, orderVars>>
      /\ saved = db
  BY Typed DEF Begin, Idle, Schema
<1>2. Types'
  BY <1>1 DEF Types, IInv
<1>3. SavedBehind' /\ Numbered'
  BY <1>1 DEF SavedBehind, Numbered, IInv
<1>4. Good(db)' /\ Good(saved)'
  BY <1>1, GoodKept DEF IInv
<1>5. CycleInv' /\ phase' = "idle"
  BY <1>1, Typed, StutterExact DEF IInv, orderVars
<1> QED
  BY <1>1, <1>2, <1>3, <1>4, <1>5, Quiet DEF IInv

LEMMA CommitStep ==
    ASSUME IInv, Commit
    PROVE  IInv'
<1>1. /\ call = NoCall /\ call' = call /\ tx' = "none"
      /\ UNCHANGED <<fk, mapping, renaming, stored, db, next, orderVars>>
      /\ saved' = db
  BY DEF Commit, Idle, Schema
<1>2. Types'
  BY <1>1 DEF Types, IInv
<1>3. SavedBehind' /\ Numbered'
  BY <1>1 DEF SavedBehind, Numbered, IInv
<1>4. Good(db)' /\ Good(saved)'
  BY <1>1, GoodKept DEF IInv
<1>5. CycleInv' /\ phase' = "idle"
  BY <1>1, Typed, StutterExact DEF IInv, orderVars
<1> QED
  BY <1>1, <1>2, <1>3, <1>4, <1>5, Quiet DEF IInv

(***************************************************************************)
(* Finding the order.                                                      *)
(***************************************************************************)
LEMMA CatalogueType ==
    ASSUME IInv
    PROVE  /\ Catalogue(OldNames) \in SUBSET Reference
           /\ Catalogue(NewNames) \in SUBSET Reference
BY ConstraintsType DEF IInv, Types, Catalogue

LEMMA CatalogueKept ==
    ASSUME UNCHANGED <<fk, renaming, db>>
    PROVE  /\ Catalogue(OldNames)' = Catalogue(OldNames)
           /\ Catalogue(NewNames)' = Catalogue(NewNames)
BY DEF Catalogue, OldNames, NewNames, ByOldName, ByNewName, Constraints

(* A statement has begun, and nothing of the schema has changed. *)
LEMMA StatementKeeps ==
    ASSUME IInv, UNCHANGED <<Schema, db, saved, next, tx>>,
           call # NoCall \/ tx # "aborted", call' # NoCall
    PROVE  Good(db)' /\ Good(saved)' /\ Numbered' /\ SavedBehind'
<1>1. Good(db)' /\ Good(saved)'
  BY GoodKept DEF IInv, Schema
<1>2. Numbered' /\ SavedBehind'
  BY DEF Numbered, SavedBehind, IInv
<1> QED
  BY <1>1, <1>2

LEMMA EvacuateStep ==
    ASSUME IInv, Evacuate
    PROVE  IInv'
<1>1. /\ call = NoCall /\ tx # "aborted"
      /\ call' = [kind |-> "evacuate", tables |-> DOMAIN mapping, todo |-> <<>>]
      /\ Call(DOMAIN mapping, Catalogue(OldNames))
      /\ UNCHANGED <<Schema, db, saved, next, tx>>
  BY DEF Evacuate, Idle
<1>2. call' # NoCall
  BY <1>1 DEF NoCall
<1>3. Types'
  BY <1>1, Typed DEF Types, IInv, Schema
<1>4. CycleInv'
  BY <1>1, Typed, CatalogueType, CallExact
<1>5. /\ phase' = "sort" /\ targets' = DOMAIN mapping
      /\ refs' = Between(DOMAIN mapping, Catalogue(OldNames))
  BY <1>1 DEF Call
<1>6. Sorting'
  BY <1>1, <1>5, CatalogueKept DEF Sorting, Schema
<1>7. Evacuating' /\ Transferring' /\ Unpacking'
  BY <1>1, <1>5 DEF Evacuating, Transferring, Unpacking
<1> QED
  BY <1>1, <1>2, <1>3, <1>4, <1>6, <1>7, StatementKeeps DEF IInv

LEMMA TransferStep ==
    ASSUME IInv, NEW ts \in SUBSET Moved, Transfer(ts)
    PROVE  IInv'
<1>1. /\ call = NoCall /\ tx # "aborted"
      /\ call' = [kind |-> "transfer", tables |-> ts, todo |-> <<>>]
      /\ Call(ts, Catalogue(NewNames))
      /\ UNCHANGED <<Schema, db, saved, next, tx>>
  BY DEF Transfer, Idle
<1>2. call' # NoCall /\ ts \in SUBSET Table
  BY <1>1, Typed DEF NoCall
<1>3. Types'
  BY <1>1, <1>2 DEF Types, IInv, Schema
<1>4. CycleInv'
  BY <1>1, <1>2, CatalogueType, CallExact
<1>5. phase' = "sort" /\ targets' = ts /\ refs' = Between(ts, Catalogue(NewNames))
  BY <1>1 DEF Call
<1>6. Sorting'
  BY <1>1, <1>5, CatalogueKept DEF Sorting, Schema, Moved
<1>7. Evacuating' /\ Transferring' /\ Unpacking'
  BY <1>1, <1>5 DEF Evacuating, Transferring, Unpacking
<1> QED
  BY <1>1, <1>2, <1>3, <1>4, <1>6, <1>7, StatementKeeps DEF IInv

LEMMA SortStep ==
    ASSUME IInv, OrderStep, UNCHANGED console
    PROVE  IInv'
<1>1. UNCHANGED <<fk, mapping, renaming, stored, db, saved, next, tx, call>>
  BY DEF console
<1>2. CycleInv'
  BY TakeExact, ReturnExact DEF OrderStep, IInv
<1>3. phase = "sort" /\ phase' # "idle" /\ targets' = targets /\ refs' = refs
  BY DEF OrderStep, Take, Return
<1>4. call.kind \in {"evacuate", "transfer"}
  BY <1>3 DEF IInv, Sorting
<1>5. Types' /\ Numbered' /\ SavedBehind'
  BY <1>1 DEF Types, Numbered, SavedBehind, IInv
<1>6. Good(db)' /\ Good(saved)'
  BY <1>1, GoodKept DEF IInv
<1>7. Sorting'
  BY <1>1, <1>3, CatalogueKept DEF Sorting, IInv, Moved
<1>8. Evacuating' /\ Transferring' /\ Unpacking'
  BY <1>1, <1>3, <1>4 DEF Evacuating, Transferring, Unpacking
<1> QED
  BY <1>2, <1>5, <1>6, <1>7, <1>8 DEF IInv

(* A safe order in the list of what is to do, either way round. *)
LEMMA SafeTodo ==
    ASSUME OrderInv, phase = "done"
    PROVE  /\ call'.todo = Result =>
                /\ call'.todo \in Seq(targets)
                /\ \A t : InTodo(t)' <=> t \in targets
                /\ \A r \in refs : Before(r.child, r.parent)'
           /\ call'.todo = Reverse(Result) =>
                /\ call'.todo \in Seq(targets)
                /\ \A t : InTodo(t)' <=> t \in targets
                /\ \A r \in refs : Before(r.parent, r.child)'
<1> DEFINE n == Len(sorted)
<1>1. SafeOrder
  BY InvSafe
<1>2. n \in Nat /\ sorted \in Seq(targets)
  BY DEF OrderInv, OrderTypeOK
<1>3. Result \in Seq(targets) /\ Len(Result) = n
  BY <1>2 DEF Result
<1>4. /\ Reverse(Result) \in Seq(targets) /\ Len(Reverse(Result)) = n
      /\ \A i \in 1..n : Reverse(Result)[i] = Result[n - i + 1]
  BY <1>2, <1>3 DEF Reverse
<1>5. \A i \in 1..n : n - i + 1 \in 1..n /\ n - (n - i + 1) + 1 = i
  BY <1>2
<1>6. /\ \A t \in targets : \E i \in 1..n : Result[i] = t
      /\ \A i \in 1..n : Result[i] \in targets
      /\ \A r \in refs : \A i, j \in 1..n :
            Result[i] = r.child /\ Result[j] = r.parent => i < j
  BY <1>1, <1>3 DEF SafeOrder
<1> HIDE DEF n
<1>7. ASSUME call'.todo = Result
      PROVE  /\ \A t : InTodo(t)' <=> t \in targets
             /\ \A r \in refs : Before(r.child, r.parent)'
  BY <1>3, <1>6, <1>7 DEF InTodo, Before
<1>8. ASSUME call'.todo = Reverse(Result)
      PROVE  /\ \A t : InTodo(t)' <=> t \in targets
             /\ \A r \in refs : Before(r.parent, r.child)'
  <2>1. ASSUME NEW t \in targets
        PROVE  \E i \in 1..n : Reverse(Result)[i] = t
    <3>1. PICK i \in 1..n : Result[i] = t
      BY <1>6
    <3>2. n - i + 1 \in 1..n /\ Reverse(Result)[n - i + 1] = t
      BY <1>4, <1>5, <3>1
    <3> QED
      BY <3>2
  <2>2. \A i \in 1..n : Reverse(Result)[i] \in targets
    BY <1>4, <1>5, <1>6
  <2>3. ASSUME NEW r \in refs, NEW i \in 1..n, NEW j \in 1..n,
               Reverse(Result)[i] = r.parent, Reverse(Result)[j] = r.child
        PROVE  i < j
    <3>1. /\ n - i + 1 \in 1..n /\ Result[n - i + 1] = r.parent
          /\ n - j + 1 \in 1..n /\ Result[n - j + 1] = r.child
      BY <1>4, <1>5, <2>3
    <3>2. n - j + 1 < n - i + 1
      BY <1>6, <3>1
    <3> QED
      BY <1>2, <3>2
  <2> DEFINE s == Reverse(Result)
  <2>4. Len(s) = n /\ call'.todo = s
    BY <1>4, <1>8
  <2> HIDE DEF s
  <2>5. \A t : InTodo(t)' <=> \E i \in 1..n : s[i] = t
    BY <2>4 DEF InTodo
  <2>6. \A t, u : Before(t, u)' <=> \A i, j \in 1..n : s[i] = t /\ s[j] = u => i < j
    BY <2>4 DEF Before
  <2> QED
    BY <2>1, <2>2, <2>3, <2>5, <2>6 DEF s
<1> QED
  BY <1>3, <1>4, <1>7, <1>8

LEMMA OrderedStep ==
    ASSUME IInv, Ordered
    PROVE  IInv'
<1>1. /\ phase = "done" /\ call.kind \in {"evacuate", "transfer"}
      /\ call' = [call EXCEPT !.todo = IF call.kind = "evacuate"
                                       THEN Result ELSE Reverse(Result)]
      /\ ForgetOrder
      /\ UNCHANGED <<Schema, db, saved, next, tx>>
  BY DEF Ordered
<1>2. /\ call \in [kind : {"none", "evacuate", "transfer", "unpack"},
                   tables : SUBSET Table, todo : Seq(Table)]
      /\ OrderInv /\ targets \subseteq Table
  BY DEF IInv, Types, CycleInv, OrderInv, OrderTypeOK
<1>3. /\ call'.kind = call.kind /\ call'.tables = call.tables
      /\ call.kind = "evacuate" => call'.todo = Result
      /\ call.kind = "transfer" => call'.todo = Reverse(Result)
  BY <1>1, <1>2
<1>4. call # NoCall /\ call' # NoCall
  BY <1>1, <1>3 DEF NoCall
<1>5. call'.todo \in Seq(Table)
  <2>1. call'.todo \in Seq(targets)
    BY <1>1, <1>2, <1>3, SafeTodo
  <2> QED
    BY <1>2, <2>1, SeqMonotonic
<1>6. Types'
  <2>1. call' \in [kind : {"none", "evacuate", "transfer", "unpack"},
                   tables : SUBSET Table, todo : Seq(Table)]
    BY <1>1, <1>2, <1>3, <1>5
  <2> QED
    BY <1>1, <2>1 DEF Types, IInv, Schema
<1>7. CycleInv' /\ phase' = "idle"
  BY <1>1, Forgotten
<1>8. Sorting'
  BY <1>1, <1>3, <1>7 DEF Sorting, IInv, Schema, Moved
<1>9. Evacuating'
  <2> SUFFICES ASSUME call.kind = "evacuate"
               PROVE  Evacuating'
    BY <1>3 DEF Evacuating
  <2>1. /\ targets = DOMAIN mapping
        /\ refs = Between(targets, Catalogue(OldNames))
    BY <1>1 DEF IInv, Sorting
  <2>2. /\ \A t : InTodo(t)' <=> t \in targets
        /\ \A r \in refs : Before(r.child, r.parent)'
    BY <1>1, <1>2, <1>3, SafeTodo
  <2>3. ASSUME NEW t \in DOMAIN mapping, NEW p \in Parents(t) \cap DOMAIN mapping,
               db.at[t] = "live", db.at[p] = "live"
        PROVE  Before(t, p)'
    <3>1. PICK k \in Key : fk[k] = <<t, p>>
      BY <2>3 DEF Parents
    <3> DEFINE r == [key |-> k, child |-> t, parent |-> p]
    <3>2. r \in Constraints(fk)
      BY <3>1 DEF Constraints
    <3>3. t \in Table /\ p \in Table /\ t # p
      BY Typed, <2>3 DEF Parents
    <3>4. OldNames[t] = "old" /\ OldNames[p] = "old"
      BY <2>3, <3>3 DEF OldNames, ByOldName
    <3>5. r \in refs
      BY <2>1, <2>3, <3>2, <3>3, <3>4 DEF Between, Catalogue
    <3> QED
      BY <2>2, <3>5
  <2> QED
    BY <1>1, <2>1, <2>2, <2>3 DEF Evacuating, Schema, Parents
<1>10. Transferring'
  <2> SUFFICES ASSUME call.kind = "transfer"
               PROVE  Transferring'
    BY <1>3 DEF Transferring
  <2>1. /\ targets = call.tables /\ call.tables \subseteq Moved
        /\ refs = Between(targets, Catalogue(NewNames))
    BY <1>1 DEF IInv, Sorting
  <2>2. /\ \A t : InTodo(t)' <=> t \in targets
        /\ \A r \in refs : Before(r.parent, r.child)'
    BY <1>1, <1>2, <1>3, SafeTodo
  <2>3. ASSUME NEW t \in call.tables \cap db.made, NEW p \in Parents(t) \cap call.tables
        PROVE  Before(p, t)'
    <3>1. PICK k \in Key : fk[k] = <<t, p>>
      BY <2>3 DEF Parents
    <3> DEFINE r == [key |-> k, child |-> t, parent |-> p]
    <3>2. r \in Constraints(fk)
      BY <3>1 DEF Constraints
    <3>3. t \in Table /\ p \in Table /\ t # p
      BY <1>2, <2>3 DEF Parents
    <3>4. p \in db.made
      BY <2>1, <2>3 DEF IInv, Good, MadeInOrder
    <3>5. NewNames[t] = "new" /\ NewNames[p] = "new"
      BY <2>3, <3>3, <3>4 DEF NewNames, ByNewName
    <3>6. r \in refs
      BY <2>1, <2>3, <3>2, <3>3, <3>5 DEF Between, Catalogue
    <3> QED
      BY <2>2, <3>6
  <2> QED
    BY <1>1, <1>3, <2>1, <2>2, <2>3 DEF Transferring, Schema, Parents
<1>11. Unpacking'
  BY <1>1, <1>3 DEF Unpacking
<1> QED
  BY <1>1, <1>4, <1>6, <1>7, <1>8, <1>9, <1>10, <1>11, StatementKeeps DEF IInv

(***************************************************************************)
(* Evacuation, table by table.                                             *)
(***************************************************************************)

(* Going on to the next table. *)
LEMMA Advanced ==
    ASSUME Types, call.todo # <<>>, Advance
    PROVE  /\ call'.kind = call.kind /\ call'.tables = call.tables
           /\ call' \in [kind : {"none", "evacuate", "transfer", "unpack"},
                         tables : SUBSET Table, todo : Seq(Table)]
           /\ Head(call.todo) \in Table
           /\ \A t : InTodo(t) => InTodo(t)' \/ t = Head(call.todo)
           /\ \A t : InTodo(t)' => InTodo(t)
           /\ \A t, u : Before(t, u) => Before(t, u)'
           /\ \A t : Before(t, Head(call.todo)) => ~ InTodo(t)
           /\ InTodo(Head(call.todo))
<1> DEFINE s == call.todo
           n == Len(s)
<1>1. /\ call \in [kind : {"none", "evacuate", "transfer", "unpack"},
                   tables : SUBSET Table, todo : Seq(Table)]
      /\ call' = [call EXCEPT !.todo = Tail(s)]
  BY DEF Types, Advance
<1>2. s \in Seq(Table) /\ n \in Nat \ {0}
  BY <1>1
<1>3. /\ Tail(s) \in Seq(Table) /\ Len(Tail(s)) = n - 1
      /\ \A i \in 1..n - 1 : Tail(s)[i] = s[i + 1]
      /\ Head(s) = s[1] /\ Head(s) \in Table
  BY <1>1, <1>2, HeadTailProperties
<1>4. /\ call'.kind = call.kind /\ call'.tables = call.tables
      /\ call'.todo = Tail(s)
      /\ call' \in [kind : {"none", "evacuate", "transfer", "unpack"},
                    tables : SUBSET Table, todo : Seq(Table)]
  BY <1>1, <1>3
<1>5. /\ \A t : InTodo(t) <=> \E i \in 1..n : s[i] = t
      /\ \A t : InTodo(t)' <=> \E i \in 1..n - 1 : Tail(s)[i] = t
      /\ \A t, u : Before(t, u) <=> \A i, j \in 1..n : s[i] = t /\ s[j] = u => i < j
      /\ \A t, u : Before(t, u)' <=> \A i, j \in 1..n - 1 : Tail(s)[i] = t /\ Tail(s)[j] = u => i < j
  BY <1>3, <1>4 DEF InTodo, Before
<1> DEFINE T == Tail(s)
<1> HIDE DEF s, n, T
<1>6. \A i \in 1..n - 1 : i + 1 \in 1..n /\ T[i] = s[i + 1]
  BY <1>2, <1>3 DEF T
<1>7. ASSUME NEW i \in 1..n
      PROVE  i = 1 \/ (i - 1 \in 1..n - 1 /\ T[i - 1] = s[i])
  BY <1>2, <1>6
<1>8. ASSUME NEW t, InTodo(t)
      PROVE  InTodo(t)' \/ t = Head(s)
  <2>1. PICK i \in 1..n : s[i] = t
    BY <1>5, <1>8
  <2> QED
    BY <1>3, <1>5, <1>7, <2>1 DEF T
<1>9. ASSUME NEW t, InTodo(t)'
      PROVE  InTodo(t)
  BY <1>5, <1>6, <1>9 DEF T
<1>10. ASSUME NEW t, NEW u, Before(t, u)
       PROVE  Before(t, u)'
  <2> SUFFICES ASSUME NEW i \in 1..n - 1, NEW j \in 1..n - 1, T[i] = t, T[j] = u
               PROVE  i < j
    BY <1>5 DEF T
  <2>1. i + 1 < j + 1
    BY <1>5, <1>6, <1>10
  <2> QED
    BY <1>2, <2>1
<1>11. ASSUME NEW t, Before(t, Head(s)), InTodo(t)
       PROVE  FALSE
  <2>1. PICK i \in 1..n : s[i] = t
    BY <1>5, <1>11
  <2>2. 1 \in 1..n /\ s[1] = Head(s)
    BY <1>2, <1>3
  <2>3. i < 1
    BY <1>5, <1>11, <2>1, <2>2
  <2> QED
    BY <1>2, <2>3
<1>12. InTodo(Head(s))
  BY <1>2, <1>3, <1>5
<1> QED
  BY <1>3, <1>4, <1>8, <1>9, <1>10, <1>11, <1>12 DEF s

(* The rest of the list is still what is to do. *)
LEMMA EvacuatingOn ==
    ASSUME IInv, Current("evacuate"), Advance, UNCHANGED <<Schema, saved, next, tx, orderVars>>,
           NEW t \in Table, t = Head(call.todo),
           \A u \in Table : db'.at[u] = "live" => db.at[u] = "live" /\ u # t
    PROVE  /\ Types' /\ CycleInv'
           /\ Sorting' /\ Evacuating' /\ Transferring' /\ Unpacking'
           /\ call' # NoCall /\ t \in DOMAIN mapping
<1>1. /\ call.kind = "evacuate" /\ phase = "idle" /\ call.todo # <<>>
      /\ UNCHANGED <<fk, mapping, renaming, stored, saved, next, tx, phase>>
      /\ Types /\ Evacuating
  BY DEF Current, Schema, orderVars, IInv
<1>2. /\ call'.kind = "evacuate" /\ call'.tables = call.tables
      /\ call' \in [kind : {"none", "evacuate", "transfer", "unpack"},
                    tables : SUBSET Table, todo : Seq(Table)]
      /\ \A u : InTodo(u) => InTodo(u)' \/ u = t
      /\ \A u : InTodo(u)' => InTodo(u)
      /\ \A u, p : Before(u, p) => Before(u, p)'
      /\ InTodo(t)
  BY <1>1, Advanced
<1>3. Types'
  BY <1>1, <1>2 DEF Types
<1>4. CycleInv'
  BY StutterExact DEF IInv
<1>5. Sorting' /\ Transferring' /\ Unpacking' /\ call' # NoCall
  BY <1>1, <1>2 DEF Sorting, Transferring, Unpacking, NoCall
<1>6. Evacuating'
  <2>1. \A u \in DOMAIN mapping : db'.at[u] = "live" => InTodo(u)'
    BY <1>1, <1>2, Typed DEF Evacuating
  <2>2. \A u \in Table : InTodo(u)' => u \in DOMAIN mapping
    BY <1>1, <1>2 DEF Evacuating
  <2>3. ASSUME NEW u \in DOMAIN mapping, NEW p \in Parents(u) \cap DOMAIN mapping,
               db'.at[u] = "live", db'.at[p] = "live"
        PROVE  Before(u, p)'
    <3>1. db.at[u] = "live" /\ db.at[p] = "live"
      BY <2>3, Typed
    <3> QED
      BY <1>1, <1>2, <2>3, <3>1 DEF Evacuating
  <2> QED
    BY <1>1, <2>1, <2>2, <2>3 DEF Evacuating, Parents
<1>7. t \in DOMAIN mapping
  BY <1>1, <1>2 DEF Evacuating
<1> QED
  BY <1>3, <1>4, <1>5, <1>6, <1>7

LEMMA EvacuateTableStep ==
    ASSUME IInv, NEW t \in Table, EvacuateTable(t)
    PROVE  IInv'
<1>1. /\ Current("evacuate") /\ t = Head(call.todo) /\ db.at[t] = "live"
      /\ db' = [db EXCEPT !.at[t] = "work", !.views = @ \ {t}]
      /\ Advance
      /\ UNCHANGED <<Schema, saved, next, tx, orderVars>>
  BY DEF EvacuateTable
<1>2. db \in Database
  BY Typed
<1>3. /\ db'.at = [db.at EXCEPT ![t] = "work"]
      /\ db'.views = db.views \ {t}
      /\ db'.old = db.old /\ db'.made = db.made /\ db'.rows = db.rows
      /\ db'.moved = db.moved
      /\ db' \in Database
  BY <1>1, <1>2 DEF Database
<1>4. \A u \in Table : db'.at[u] = IF u = t THEN "work" ELSE db.at[u]
  BY <1>2, <1>3 DEF Database
<1>5. /\ Types' /\ CycleInv'
      /\ Sorting' /\ Evacuating' /\ Transferring' /\ Unpacking'
      /\ call' # NoCall /\ t \in DOMAIN mapping
  BY <1>1, <1>4, EvacuatingOn
<1>6. UNCHANGED <<fk, mapping, stored, saved, next, tx>>
  BY <1>1 DEF Schema
<1>7. Good(saved)'
  BY <1>6, GoodKept DEF IInv
<1>8. RowsKept(db)'
  BY <1>2, <1>3, <1>4, <1>5, <1>6, Typed DEF IInv, Good, RowsKept, Moved, Database
<1>9. LiveToLive(db)'
  <2> SUFFICES ASSUME Closed, NEW u \in Table, NEW p \in Parents(u), db'.at[u] = "live"
               PROVE  db'.at[p] = "live"
    BY <1>6 DEF LiveToLive, Closed, Parents
  <2>1. p \in Table /\ db.at[u] = "live" /\ u # t
    BY <1>4 DEF Parents
  <2>2. db.at[p] = "live"
    BY <2>1 DEF IInv, Good, LiveToLive
  <2>3. p # t
    <3>1. SUFFICES ASSUME p = t
                   PROVE  FALSE
      OBVIOUS
    <3>2. u \in DOMAIN mapping
      BY <1>5, <3>1 DEF Closed
    <3>3. InTodo(u) /\ Before(u, t)
      BY <1>1, <1>5, <2>1, <3>1, <3>2 DEF IInv, Evacuating, Current
    <3> QED
      BY <1>1, <3>3, Advanced DEF IInv, Current
  <2> QED
    BY <1>4, <2>1, <2>2, <2>3
<1>10. MadeInOrder(db)' /\ \A u \in db'.views : db'.at[u] = "live"
  BY <1>2, <1>3, <1>4, <1>6 DEF IInv, Good, MadeInOrder, Parents, Moved, Database
<1>11. Numbered' /\ SavedBehind'
  <2>1. Numbered'
    BY <1>3, <1>6 DEF IInv, Numbered
  <2>2. tx # "aborted"
    BY <1>1 DEF IInv, SavedBehind, Current, NoCall
  <2> QED
    BY <1>3, <1>4, <1>5, <1>6, <2>1, <2>2 DEF IInv, SavedBehind
<1> QED
  BY <1>3, <1>5, <1>7, <1>8, <1>9, <1>10, <1>11 DEF IInv, Good

LEMMA SkipMissingStep ==
    ASSUME IInv, NEW t \in Table, SkipMissing(t)
    PROVE  IInv'
<1>1. /\ Current("evacuate") /\ t = Head(call.todo) /\ db.at[t] # "live"
      /\ Advance
      /\ UNCHANGED <<Schema, db, saved, next, tx, orderVars>>
  BY DEF SkipMissing, ByOldName
<1>2. /\ Types' /\ CycleInv'
      /\ Sorting' /\ Evacuating' /\ Transferring' /\ Unpacking'
      /\ call' # NoCall
  BY <1>1, EvacuatingOn
<1>3. call # NoCall
  BY <1>1 DEF Current, NoCall
<1> QED
  BY <1>1, <1>2, <1>3, StatementKeeps DEF IInv

(***************************************************************************)
(* Statements that succeed.                                                *)
(***************************************************************************)
LEMMA DoneKeeps ==
    ASSUME IInv, NEW d, Done(d), Good(db)', UNCHANGED <<fk, mapping, stored>>,
           tx # "aborted",
           db.made \subseteq d.made, db.moved \subseteq d.moved,
           \A t \in Table : d.at[t] = "live" => db.at[t] = "live"
    PROVE  Good(saved)' /\ SavedBehind'
<1>1. /\ db' = d /\ tx' = tx
      /\ saved' = IF tx = "none" THEN d ELSE saved
  BY DEF Done
<1>2. Good(saved)'
  BY <1>1, GoodKept, GoodSaved DEF IInv
<1>3. tx \in {"none", "open"}
  BY DEF IInv, Types
<1>4. SavedBehind'
  BY <1>1, <1>3 DEF SavedBehind, IInv
<1> QED
  BY <1>2, <1>4

(* A copied table has exactly the stored rows, however often, and after    *)
(* whatever failure, it is copied.                                         *)
LEMMA CopiedRows ==
    ASSUME IInv, NEW t \in Moved, TableReady(t)
    PROVE  /\ Copied(t) = stored[t]
           /\ t \in db.made /\ db.at[t] # "live"
           /\ t \in Table /\ stored[t] \in SUBSET Id
<1>1. /\ t \in Table /\ t \in db.made /\ db.at[t] = "work"
      /\ stored[t] \in SUBSET Id
  BY Typed DEF TableReady, IInv, Types
<1>2. Copied(t) = db.rows[t] \cup db.old[t]
  BY <1>1 DEF Copied
<1>3. CASE t \in db.moved
  <2>1. db.rows[t] = stored[t] /\ db.old[t] \subseteq stored[t]
    BY <1>3 DEF IInv, Good, RowsKept
  <2> QED
    BY <1>1, <1>2, <2>1
<1>4. CASE t \notin db.moved
  <2>1. db.rows[t] \in {{}, stored[t]} /\ db.old[t] = stored[t]
    BY <1>4 DEF IInv, Good, RowsKept
  <2> QED
    BY <1>1, <1>2, <2>1
<1> QED
  BY <1>3, <1>4

(* Refilling a new table. *)
LEMMA Refilled ==
    ASSUME IInv, NEW t \in Moved, TableReady(t),
           db' = [db EXCEPT !.rows[t] = Copied(t)],
           UNCHANGED <<fk, mapping, renaming, stored>>
    PROVE  /\ db'.rows[t] = stored[t]
           /\ \A u \in Table \ {t} : db'.rows[u] = db.rows[u]
           /\ db'.at = db.at /\ db'.made = db.made /\ db'.moved = db.moved
           /\ Good(db)'
           /\ t \in db.moved => db'.rows[t] = db.rows[t]
<1>1. /\ Copied(t) = stored[t] /\ db.at[t] # "live"
      /\ t \in Table /\ stored[t] \in SUBSET Id
  BY CopiedRows
<1>2. db \in Database
  BY Typed
<1>3. /\ db'.rows = [db.rows EXCEPT ![t] = stored[t]]
      /\ db'.at = db.at /\ db'.old = db.old /\ db'.made = db.made
      /\ db'.views = db.views /\ db'.moved = db.moved
      /\ db' \in Database
  BY <1>1, <1>2 DEF Database
<1>4. \A u \in Table : db'.rows[u] = IF u = t THEN stored[t] ELSE db.rows[u]
  BY <1>2, <1>3 DEF Database
<1>5. RowsKept(db)'
  BY <1>1, <1>3, <1>4, Typed DEF IInv, Good, RowsKept, Moved
<1>6. MadeInOrder(db)' /\ LiveToLive(db)' /\ \A u \in db'.views : db'.at[u] = "live"
  BY <1>3 DEF IInv, Good, MadeInOrder, LiveToLive, Closed, Parents, Moved
<1>7. t \in db.moved => db'.rows[t] = db.rows[t]
  BY <1>1, <1>4 DEF IInv, Good, RowsKept
<1> QED
  BY <1>1, <1>3, <1>4, <1>5, <1>6, <1>7 DEF Good

LEMMA TransferTableStep ==
    ASSUME IInv, NEW t \in Table, TransferTable(t)
    PROVE  IInv'
<1>1. /\ call.kind = "transfer" /\ phase = "idle" /\ call.todo # <<>>
      /\ t = Head(call.todo) /\ TableReady(t)
      /\ db' = [db EXCEPT !.rows[t] = Copied(t)]
      /\ next' = [next EXCEPT ![t] = AfterLast(Copied(t))]
      /\ Advance
      /\ UNCHANGED <<fk, mapping, renaming, stored, saved, tx, orderVars, phase>>
  BY DEF TransferTable, Current, Schema, orderVars
<1>2. /\ call'.kind = "transfer" /\ call'.tables = call.tables
      /\ call' \in [kind : {"none", "evacuate", "transfer", "unpack"},
                    tables : SUBSET Table, todo : Seq(Table)]
      /\ \A u : InTodo(u) => InTodo(u)' \/ u = t
      /\ \A u : InTodo(u)' => InTodo(u)
      /\ \A u, p : Before(u, p) => Before(u, p)'
      /\ InTodo(t)
  BY <1>1, Advanced DEF IInv
<1>3. t \in call.tables /\ call.tables \subseteq Moved /\ t \in Moved
  BY <1>1, <1>2 DEF IInv, Transferring, Sorting
<1>4. /\ Copied(t) = stored[t] /\ t \in db.made /\ db.at[t] # "live"
      /\ stored[t] \in SUBSET Id
  BY <1>1, <1>3, CopiedRows
<1>5. /\ db'.rows[t] = stored[t]
      /\ \A u \in Table \ {t} : db'.rows[u] = db.rows[u]
      /\ db'.at = db.at /\ db'.made = db.made /\ db'.moved = db.moved
      /\ Good(db)'
  BY <1>1, <1>3, Refilled
<1>6. /\ next' \in [Table -> 1..MaxId + 1]
      /\ \A i \in stored[t] : i < next'[t]
      /\ \A u \in Table \ {t} : next'[u] = next[u]
  BY <1>1, <1>4, AfterLastIsAbove DEF IInv, Types
<1>7. Types'
  BY <1>1, <1>2, <1>6 DEF IInv, Types
<1>8. CycleInv' /\ Good(saved)'
  BY <1>1, StutterExact, GoodKept DEF IInv
<1>9. Numbered'
  <2>1. db.moved \subseteq Table
    BY Typed DEF Database
  <2> QED
    BY <1>5, <1>6, <2>1 DEF IInv, Numbered
<1>10. SavedBehind'
  <2>1. call'.kind # "none" /\ tx # "aborted"
    BY <1>1, <1>2 DEF IInv, SavedBehind, NoCall
  <2> QED
    BY <1>1, <1>5, <2>1 DEF IInv, SavedBehind, NoCall
<1>11. Sorting' /\ Evacuating' /\ Unpacking'
  BY <1>1, <1>2, <1>3 DEF Sorting, Evacuating, Unpacking, Moved
<1>12. Transferring'
  <2>1. ASSUME NEW u \in call.tables
        PROVE  InTodo(u)' \/ HasMoved(u)'
    <3>1. u \in Table
      BY <1>3, Typed
    <3>2. CASE u = t
      BY <1>1, <1>3, <1>4, <1>5, <1>6, <3>2 DEF HasMoved, Moved
    <3>3. CASE u # t
      BY <1>1, <1>2, <1>5, <1>6, <3>1, <3>3 DEF IInv, Transferring, HasMoved, Moved
    <3> QED
      BY <3>2, <3>3
  <2>2. \A u \in Table : InTodo(u)' => u \in call.tables
    BY <1>1, <1>2 DEF IInv, Transferring
  <2>3. \A u \in call.tables \cap db.made : \A p \in Parents(u) \cap call.tables : Before(p, u)'
    BY <1>1, <1>2 DEF IInv, Transferring
  <2> QED
    BY <1>1, <1>2, <1>5, <2>1, <2>2, <2>3 DEF Transferring, Parents
<1> QED
  BY <1>5, <1>7, <1>8, <1>9, <1>10, <1>11, <1>12 DEF IInv

LEMMA FinishStep ==
    ASSUME IInv, Finish
    PROVE  IInv'
<1> DEFINE d == IF call.kind = "transfer"
                  THEN [db EXCEPT !.moved = @ \cup call.tables] ELSE db
<1>1. /\ call.kind \in {"evacuate", "transfer"} /\ phase = "idle" /\ call.todo = <<>>
      /\ Done(d) /\ call' = NoCall
      /\ UNCHANGED <<fk, mapping, renaming, stored, next, tx, phase, orderVars>>
      /\ db' = d
  BY DEF Finish, Schema, orderVars, Done
<1>2. /\ db \in Database /\ call.tables \subseteq Table
      /\ tx # "aborted"
  BY <1>1, Typed DEF IInv, SavedBehind, NoCall
<1>3. /\ d.at = db.at /\ d.old = db.old /\ d.made = db.made
      /\ d.rows = db.rows /\ d.views = db.views
      /\ d.moved = db.moved \cup (IF call.kind = "transfer" THEN call.tables ELSE {})
      /\ d \in Database
  BY <1>2 DEF Database
<1> HIDE DEF d
<1>4. \A t : ~ InTodo(t)
  BY <1>1 DEF InTodo
<1>5. ASSUME NEW t \in d.moved
      PROVE  /\ t \in Moved /\ t \in db.made /\ db.at[t] # "live"
             /\ db.rows[t] = stored[t] /\ db.old[t] \subseteq stored[t]
             /\ \A i \in db.rows[t] : i < next[t]
  <2>1. CASE t \in db.moved
    BY <2>1 DEF IInv, Good, RowsKept, Numbered
  <2>2. CASE t \notin db.moved
    <3>1. call.kind = "transfer" /\ t \in call.tables
      BY <1>3, <2>2
    <3>2. HasMoved(t)
      BY <1>1, <1>4, <3>1 DEF IInv, Transferring
    <3> QED
      BY <2>2, <3>2 DEF HasMoved, IInv, Good, RowsKept
  <2> QED
    BY <2>1, <2>2
<1>6. RowsKept(db)'
  BY <1>1, <1>3, <1>5 DEF IInv, Good, RowsKept, Moved
<1>7. Good(db)'
  BY <1>1, <1>3, <1>6
     DEF IInv, Good, MadeInOrder, LiveToLive, Closed, Parents, Moved
<1>8. Good(saved)' /\ SavedBehind'
  BY <1>1, <1>2, <1>3, <1>7, DoneKeeps
<1>9. Numbered'
  BY <1>1, <1>3, <1>5 DEF Numbered
<1>10. Types' /\ CycleInv'
  BY <1>1, NoCallType, StutterExact DEF IInv, Types
<1> QED
  BY <1>1, <1>7, <1>8, <1>9, <1>10, Quiet DEF IInv

LEMMA CreateTableStep ==
    ASSUME IInv, NEW t \in Table, CreateTable(t)
    PROVE  IInv'
<1> DEFINE d == [db EXCEPT !.made = @ \cup {t}, !.rows[t] = {}]
<1>1. /\ call = NoCall /\ call' = NoCall /\ tx # "aborted" /\ tx' = tx
      /\ t \in Moved /\ t \notin db.made
      /\ Parents(t) \cap Moved \subseteq db.made
      /\ Done(d) /\ db' = d
      /\ next' = [next EXCEPT ![t] = 1]
      /\ UNCHANGED <<fk, mapping, renaming, stored, orderVars>>
  BY DEF CreateTable, Idle, Schema, Done
<1>2. db \in Database /\ phase = "idle" /\ phase' = "idle"
  BY <1>1, Typed DEF orderVars
<1>3. /\ d.at = db.at /\ d.old = db.old /\ d.made = db.made \cup {t}
      /\ d.rows = [db.rows EXCEPT ![t] = {}]
      /\ d.views = db.views /\ d.moved = db.moved
      /\ d \in Database
  BY <1>2 DEF Database
<1> HIDE DEF d
<1>4. \A u \in Table : d.rows[u] = IF u = t THEN {} ELSE db.rows[u]
  BY <1>2, <1>3 DEF Database
<1>5. t \notin db.moved /\ db.moved \subseteq Table
  BY <1>1, <1>2 DEF IInv, Good, RowsKept, Database
<1>6. RowsKept(db)'
  BY <1>1, <1>3, <1>4, <1>5, Typed DEF IInv, Good, RowsKept, Moved
<1>7. MadeInOrder(db)'
  BY <1>1, <1>3 DEF IInv, Good, MadeInOrder, Moved, Parents
<1>8. Good(db)'
  BY <1>1, <1>3, <1>6, <1>7 DEF IInv, Good, LiveToLive, Closed, Parents
<1>9. Good(saved)' /\ SavedBehind'
  BY <1>1, <1>3, <1>8, DoneKeeps
<1>10. Numbered'
  BY <1>1, <1>3, <1>4, <1>5 DEF IInv, Numbered, Types
<1>11. Types' /\ CycleInv'
  BY <1>1, IdBound, NoCallType, StutterExact DEF IInv, Types
<1> QED
  BY <1>1, <1>2, <1>8, <1>9, <1>10, <1>11, Quiet DEF IInv

LEMMA UnpackRowsStep ==
    ASSUME IInv, NEW t \in Table, UnpackRows(t)
    PROVE  IInv'
<1> DEFINE d == [db EXCEPT !.rows[t] = Copied(t)]
<1>1. /\ call = NoCall /\ tx # "aborted" /\ tx' = tx
      /\ t \in Moved /\ TableReady(t)
      /\ Done(d) /\ db' = d
      /\ call' = [kind |-> "unpack", tables |-> {t}, todo |-> <<t>>]
      /\ UNCHANGED <<fk, mapping, renaming, stored, next, orderVars>>
  BY DEF UnpackRows, Idle, Schema, Done
<1>2. phase = "idle" /\ phase' = "idle"
  BY <1>1, Typed DEF orderVars
<1>3. /\ db'.rows[t] = stored[t]
      /\ \A u \in Table \ {t} : db'.rows[u] = db.rows[u]
      /\ db'.at = db.at /\ db'.made = db.made /\ db'.moved = db.moved
      /\ Good(db)'
      /\ t \in db.moved => db'.rows[t] = db.rows[t]
  BY <1>1, Refilled
<1>4. t \in db.made /\ db.at[t] # "live"
  BY <1>1, CopiedRows
<1>5. Good(saved)' /\ SavedBehind'
  BY <1>1, <1>3, DoneKeeps
<1>6. Numbered'
  <2>1. db.moved \subseteq Table
    BY Typed DEF Database
  <2> QED
    BY <1>1, <1>3, <2>1 DEF IInv, Numbered
<1>7. Types' /\ CycleInv'
  BY <1>1, StutterExact DEF IInv, Types
<1>8. Unpacking'
  BY <1>1, <1>3, <1>4 DEF Unpacking, Moved
<1>9. Sorting' /\ Evacuating' /\ Transferring'
  BY <1>1, <1>2 DEF Sorting, Evacuating, Transferring
<1> QED
  BY <1>3, <1>5, <1>6, <1>7, <1>8, <1>9 DEF IInv

LEMMA UnpackSequenceStep ==
    ASSUME IInv, NEW t \in Table, UnpackSequence(t)
    PROVE  IInv'
<1> DEFINE d == [db EXCEPT !.moved = @ \cup {t}]
<1>1. /\ call.kind = "unpack" /\ phase = "idle" /\ t = Head(call.todo)
      /\ Done(d) /\ db' = d /\ tx' = tx
      /\ next' = [next EXCEPT ![t] = AfterLast(db.rows[t])]
      /\ call' = NoCall
      /\ UNCHANGED <<fk, mapping, renaming, stored, orderVars, phase>>
  BY DEF UnpackSequence, Current, Schema, Done, orderVars
<1>2. /\ t \in Moved /\ t \in db.made /\ db.at[t] # "live"
      /\ db.rows[t] = stored[t]
  BY <1>1 DEF IInv, Unpacking
<1>3. db \in Database /\ tx # "aborted" /\ stored[t] \in SUBSET Id
  BY <1>1, Typed DEF IInv, SavedBehind, NoCall, Types
<1>4. /\ d.at = db.at /\ d.old = db.old /\ d.made = db.made
      /\ d.rows = db.rows /\ d.views = db.views
      /\ d.moved = db.moved \cup {t}
      /\ d \in Database
  BY <1>3 DEF Database
<1> HIDE DEF d
<1>5. db.old[t] \subseteq stored[t]
  BY <1>2 DEF IInv, Good, RowsKept
<1>6. RowsKept(db)'
  BY <1>1, <1>2, <1>4, <1>5 DEF IInv, Good, RowsKept, Moved
<1>7. Good(db)'
  BY <1>1, <1>4, <1>6
     DEF IInv, Good, MadeInOrder, LiveToLive, Closed, Parents, Moved
<1>8. Good(saved)' /\ SavedBehind'
  BY <1>1, <1>3, <1>4, <1>7, DoneKeeps
<1>9. /\ next' \in [Table -> 1..MaxId + 1]
      /\ \A i \in stored[t] : i < next'[t]
      /\ \A u \in Table \ {t} : next'[u] = next[u]
  BY <1>1, <1>2, <1>3, AfterLastIsAbove DEF IInv, Types
<1>10. Numbered'
  <2>1. db.moved \subseteq Table
    BY <1>3 DEF Database
  <2> QED
    BY <1>1, <1>2, <1>4, <1>9, <2>1 DEF IInv, Numbered
<1>11. Types' /\ CycleInv'
  BY <1>1, <1>9, NoCallType, StutterExact DEF IInv, Types
<1> QED
  BY <1>1, <1>7, <1>8, <1>10, <1>11, Quiet DEF IInv

LEMMA DropWorkStep ==
    ASSUME IInv, NEW t \in Table, DropWork(t)
    PROVE  IInv'
<1> DEFINE d == [db EXCEPT !.at[t] = "dropped", !.old[t] = {}]
<1>1. /\ call = NoCall /\ call' = NoCall /\ tx = "none" /\ tx' = tx
      /\ Complete /\ db.at[t] = "work"
      /\ Done(d) /\ db' = d
      /\ UNCHANGED <<fk, mapping, renaming, stored, next, orderVars>>
  BY DEF DropWork, Idle, Schema, Done
<1>2. /\ db \in Database /\ phase = "idle" /\ phase' = "idle"
      /\ Moved \subseteq db.moved
  BY <1>1, Typed DEF orderVars, Complete
<1>3. /\ d.at = [db.at EXCEPT ![t] = "dropped"]
      /\ d.old = [db.old EXCEPT ![t] = {}]
      /\ d.made = db.made /\ d.rows = db.rows
      /\ d.views = db.views /\ d.moved = db.moved
      /\ d \in Database
  BY <1>2 DEF Database
<1> HIDE DEF d
<1>4. /\ \A u \in Table : d.at[u] = IF u = t THEN "dropped" ELSE db.at[u]
      /\ \A u \in Table : d.old[u] = IF u = t THEN {} ELSE db.old[u]
      /\ db.moved \subseteq Table /\ db.views \subseteq Table
  BY <1>2, <1>3 DEF Database
<1>5. RowsKept(db)'
  BY <1>1, <1>2, <1>3, <1>4 DEF IInv, Good, RowsKept, Moved
<1>6. MadeInOrder(db)' /\ \A u \in db'.views : db'.at[u] = "live"
  BY <1>1, <1>3, <1>4 DEF IInv, Good, MadeInOrder, Moved, Parents
<1>7. LiveToLive(db)'
  <2>1. \A u \in Table : d.at[u] = "live" <=> db.at[u] = "live"
    BY <1>1, <1>4
  <2> QED
    BY <1>1, <2>1 DEF IInv, Good, LiveToLive, Closed, Parents
<1>8. Good(db)'
  BY <1>1, <1>3, <1>5, <1>6, <1>7 DEF Good
<1>9. Good(saved)' /\ SavedBehind'
  BY <1>1, <1>3, <1>4, <1>8, DoneKeeps
<1>10. Numbered'
  BY <1>1, <1>3 DEF IInv, Numbered
<1>11. Types' /\ CycleInv'
  BY <1>1, NoCallType, StutterExact DEF IInv, Types
<1> QED
  BY <1>1, <1>2, <1>8, <1>9, <1>10, <1>11, Quiet DEF IInv

(* The service's insert lands in the table it reads, and is what the       *)
(* migration has to keep.                                                  *)
LEMMA ServiceInsertStep ==
    ASSUME IInv, NEW t \in Table, ServiceInsert(t)
    PROVE  IInv'
<1> DEFINE f == Fresh(t)
           new == ~ Untouched /\ t \in Moved
           all == stored[t] \cup {f}
<1>1. /\ call = NoCall /\ call' = NoCall /\ tx = "none" /\ tx' = tx
      /\ Untouched \/ Complete
      /\ t \in Served /\ f \in Id
      /\ stored' = [stored EXCEPT ![t] = all]
      /\ new => /\ db' = [db EXCEPT !.rows[t] = @ \cup {f}]
                /\ next' = [next EXCEPT ![t] = @ + 1]
      /\ ~ new => /\ db' = [db EXCEPT !.old[t] = @ \cup {f}]
                  /\ next' = next
      /\ saved' = db'
      /\ UNCHANGED <<fk, mapping, renaming, orderVars>>
      /\ new => f = next[t]
  BY DEF ServiceInsert, ServiceUp, Fresh, IInv, Types
<1>2. /\ saved = db /\ db \in Database /\ phase = "idle" /\ phase' = "idle"
      /\ stored \in [Table -> SUBSET Id] /\ next \in [Table -> 1..MaxId + 1]
      /\ RowsKept(db)
  BY <1>1, Typed DEF orderVars, IInv, Types, Good
<1> HIDE DEF f, new
<1>3. /\ db' \in Database
      /\ db'.at = db.at /\ db'.made = db.made /\ db'.views = db.views
      /\ db'.moved = db.moved
      /\ \A u \in Table : db'.rows[u] = IF new /\ u = t THEN db.rows[t] \cup {f} ELSE db.rows[u]
      /\ \A u \in Table : db'.old[u] = IF ~ new /\ u = t THEN db.old[t] \cup {f} ELSE db.old[u]
      /\ \A u \in Table : stored'[u] = IF u = t THEN all ELSE stored[u]
      /\ stored' \in [Table -> SUBSET Id]
  <2>1. CASE new
    <3>1. /\ db.rows \in [Table -> SUBSET Id]
          /\ db'.rows = [db.rows EXCEPT ![t] = db.rows[t] \cup {f}]
          /\ db'.at = db.at /\ db'.made = db.made /\ db'.views = db.views
          /\ db'.moved = db.moved /\ db'.old = db.old
      BY <1>1, <1>2, <2>1 DEF Database
    <3>2. db' \in Database
      BY <1>1, <1>2, <2>1 DEF Database
    <3>3. /\ \A u \in Table : stored'[u] = IF u = t THEN all ELSE stored[u]
          /\ stored' \in [Table -> SUBSET Id]
      BY <1>1, <1>2
    <3> QED
      BY <2>1, <3>1, <3>2, <3>3
  <2>2. CASE ~ new
    <3>1. /\ db.old \in [Table -> SUBSET Id]
          /\ db'.old = [db.old EXCEPT ![t] = db.old[t] \cup {f}]
          /\ db'.at = db.at /\ db'.made = db.made /\ db'.views = db.views
          /\ db'.moved = db.moved /\ db'.rows = db.rows
      BY <1>1, <1>2, <2>2 DEF Database
    <3>2. db' \in Database
      BY <1>1, <1>2, <2>2 DEF Database
    <3>3. /\ \A u \in Table : stored'[u] = IF u = t THEN all ELSE stored[u]
          /\ stored' \in [Table -> SUBSET Id]
      BY <1>1, <1>2
    <3> QED
      BY <2>2, <3>1, <3>2, <3>3
  <2> QED
    BY <2>1, <2>2
<1>4. /\ new => t \in db.moved
      /\ ~ new => t \notin db.moved
      /\ t \in Moved /\ ~ new => db.rows[t] = {} /\ db.at[t] = "live"
      /\ db.at[t] = "live" \/ t \in db.moved
  <2>1. CASE new
    BY <1>1, <1>2, <2>1 DEF new, Complete
  <2>2. CASE Untouched
    BY <1>2, <2>2 DEF Untouched, new, RowsKept
  <2>3. CASE ~ Untouched /\ t \notin Moved
    BY <1>1, <1>2, <2>3 DEF new, RowsKept, Served
  <2> QED
    BY <2>1, <2>2, <2>3 DEF new
<1>5. RowsKept(db)'
  <2>1. Moved' = Moved /\ DOMAIN mapping' = DOMAIN mapping /\ db.moved \subseteq Table
        /\ Moved \subseteq Table
    BY <1>1, <1>2, Typed DEF Moved, Database
  <2>2. ASSUME NEW u \in db.moved
        PROVE  /\ u \in Moved /\ u \in db.made /\ db.at[u] # "live"
               /\ db'.rows[u] = stored'[u]
               /\ db'.old[u] \subseteq stored'[u]
    <3>1. /\ u \in Table /\ u \in Moved /\ u \in db.made /\ db.at[u] # "live"
          /\ db.rows[u] = stored[u] /\ db.old[u] \subseteq stored[u]
      BY <1>2, <2>1 DEF RowsKept
    <3>2. CASE u = t
      BY <1>3, <1>4, <3>1, <3>2
    <3>3. CASE u # t
      BY <1>3, <3>1, <3>3
    <3> QED
      BY <3>1, <3>2, <3>3
  <2>3. ASSUME NEW u \in Moved \ db.moved
        PROVE  /\ db'.old[u] = stored'[u]
               /\ db'.rows[u] \in {{}, stored'[u]}
               /\ db.at[u] = "live" => db'.rows[u] = {}
    <3>1. /\ u \in Table /\ db.old[u] = stored[u]
          /\ db.rows[u] \in {{}, stored[u]}
          /\ db.at[u] = "live" => db.rows[u] = {}
      BY <1>2, <2>1 DEF RowsKept
    <3>2. CASE u = t
      BY <1>3, <1>4, <3>1, <3>2
    <3>3. CASE u # t
      BY <1>3, <3>1, <3>3
    <3> QED
      BY <3>2, <3>3
  <2>4. ASSUME NEW u \in Table \ Moved, db.at[u] = "live"
        PROVE  db'.old[u] = stored'[u]
    <3>1. db.old[u] = stored[u]
      BY <1>2, <2>4 DEF RowsKept
    <3>2. u = t => ~ new
      BY DEF new
    <3> QED
      BY <1>3, <3>1, <3>2
  <2>5. \A u \in Table \ DOMAIN mapping : db.at[u] = "live"
    BY <1>2 DEF RowsKept
  <2> QED
    BY <1>3, <2>1, <2>2, <2>3, <2>4, <2>5 DEF RowsKept
<1>6. Good(db)'
  BY <1>1, <1>3, <1>5
     DEF IInv, Good, MadeInOrder, LiveToLive, Closed, Parents, Moved
<1>7. Good(saved)' /\ SavedBehind'
  BY <1>1, <1>6, GoodSaved DEF SavedBehind
<1>8. Numbered' /\ next' \in [Table -> 1..MaxId + 1]
  <2>1. CASE new
    <3>1. /\ f = next[t] /\ f \in 1..MaxId
          /\ next' = [next EXCEPT ![t] = next[t] + 1]
          /\ MaxId \in Nat
      BY <1>1, <1>2, <2>1, IdBound DEF Id
    <3>2. next' \in [Table -> 1..MaxId + 1]
      BY <1>2, <3>1
    <3>3. ASSUME NEW u \in db.moved, NEW i \in db'.rows[u]
          PROVE  i < next'[u]
      <4>1. u \in Table /\ \A j \in db.rows[u] : j < next[u] /\ j \in 1..MaxId
        BY <1>2 DEF Database, IInv, Numbered, Id
      <4>2. CASE u = t
        BY <1>2, <1>3, <2>1, <3>1, <3>3, <4>1, <4>2
      <4>3. CASE u # t
        BY <1>2, <1>3, <3>1, <3>3, <4>1, <4>3
      <4> QED
        BY <4>2, <4>3
    <3> QED
      BY <1>3, <3>2, <3>3 DEF Numbered
  <2>2. CASE ~ new
    <3>1. db.moved \subseteq Table
      BY <1>2 DEF Database
    <3> QED
      BY <1>1, <1>2, <1>3, <2>2, <3>1 DEF IInv, Numbered
  <2> QED
    BY <2>1, <2>2
<1>9. Types' /\ CycleInv'
  BY <1>1, <1>3, <1>8, NoCallType, StutterExact DEF IInv, Types
<1> QED
  BY <1>1, <1>2, <1>6, <1>7, <1>8, <1>9, Quiet DEF IInv

(***************************************************************************)
(* The theorems.                                                           *)
(***************************************************************************)
LEMMA InitInv ==
    ASSUME Init
    PROVE  IInv
<1>1. /\ fk \in [Key -> Table \X Table] /\ mapping \in Mappings
      /\ renaming \in BOOLEAN
      /\ stored \in [Table -> {{}, {1}}]
      /\ db = [at |-> [t \in Table |-> "live"], old |-> stored, made |-> {},
               rows |-> [t \in Table |-> {}], views |-> Table, moved |-> {}]
      /\ saved = db /\ next = [t \in Table |-> 1]
      /\ tx = "none" /\ call = NoCall /\ NoOrder
  BY DEF Init
<1>2. {{}, {1}} \subseteq SUBSET Id
  BY IdBound DEF Id
<1>3. stored \in [Table -> SUBSET Id]
  BY <1>1, <1>2
<1>4. Types
  BY <1>1, <1>3, NoCallType, IdBound DEF Types
<1>5. CycleInv /\ phase = "idle"
  BY <1>1, NoOrderExact DEF NoOrder
<1>6. Moved \subseteq Table
  BY <1>1 DEF Moved, Mappings
<1>7. Good(db)
  <2>1. db \in Database
    BY <1>1, <1>3 DEF Database
  <2>2. RowsKept(db)
    BY <1>1, <1>6 DEF RowsKept
  <2>3. MadeInOrder(db) /\ LiveToLive(db) /\ \A t \in db.views : db.at[t] = "live"
    BY <1>1 DEF MadeInOrder, LiveToLive, Parents
  <2> QED
    BY <2>1, <2>2, <2>3 DEF Good
<1>8. Numbered /\ SavedBehind
  BY <1>1 DEF Numbered, SavedBehind
<1>9. Sorting /\ Evacuating /\ Transferring /\ Unpacking
  BY <1>1, <1>5 DEF NoCall, Sorting, Evacuating, Transferring, Unpacking
<1> QED
  BY <1>1, <1>4, <1>5, <1>7, <1>8, <1>9 DEF IInv

LEMMA StutterKeeps ==
    ASSUME IInv, UNCHANGED vars
    PROVE  IInv'
<1>1. UNCHANGED <<fk, mapping, renaming, stored, db, saved, next, tx, call, orderVars>>
  BY DEF vars, console
<1>2. phase' = phase /\ targets' = targets /\ refs' = refs
  BY <1>1 DEF orderVars
<1>3. Types' /\ CycleInv' /\ Good(db)' /\ Good(saved)'
  BY <1>1, StutterExact, GoodKept DEF IInv, Types
<1>4. Numbered' /\ SavedBehind'
  BY <1>1 DEF IInv, Numbered, SavedBehind
<1>5. Sorting'
  BY <1>1, <1>2, CatalogueKept DEF IInv, Sorting, Moved
<1>6. Evacuating' /\ Unpacking'
  BY <1>1, <1>2 DEF IInv, Evacuating, Unpacking, InTodo, Before, Parents, Moved
<1>7. Transferring'
  BY <1>1, <1>2 DEF IInv, Transferring, InTodo, Before, HasMoved, Parents, Moved
<1> QED
  BY <1>3, <1>4, <1>5, <1>6, <1>7 DEF IInv

LEMMA NextKeeps ==
    ASSUME IInv, Next
    PROVE  IInv'
<1>1. CASE Begin \/ Commit \/ Rollback \/ StatementFails \/ Disconnect
  BY <1>1, BeginStep, CommitStep, DisconnectStep, RaiseStep DEF Rollback, StatementFails
<1>2. CASE Evacuate \/ Ordered \/ Refused \/ Finish
  BY <1>2, EvacuateStep, OrderedStep, RaiseStep, FinishStep DEF Refused
<1>3. CASE OrderStep /\ UNCHANGED console
  BY <1>3, SortStep
<1>4. ASSUME NEW t \in Table,
             EvacuateTable(t) \/ SkipMissing(t) \/ WorkTaken(t) \/ CreateTable(t)
      PROVE  IInv'
  BY <1>4, EvacuateTableStep, SkipMissingStep, RaiseStep, CreateTableStep DEF WorkTaken
<1>5. ASSUME NEW t \in Table,
             TransferTable(t) \/ TransferRefused(t) \/ UnpackRows(t) \/ UnpackSequence(t)
      PROVE  IInv'
  BY <1>5, TransferTableStep, RaiseStep, UnpackRowsStep, UnpackSequenceStep
     DEF TransferRefused
<1>6. ASSUME NEW t \in Table, ServiceInsert(t) \/ DropWork(t)
      PROVE  IInv'
  BY <1>6, ServiceInsertStep, DropWorkStep
<1>7. ASSUME NEW ts \in SUBSET Moved, Transfer(ts)
      PROVE  IInv'
  BY <1>7, TransferStep
<1> QED
  BY <1>1, <1>2, <1>3, <1>4, <1>5, <1>6, <1>7 DEF Next

LEMMA Invariant == Spec => []IInv
<1>1. Init => IInv
  BY InitInv
<1>2. IInv /\ [Next]_vars => IInv'
  BY NextKeeps, StutterKeeps
<1> QED
  BY <1>1, <1>2, PTL DEF Spec

(* The console, the catalogue and the sequences keep their types; a        *)
(* sequence handled by setval stays within its bounds.                     *)
THEOREM MigrationTypes == Spec => []TypeOK
<1>1. IInv => TypeOK
  BY DEF IInv, Types, Good, TypeOK, CycleInv, OrderInv
<1> QED
  BY <1>1, Invariant, PTL

(* Failed, repeated, partial migrations lose and double no row: whenever   *)
(* the service may run it finds what it stored, for any schema.            *)
THEOREM RowsSurvive == Spec => []ServiceFindsItsRows
<1>1. IInv => ServiceFindsItsRows
  <2> SUFFICES ASSUME IInv, ServiceUp, NEW t \in Served
               PROVE  Found(t) = stored[t]
    BY DEF ServiceFindsItsRows
  <2>1. /\ t \in Table /\ saved = db /\ RowsKept(db)
        /\ Untouched \/ Complete
    BY Typed DEF ServiceUp, Served, IInv, Good
  <2>2. CASE Untouched
    BY <2>1, <2>2 DEF Untouched, Found, RowsKept
  <2>3. CASE ~ Untouched /\ t \in Moved
    BY <2>1, <2>3 DEF Complete, Found, RowsKept
  <2>4. CASE ~ Untouched /\ t \notin Moved
    BY <2>1, <2>4 DEF Served, Found, RowsKept
  <2> QED
    BY <2>2, <2>3, <2>4
<1> QED
  BY <1>1, Invariant, PTL

(* No id is given out twice after a migration, although setval outlives    *)
(* the rollback of a transfer.                                             *)
THEOREM NumbersOn == Spec => []NextIdFresh
<1>1. IInv => NextIdFresh
  <2> SUFFICES ASSUME IInv, NEW t \in saved.moved, NEW i \in saved.rows[t]
               PROVE  i < next[t]
    BY DEF NextIdFresh
  <2>1. t \in db.moved /\ saved.rows[t] = stored[t] /\ db.rows[t] = stored[t]
    BY DEF IInv, Good, RowsKept, SavedBehind
  <2> QED
    BY <2>1 DEF IInv, Numbered
<1> QED
  BY <1>1, Invariant, PTL

(* At no step of an evacuation does a table in use refer to a _work table, *)
(* for any schema the mapping leaves no child out of, or a view read one.  *)
THEOREM WorkStaysUnread == Spec => []NothingReadsWork
<1>1. IInv => LiveRefersToLive
  BY DEF IInv, Good, LiveToLive, LiveRefersToLive
<1>2. IInv => ViewsReadLive
  BY DEF IInv, Good, ViewsReadLive
<1> QED
  BY <1>1, <1>2, Invariant, PTL DEF NothingReadsWork

(* A transfer that names all parents that are not moved yet fills every    *)
(* table after them, for any schema.                                       *)
THEOREM FillsParentsFirst == Spec => []ParentsFilledFirst
<1>1. IInv => ParentsFilledFirst
  <2> DEFINE t == Head(call.todo)
  <2> SUFFICES ASSUME IInv, Current("transfer"),
                      TableReady(t), db.rows[t] = {},
                      Parents(t) \cap Moved \subseteq call.tables \cup db.moved
               PROVE  KeysHold(t)
    BY DEF ParentsFilledFirst
  <2>1. /\ call.kind = "transfer" /\ phase = "idle" /\ call.todo # <<>>
        /\ Types /\ Transferring /\ RowsKept(db)
        /\ t \in db.made
    BY DEF Current, IInv, Good, TableReady
  <2>2. InTodo(t) /\ t \in Table
    <3>1. call.todo \in Seq(Table) /\ Len(call.todo) \in Nat \ {0}
      BY <2>1 DEF Types
    <3>2. t = call.todo[1] /\ t \in Table
      BY <2>1, <3>1, HeadTailProperties
    <3> QED
      BY <3>1, <3>2 DEF InTodo
  <2>3. t \in call.tables
    BY <2>1, <2>2 DEF Transferring
  <2>4. ASSUME NEW p \in Parents(t), p \in Moved
        PROVE  db.old[p] \subseteq db.rows[p]
    <3>1. CASE p \in db.moved
      BY <2>1, <3>1 DEF RowsKept
    <3>2. CASE p \in call.tables \ db.moved
      <4>1. Before(p, t)
        BY <2>1, <2>3, <3>2 DEF Transferring
      <4>2. ~ InTodo(p)
        <5> DEFINE s == call.todo
        <5>1. s \in Seq(Table) /\ Len(s) \in Nat \ {0}
          BY <2>1 DEF Types
        <5>2. s[1] = t /\ 1 \in 1..Len(s)
          BY <2>1, <5>1, HeadTailProperties
        <5>3. ASSUME NEW i \in 1..Len(s), s[i] = p
              PROVE  FALSE
          BY <4>1, <5>1, <5>2, <5>3 DEF Before
        <5> QED
          BY <5>3 DEF InTodo
      <4>3. HasMoved(p)
        BY <2>1, <3>2, <4>2 DEF Transferring
      <4>4. db.old[p] = stored[p]
        BY <2>1, <2>4, <3>2 DEF RowsKept
      <4> QED
        BY <4>3, <4>4 DEF HasMoved
    <3> QED
      BY <2>4, <3>1, <3>2
  <2> QED
    BY <2>4 DEF KeysHold, ParentFilled
<1> QED
  BY <1>1, Invariant, PTL

(* The order is safe, and refused only for a cycle or a doubled key, in    *)
(* every call of a migration.                                              *)
THEOREM CallsOrderSafely == Spec => []OrderRight
<1>1. IInv => OrderRight
  BY InvSafe DEF IInv, CycleInv, RefusesCycles, OrderRight
<1> QED
  BY <1>1, Invariant, PTL
=============================================================================
