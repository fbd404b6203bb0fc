----------------------------- MODULE DropOrder -----------------------------
(***************************************************************************)
(* migration_get_drop_order: the order in which a set of tables can be     *)
(* dropped, from the foreign keys in pg_constraint.  Kahn's algorithm      *)
(* sorts the tables parents first; the answer is the reverse.  A set that  *)
(* cannot be sorted raises an exception.                                   *)
(*                                                                         *)
(* The function reads the catalogue, then takes one table per step.  Its   *)
(* queue is first in, first out, filled in the order of arrays that come   *)
(* unordered from the catalogue and from JSON keys: here any queued table  *)
(* may be next.                                                            *)
(***************************************************************************)
EXTENDS Integers, Sequences, FiniteSets

CONSTANTS
    Table,   \* tables of the schema
    Key      \* foreign key constraints

ASSUME FiniteSchema == IsFiniteSet(Table) /\ IsFiniteSet(Key)

VARIABLES
    targets,    \* target_tables
    refs,       \* the constraints between targets
    in_degree,  \* table -> number
    queue,      \* tables whose degree is down to 0
    sorted,     \* parents first
    phase       \* what the call does, or how it ended

orderVars == <<targets, refs, in_degree, queue, sorted, phase>>

Reference == [key : Key, child : Table, parent : Table]

OrderTypeOK ==
    /\ targets \subseteq Table
    /\ refs \subseteq Reference
    /\ in_degree \in [targets -> Int]
    /\ queue \subseteq targets
    /\ sorted \in Seq(targets)
    /\ phase \in {"idle", "sort", "done", "raised"}

(* The constraints of a schema, given the child and parent of each key. *)
Constraints(f) ==
    {[key |-> k, child |-> f[k][1], parent |-> f[k][2]] : k \in Key}

NoOrder ==
    /\ targets = {} /\ refs = {} /\ queue = {} /\ sorted = <<>>
    /\ in_degree = [t \in {} |-> 0]
    /\ phase = "idle"

(* The WHERE of the catalogue query. *)
Between(ts, all) ==
    {r \in all : r.child \in ts /\ r.parent \in ts /\ r.child # r.parent}

(* Every constraint adds to the degree of its child. *)
Degree(t, rs) == Cardinality({r \in rs : r.child = t})

Call(ts, all) ==
    LET rs == Between(ts, all)
    IN  /\ phase \in {"idle", "done", "raised"}
        /\ targets' = ts
        /\ refs' = rs
        /\ in_degree' = [t \in ts |-> Degree(t, rs)]
        /\ queue' = {t \in ts : Degree(t, rs) = 0}
        /\ sorted' = <<>>
        /\ phase' = "sort"

(* The adjacency list has a child once, however many constraints join it   *)
(* to its parent.                                                          *)
Children(t) == {r.child : r \in {s \in refs : s.parent = t}}

(* Bug: a child is queued with its first sorted parent. *)
TakeEager(t) ==
    /\ phase = "sort"
    /\ t \in queue
    /\ sorted' = Append(sorted, t)
    /\ in_degree' = [c \in targets |-> IF c \in Children(t) THEN 0
                                                          ELSE in_degree[c]]
    /\ queue' = (queue \ {t}) \cup {c \in Children(t) : in_degree[c] > 0}
    /\ UNCHANGED <<targets, refs, phase>>

(* A child is queued when its last parent is taken. *)
Take(t) ==
    /\ phase = "sort"
    /\ t \in queue
    /\ sorted' = Append(sorted, t)
    /\ in_degree' = [c \in targets |-> IF c \in Children(t) THEN in_degree[c] - 1
                                                          ELSE in_degree[c]]
    /\ queue' = (queue \ {t}) \cup {c \in Children(t) : in_degree[c] = 1}
    /\ UNCHANGED <<targets, refs, phase>>

Return ==
    /\ phase = "sort"
    /\ queue = {}
    /\ phase' = IF Len(sorted) = Cardinality(targets) THEN "done" ELSE "raised"
    /\ UNCHANGED <<targets, refs, in_degree, queue, sorted>>

(* The answer: children first. *)
Result == [i \in 1..Len(sorted) |-> sorted[Len(sorted) + 1 - i]]

OrderStep == (\E t \in queue : Take(t)) \/ Return

OrderNext ==
    \/ \E ts \in SUBSET Table \ {{}}, f \in [Key -> Table \X Table] :
          Call(ts, Constraints(f))
    \/ OrderStep

OrderSpec == NoOrder /\ [][OrderNext]_orderVars

-----------------------------------------------------------------------------
(* Some tables refer to each other in a circle: each has a parent among    *)
(* them, itself apart.                                                     *)
Cyclic(rs) ==
    \E ts \in SUBSET {r.child : r \in rs} \ {{}} :
        \A t \in ts : \E r \in rs :
            r.child = t /\ r.parent \in ts \ {t}

(* No table refers to another twice. *)
SingleKeys(rs) ==
    \A r, s \in rs : r.child = s.child /\ r.parent = s.parent => r = s

(* A returned order is safe: it has every table once, and every table      *)
(* before the tables it refers to (cre_func_migration_get_drop_order.sql:7 *)
(* "DROP safe order, child to parent"), two constraints between the same   *)
(* tables or not.                                                          *)
SafeOrder ==
    phase = "done" =>
        /\ \A t \in targets : \E i \in 1..Len(Result) : Result[i] = t
        /\ \A i, j \in 1..Len(Result) : Result[i] = Result[j] => i = j
        /\ \A r \in refs : \A i, j \in 1..Len(Result) :
              Result[i] = r.child /\ Result[j] = r.parent => i < j

(* The exception is for cycles (lines 10 and 39: a circular reference is   *)
(* what it aborts on).                                                     *)
RefusesOnlyCycles == phase = "raised" => Cyclic(refs)

(* It is, as long as no table has two foreign keys to the same parent.     *)
RefusesCycles == phase = "raised" /\ SingleKeys(refs) => Cyclic(refs)

(* Both: whatever the schema, migration_get_drop_order answers as it       *)
(* should, tables that refer to themselves or to tables outside included.  *)
OrderRight == SafeOrder /\ RefusesCycles
=============================================================================
