----------------------------- MODULE Migration -----------------------------
(***************************************************************************)
(* A schema migration by DROP & CREATE: the owner's console calls          *)
(* migration_evacuate, which renames the old tables to <name>_work, runs   *)
(* the new DDL, and calls migration_transfer, which refills the new tables *)
(* parents first.  The procedures hold no BEGIN or COMMIT: the console     *)
(* opens a transaction (the runbook) or every statement commits by itself  *)
(* (sql_executor).  A statement, or the server, may fail anywhere; what a  *)
(* failed statement did is undone, but setval is not transactional.        *)
(*                                                                         *)
(* A table of the mapping has an old incarnation and, once the DDL has run *)
(* and unless it is retired, a new one.  A foreign key follows its tables  *)
(* through a rename.  Columns are data: an INSERT that does not fit fails. *)
(* A row is its id; a row refers to some row of every parent.              *)
(***************************************************************************)
EXTENDS DropOrder, SequencesExt

CONSTANT MaxId   \* bound: row ids of a table

ASSUME IdBound == MaxId \in Nat \ {0}

VARIABLES
    fk,        \* key -> <<child, parent>>, the same in the old and new schema
    mapping,   \* table_mapping: table -> "move" or "retire"
    renaming,  \* the moved tables get new names
    stored,    \* table -> ids of the rows the program has stored
    db,        \* what the console's next statement works on
    saved,     \* what is committed
    next,      \* table -> next value of the new table's identity sequence
    tx,        \* the console's transaction
    call       \* the statement under way

console == <<fk, mapping, renaming, stored, db, saved, next, tx, call>>
vars == <<console, orderVars>>

Id == 1..MaxId

Moved == {t \in DOMAIN mapping : mapping[t] = "move"}
Mappings == UNION {[ts -> {"move", "retire"}] : ts \in SUBSET Table \ {{}}}

Parents(t) == {p \in Table : \E k \in Key : fk[k] = <<t, p>>} \ {t}

Database == [at : [Table -> {"live", "work", "dropped"}],  \* the old tables
             old : [Table -> SUBSET Id],    \* their rows
             made : SUBSET Table,           \* the new tables
             rows : [Table -> SUBSET Id],   \* their rows
             views : SUBSET Table,          \* the old tables a view reads
             moved : SUBSET Table]          \* transfer has reported success

NoCall == [kind |-> "none", tables |-> {}, todo |-> <<>>]

TypeOK ==
    /\ fk \in [Key -> Table \X Table]
    /\ mapping \in Mappings
    /\ renaming \in BOOLEAN
    /\ stored \in [Table -> SUBSET Id]
    /\ db \in Database /\ saved \in Database
    /\ next \in [Table -> 1..MaxId + 1]
    /\ tx \in {"none", "open", "aborted"}
    /\ call.kind \in {"none", "evacuate", "transfer", "unpack"}
    /\ call.tables \subseteq Table /\ call.todo \in Seq(Table)
    /\ OrderTypeOK

Filled(rows) == \A k \in Key : rows[fk[k][1]] # {} => rows[fk[k][2]] # {}

Init ==
    /\ fk \in [Key -> Table \X Table]
    /\ mapping \in Mappings
    /\ renaming \in BOOLEAN
    /\ stored \in [Table -> {{}, {1}}]
    /\ Filled(stored)
    /\ db = [at |-> [t \in Table |-> "live"], old |-> stored, made |-> {},
             rows |-> [t \in Table |-> {}], views |-> Table, moved |-> {}]
    /\ saved = db
    /\ next = [t \in Table |-> 1]
    /\ tx = "none"
    /\ call = NoCall
    /\ NoOrder

(***************************************************************************)
(* Statements and transactions.                                            *)
(***************************************************************************)
Idle == call = NoCall /\ tx # "aborted"

Schema == <<fk, mapping, renaming, stored>>

(* A statement that succeeds; by itself it is committed. *)
Done(d) == /\ db' = d
           /\ saved' = IF tx = "none" THEN d ELSE saved
           /\ UNCHANGED tx

(* A sequence older than the transaction keeps the value setval gave it;   *)
(* a newer one goes with its table.                                        *)
Undo == /\ db' = saved
        /\ next' = [t \in Table |-> IF t \in saved.made THEN next[t] ELSE 1]
        /\ UNCHANGED saved

ForgetOrder ==
    /\ targets' = {} /\ refs' = {} /\ queue' = {} /\ sorted' = <<>>
    /\ in_degree' = [t \in {} |-> 0]
    /\ phase' = "idle"

(* RAISE EXCEPTION, a violated constraint, a timeout: an open transaction  *)
(* only waits for its end.                                                 *)
Raise == /\ Undo
         /\ tx' = IF tx = "open" THEN "aborted" ELSE tx
         /\ call' = NoCall
         /\ ForgetOrder
         /\ UNCHANGED Schema

StatementFails == tx # "aborted" /\ Raise

(* The console or the server goes away. *)
Disconnect == /\ Undo
              /\ tx' = "none"
              /\ call' = NoCall
              /\ ForgetOrder
              /\ UNCHANGED Schema

Untouched == \A t \in Table : saved.at[t] = "live"

(* The runbook's BEGIN comes before the tables are evacuated. *)
Begin == /\ Idle /\ tx = "none"
         /\ Untouched
         /\ tx' = "open"
         /\ UNCHANGED <<Schema, db, saved, next, call, orderVars>>

Commit == /\ Idle /\ tx = "open"
          /\ saved' = db
          /\ tx' = "none"
          /\ UNCHANGED <<Schema, db, next, call, orderVars>>

(* ROLLBACK, and the COMMIT of an aborted transaction. *)
Rollback == call = NoCall /\ tx # "none" /\ Disconnect

(***************************************************************************)
(* Names.                                                                  *)
(***************************************************************************)

(* The incarnation of t that bears its old name, and its new name. *)
ByOldName(t) == IF db.at[t] = "live" THEN "old"
                ELSE IF ~ renaming /\ t \in db.made THEN "new" ELSE "none"

ByNewName(t) == IF t \in db.made THEN "new"
                ELSE IF ~ renaming /\ db.at[t] = "live" THEN "old" ELSE "none"

OldNames == [t \in Table |-> ByOldName(t)]
NewNames == [t \in Table |-> ByNewName(t)]

(* The keys the catalogue shows between tables found by their names. *)
Catalogue(named) ==
    {r \in Constraints(fk) : /\ named[r.child] # "none"
                             /\ named[r.child] = named[r.parent]}

(***************************************************************************)
(* migration_evacuate.                                                     *)
(***************************************************************************)
Evacuate ==
    /\ Idle
    /\ \A t \in Table : db.at[t] # "dropped"
    /\ call' = [kind |-> "evacuate", tables |-> DOMAIN mapping, todo |-> <<>>]
    /\ Call(DOMAIN mapping, Catalogue(OldNames))
    /\ UNCHANGED <<Schema, db, saved, next, tx>>

(* Bug: the order is not reversed, or reversed where it should not be. *)
OrderedBackwards ==
    /\ phase = "done"
    /\ call.kind \in {"evacuate", "transfer"}
    /\ call' = [call EXCEPT !.todo = IF call.kind = "transfer"
                                     THEN Result ELSE Reverse(Result)]
    /\ ForgetOrder
    /\ UNCHANGED <<Schema, db, saved, next, tx>>

(* evacuate works down the drop order, transfer up. *)
Ordered ==
    /\ phase = "done"
    /\ call.kind \in {"evacuate", "transfer"}
    /\ call' = [call EXCEPT !.todo = IF call.kind = "evacuate"
                                     THEN Result ELSE Reverse(Result)]
    /\ ForgetOrder
    /\ UNCHANGED <<Schema, db, saved, next, tx>>

Refused == phase = "raised" /\ Raise

Current(kind) == call.kind = kind /\ phase = "idle" /\ call.todo # <<>>

(* On to the next table; the call ends with the last. *)
Advance == call' = [call EXCEPT !.todo = Tail(@)]

(* Bug: the views that read the table stay. *)
EvacuateTableKeepsViews(t) ==
    /\ Current("evacuate") /\ t = Head(call.todo)
    /\ db.at[t] = "live"
    /\ db' = [db EXCEPT !.at[t] = "work"]
    /\ Advance
    /\ UNCHANGED <<Schema, saved, next, tx, orderVars>>

(* Its views are dropped, then the table is renamed. *)
EvacuateTable(t) ==
    /\ Current("evacuate") /\ t = Head(call.todo)
    /\ db.at[t] = "live"
    /\ db' = [db EXCEPT !.at[t] = "work", !.views = @ \ {t}]
    /\ Advance
    /\ UNCHANGED <<Schema, saved, next, tx, orderVars>>

SkipMissing(t) ==
    /\ Current("evacuate") /\ t = Head(call.todo)
    /\ ByOldName(t) = "none"
    /\ Advance
    /\ UNCHANGED <<Schema, db, saved, next, tx, orderVars>>

(* The new table already bears the name and <name>_work is taken. *)
WorkTaken(t) ==
    /\ Current("evacuate") /\ t = Head(call.todo)
    /\ ByOldName(t) = "new"
    /\ Raise

(***************************************************************************)
(* The new DDL, by hand: tables after their parents.                       *)
(***************************************************************************)
CreateTable(t) ==
    /\ Idle
    /\ t \in Moved \ db.made
    /\ renaming \/ db.at[t] # "live"
    /\ Parents(t) \cap Moved \subseteq db.made
    /\ Done([db EXCEPT !.made = @ \cup {t}, !.rows[t] = {}])
    /\ next' = [next EXCEPT ![t] = 1]
    /\ UNCHANGED <<Schema, call, orderVars>>

(***************************************************************************)
(* migration_transfer.                                                     *)
(***************************************************************************)

(* The mapping may be moved in several calls. *)
Transfer(ts) ==
    /\ Idle
    /\ call' = [kind |-> "transfer", tables |-> ts, todo |-> <<>>]
    /\ Call(ts, Catalogue(NewNames))
    /\ UNCHANGED <<Schema, db, saved, next, tx>>

(* INSERT ... SELECT: the keys are new, and every row a row refers to is   *)
(* in the table the new foreign key names.                                 *)
ParentFilled(t, p) ==
    IF p \in Moved THEN db.old[p] \subseteq db.rows[p] ELSE TRUE

KeysHold(t) ==
    /\ db.old[t] \cap db.rows[t] = {}
    /\ db.old[t] # {} => \A p \in Parents(t) : ParentFilled(t, p)

(* Bug: a missing _work table is passed over. *)
TableReadyPassesMissing(t) == t \in db.made

TableReady(t) == db.at[t] = "work" /\ t \in db.made

Copied(t) == IF db.at[t] = "work" THEN db.rows[t] \cup db.old[t] ELSE db.rows[t]

(* Bug: nextval would return the last id again. *)
AfterLastIsCalled(ids) ==
    IF ids = {} THEN 1 ELSE CHOOSE i \in ids : \A j \in ids : j <= i

(* Bug: the MAX of no rows counts as 0. *)
AfterLastOfNone(ids) ==
    IF ids = {} THEN 0 ELSE 1 + CHOOSE i \in ids : \A j \in ids : j <= i

(* setval(seq, MAX), or setval(seq, 1, false) for an empty table. *)
AfterLast(ids) ==
    IF ids = {} THEN 1 ELSE 1 + CHOOSE i \in ids : \A j \in ids : j <= i

TransferTable(t) ==
    /\ Current("transfer") /\ t = Head(call.todo)
    /\ TableReady(t) /\ KeysHold(t)
    /\ db' = [db EXCEPT !.rows[t] = Copied(t)]
    /\ next' = [next EXCEPT ![t] = AfterLast(Copied(t))]
    /\ Advance
    /\ UNCHANGED <<Schema, saved, tx, orderVars>>

TransferRefused(t) ==
    /\ Current("transfer") /\ t = Head(call.todo)
    /\ ~ (TableReady(t) /\ KeysHold(t))
    /\ Raise

(* The procedure returns; transfer has reported its tables. *)
Finish ==
    /\ call.kind \in {"evacuate", "transfer"}
    /\ phase = "idle" /\ call.todo = <<>>
    /\ Done(IF call.kind = "transfer"
              THEN [db EXCEPT !.moved = @ \cup call.tables] ELSE db)
    /\ call' = NoCall
    /\ UNCHANGED <<Schema, next, orderVars>>

(* 003_messages_emotion_unpack.sql moves one table with two statements of  *)
(* its own; setval refuses the 0 it computes for an empty table.           *)
UnpackRows(t) ==
    /\ Idle
    /\ t \in Moved
    /\ TableReady(t) /\ KeysHold(t)
    /\ Done([db EXCEPT !.rows[t] = Copied(t)])
    /\ call' = [kind |-> "unpack", tables |-> {t}, todo |-> <<t>>]
    /\ UNCHANGED <<Schema, next, orderVars>>

UnpackSequence(t) ==
    /\ Current("unpack") /\ t = Head(call.todo)
    /\ db.rows[t] # {}
    /\ next' = [next EXCEPT ![t] = AfterLast(db.rows[t])]
    /\ Done([db EXCEPT !.moved = @ \cup {t}])
    /\ call' = NoCall
    /\ UNCHANGED <<Schema, orderVars>>

(***************************************************************************)
(* Around the migration.                                                   *)
(***************************************************************************)
Complete == /\ Moved \subseteq saved.moved
            /\ \A t \in DOMAIN mapping : saved.at[t] # "live"

(* The service runs on a schema that is all old or all new. *)
ServiceUp == call = NoCall /\ tx = "none" /\ (Untouched \/ Complete)

(* The rows of the table the service finds under the name it uses. *)
Found(t) == IF ~ Untouched /\ t \in Moved THEN saved.rows[t]
            ELSE IF saved.at[t] = "live" THEN saved.old[t] ELSE {}

Served == {t \in Table : Untouched \/ t \notin DOMAIN mapping \/ t \in Moved}

Fresh(t) == IF ~ Untouched /\ t \in Moved THEN next[t]
            ELSE AfterLast(saved.old[t])

ServiceInsert(t) ==
    /\ ServiceUp
    /\ t \in Served
    /\ \A p \in Parents(t) \cap Served : Found(p) # {}
    /\ Fresh(t) \in Id
    /\ stored' = [stored EXCEPT ![t] = @ \cup {Fresh(t)}]
    /\ IF ~ Untouched /\ t \in Moved
         THEN /\ db' = [db EXCEPT !.rows[t] = @ \cup {Fresh(t)}]
              /\ next' = [next EXCEPT ![t] = @ + 1]
         ELSE /\ db' = [db EXCEPT !.old[t] = @ \cup {Fresh(t)}]
              /\ UNCHANGED next
    /\ saved' = db'
    /\ UNCHANGED <<fk, mapping, renaming, tx, call, orderVars>>

(* The owner drops a _work table no other refers to, when all is moved. *)
DropWork(t) ==
    /\ Idle /\ tx = "none" /\ Complete
    /\ db.at[t] = "work"
    /\ \A c \in Table : t \in Parents(c) => db.at[c] = "dropped"
    /\ Done([db EXCEPT !.at[t] = "dropped", !.old[t] = {}])
    /\ UNCHANGED <<Schema, next, call, orderVars>>

Next ==
    \/ Begin \/ Commit \/ Rollback \/ StatementFails \/ Disconnect
    \/ Evacuate \/ Ordered \/ Refused \/ Finish
    \/ OrderStep /\ UNCHANGED console
    \/ \E t \in Table :
          \/ EvacuateTable(t) \/ SkipMissing(t) \/ WorkTaken(t)
          \/ CreateTable(t)
          \/ TransferTable(t) \/ TransferRefused(t)
          \/ UnpackRows(t) \/ UnpackSequence(t)
          \/ ServiceInsert(t) \/ DropWork(t)
    \/ \E ts \in SUBSET Moved \ {{}} : Transfer(ts)

Spec == Init /\ [][Next]_vars

(***************************************************************************)
(* Properties.                                                             *)
(***************************************************************************)

(* Whenever the service may run, it finds exactly the rows it has stored,  *)
(* under the names it uses: nothing is lost or doubled by failed, repeated *)
(* or partial evacuations and transfers, in or out of a transaction        *)
(* (05_schema_migration.md:19, data are kept).                             *)
ServiceFindsItsRows ==
    ServiceUp => \A t \in Served : Found(t) = stored[t]

(* A transferred table goes on numbering above its rows, although setval   *)
(* outlives a rollback and a transfer may be repeated.                     *)
NextIdFresh ==
    \A t \in saved.moved : \A i \in saved.rows[t] : i < next[t]

(* The mapping leaves out no table that refers to a mapped one. *)
Closed == \A t \in Table \ DOMAIN mapping : Parents(t) \cap DOMAIN mapping = {}

(* No table in use refers to a _work table, not even between two renames:  *)
(* that is what the drop order is for in evacuate.                         *)
LiveRefersToLive ==
    Closed => \A t \in Table : \A p \in Parents(t) :
                 db.at[t] = "live" => db.at[p] = "live"

(* No view is left reading a _work table, whose rows no longer change: a   *)
(* view follows a rename (cre_proc_migration_evacuate.sql:9).              *)
ViewsReadLive == \A t \in db.views : db.at[t] = "live"

(* Nothing the service uses reads a table that was set aside.              *)
NothingReadsWork == LiveRefersToLive /\ ViewsReadLive

(* A transfer that names every parent not moved yet never fails on a       *)
(* foreign key: each table is filled after its parents                     *)
(* (cre_proc_migration_transfer.sql:11), whatever the schema.              *)
ParentsFilledFirst ==
    Current("transfer") =>
        LET t == Head(call.todo)
        IN  /\ TableReady(t)
            /\ db.rows[t] = {}
            /\ Parents(t) \cap Moved \subseteq call.tables \cup db.moved
            => KeysHold(t)
=============================================================================
