------------------------------ MODULE Rulebook ------------------------------
(***************************************************************************)
(* The versioned rule table m_rulebooks and the rulebook tool's set and    *)
(* retire actions.  A rule is never overwritten: set reads the newest      *)
(* version of a path and inserts the next one; the newest version is the   *)
(* rule, unless it is retired.  Each call reads in one statement and       *)
(* writes in another, at READ COMMITTED, so other calls and the owner's    *)
(* psql session may run in between.                                        *)
(***************************************************************************)
EXTENDS Integers, FiniteSets

CONSTANTS
    Call,        \* concurrent rulebook calls
    Path,        \* rule paths
    Content,     \* rule texts
    Persona,     \* persona ids
    MaxVersion   \* bound: versions of a path

ASSUME RulebookAssumption == MaxVersion \in Nat /\ MaxVersion >= 1

VARIABLES
    rules,   \* m_rulebooks: path -> version -> row
    pc,      \* per call: the next statement
    tx       \* per call: the row it is about to write

vars == <<rules, pc, tx>>

Row == [content : Content, persona_id : Persona,
        is_retired : BOOLEAN, is_editable : BOOLEAN]
Target == [path : Path, version : 1..MaxVersion, content : Content,
           persona_id : Persona]

Idle == [path |-> "none"]
Phase == {"idle", "insert", "inserted", "retire"}

TypeOK ==
    /\ rules \in [Path -> UNION {[vs -> Row] : vs \in SUBSET (1..MaxVersion)}]
    /\ pc \in [Call -> Phase]
    /\ tx \in [Call -> Target \cup {Idle}]
    /\ \A c \in Call : pc[c] # "idle" => tx[c] \in Target

Versions(p) == DOMAIN rules[p]

(* ORDER BY version DESC LIMIT 1 *)
Latest(p) == CHOOSE v \in Versions(p) : \A w \in Versions(p) : w <= v

(* v_active_rulebooks *)
Active(p) == Versions(p) # {} /\ ~ rules[p][Latest(p)].is_retired

(* The owner has loaded version 1 of some paths, editable or not. *)
NewRow(text, persona, editable) ==
    [content |-> text, persona_id |-> persona,
     is_retired |-> FALSE, is_editable |-> editable]

Seed == {[v \in {} |-> 0]} \cup
        {[v \in {1} |-> NewRow(x, a, e)] :
            x \in Content, a \in Persona, e \in BOOLEAN}

Init == /\ rules \in [Path -> Seed]
        /\ pc = [c \in Call |-> "idle"]
        /\ tx = [c \in Call |-> Idle]

Begin(c, phase, target) == /\ pc[c] = "idle"
                           /\ pc' = [pc EXCEPT ![c] = phase]
                           /\ tx' = [tx EXCEPT ![c] = target]
                           /\ UNCHANGED rules

End(c) == /\ pc' = [pc EXCEPT ![c] = "idle"]
          /\ tx' = [tx EXCEPT ![c] = Idle]

(* Bug: the row of the path is replaced, not added to. *)
StoreInPlace(p, v, row) ==
    rules' = [rules EXCEPT ![p] = [w \in {v} |-> row]]

Store(p, v, row) ==
    rules' = [rules EXCEPT ![p] = [w \in DOMAIN rules[p] \cup {v} |->
                                     IF w = v THEN row ELSE rules[p][w]]]

(* A statement fails or the connection is lost. *)
Abort(c) == pc[c] # "idle" /\ End(c) /\ UNCHANGED rules

(* Bug: the persona of the call wins over the one of the path. *)
SetReadOwnPersona(c, p, text, persona) ==
    \/ /\ Versions(p) = {}
       /\ Begin(c, "insert", [path |-> p, version |-> 1, content |-> text,
                              persona_id |-> persona])
    \/ /\ Versions(p) # {}
       /\ Latest(p) < MaxVersion
       /\ rules[p][Latest(p)].is_editable
       /\ Begin(c, "insert", [path |-> p, version |-> Latest(p) + 1,
                              content |-> text, persona_id |-> persona])

(***************************************************************************)
(* set: SELECT the newest version, then INSERT version + 1.  The persona   *)
(* of an existing path is carried over.  A locked rule is refused.         *)
(***************************************************************************)
SetRead(c, p, text, persona) ==
    \/ /\ Versions(p) = {}
       /\ Begin(c, "insert", [path |-> p, version |-> 1, content |-> text,
                              persona_id |-> persona])
    \/ /\ Versions(p) # {}
       /\ Latest(p) < MaxVersion
       /\ rules[p][Latest(p)].is_editable
       /\ Begin(c, "insert",
                [path |-> p, version |-> Latest(p) + 1, content |-> text,
                 persona_id |-> rules[p][Latest(p)].persona_id])

SameKey(s, t) == s.path = t.path /\ s.version = t.version

(* Bug: no UNIQUE (path, version). *)
SetInsertNoUnique(c) ==
    /\ pc[c] = "insert"
    /\ pc' = [pc EXCEPT ![c] = "inserted"]
    /\ UNCHANGED <<rules, tx>>

(* Bug: a taken key is waited for instead of refused. *)
SetInsertWaits(c) ==
    /\ pc[c] = "insert"
    /\ \A o \in Call \ {c} : pc[o] = "inserted" => ~ SameKey(tx[o], tx[c])
    /\ tx[c].version \notin Versions(tx[c].path)
    /\ pc' = [pc EXCEPT ![c] = "inserted"]
    /\ UNCHANGED <<rules, tx>>

(* The INSERT waits for an uncommitted row of the same key and fails when  *)
(* that row is committed (unique violation, answered INTERNAL_ERROR).      *)
SetInsert(c) ==
    /\ pc[c] = "insert"
    /\ \A o \in Call \ {c} : pc[o] = "inserted" => ~ SameKey(tx[o], tx[c])
    /\ UNCHANGED rules
    /\ IF tx[c].version \in Versions(tx[c].path)
         THEN End(c)
         ELSE pc' = [pc EXCEPT ![c] = "inserted"] /\ UNCHANGED tx

(* Bug: is_editable is left NULL. *)
SetCommitNoFlag(c) ==
    /\ pc[c] = "inserted"
    /\ Store(tx[c].path, tx[c].version,
             [content |-> tx[c].content, persona_id |-> tx[c].persona_id,
              is_retired |-> FALSE])
    /\ End(c)

SetCommit(c) ==
    /\ pc[c] = "inserted"
    /\ Store(tx[c].path, tx[c].version,
             NewRow(tx[c].content, tx[c].persona_id, TRUE))
    /\ End(c)

(***************************************************************************)
(* retire: SELECT the newest version, then UPDATE that version.            *)
(***************************************************************************)
(* Bug: the first version is read, not the newest. *)
RetireReadFirst(c, p) ==
    /\ Versions(p) # {}
    /\ rules[p][1].is_editable
    /\ ~ rules[p][1].is_retired
    /\ Begin(c, "retire", [path |-> p, version |-> 1,
                           content |-> rules[p][1].content,
                           persona_id |-> rules[p][1].persona_id])

RetireRead(c, p) ==
    /\ Versions(p) # {}
    /\ LET row == rules[p][Latest(p)]
       IN  /\ row.is_editable
           /\ ~ row.is_retired
           /\ Begin(c, "retire", [path |-> p, version |-> Latest(p),
                                  content |-> row.content,
                                  persona_id |-> row.persona_id])

RetireCommit(c) ==
    /\ pc[c] = "retire"
    /\ rules' = [rules EXCEPT ![tx[c].path][tx[c].version].is_retired = TRUE]
    /\ End(c)

(* The owner makes a rule constitutional with psql (04_schema.md:448). *)
OwnerLock(p) ==
    /\ Versions(p) # {}
    /\ rules' = [rules EXCEPT ![p][Latest(p)].is_editable = FALSE]
    /\ UNCHANGED <<pc, tx>>

Statement(c) == SetInsert(c) \/ SetCommit(c) \/ RetireCommit(c)

Next ==
    \/ \E c \in Call :
          \/ \E p \in Path, text \in Content, persona \in Persona :
                SetRead(c, p, text, persona)
          \/ \E p \in Path : RetireRead(c, p)
          \/ Statement(c)
          \/ Abort(c)
    \/ \E p \in Path : OwnerLock(p)

Spec == Init /\ [][Next]_vars

(* A statement that keeps becoming runnable is run: lock waiters queue. *)
FairSpec == Spec /\ \A c \in Call : SF_vars(Statement(c))

(***************************************************************************)
(* Properties.                                                             *)
(***************************************************************************)

(* The history of a path has no hole and no missing beginning, whatever    *)
(* sets collide or fail: version n + 1 is only ever stored after n.        *)
VersionsContiguous ==
    \A p \in Path : \A v \in Versions(p) : \A w \in 1..v : w \in Versions(p)

(* All versions of a path belong to one persona, even when two calls       *)
(* create the path at once for different ones.                             *)
OnePersonaPerPath ==
    \A p \in Path : \A v, w \in Versions(p) :
        rules[p][v].persona_id = rules[p][w].persona_id

(* Immutable append: a stored version is never removed, its text and       *)
(* persona never change, a retired version is not revived and a locked     *)
(* version is not unlocked; no version is lost to a colliding set.         *)
AppendOnly ==
    [][\A p \in Path : \A v \in Versions(p) :
         /\ v \in DOMAIN rules'[p]
         /\ rules'[p][v].content = rules[p][v].content
         /\ rules'[p][v].persona_id = rules[p][v].persona_id
         /\ rules[p][v].is_retired => rules'[p][v].is_retired
         /\ ~ rules[p][v].is_editable => ~ rules'[p][v].is_editable]_vars

(* A retire takes the rule of its path out of force, or a set that comes   *)
(* between its SELECT and its UPDATE has put a newer one in force: nothing *)
(* older survives (retireRulebook, rulebook_repo.py:123).  The version it  *)
(* picks is the newest when it is picked, so the answer fits one order of  *)
(* the two calls.                                                          *)
RetireRemovesRule ==
    [][\A c \in Call, p \in Path :
         /\ (pc[c] = "idle" /\ pc'[c] = "retire" /\ tx'[c].path = p)
               => \A w \in Versions(p) : w <= tx'[c].version
         /\ (pc[c] = "retire" /\ pc'[c] = "idle" /\ rules'[p] # rules[p])
               => \/ ~ Active(p)'
                  \/ \E w \in Versions(p) : w > tx[c].version]_vars

(* Once the owner has locked a rule, no call makes its path editable again *)
(* (04_schema.md:448-450: constitutional rules cannot be changed from the  *)
(* rulebook command, set and retire carry WHERE is_editable = TRUE).       *)
Constitutional(p) == Versions(p) # {} /\ ~ rules[p][Latest(p)].is_editable

ConstitutionStays ==
    [][\A p \in Path : Constitutional(p) => Constitutional(p)']_vars

(* Every call is answered: a set that waits for another set's key is let   *)
(* through when that one commits or fails.                                 *)
CallsReturn == \A c \in Call : pc[c] # "idle" ~> pc[c] = "idle"
=============================================================================
