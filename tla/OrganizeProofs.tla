--------------------------- MODULE OrganizeProofs ---------------------------
(***************************************************************************)
(* organize for any number of calls, messages, names and requests.         *)
(***************************************************************************)
EXTENDS Organize, FiniteSetTheorems, TLAPS

Adds(c) == tx[c].target \X Normalised(req[c].add)
Removes(c) == tx[c].target \X Normalised(req[c].remove)

(* What a call is going to link has a tag that is stored or its own.       *)
Nameable(c) == MessageId \X (t_tags \cup tx[c].tags)

TagsFirst ==
    \A c \in Call : /\ tx[c].links \subseteq Nameable(c)
                    /\ pc[c] = "linkTags" => tx[c].rows \subseteq Nameable(c)

IInv == TypeOK /\ TagsFirst

-----------------------------------------------------------------------------
LEMMA NoWritesType == NoWrites \in Writes
BY DEF NoWrites, Writes

LEMMA NormalisedType ==
    ASSUME NEW r \in Request
    PROVE  /\ Normalised(r.add) \subseteq Tag
           /\ Normalised(r.remove) \subseteq Tag
<1>1. r \in Parameters
  BY OrganizeAssumption
<1>2. r.add \subseteq Name /\ r.remove \subseteq Name
  BY <1>1 DEF Parameters
<1>3. \A n \in Name : Normal[n] \in Tag \cup {Blank}
  BY OrganizeAssumption
<1> QED
  BY <1>2, <1>3 DEF Normalised

(* Everything a call may do, as seen by the proofs. *)
Moves(c) == (\E r \in Request : Organize(c, r)) \/ Proceed(c) \/ Abort(c)

(* A step of a call leaves the other calls alone. *)
LEMMA OthersStay ==
    ASSUME TypeOK, NEW c \in Call, Moves(c), NEW d \in Call, d # c
    PROVE  pc'[d] = pc[d] /\ req'[d] = req[d] /\ tx'[d] = tx[d]
<1>1. /\ pc \in [Call -> {"idle"} \cup Step] /\ tx \in [Call -> Writes]
      /\ req \in [Call -> Request \cup {NoRequest}]
  BY DEF TypeOK
<1>2. ASSUME Finish(c) PROVE pc'[d] = pc[d] /\ req'[d] = req[d] /\ tx'[d] = tx[d]
  BY <1>1, <1>2 DEF Finish
<1>3. ASSUME NEW from, NEW to, NEW rows, Go(c, from, to), Write(c, rows)
      PROVE  pc'[d] = pc[d] /\ req'[d] = req[d] /\ tx'[d] = tx[d]
  BY <1>1, <1>3 DEF Go, Write
<1>4. ASSUME NEW r \in Request, Organize(c, r)
      PROVE  pc'[d] = pc[d] /\ req'[d] = req[d] /\ tx'[d] = tx[d]
  BY <1>1, <1>4 DEF Organize, Go
<1>5. CASE FindIds(c) \/ Search(c)
  BY <1>2, <1>3, <1>5 DEF FindIds, Search, Rollback
<1>6. CASE InsertTag(c) \/ SelectTags(c) \/ LinkTag(c) \/ BeginUnlink(c) \/ UnlinkTag(c)
  BY <1>3, <1>6 DEF InsertTag, SelectTags, LinkTag, BeginUnlink, UnlinkTag
<1>7. CASE Commit(c)
  BY <1>1, <1>7 DEF Commit, Go
<1>8. CASE Answer(c) \/ Abort(c)
  BY <1>2, <1>8 DEF Answer, Abort, Rollback
<1> QED
  BY <1>4, <1>5, <1>6, <1>7, <1>8 DEF Moves, Proceed

(* What a step of a call does to itself: the statements one by one. *)
LEMMA TablesStay ==
    ASSUME NEW c \in Call, Moves(c), ~ Commit(c)
    PROVE  UNCHANGED tables
<1>1. CASE \E r \in Request : Organize(c, r)
  BY <1>1 DEF Organize
<1>2. CASE FindIds(c) \/ Search(c) \/ Answer(c) \/ Abort(c)
  BY <1>2 DEF FindIds, Search, Answer, Abort, Rollback, Write
<1>3. CASE InsertTag(c) \/ SelectTags(c) \/ LinkTag(c) \/ BeginUnlink(c) \/ UnlinkTag(c)
  BY <1>3 DEF InsertTag, SelectTags, LinkTag, BeginUnlink, UnlinkTag, Write
<1> QED
  BY <1>1, <1>2, <1>3 DEF Moves, Proceed

-----------------------------------------------------------------------------
(* Types. *)

(* A step that writes private rows only. *)
LEMMA WriteType ==
    ASSUME IInv, NEW c \in Call, NEW rows \in Writes, NEW from \in Step,
           NEW to \in Step, Go(c, from, to), Write(c, rows),
           rows.links \subseteq MessageId \X (t_tags \cup rows.tags),
           to = "linkTags" => rows.rows \subseteq MessageId \X (t_tags \cup rows.tags)
    PROVE  IInv'
<1>1. TypeOK'
  BY DEF IInv, TypeOK, Go, Write, tables
<1>2. TagsFirst'
  BY DEF IInv, TypeOK, TagsFirst, Nameable, Go, Write, tables
<1> QED
  BY <1>1, <1>2 DEF IInv

LEMMA RollbackType ==
    ASSUME IInv, NEW c \in Call, Rollback(c)
    PROVE  IInv'
<1>1. pc'[c] = "idle" /\ tx'[c] = NoWrites
  BY DEF IInv, TypeOK, Rollback, Finish
<1>2. TypeOK'
  BY NoWritesType DEF IInv, TypeOK, Rollback, Finish, tables, Step
<1>3. NoWrites.links = {} /\ NoWrites.rows = {}
  BY DEF NoWrites
<1>4. TagsFirst'
  BY <1>1, <1>3 DEF IInv, TypeOK, TagsFirst, Nameable, Rollback, Finish, tables
<1> QED
  BY <1>2, <1>4 DEF IInv

LEMMA MovesType ==
    ASSUME IInv, NEW c \in Call, Moves(c)
    PROVE  IInv'
<1>a. /\ tx[c] \in Writes /\ TypeOK
      /\ pc[c] \in Step => req[c] \in Request
      /\ tx[c].links \subseteq Nameable(c)
      /\ pc[c] = "linkTags" => tx[c].rows \subseteq Nameable(c)
  BY DEF IInv, TypeOK, TagsFirst
<1>b. /\ tx[c].target \subseteq MessageId /\ tx[c].tags \subseteq Tag
      /\ tx[c].names \subseteq Tag /\ tx[c].links \subseteq MessageId \X Tag
      /\ tx[c].unlinks \subseteq MessageId \X Tag
      /\ tx[c].rows \subseteq MessageId \X Tag
  BY <1>a DEF Writes
<1>c. t_tags \subseteq Tag /\ t_message_tags \subseteq MessageId \X t_tags
  BY <1>a DEF TypeOK
<1>1. ASSUME NEW r \in Request, Organize(c, r) PROVE IInv'
  BY <1>1 DEF Organize, Go, IInv, TypeOK, TagsFirst, Nameable, tables, Step
<1>2. CASE FindIds(c)
  <2>1. CASE /\ Go(c, "findIds", "search")
             /\ Write(c, [tx[c] EXCEPT !.target = req[c].ids])
    <3>1. req[c].ids \subseteq MessageId
      BY <1>a, <2>1, OrganizeAssumption DEF Go, Step, Parameters
    <3>2. [tx[c] EXCEPT !.target = req[c].ids] \in Writes
      BY <1>a, <3>1 DEF Writes
    <3> QED
      BY <1>a, <2>1, <3>2, WriteType DEF Step, Nameable, Writes
  <2> QED
    BY <1>2, <2>1, RollbackType DEF FindIds
<1>3. CASE Search(c)
  <2>1. PICK found \in Found(c) :
           \/ /\ Go(c, "search", "insertTags")
              /\ Write(c, [tx[c] EXCEPT !.target = tx[c].target \cup found])
           \/ Rollback(c)
    BY <1>3 DEF Search
  <2>2. found \subseteq MessageId
    BY DEF Found, Matching, Visible
  <2>3. [tx[c] EXCEPT !.target = tx[c].target \cup found] \in Writes
    BY <1>a, <1>b, <2>2 DEF Writes
  <2> QED
    BY <1>a, <2>1, <2>3, WriteType, RollbackType DEF Step, Nameable, Writes
<1>4. CASE InsertTag(c)
  <2>1. PICK t \in NamesLeft(c) :
           Write(c, [tx[c] EXCEPT !.names = @ \cup {t},
                                  !.tags = @ \cup ({t} \ t_tags)])
    BY <1>4 DEF InsertTag
  <2>2. t \in Tag
    BY <1>4, <1>a, NormalisedType DEF InsertTag, NamesLeft, Go, Step
  <2>3. [tx[c] EXCEPT !.names = @ \cup {t}, !.tags = @ \cup ({t} \ t_tags)] \in Writes
    BY <1>a, <1>b, <2>2 DEF Writes
  <2> DEFINE rows == [tx[c] EXCEPT !.names = @ \cup {t},
                                   !.tags = @ \cup ({t} \ t_tags)]
  <2>4. rows.links = tx[c].links /\ rows.tags = tx[c].tags \cup ({t} \ t_tags)
    BY <1>a DEF Writes
  <2>5. rows.links \subseteq MessageId \X (t_tags \cup rows.tags)
    BY <1>a, <2>4 DEF Nameable
  <2>6. Go(c, "insertTags", "insertTags") /\ Write(c, rows)
    BY <1>4, <2>1 DEF InsertTag
  <2> HIDE DEF rows
  <2> QED
    BY <2>3, <2>5, <2>6, WriteType DEF Step, rows
<1>5. CASE SelectTags(c)
  <2> DEFINE wanted == tx[c].target
                         \X (Normalised(req[c].add) \cap (t_tags \cup tx[c].tags))
  <2>1. wanted \subseteq MessageId \X (t_tags \cup tx[c].tags)
    BY <1>b
  <2>2. wanted \subseteq MessageId \X Tag
    BY <1>b, <1>c
  <2>3. Write(c, [tx[c] EXCEPT !.rows = wanted])
    BY <1>5 DEF SelectTags
  <2> HIDE DEF wanted
  <2>4. [tx[c] EXCEPT !.rows = wanted] \in Writes
    BY <1>a, <2>2 DEF Writes
  <2> QED
    BY <1>5, <1>a, <2>1, <2>3, <2>4, WriteType DEF SelectTags, Step, Nameable, Writes
<1>6. CASE LinkTag(c)
  <2>1. PICK l \in tx[c].rows :
           Write(c, [tx[c] EXCEPT !.rows = @ \ {l},
                                  !.links = @ \cup ({l} \ t_message_tags)])
    BY <1>6 DEF LinkTag
  <2>2. [tx[c] EXCEPT !.rows = @ \ {l},
                      !.links = @ \cup ({l} \ t_message_tags)] \in Writes
    BY <1>a, <1>b DEF Writes
  <2> DEFINE rows == [tx[c] EXCEPT !.rows = @ \ {l},
                                   !.links = @ \cup ({l} \ t_message_tags)]
  <2>3. Go(c, "linkTags", "linkTags") /\ Write(c, rows)
    BY <1>6, <2>1 DEF LinkTag
  <2>4. /\ rows.rows = tx[c].rows \ {l} /\ rows.tags = tx[c].tags
        /\ rows.links = tx[c].links \cup ({l} \ t_message_tags)
    BY <1>a DEF Writes
  <2>5. /\ tx[c].rows \subseteq MessageId \X (t_tags \cup tx[c].tags)
        /\ tx[c].links \subseteq MessageId \X (t_tags \cup tx[c].tags)
    BY <1>a, <2>3 DEF Go, Nameable
  <2> HIDE DEF rows
  <2>6. /\ rows.links \subseteq MessageId \X (t_tags \cup rows.tags)
        /\ rows.rows \subseteq MessageId \X (t_tags \cup rows.tags)
    BY <2>4, <2>5
  <2> QED
    BY <2>2, <2>3, <2>6, WriteType DEF rows, Step
<1>7. CASE BeginUnlink(c)
  <2> DEFINE doomed == (tx[c].target \X Normalised(req[c].remove))
                          \cap (t_message_tags \cup tx[c].links)
  <2>1. doomed \subseteq MessageId \X Tag
    BY <1>b, <1>c
  <2>2. Write(c, [tx[c] EXCEPT !.rows = doomed])
    BY <1>7 DEF BeginUnlink
  <2> HIDE DEF doomed
  <2>3. [tx[c] EXCEPT !.rows = doomed] \in Writes
    BY <1>a, <2>1 DEF Writes
  <2> QED
    BY <1>7, <1>a, <2>2, <2>3, WriteType DEF BeginUnlink, Step, Nameable, Writes
<1>8. CASE UnlinkTag(c)
  <2>1. PICK l \in tx[c].rows :
           Write(c, [tx[c] EXCEPT !.rows = @ \ {l},
                                  !.unlinks = @ \cup ({l} \cap t_message_tags)])
    BY <1>8 DEF UnlinkTag
  <2>2. [tx[c] EXCEPT !.rows = @ \ {l},
                      !.unlinks = @ \cup ({l} \cap t_message_tags)] \in Writes
    BY <1>a, <1>b DEF Writes
  <2> QED
    BY <1>8, <1>a, <2>1, <2>2, WriteType DEF UnlinkTag, Step, Nameable, Writes
<1>9. CASE Commit(c)
  <2> DEFINE left == [NoWrites EXCEPT !.target = tx[c].target]
  <2>1. left \in Writes /\ left.links = {} /\ left.rows = {}
    BY <1>b, NoWritesType DEF NoWrites, Writes
  <2>2. /\ t_tags' = t_tags \cup tx[c].tags
        /\ t_message_tags' \subseteq t_message_tags \cup tx[c].links
        /\ UNCHANGED <<t_messages, req>>
        /\ pc' = [pc EXCEPT ![c] = "answer"] /\ pc[c] = "unlinkTags"
        /\ tx' = [tx EXCEPT ![c] = left]
    BY <1>9 DEF Commit, Go
  <2> HIDE DEF left
  <2>3. t_message_tags' \subseteq MessageId \X t_tags' /\ t_tags' \subseteq Tag
    BY <1>a, <1>b, <1>c, <2>2 DEF Nameable
  <2>4. TypeOK'
    BY <2>1, <2>2, <2>3 DEF IInv, TypeOK, Step
  <2>5. TagsFirst'
    BY <2>1, <2>2 DEF IInv, TypeOK, TagsFirst, Nameable
  <2> QED
    BY <2>4, <2>5 DEF IInv
<1>10. CASE Answer(c) \/ Abort(c)
  BY <1>10, RollbackType DEF Answer, Abort
<1> QED
  BY <1>1, <1>2, <1>3, <1>4, <1>5, <1>6, <1>7, <1>8, <1>9, <1>10 DEF Moves, Proceed

LEMMA Invariant == Spec => []IInv
<1>1. Init => IInv
  <2>1. NoWrites.links = {}
    BY DEF NoWrites
  <2> QED
    BY <2>1, NoWritesType DEF Init, IInv, TypeOK, TagsFirst, Nameable, Step
<1>2. IInv /\ [Next]_vars => IInv'
  <2> SUFFICES ASSUME IInv, [Next]_vars PROVE IInv'
    OBVIOUS
  <2>1. ASSUME NEW m \in MessageId, Remember(m) \/ Forget(m) PROVE IInv'
    BY <2>1 DEF Remember, Forget, SetMessage, IInv, TypeOK, TagsFirst, Nameable
  <2>2. CASE UNCHANGED vars
    BY <2>2 DEF vars, tables, IInv, TypeOK, TagsFirst, Nameable
  <2> QED
    BY <2>1, <2>2, MovesType DEF Next, Moves
<1> QED
  BY <1>1, <1>2, PTL DEF Spec

(* The tables and the calls' rows keep their types; a message is only ever *)
(* linked to a tag that is stored.                                         *)
THEOREM TypeCorrect == Spec => []TypeOK
<1>1. IInv => TypeOK
  BY DEF IInv
<1> QED
  BY Invariant, <1>1, PTL

-----------------------------------------------------------------------------
(* True answers.  From the SELECT of the tags on, every link a call is to  *)
(* add is stored, written or still ahead of it; from the start of the      *)
(* DELETE on, every stored link it is to remove is deleted or ahead of it. *)
Promise(c) ==
    /\ pc[c] = "idle" => tx[c] = NoWrites
    /\ pc[c] \in Step => Valid(req[c])
    /\ pc[c] \in {"findIds", "search"} =>
          tx[c].names = {} /\ tx[c].links = {} /\ tx[c].unlinks = {}
    /\ pc[c] = "insertTags" =>
          /\ tx[c].names \subseteq t_tags \cup tx[c].tags
          /\ tx[c].links = {} /\ tx[c].unlinks = {}
    /\ pc[c] = "linkTags" =>
          /\ tx[c].rows \subseteq Adds(c)
          /\ tx[c].links \subseteq Adds(c) /\ tx[c].unlinks = {}
          /\ Adds(c) \subseteq t_message_tags \cup tx[c].links \cup tx[c].rows
    /\ pc[c] = "unlinkTags" =>
          /\ tx[c].rows \subseteq Removes(c)
          /\ tx[c].links \subseteq Adds(c) /\ tx[c].unlinks \subseteq Removes(c)
          /\ Adds(c) \subseteq t_message_tags \cup tx[c].links
          /\ Removes(c) \cap t_message_tags \subseteq tx[c].rows \cup tx[c].unlinks
    /\ pc[c] = "answer" =>
          /\ tx[c].links = {} /\ tx[c].unlinks = {}
          /\ Adds(c) \subseteq t_message_tags
          /\ Removes(c) \cap t_message_tags = {}

(* What a request adds and what it removes are different links. *)
LEMMA AddsOrRemoves ==
    ASSUME NEW c \in Call, Valid(req[c])
    PROVE  Adds(c) \cap Removes(c) = {}
BY DEF Valid, Adds, Removes

LEMMA PromiseAtRest ==
    ASSUME NEW c \in Call, pc[c] = "idle", tx[c] = NoWrites
    PROVE  Promise(c)
BY DEF Promise, Step

(* A call ends. *)
LEMMA PromiseEnds ==
    ASSUME TypeOK, NEW c \in Call, Rollback(c)
    PROVE  Promise(c)'
<1>1. pc'[c] = "idle" /\ tx'[c] = NoWrites
  BY DEF TypeOK, Rollback, Finish
<1> QED
  BY <1>1 DEF Promise, Step

LEMMA PromiseKept ==
    ASSUME IInv, NEW c \in Call, Promise(c), Moves(c)
    PROVE  Promise(c)'
<1>a. /\ tx[c] \in Writes /\ TypeOK /\ tx \in [Call -> Writes]
      /\ pc \in [Call -> {"idle"} \cup Step]
  BY DEF IInv, TypeOK
<1>1. ASSUME NEW r \in Request, Organize(c, r) PROVE Promise(c)'
  <2>1. /\ pc[c] = "idle" /\ pc'[c] \in {"findIds", "search"}
        /\ req'[c] = r /\ Valid(r) /\ tx' = tx
    BY <1>1, <1>a DEF Organize, Go, TypeOK
  <2>2. tx'[c].names = {} /\ tx'[c].links = {} /\ tx'[c].unlinks = {}
    BY <2>1 DEF Promise, NoWrites
  <2> QED
    BY <2>1, <2>2 DEF Promise
<1>2. ASSUME NEW from, NEW to, NEW found \in SUBSET MessageId,
             from \in {"findIds", "search"}, to \in {"search", "insertTags"},
             Go(c, from, to), Write(c, [tx[c] EXCEPT !.target = found])
      PROVE  Promise(c)'
  <2>1. pc[c] = from /\ pc'[c] = to /\ req' = req
    BY <1>2, <1>a DEF Go, Write
  <2>2. /\ tx'[c].names = tx[c].names /\ tx'[c].links = tx[c].links
        /\ tx'[c].unlinks = tx[c].unlinks
    BY <1>2, <1>a DEF Write, Writes
  <2>3. tx[c].names = {} /\ tx[c].links = {} /\ tx[c].unlinks = {} /\ Valid(req[c])
    BY <2>1, <1>2 DEF Promise, Step
  <2> QED
    BY <1>2, <2>1, <2>2, <2>3 DEF Promise
<1>3. CASE FindIds(c)
  <2>1. CASE /\ Go(c, "findIds", "search")
             /\ Write(c, [tx[c] EXCEPT !.target = req[c].ids])
             /\ req[c].ids \subseteq Visible(c)
    BY <1>2, <2>1 DEF Visible
  <2> QED
    BY <1>3, <2>1, <1>a, PromiseEnds DEF FindIds
<1>4. CASE Search(c)
  <2>1. PICK found \in Found(c) :
           \/ /\ Go(c, "search", "insertTags")
              /\ Write(c, [tx[c] EXCEPT !.target = tx[c].target \cup found])
           \/ Rollback(c)
    BY <1>4 DEF Search
  <2>2. tx[c].target \cup found \subseteq MessageId
    BY <1>a DEF Found, Matching, Visible, Writes
  <2> QED
    BY <1>2, <1>a, <2>1, <2>2, PromiseEnds
<1>5. CASE InsertTag(c)
  <2>1. PICK t \in NamesLeft(c) :
           Write(c, [tx[c] EXCEPT !.names = @ \cup {t},
                                  !.tags = @ \cup ({t} \ t_tags)])
    BY <1>5 DEF InsertTag
  <2>2. /\ tx'[c].names = tx[c].names \cup {t}
        /\ tx'[c].tags = tx[c].tags \cup ({t} \ t_tags)
        /\ tx'[c].links = tx[c].links /\ tx'[c].unlinks = tx[c].unlinks
        /\ UNCHANGED <<t_tags, req>>
    BY <2>1, <1>a DEF Write, Writes, tables
  <2>3. pc[c] = "insertTags" /\ pc'[c] = "insertTags"
    BY <1>5, <1>a DEF InsertTag, Go
  <2> QED
    BY <2>2, <2>3 DEF Promise, Step
<1>6. CASE SelectTags(c)
  <2>1. /\ pc[c] = "insertTags" /\ pc'[c] = "linkTags" /\ req' = req
        /\ Normalised(req[c].add) \subseteq tx[c].names
    BY <1>6, <1>a DEF SelectTags, Go, NamesLeft, Write
  <2>2. Normalised(req[c].add) \cap (t_tags \cup tx[c].tags) = Normalised(req[c].add)
    BY <2>1 DEF Promise
  <2>3. Write(c, [tx[c] EXCEPT !.rows = Adds(c)])
    BY <1>6, <2>2 DEF SelectTags, Adds
  <2>4. /\ tx'[c].rows = Adds(c) /\ tx'[c].links = {} /\ tx'[c].unlinks = {}
        /\ tx'[c].target = tx[c].target
    BY <2>1, <2>3, <1>a DEF Write, Writes, Promise
  <2>5. Adds(c)' = Adds(c)
    BY <2>1, <2>4 DEF Adds
  <2> QED
    BY <2>1, <2>4, <2>5 DEF Promise, Step
<1>7. CASE LinkTag(c)
  <2>1. PICK l \in tx[c].rows :
           Write(c, [tx[c] EXCEPT !.rows = @ \ {l},
                                  !.links = @ \cup ({l} \ t_message_tags)])
    BY <1>7 DEF LinkTag
  <2>2. /\ tx'[c].rows = tx[c].rows \ {l} /\ tx'[c].unlinks = tx[c].unlinks
        /\ tx'[c].links = tx[c].links \cup ({l} \ t_message_tags)
        /\ tx'[c].target = tx[c].target
        /\ UNCHANGED <<t_message_tags, req>>
    BY <2>1, <1>a DEF Write, Writes, tables
  <2>3. pc[c] = "linkTags" /\ pc'[c] = "linkTags"
    BY <1>7, <1>a DEF LinkTag, Go
  <2>4. Adds(c)' = Adds(c)
    BY <2>2 DEF Adds
  <2> QED
    BY <2>2, <2>3, <2>4 DEF Promise, Step
<1>8. CASE BeginUnlink(c)
  <2>1. /\ pc[c] = "linkTags" /\ pc'[c] = "unlinkTags" /\ tx[c].rows = {}
        /\ Write(c, [tx[c] EXCEPT !.rows =
                        Removes(c) \cap (t_message_tags \cup tx[c].links)])
    BY <1>8, <1>a DEF BeginUnlink, Go, Removes
  <2>2. /\ tx'[c].rows = Removes(c) \cap (t_message_tags \cup tx[c].links)
        /\ tx'[c].links = tx[c].links /\ tx'[c].unlinks = {}
        /\ tx'[c].target = tx[c].target
        /\ UNCHANGED <<t_message_tags, req>>
    BY <2>1, <1>a DEF Write, Writes, tables, Promise
  <2>3. Adds(c)' = Adds(c) /\ Removes(c)' = Removes(c)
    BY <2>2 DEF Adds, Removes
  <2> QED
    BY <2>1, <2>2, <2>3 DEF Promise, Step
<1>9. CASE UnlinkTag(c)
  <2>1. PICK l \in tx[c].rows :
           Write(c, [tx[c] EXCEPT !.rows = @ \ {l},
                                  !.unlinks = @ \cup ({l} \cap t_message_tags)])
    BY <1>9 DEF UnlinkTag
  <2>2. /\ tx'[c].rows = tx[c].rows \ {l} /\ tx'[c].links = tx[c].links
        /\ tx'[c].unlinks = tx[c].unlinks \cup ({l} \cap t_message_tags)
        /\ tx'[c].target = tx[c].target
        /\ UNCHANGED <<t_message_tags, req>>
    BY <2>1, <1>a DEF Write, Writes, tables
  <2>3. pc[c] = "unlinkTags" /\ pc'[c] = "unlinkTags"
    BY <1>9, <1>a DEF UnlinkTag, Go
  <2>4. Adds(c)' = Adds(c) /\ Removes(c)' = Removes(c)
    BY <2>2 DEF Adds, Removes
  <2> QED
    BY <2>2, <2>3, <2>4 DEF Promise, Step
<1>10. CASE Commit(c)
  <2>1. /\ pc[c] = "unlinkTags" /\ pc'[c] = "answer" /\ tx[c].rows = {}
        /\ t_message_tags' = (t_message_tags \cup tx[c].links) \ tx[c].unlinks
        /\ req' = req
        /\ tx'[c] = [NoWrites EXCEPT !.target = tx[c].target]
    BY <1>10, <1>a DEF Commit, Go
  <2>2. /\ tx'[c].links = {} /\ tx'[c].unlinks = {} /\ tx'[c].target = tx[c].target
    BY <2>1 DEF NoWrites
  <2>3. Adds(c)' = Adds(c) /\ Removes(c)' = Removes(c)
    BY <2>1, <2>2 DEF Adds, Removes
  <2>4. Valid(req[c]) /\ Adds(c) \cap Removes(c) = {}
    BY <2>1, AddsOrRemoves DEF Promise, Step
  <2>5. Adds(c) \subseteq t_message_tags' /\ Removes(c) \cap t_message_tags' = {}
    BY <2>1, <2>4 DEF Promise
  <2> QED
    BY <2>1, <2>2, <2>3, <2>4, <2>5 DEF Promise
<1>11. CASE Answer(c) \/ Abort(c)
  BY <1>11, <1>a, PromiseEnds DEF Answer, Abort
<1> QED
  BY <1>1, <1>3, <1>4, <1>5, <1>6, <1>7, <1>8, <1>9, <1>10, <1>11 DEF Moves, Proceed

(* The step of another call keeps the promise when the two are not opposed. *)
LEMMA PromiseOfOthers ==
    ASSUME IInv, NEW c \in Call, NEW d \in Call, c # d, Moves(d),
           Promise(c), Promise(d), ~ Opposed
    PROVE  Promise(c)'
<1>1. pc'[c] = pc[c] /\ req'[c] = req[c] /\ tx'[c] = tx[c]
  BY OthersStay DEF IInv
<1>2. Adds(c)' = Adds(c) /\ Removes(c)' = Removes(c)
  BY <1>1 DEF Adds, Removes
<1>3. Adds(c) \cap Removes(d) = {} /\ Adds(d) \cap Removes(c) = {}
  BY DEF Opposed, Adds, Removes
<1>4. CASE ~ Commit(d)
  BY <1>1, <1>2, <1>4, TablesStay DEF Promise, tables
<1>5. CASE Commit(d)
  <2>1. /\ t_tags' = t_tags \cup tx[d].tags
        /\ t_message_tags' = (t_message_tags \cup tx[d].links) \ tx[d].unlinks
        /\ tx[d].links \subseteq Adds(d) /\ tx[d].unlinks \subseteq Removes(d)
    BY <1>5 DEF Commit, Go, Promise
  <2> QED
    BY <1>1, <1>2, <1>3, <2>1 DEF Promise
<1> QED
  BY <1>4, <1>5

Promises == \A c \in Call : Promise(c)

LEMMA PromisesKept == IInv /\ ~ Opposed /\ Promises /\ [Next]_vars => Promises'
<1> SUFFICES ASSUME IInv, ~ Opposed, Promises, [Next]_vars, NEW c \in Call
             PROVE  Promise(c)'
  BY DEF Promises
<1>1. ASSUME NEW m \in MessageId, Remember(m) \/ Forget(m) PROVE Promise(c)'
  BY <1>1 DEF Remember, Forget, SetMessage, Promises, Promise, Adds, Removes
<1>2. CASE UNCHANGED vars
  BY <1>2 DEF vars, tables, Promises, Promise, Adds, Removes
<1>3. ASSUME NEW d \in Call, Moves(d) PROVE Promise(c)'
  BY <1>3, PromiseKept, PromiseOfOthers DEF Promises
<1> QED
  BY <1>1, <1>2, <1>3 DEF Next, Moves

(* An answer of organize is true as long as no calls that overlap on a     *)
(* message have opposite wishes for it.                                    *)
THEOREM TrueAnswers == Spec => AppliedUnlessOpposed
<1>1. Init => Promises
  BY PromiseAtRest DEF Init, Promises
<1>2. Promises => Applied
  BY DEF Promises, Promise, Applied, Adds, Removes
<1> QED
  BY Invariant, <1>1, <1>2, PromisesKept, PTL DEF Spec, AppliedUnlessOpposed

-----------------------------------------------------------------------------
(* Emptied searches, one call at a time.  A call that is to take a searched *)
(* name away keeps every message in its target that its search would still *)
(* find: nobody else links, and a message stored meanwhile has no tags.    *)
Retags(r) == r.seek \cap r.remove # {} /\ ~ r.more /\ PlainNames(r.seek)

OnlyStored ==
    /\ \A l \in t_message_tags : t_messages[l[1]] # "absent"
    /\ \A c \in Call : \A m \in tx[c].target : t_messages[m] # "absent"

Caught(c) ==
    pc[c] \in {"insertTags", "linkTags", "unlinkTags", "answer"} /\ Retags(req[c])
      => \A m \in Visible(c) :
            Normalised(req[c].seek) \subseteq TagsOf(m) => m \in tx[c].target

RetagInv == OnlyStored /\ \A c \in Call : Caught(c)

(* A common name of the search and of remove_tags is a tag: were it blank, *)
(* the names would come to fewer tags than there are names.                *)
LEMMA CommonTag ==
    ASSUME NEW r \in Request, Retags(r)
    PROVE  \E t \in Normalised(r.seek) : t \in Normalised(r.remove)
<1>1. PICK n \in r.seek : n \in r.remove
  BY DEF Retags
<1>2. CASE Normal[n] # Blank
  BY <1>1, <1>2 DEF Normalised
<1>3. CASE Normal[n] = Blank
  <2> DEFINE rest == r.seek \ {n}
             tags == {Normal[x] : x \in rest}
             f == [x \in rest |-> Normal[x]]
  <2>1. /\ IsFiniteSet(r.seek) /\ Cardinality(r.seek) \in Nat
        /\ Cardinality(Normalised(r.seek)) = Cardinality(r.seek)
    BY OrganizeAssumption, FS_CardinalityType DEF Retags, PlainNames
  <2>2. IsFiniteSet(rest) /\ Cardinality(rest) = Cardinality(r.seek) - 1
    BY <1>1, <2>1, FS_RemoveElement
  <2>3. f \in Surjection(rest, tags)
    BY DEF Surjection
  <2>4. Normalised(r.seek) \subseteq tags
    BY <1>3 DEF Normalised
  <2> HIDE DEF f, tags, rest
  <2>5. IsFiniteSet(tags) /\ Cardinality(tags) <= Cardinality(rest)
    BY <2>2, <2>3, FS_Surjection
  <2>6. Cardinality(Normalised(r.seek)) <= Cardinality(tags)
    BY <2>4, <2>5, FS_Subset
  <2>7. Cardinality(tags) \in Nat /\ Cardinality(rest) \in Nat
    BY <2>2, <2>5, FS_CardinalityType
  <2> QED
    BY <2>1, <2>2, <2>5, <2>6, <2>7
<1> QED
  BY <1>2, <1>3

(* What carries the searched tags is found by their names. *)
LEMMA SearchFinds ==
    ASSUME TypeOK, NEW c \in Call, req[c] \in Request, Retags(req[c]),
           NEW m \in Visible(c), Normalised(req[c].seek) \subseteq TagsOf(m)
    PROVE  /\ HasSearch(req[c]) /\ Found(c) = {Matching(c)}
           /\ m \in Matching(c)
<1> DEFINE names == req[c].seek
<1>1. HasSearch(req[c]) /\ ~ req[c].more
  BY DEF Retags, HasSearch
<1>2. Blank \notin TagsOf(m)
  BY OrganizeAssumption DEF TypeOK, TagsOf
<1>3. {Lower[n] : n \in names} \cap TagsOf(m) = Normalised(names)
  <2>1. \A n \in names : Lower[n] = Normal[n]
    BY DEF Retags, PlainNames
  <2> QED
    BY <1>2, <2>1 DEF Normalised
<1>4. Cardinality(Normalised(names)) = Cardinality(names)
  BY DEF Retags, PlainNames
<1>5. Carries(m, names)
  BY <1>3, <1>4 DEF Carries
<1> QED
  BY <1>1, <1>5 DEF Found, Matching

(* From the search on the target stays what it is. *)
LEMMA TargetStays ==
    ASSUME TypeOK, NEW c \in Call,
           \/ InsertTag(c) \/ SelectTags(c) \/ LinkTag(c)
           \/ BeginUnlink(c) \/ UnlinkTag(c)
    PROVE  /\ pc[c] \in {"insertTags", "linkTags", "unlinkTags"}
           /\ tx'[c].target = tx[c].target
           /\ UNCHANGED <<tables, req>>
<1>a. tx[c] \in Writes /\ tx \in [Call -> Writes]
  BY DEF TypeOK
<1>1. CASE InsertTag(c)
  BY <1>1, <1>a DEF InsertTag, Write, Writes, Go
<1>2. CASE SelectTags(c)
  BY <1>2, <1>a DEF SelectTags, Write, Writes, Go
<1>3. CASE LinkTag(c)
  BY <1>3, <1>a DEF LinkTag, Write, Writes, Go
<1>4. CASE BeginUnlink(c)
  BY <1>4, <1>a DEF BeginUnlink, Write, Writes, Go
<1>5. CASE UnlinkTag(c)
  BY <1>5, <1>a DEF UnlinkTag, Write, Writes, Go
<1> QED
  BY <1>1, <1>2, <1>3, <1>4, <1>5

LEMMA OnlyStoredKept ==
    ASSUME IInv, Promises, OnlyStored, NEW c \in Call, Moves(c)
    PROVE  OnlyStored'
<1>a. tx[c] \in Writes /\ tx \in [Call -> Writes] /\ TypeOK
  BY DEF IInv, TypeOK
<1>1. UNCHANGED t_messages
  BY TablesStay DEF tables, Commit
<1>2. ASSUME tx'[c].target \subseteq tx[c].target \cup Visible(c)
      PROVE  \A d \in Call : \A m \in tx'[d].target : t_messages'[m] # "absent"
  <2>1. \A m \in Visible(c) : t_messages[m] # "absent"
    BY DEF Visible
  <2> QED
    BY <1>1, <1>2, <1>a, <2>1, OthersStay DEF OnlyStored
<1>f. ASSUME Finish(c) PROVE tx'[c].target = {}
  BY <1>f, <1>a DEF Finish, NoWrites
<1>3. tx'[c].target \subseteq tx[c].target \cup Visible(c)
  <2>1. CASE \E r \in Request : Organize(c, r)
    BY <2>1 DEF Organize
  <2>2. CASE FindIds(c)
    <3>1. CASE /\ Write(c, [tx[c] EXCEPT !.target = req[c].ids])
               /\ req[c].ids \subseteq Visible(c)
      BY <3>1, <1>a DEF Write, Writes
    <3> QED
      BY <2>2, <3>1, <1>f DEF FindIds, Rollback
  <2>3. CASE Search(c)
    <3>1. PICK found \in Found(c) :
             \/ Write(c, [tx[c] EXCEPT !.target = tx[c].target \cup found])
             \/ Rollback(c)
      BY <2>3 DEF Search
    <3>2. found \subseteq Visible(c)
      BY DEF Found, Matching
    <3> QED
      BY <3>1, <3>2, <1>a, <1>f DEF Write, Writes, Rollback
  <2>4. CASE InsertTag(c) \/ SelectTags(c) \/ LinkTag(c) \/ BeginUnlink(c)
             \/ UnlinkTag(c)
    BY <2>4, <1>a, TargetStays
  <2>5. CASE Commit(c)
    BY <2>5, <1>a DEF Commit, NoWrites
  <2>6. CASE Answer(c) \/ Abort(c)
    BY <2>6, <1>f DEF Answer, Abort, Rollback
  <2> QED
    BY <2>1, <2>2, <2>3, <2>4, <2>5, <2>6 DEF Moves, Proceed
<1>4. \A l \in t_message_tags' : t_messages'[l[1]] # "absent"
  <2>1. CASE Commit(c)
    <3>1. /\ t_message_tags' \subseteq t_message_tags \cup tx[c].links
          /\ tx[c].links \subseteq Adds(c)
      BY <2>1 DEF Commit, Go, Promises, Promise
    <3> QED
      BY <1>1, <3>1 DEF OnlyStored, Adds
  <2>2. CASE ~ Commit(c)
    BY <2>2, TablesStay DEF tables, OnlyStored
  <2> QED
    BY <2>1, <2>2
<1> QED
  BY <1>2, <1>3, <1>4 DEF OnlyStored

(* The call's own step: its search catches them, and its own links are on  *)
(* messages of its target.                                                 *)
LEMMA CaughtKept ==
    ASSUME IInv, Promises, NEW c \in Call, Moves(c), Caught(c)
    PROVE  Caught(c)'
<1>a. /\ tx[c] \in Writes /\ tx \in [Call -> Writes] /\ TypeOK
      /\ pc \in [Call -> {"idle"} \cup Step]
      /\ pc[c] \in Step => req[c] \in Request
  BY DEF IInv, TypeOK
<1>0. ASSUME pc'[c] \in {"idle", "findIds", "search"} PROVE Caught(c)'
  BY <1>0 DEF Caught
<1>f. ASSUME Finish(c) PROVE Caught(c)'
  BY <1>f, <1>a, <1>0 DEF Finish
<1>1. CASE \E r \in Request : Organize(c, r)
  BY <1>1, <1>a, <1>0 DEF Organize, Go
<1>2. CASE FindIds(c)
  BY <1>2, <1>a, <1>0, <1>f DEF FindIds, Go, Rollback
<1>3. CASE Search(c)
  <2>1. PICK found \in Found(c) :
           \/ /\ Go(c, "search", "insertTags")
              /\ Write(c, [tx[c] EXCEPT !.target = tx[c].target \cup found])
           \/ Rollback(c)
    BY <1>3 DEF Search
  <2>2. CASE /\ Go(c, "search", "insertTags")
             /\ Write(c, [tx[c] EXCEPT !.target = tx[c].target \cup found])
    <3>1. /\ tx'[c].target = tx[c].target \cup found
          /\ req[c] \in Request /\ UNCHANGED <<tables, req>>
      BY <2>2, <1>a DEF Go, Write, Writes, Step
    <3>2. ASSUME NEW m \in Visible(c), Retags(req[c]),
                 Normalised(req[c].seek) \subseteq TagsOf(m)
          PROVE  m \in tx'[c].target
      BY <3>1, <3>2, <1>a, SearchFinds
    <3> QED
      BY <3>1, <3>2 DEF Caught, Visible, TagsOf, tables
  <2> QED
    BY <2>1, <2>2, <1>f DEF Rollback
<1>4. CASE InsertTag(c) \/ SelectTags(c) \/ LinkTag(c) \/ BeginUnlink(c) \/ UnlinkTag(c)
  <2>1. /\ UNCHANGED <<tables, req>> /\ tx'[c].target = tx[c].target
        /\ pc[c] \in {"insertTags", "linkTags", "unlinkTags"}
    BY <1>4, <1>a, TargetStays
  <2> QED
    BY <2>1 DEF Caught, Visible, TagsOf, tables
<1>5. CASE Commit(c)
  <2>1. /\ pc[c] = "unlinkTags" /\ UNCHANGED <<t_messages, req>>
        /\ tx'[c].target = tx[c].target
        /\ t_message_tags' \subseteq t_message_tags \cup tx[c].links
        /\ tx[c].links \subseteq Adds(c)
    BY <1>5, <1>a DEF Commit, Go, NoWrites, Promises, Promise
  <2>2. ASSUME NEW m, m \notin tx[c].target PROVE TagsOf(m)' \subseteq TagsOf(m)
    BY <2>1, <2>2, <1>a DEF TagsOf, Adds, TypeOK
  <2>3. Visible(c)' = Visible(c)
    BY <2>1 DEF Visible
  <2> QED
    BY <2>1, <2>2, <2>3 DEF Caught
<1>6. CASE Answer(c) \/ Abort(c)
  BY <1>6, <1>f DEF Answer, Abort, Rollback
<1> QED
  BY <1>1, <1>2, <1>3, <1>4, <1>5, <1>6 DEF Moves, Proceed

LEMMA AloneNotOpposed == Alone /\ Promises => ~ Opposed
<1> SUFFICES ASSUME Alone, Promises, NEW c \in Call, NEW d \in Call, c # d
             PROVE  tx[c].target \cap tx[d].target = {}
  BY DEF Opposed
<1>1. pc[c] = "idle" \/ pc[d] = "idle"
  BY DEF Alone
<1> QED
  BY <1>1 DEF Promises, Promise, NoWrites

LEMMA RetagInvStep ==
    IInv /\ Promises /\ Alone /\ RetagInv /\ [Next]_vars => RetagInv'
<1> SUFFICES ASSUME IInv, Promises, Alone, RetagInv, [Next]_vars
             PROVE  OnlyStored' /\ \A c \in Call : Caught(c)'
  BY DEF RetagInv
<1>1. CASE UNCHANGED vars
  BY <1>1 DEF vars, tables, RetagInv, OnlyStored, Caught, Visible, TagsOf
<1>2. ASSUME NEW m \in MessageId, Remember(m) \/ Forget(m)
      PROVE  OnlyStored' /\ \A c \in Call : Caught(c)'
  <2>1. /\ t_messages \in [MessageId -> {"absent", "live", "forgotten"}]
        /\ t_message_tags \subseteq MessageId \X t_tags
        /\ UNCHANGED <<t_tags, t_message_tags, pc, req, tx>>
        /\ \/ t_messages[m] = "absent" /\ t_messages' = [t_messages EXCEPT ![m] = "live"]
           \/ t_messages[m] = "live" /\ t_messages' = [t_messages EXCEPT ![m] = "forgotten"]
    BY <1>2 DEF Remember, Forget, SetMessage, IInv, TypeOK
  <2>2. \A x \in MessageId : t_messages[x] # "absent" => t_messages'[x] # "absent"
    BY <2>1
  <2>3. OnlyStored'
    BY <2>1, <2>2 DEF RetagInv, OnlyStored, IInv, TypeOK, Writes
  <2>4. ASSUME NEW c \in Call,
               pc[c] \in {"insertTags", "linkTags", "unlinkTags", "answer"},
               Retags(req[c]), NEW x \in Visible(c)',
               Normalised(req[c].seek) \subseteq TagsOf(x)
        PROVE  x \in tx[c].target
    <3>1. req[c] \in Request
      BY <2>4 DEF IInv, TypeOK, Step
    <3>2. t_messages[x] # "absent"
      <4>1. PICK t : t \in TagsOf(x)
        BY <2>4, <3>1, CommonTag
      <4> QED
        BY <4>1 DEF TagsOf, RetagInv, OnlyStored
    <3>3. x \in Visible(c)
      BY <2>1, <3>2 DEF Visible
    <3> QED
      BY <2>4, <3>3 DEF RetagInv, Caught
  <2>5. \A x : TagsOf(x)' = TagsOf(x)
    BY <2>1 DEF TagsOf
  <2> QED
    BY <2>1, <2>3, <2>4, <2>5 DEF Caught
<1>3. ASSUME NEW d \in Call, Moves(d)
      PROVE  OnlyStored' /\ \A c \in Call : Caught(c)'
  <2>1. OnlyStored'
    BY <1>3, OnlyStoredKept DEF RetagInv
  <2>2. ASSUME NEW c \in Call PROVE Caught(c)'
    <3>1. CASE c = d
      BY <1>3, <3>1, CaughtKept DEF RetagInv
    <3>2. CASE c # d
      <4>1. pc'[c] = pc[c] /\ req'[c] = req[c] /\ tx'[c] = tx[c]
        BY <1>3, <3>2, OthersStay DEF IInv
      <4>2. CASE pc[c] = "idle"
        BY <4>1, <4>2 DEF Caught
      <4>3. CASE pc[c] # "idle"
        <5>1. ~ Commit(d)
          BY <3>2, <4>3 DEF Alone, Commit, Go
        <5>2. UNCHANGED tables
          BY <1>3, <5>1, TablesStay
        <5> QED
          BY <4>1, <5>2 DEF RetagInv, Caught, Visible, TagsOf, tables
      <4> QED
        BY <4>2, <4>3
    <3> QED
      BY <3>1, <3>2
  <2> QED
    BY <2>1, <2>2
<1> QED
  BY <1>1, <1>2, <1>3 DEF Next, Moves

(* One call after the other, organize with a name to search for and to     *)
(* remove leaves no message behind that it could see, although messages    *)
(* are stored and forgotten while it runs.                                 *)
THEOREM EmptiesItsSearch == Spec => RetagsAll
<1>1. Init => Promises /\ RetagInv
  BY PromiseAtRest DEF Init, Promises, RetagInv, OnlyStored, Caught, NoWrites
<1>2. IInv /\ Promises /\ RetagInv => SearchEmptied
  <2> SUFFICES ASSUME IInv, Promises, RetagInv, NEW c \in Call, pc[c] = "answer",
                      Retags(req[c]), NEW m \in Visible(c),
                      Normalised(req[c].seek) \subseteq TagsOf(m)
               PROVE  FALSE
    BY DEF SearchEmptied, Retags
  <2>1. m \in tx[c].target
    BY DEF RetagInv, Caught
  <2>2. req[c] \in Request
    BY DEF IInv, TypeOK, Step
  <2>3. PICK t \in Normalised(req[c].seek) : t \in Normalised(req[c].remove)
    BY <2>2, CommonTag
  <2>4. <<m, t>> \in t_message_tags /\ <<m, t>> \in Removes(c)
    BY <2>1, <2>3 DEF TagsOf, Removes
  <2> QED
    BY <2>4 DEF Promises, Promise
<1> QED
  BY Invariant, <1>1, <1>2, PromisesKept, AloneNotOpposed, RetagInvStep, PTL
  DEF Spec, RetagsAll

-----------------------------------------------------------------------------
(* Deadlocks.  What a call has locked, by the statement it is at.          *)
LocksHeld(c) ==
    /\ tx[c].names # {} => pc[c] \in {"insertTags", "linkTags", "unlinkTags"}
    /\ tx[c].tags \subseteq tx[c].names
    /\ pc[c] = "insertTags" => tx[c].names \subseteq Normalised(req[c].add)
    /\ LinksHeld(c) # {} => pc[c] \in {"linkTags", "unlinkTags"}
    /\ pc[c] \in Step =>
          Normalised(req[c].add) \cap Normalised(req[c].remove) = {}
    /\ pc[c] = "linkTags" => /\ tx[c].rows \cup tx[c].links \subseteq Adds(c)
                             /\ tx[c].rows \cap tx[c].links = {}
                             /\ tx[c].unlinks = {}
    /\ pc[c] = "unlinkTags" => /\ tx[c].links \subseteq Adds(c)
                               /\ tx[c].rows \cup tx[c].unlinks \subseteq Removes(c)
                               /\ tx[c].rows \cap tx[c].unlinks = {}

(* A call that creates two tags, or writes two link rows.                  *)
TakesTwo(c) ==
    \/ pc[c] = "insertTags" /\ \E t, u \in Normalised(req[c].add) : t # u
    \/ /\ pc[c] \in {"linkTags", "unlinkTags"}
       /\ \E k, l \in Adds(c) \cup Removes(c) : k # l

(* Whoever waits in a circle, two of the calls in it take two rows of one  *)
(* table each: tags are always taken before links.                         *)
DeadlocksNeedTwo ==
    \A S \in SUBSET Call : (S # {} /\ \A b \in S : Blocked(b, S)) =>
        \E b, d \in S : b # d /\ TakesTwo(b) /\ TakesTwo(d)

LEMMA LocksMove ==
    ASSUME IInv, NEW c \in Call, Moves(c), LocksHeld(c)
    PROVE  LocksHeld(c)'
<1>b. /\ pc \in [Call -> {"idle"} \cup Step] /\ tx \in [Call -> Writes]
      /\ req \in [Call -> Request \cup {NoRequest}]
  BY DEF IInv, TypeOK
<1>f. ASSUME Finish(c) PROVE LocksHeld(c)'
  <2>1. pc'[c] = "idle" /\ tx'[c] = NoWrites
    BY <1>f, <1>b DEF Finish
  <2> QED
    BY <2>1 DEF LocksHeld, LinksHeld, NoWrites, Step
<1>1. ASSUME NEW r \in Request, Organize(c, r) PROVE LocksHeld(c)'
  <2>1. /\ pc[c] = "idle" /\ pc'[c] \in {"findIds", "search"}
        /\ req'[c] = r /\ tx'[c] = tx[c]
        /\ Normalised(r.add) \cap Normalised(r.remove) = {}
    BY <1>1, <1>b DEF Organize, Go, Valid
  <2>2. /\ tx[c].names = {} /\ tx[c].tags = {} /\ LinksHeld(c) = {}
    BY <2>1 DEF LocksHeld
  <2> QED
    BY <2>1, <2>2 DEF LocksHeld, LinksHeld
<1>2. CASE FindIds(c) \/ Search(c)
  <2>1. CASE ~ Rollback(c)
    <3>1. PICK target : Write(c, [tx[c] EXCEPT !.target = target])
      BY <1>2, <2>1 DEF FindIds, Search
    <3>2. /\ pc[c] \in {"findIds", "search"} /\ pc'[c] \in {"search", "insertTags"}
          /\ req'[c] = req[c]
          /\ tx'[c].names = tx[c].names /\ tx'[c].tags = tx[c].tags
          /\ LinksHeld(c)' = LinksHeld(c)
      <4>1. /\ tx'[c].names = tx[c].names /\ tx'[c].tags = tx[c].tags
            /\ LinksHeld(c)' = LinksHeld(c) /\ req'[c] = req[c]
        BY <1>b, <3>1 DEF Write, Writes, LinksHeld
      <4>2. Go(c, "findIds", "search") \/ Go(c, "search", "insertTags")
        BY <1>2, <2>1 DEF FindIds, Search
      <4> QED
        BY <1>b, <4>1, <4>2 DEF Go
    <3>3. /\ tx[c].names = {} /\ tx[c].tags = {} /\ LinksHeld(c) = {}
          /\ Normalised(req[c].add) \cap Normalised(req[c].remove) = {}
      BY <3>2 DEF LocksHeld, Step
    <3> QED
      BY <3>2, <3>3 DEF LocksHeld
  <2> QED
    BY <1>2, <1>f, <2>1 DEF Rollback
<1>3. CASE InsertTag(c)
  <2>1. PICK t \in NamesLeft(c) :
           Write(c, [tx[c] EXCEPT !.names = @ \cup {t},
                                  !.tags = @ \cup ({t} \ t_tags)])
    BY <1>3 DEF InsertTag
  <2>2. tx'[c] = [tx[c] EXCEPT !.names = @ \cup {t},
                               !.tags = @ \cup ({t} \ t_tags)]
    BY <1>b, <2>1 DEF Write
  <2>3. /\ pc[c] = "insertTags" /\ pc'[c] = "insertTags" /\ req'[c] = req[c]
        /\ t \in Normalised(req[c].add)
    BY <1>3, <1>b, <2>1 DEF InsertTag, Go, Write, NamesLeft
  <2>4. /\ tx'[c].names = tx[c].names \cup {t}
        /\ tx'[c].tags \subseteq tx[c].tags \cup {t}
        /\ LinksHeld(c)' = LinksHeld(c)
    BY <1>b, <2>2 DEF Writes, LinksHeld
  <2> QED
    BY <2>3, <2>4 DEF LocksHeld
<1>4. CASE SelectTags(c)
  <2> DEFINE wanted == tx[c].target
                         \X (Normalised(req[c].add) \cap (t_tags \cup tx[c].tags))
  <2>1. wanted \subseteq Adds(c)
    BY DEF Adds
  <2>2. tx' = [tx EXCEPT ![c] = [tx[c] EXCEPT !.rows = wanted]]
    BY <1>4 DEF SelectTags, Write
  <2> HIDE DEF wanted
  <2>3. /\ tx'[c].rows = wanted /\ tx'[c].links = tx[c].links
        /\ tx'[c].unlinks = tx[c].unlinks /\ tx'[c].names = tx[c].names
        /\ tx'[c].tags = tx[c].tags /\ tx'[c].target = tx[c].target
    BY <1>b, <2>2 DEF Writes
  <2>4. /\ pc[c] = "insertTags" /\ pc'[c] = "linkTags" /\ req'[c] = req[c]
    BY <1>4, <1>b DEF SelectTags, Go, Write
  <2>5. tx[c].links = {} /\ tx[c].unlinks = {}
    BY <2>4 DEF LocksHeld, LinksHeld
  <2>6. Adds(c)' = Adds(c)
    BY <2>3, <2>4 DEF Adds
  <2> QED
    BY <2>1, <2>3, <2>4, <2>5, <2>6 DEF LocksHeld, Step
<1>5. CASE LinkTag(c)
  <2>1. PICK l \in tx[c].rows :
           Write(c, [tx[c] EXCEPT !.rows = @ \ {l},
                                  !.links = @ \cup ({l} \ t_message_tags)])
    BY <1>5 DEF LinkTag
  <2>2. tx'[c] = [tx[c] EXCEPT !.rows = @ \ {l},
                               !.links = @ \cup ({l} \ t_message_tags)]
    BY <1>b, <2>1 DEF Write
  <2>3. /\ pc[c] = "linkTags" /\ pc'[c] = "linkTags" /\ req'[c] = req[c]
    BY <1>5, <1>b, <2>1 DEF LinkTag, Go, Write
  <2>4. /\ tx'[c].rows = tx[c].rows \ {l}
        /\ tx'[c].links \subseteq tx[c].links \cup {l}
        /\ tx'[c].unlinks = tx[c].unlinks /\ tx'[c].names = tx[c].names
        /\ tx'[c].tags = tx[c].tags /\ tx'[c].target = tx[c].target
    BY <1>b, <2>2 DEF Writes
  <2>5. Adds(c)' = Adds(c) /\ Removes(c)' = Removes(c)
    BY <2>3, <2>4 DEF Adds, Removes
  <2> QED
    BY <2>3, <2>4, <2>5 DEF LocksHeld, Step
<1>6. CASE BeginUnlink(c)
  <2> DEFINE doomed == (tx[c].target \X Normalised(req[c].remove))
                          \cap (t_message_tags \cup tx[c].links)
  <2>1. doomed \subseteq Removes(c)
    BY DEF Removes
  <2>2. tx' = [tx EXCEPT ![c] = [tx[c] EXCEPT !.rows = doomed]]
    BY <1>6 DEF BeginUnlink, Write
  <2> HIDE DEF doomed
  <2>3. /\ tx'[c].rows = doomed /\ tx'[c].links = tx[c].links
        /\ tx'[c].unlinks = tx[c].unlinks /\ tx'[c].names = tx[c].names
        /\ tx'[c].tags = tx[c].tags /\ tx'[c].target = tx[c].target
    BY <1>b, <2>2 DEF Writes
  <2>4. /\ pc[c] = "linkTags" /\ pc'[c] = "unlinkTags" /\ req'[c] = req[c]
    BY <1>6, <1>b DEF BeginUnlink, Go, Write
  <2>5. tx[c].links \subseteq Adds(c) /\ tx[c].unlinks = {}
    BY <2>4 DEF LocksHeld
  <2>6. Adds(c)' = Adds(c) /\ Removes(c)' = Removes(c)
    BY <2>3, <2>4 DEF Adds, Removes
  <2> QED
    BY <2>1, <2>3, <2>4, <2>5, <2>6 DEF LocksHeld, Step
<1>7. CASE UnlinkTag(c)
  <2>1. PICK l \in tx[c].rows :
           Write(c, [tx[c] EXCEPT !.rows = @ \ {l},
                                  !.unlinks = @ \cup ({l} \cap t_message_tags)])
    BY <1>7 DEF UnlinkTag
  <2>2. tx'[c] = [tx[c] EXCEPT !.rows = @ \ {l},
                               !.unlinks = @ \cup ({l} \cap t_message_tags)]
    BY <1>b, <2>1 DEF Write
  <2>3. /\ pc[c] = "unlinkTags" /\ pc'[c] = "unlinkTags" /\ req'[c] = req[c]
    BY <1>7, <1>b, <2>1 DEF UnlinkTag, Go, Write
  <2>4. /\ tx'[c].rows = tx[c].rows \ {l}
        /\ tx'[c].unlinks \subseteq tx[c].unlinks \cup {l}
        /\ tx'[c].links = tx[c].links /\ tx'[c].names = tx[c].names
        /\ tx'[c].tags = tx[c].tags /\ tx'[c].target = tx[c].target
    BY <1>b, <2>2 DEF Writes
  <2>5. Adds(c)' = Adds(c) /\ Removes(c)' = Removes(c)
    BY <2>3, <2>4 DEF Adds, Removes
  <2> QED
    BY <2>3, <2>4, <2>5 DEF LocksHeld, Step
<1>8. CASE Commit(c)
  <2>1. /\ pc'[c] = "answer" /\ pc[c] = "unlinkTags" /\ req'[c] = req[c]
        /\ tx'[c] = [NoWrites EXCEPT !.target = tx[c].target]
    BY <1>8, <1>b DEF Commit, Go
  <2>2. /\ tx'[c].names = {} /\ tx'[c].tags = {} /\ LinksHeld(c)' = {}
    BY <2>1 DEF NoWrites, LinksHeld
  <2> QED
    BY <2>1, <2>2 DEF LocksHeld, Step
<1>9. CASE Answer(c) \/ Abort(c)
  BY <1>9, <1>f DEF Answer, Abort, Rollback
<1> QED
  BY <1>1, <1>2, <1>3, <1>4, <1>5, <1>6, <1>7, <1>8, <1>9 DEF Moves, Proceed

LEMMA LocksInvariant == Spec => [](\A c \in Call : LocksHeld(c))
<1>1. Init => \A c \in Call : LocksHeld(c)
  BY DEF Init, LocksHeld, LinksHeld, NoWrites, Step
<1>2. IInv /\ (\A c \in Call : LocksHeld(c)) /\ [Next]_vars
        => (\A c \in Call : LocksHeld(c))'
  <2> SUFFICES ASSUME IInv, \A c \in Call : LocksHeld(c), [Next]_vars,
                      NEW d \in Call
               PROVE  LocksHeld(d)'
    OBVIOUS
  <2>1. CASE UNCHANGED <<pc, req, tx>>
    BY <2>1 DEF LocksHeld, LinksHeld, Adds, Removes
  <2>2. ASSUME NEW c \in Call, Moves(c) PROVE LocksHeld(d)'
    <3>1. CASE d = c
      BY <2>2, <3>1, LocksMove
    <3>2. CASE d # c
      <4>1. pc'[d] = pc[d] /\ req'[d] = req[d] /\ tx'[d] = tx[d]
        BY <2>2, <3>2, OthersStay DEF IInv
      <4> QED
        BY <4>1 DEF LocksHeld, LinksHeld, Adds, Removes
    <3> QED
      BY <3>1, <3>2
  <2> QED
    BY <2>1, <2>2 DEF Next, Moves, Remember, Forget, SetMessage, vars
<1> QED
  BY <1>1, <1>2, Invariant, PTL DEF Spec

(* Who holds a row and waits for another of the same table takes two; who  *)
(* holds a tag may also wait for a link.                                   *)
LEMMA HolderTakesTwo ==
    ASSUME \A b \in Call : LocksHeld(b),
           NEW S \in SUBSET Call, NEW o \in S, Blocked(o, S)
    PROVE  /\ tx[o].tags # {} => TakesTwo(o) \/ pc[o] \in {"linkTags", "unlinkTags"}
           /\ LinksHeld(o) # {} => TakesTwo(o) /\ pc[o] # "insertTags"
<1>0. LocksHeld(o)
  OBVIOUS
<1>1. pc[o] \in {"insertTags", "linkTags", "unlinkTags"}
  BY DEF Blocked
<1>2. ASSUME tx[o].tags # {}, pc[o] = "insertTags" PROVE TakesTwo(o)
  <2>1. PICK t, u : t \in tx[o].names /\ u \in NamesLeft(o)
    BY <1>0, <1>2 DEF Blocked, LocksHeld
  <2>2. t \in Normalised(req[o].add) /\ u \in Normalised(req[o].add) /\ t # u
    BY <1>0, <1>2, <2>1 DEF LocksHeld, NamesLeft
  <2> QED
    BY <1>2, <2>2 DEF TakesTwo
<1>3. ASSUME LinksHeld(o) # {} PROVE TakesTwo(o) /\ pc[o] # "insertTags"
  <2>1. pc[o] \in {"linkTags", "unlinkTags"}
    BY <1>0, <1>3 DEF LocksHeld
  <2>2. PICK k, l : k \in LinksHeld(o) /\ l \in tx[o].rows
    BY <1>3, <2>1 DEF Blocked
  <2>3. k \in Adds(o) \cup Removes(o) /\ l \in Adds(o) \cup Removes(o)
    BY <1>0, <2>1, <2>2 DEF LocksHeld, LinksHeld
  <2>4. k # l
    <3>1. CASE pc[o] = "linkTags"
      BY <1>0, <2>2, <3>1 DEF LocksHeld, LinksHeld
    <3>2. CASE pc[o] = "unlinkTags" /\ k \in tx[o].unlinks
      BY <1>0, <2>2, <3>2 DEF LocksHeld
    <3>3. CASE pc[o] = "unlinkTags" /\ k \in tx[o].links
      <4>1. k \in Adds(o) /\ l \in Removes(o)
        BY <1>0, <2>2, <3>3 DEF LocksHeld
      <4>2. Normalised(req[o].add) \cap Normalised(req[o].remove) = {}
        BY <1>0, <3>3 DEF LocksHeld, Step
      <4> QED
        BY <4>1, <4>2 DEF Adds, Removes
    <3> QED
      BY <2>1, <2>2, <3>1, <3>2, <3>3 DEF LinksHeld
  <2> QED
    BY <2>1, <2>3, <2>4 DEF TakesTwo
<1> QED
  BY <1>1, <1>2, <1>3

(* Behind everyone in a circle of waiting calls there is another that      *)
(* takes two.                                                              *)
LEMMA AnotherTakesTwo ==
    ASSUME \A b \in Call : LocksHeld(b),
           NEW S \in SUBSET Call, \A b \in S : Blocked(b, S), NEW c \in S
    PROVE  \E o \in S \ {c} : TakesTwo(o)
<1>1. ASSUME NEW d \in S, pc[d] \in {"linkTags", "unlinkTags"}
      PROVE  \E o \in S \ {d} : TakesTwo(o) /\ pc[o] # "insertTags"
  <2>1. PICK o \in S \ {d} : LinksHeld(o) # {}
    BY <1>1 DEF Blocked
  <2> QED
    BY <2>1, HolderTakesTwo
<1>2. CASE pc[c] = "insertTags"
  <2>1. PICK o \in S \ {c} : tx[o].tags # {}
    BY <1>2 DEF Blocked, TagsHeld
  <2>2. CASE pc[o] \in {"linkTags", "unlinkTags"}
    BY <1>1, <1>2, <2>2
  <2> QED
    BY <2>1, <2>2, HolderTakesTwo
<1>3. pc[c] \in {"insertTags", "linkTags", "unlinkTags"}
  BY DEF Blocked
<1> QED
  BY <1>1, <1>2, <1>3

(* Calls that name one tag and mean one message never wait in a circle,    *)
(* however many they are: a deadlock takes two calls with two rows each.   *)
THEOREM DeadlockTakesTwo == Spec => []DeadlocksNeedTwo
<1>1. (\A c \in Call : LocksHeld(c)) => DeadlocksNeedTwo
  <2> SUFFICES ASSUME \A c \in Call : LocksHeld(c),
                      NEW S \in SUBSET Call, NEW c \in S,
                      \A b \in S : Blocked(b, S)
               PROVE  \E b, d \in S : b # d /\ TakesTwo(b) /\ TakesTwo(d)
    BY DEF DeadlocksNeedTwo
  <2>1. PICK b \in S : TakesTwo(b)
    BY AnotherTakesTwo
  <2>2. PICK d \in S \ {b} : TakesTwo(d)
    BY AnotherTakesTwo
  <2> QED
    BY <2>1, <2>2
<1> QED
  BY <1>1, LocksInvariant, PTL
=============================================================================
