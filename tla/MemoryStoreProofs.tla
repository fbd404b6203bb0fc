-------------------------- MODULE MemoryStoreProofs --------------------------
(***************************************************************************)
(* What holds of the memory store for any number of calls, messages,       *)
(* dates, roles and topics.                                                *)
(***************************************************************************)
EXTENDS MemoryServer, FiniteSetTheorems, TLAPS

-----------------------------------------------------------------------------
(* Type correctness. *)

LEMMA AfterMessageType ==
    ASSUME NEW r
    PROVE  AfterMessage(r) \in {"linkTopic", "linkRoles", "commitMessage"}
BY DEF AfterMessage

(* A call that moves on within its transaction stays well typed. *)
LEMMA StepType ==
    ASSUME TypeOK, NEW c \in Call, NEW from, NEW to, Step(c, from, to),
           \/ from \in RememberStep /\ to \in RememberStep
           \/ from \in UpdateStep /\ to \in UpdateStep,
           NEW rows \in Writes,
           tx' = [tx EXCEPT ![c] = rows], UNCHANGED <<tables, req, remembers>>,
           seq' \in [session : Nat, message : Nat, topic : Nat]
    PROVE  TypeOK'
BY DEF TypeOK, Step, tables, RememberStep, UpdateStep

(* A step of an update that changes private rows only. *)
LEMMA UpdateStepType ==
    ASSUME TypeOK, NEW c \in Call,
           NEW from \in UpdateStep, NEW to \in UpdateStep, Step(c, from, to),
           NEW rows \in Writes, Write(c, rows), UNCHANGED seq
    PROVE  TypeOK'
<1>1. seq' \in [session : Nat, message : Nat, topic : Nat]
  BY DEF TypeOK
<1>2. tx' = [tx EXCEPT ![c] = rows] /\ UNCHANGED <<tables, req, remembers>>
  BY DEF Write
<1> QED
  BY <1>1, <1>2, StepType

LEMMA RowsType ==
    ASSUME NEW w \in Writes, NEW wanted \in SUBSET (Nat \X Nat)
    PROVE  [w EXCEPT !.rows = wanted] \in Writes
BY DEF Writes

LEMMA FinishType ==
    ASSUME TypeOK, NEW c \in Call, Finish(c)
    PROVE  /\ pc' \in [Call -> {"idle"} \cup RememberStep \cup UpdateStep]
           /\ req' \in [Call -> RememberRequest \cup UpdateRequest \cup {NoRequest}]
           /\ tx' \in [Call -> Writes]
           /\ \A d \in Call : /\ pc'[d] \in RememberStep => req'[d] \in RememberRequest
                              /\ pc'[d] \in UpdateStep => req'[d] \in UpdateRequest
BY DEF TypeOK, Finish, Writes, NoWrites, RememberStep, UpdateStep

LEMMA RollbackType ==
    ASSUME TypeOK, NEW c \in Call, Rollback(c)
    PROVE  TypeOK'
BY FinishType DEF TypeOK, Rollback, tables

LEMMA ArriveType ==
    ASSUME TypeOK, NEW c \in Call, Arrive(c)
    PROVE  TypeOK'
<1>1. ASSUME NEW r \in RememberRequest, Remember(c, r) PROVE TypeOK'
  BY <1>1 DEF Remember, Step, tables, TypeOK, RememberStep, UpdateStep
<1>2. ASSUME NEW r \in UpdateRequest, UpdateTopic(c, r) PROVE TypeOK'
  BY <1>2 DEF UpdateTopic, Step, tables, TypeOK, RememberStep, UpdateStep
<1>3. ASSUME NEW ms \in IdList, CreateTopic(c, ms) PROVE TypeOK'
  <2>1. seq' \in [session : Nat, message : Nat, topic : Nat]
    BY <1>3 DEF CreateTopic, TypeOK
  <2>2. CASE ms \subseteq DOMAIN t_messages
    <3> DEFINE row == [status |-> "open", closed_at |-> FALSE]
    <3>0. row \in Topic
      BY DEF Topic
    <3>1. /\ DOMAIN t_topics' \subseteq Nat
          /\ \A t \in DOMAIN t_topics' : t_topics'[t] \in Topic
      <4>1. t_topics' = [t \in DOMAIN t_topics \cup {seq.topic + 1} |->
                           IF t = seq.topic + 1 THEN row ELSE t_topics[t]]
        BY <1>3, <2>2 DEF CreateTopic
      <4>2. seq.topic + 1 \in Nat
        BY DEF TypeOK
      <4> HIDE DEF row
      <4> QED
        BY <3>0, <4>1, <4>2 DEF TypeOK
    <3>2. t_message_topics' \subseteq Nat \X Nat
      BY <1>3, <2>2, BoundsAssumption DEF CreateTopic, TypeOK
    <3> QED
      BY <1>3, <2>1, <3>1, <3>2 DEF CreateTopic, TypeOK
  <2>3. CASE ~ (ms \subseteq DOMAIN t_messages)
    BY <1>3, <2>1, <2>3 DEF CreateTopic, TypeOK
  <2> QED
    BY <2>2, <2>3
<1>4. ASSUME NEW m \in MessageId, Forget(c, m) PROVE TypeOK'
  <2>1. /\ t_messages' = [t_messages EXCEPT ![m].is_deleted = TRUE]
        /\ m \in DOMAIN t_messages
    BY <1>4 DEF Forget, Live
  <2>2. [t_messages[m] EXCEPT !.is_deleted = TRUE] \in Message
    BY <2>1 DEF TypeOK, Message
  <2>3. /\ DOMAIN t_messages' \subseteq Nat
        /\ \A n \in DOMAIN t_messages' : t_messages'[n] \in Message
    BY <2>1, <2>2 DEF TypeOK
  <2> QED
    BY <1>4, <2>3 DEF Forget, TypeOK
<1>5. ASSUME NEW m \in MessageId, NEW text \in Content, Edit(c, m, text)
      PROVE  TypeOK'
  BY <1>5 DEF Edit, Live, TypeOK, Message
<1>6. ASSUME NEW t \in TopicId, CloseTopic(c, t) \/ ReopenTopic(c, t)
      PROVE  TypeOK'
  <2>1. /\ [status |-> "closed", closed_at |-> TRUE] \in Topic
        /\ [status |-> "open", closed_at |-> FALSE] \in Topic
    BY DEF Topic
  <2>2. ASSUME NEW from, NEW row \in Topic, SetTopic(c, t, from, row) PROVE TypeOK'
    BY <2>2 DEF SetTopic, TypeOK
  <2> QED
    BY <1>6, <2>1, <2>2 DEF CloseTopic, ReopenTopic
<1> QED
  BY <1>1, <1>2, <1>3, <1>4, <1>5, <1>6 DEF Arrive

LEMMA ProceedType ==
    ASSUME TypeOK, NEW c \in Call, Proceed(c)
    PROVE  TypeOK'
<1>1. CASE CheckLive(c) \/ CheckTopic(c) \/ CheckOverlap(c)
  <2>1. ASSUME NEW from \in RememberStep, NEW to \in RememberStep, NEW valid,
               Check(c, from, to, valid)
        PROVE  TypeOK'
    BY <2>1, RollbackType DEF Check, Step, TypeOK, tables, RememberStep, UpdateStep
  <2> QED
    BY <1>1, <2>1 DEF CheckLive, CheckTopic, CheckOverlap, RememberStep
<1>2. CASE FindSession(c)
  <2>1. ASSUME NEW s \in t_sessions, Step(c, "findSession", "insertMessage"),
               Write(c, [tx[c] EXCEPT !.session = s.id]), UNCHANGED seq
        PROVE  TypeOK'
    <3>1. [tx[c] EXCEPT !.session = s.id] \in Writes
      <4>1. tx[c] \in Writes /\ s.id \in Nat
        BY <2>1 DEF TypeOK, Session
      <4> QED
        BY <4>1 DEF Writes
    <3> QED
      BY <2>1, <3>1, StepType DEF Write, RememberStep, TypeOK
  <2>2. CASE Step(c, "findSession", "insertSession")
              /\ UNCHANGED <<tables, seq, remembers, req, tx>>
    BY <2>2 DEF Step, TypeOK, tables, RememberStep, UpdateStep
  <2> QED
    BY <1>2, <2>1, <2>2 DEF FindSession
<1>3. CASE InsertSession(c)
  <2>1. PICK s \in Session :
           Write(c, [tx[c] EXCEPT !.session = s.id, !.sessions = {s}])
    <3>1. req[c].date \in Date
      BY <1>3 DEF InsertSession, Step, TypeOK, RememberStep, RememberRequest
    <3>2. [id |-> seq.session + 1, date |-> req[c].date] \in Session
      BY <3>1 DEF TypeOK, Session
    <3> QED
      BY <1>3, <3>2 DEF InsertSession, TypeOK
  <2>2. [tx[c] EXCEPT !.session = s.id, !.sessions = {s}] \in Writes
    <3>1. tx[c] \in Writes
      BY DEF TypeOK
    <3>2. s.id \in Nat /\ {s} \subseteq Session
      BY DEF Session
    <3> QED
      BY <3>1, <3>2 DEF Writes
  <2>3. seq' \in [session : Nat, message : Nat, topic : Nat]
    <3>1. seq' = [seq EXCEPT !.session = @ + 1]
      BY <1>3 DEF InsertSession
    <3> QED
      BY <3>1 DEF TypeOK
  <2> QED
    BY <1>3, <2>1, <2>2, <2>3, StepType DEF InsertSession, Write, RememberStep
<1>4. CASE InsertMessage(c)
  <2>1. [tx[c] EXCEPT !.message = seq.message + 1] \in Writes
    <3>1. tx[c] \in Writes /\ seq.message + 1 \in Nat
      BY DEF TypeOK
    <3> QED
      BY <3>1 DEF Writes
  <2>2. seq' \in [session : Nat, message : Nat, topic : Nat]
    BY <1>4 DEF InsertMessage, TypeOK
  <2> QED
    BY <1>4, <2>1, <2>2, StepType, AfterMessageType
    DEF InsertMessage, Write, RememberStep
<1>5. CASE LinkTopic(c)
  <2> DEFINE rows == [tx[c] EXCEPT !.links = {<<tx[c].message, req[c].topic>>}]
             next == AfterMessage([req[c] EXCEPT !.topic = NoTopic])
  <2>1. CASE /\ Step(c, "linkTopic", next)
             /\ req[c].topic \in DOMAIN t_topics
             /\ Write(c, rows)
             /\ UNCHANGED seq
    <3>1. tx[c] \in Writes /\ req[c].topic \in Nat
      BY <2>1 DEF TypeOK
    <3>2. rows \in Writes
      BY <3>1 DEF Writes
    <3>3. next \in RememberStep /\ "linkTopic" \in RememberStep
      BY AfterMessageType DEF RememberStep
    <3>4. seq' \in [session : Nat, message : Nat, topic : Nat]
      BY <2>1 DEF TypeOK
    <3> HIDE DEF rows, next
    <3> QED
      BY <2>1, <3>2, <3>3, <3>4, StepType DEF Write
  <2> QED
    BY <1>5, <2>1, RollbackType DEF LinkTopic
<1>6. CASE InsertRole(c)
  <2>1. PICK r \in NamesLeft(c) :
           Write(c, [tx[c] EXCEPT !.names = @ \cup {r},
                                  !.roles = @ \cup ({r} \ m_role)])
    BY <1>6 DEF InsertRole
  <2>2. r \in Role
    BY <1>6, BoundsAssumption DEF InsertRole, NamesLeft, Step, TypeOK, RememberStep, RememberRequest
  <2>3. [tx[c] EXCEPT !.names = @ \cup {r}, !.roles = @ \cup ({r} \ m_role)] \in Writes
    <3>1. tx[c] \in Writes /\ {r} \ m_role \subseteq Role
      BY <2>2 DEF TypeOK
    <3> QED
      BY <2>2, <3>1 DEF Writes
  <2> QED
    BY <1>6, <2>1, <2>3, StepType DEF InsertRole, Write, RememberStep, TypeOK
<1>11. CASE LinkRoles(c)
  <2> DEFINE found == req[c].roles \cap (m_role \cup tx[c].roles)
  <2>1. req[c].roles \subseteq Role
    BY <1>11, BoundsAssumption DEF LinkRoles, Step, TypeOK, RememberStep, RememberRequest
  <2>2. [tx[c] EXCEPT !.roleLinks = {tx[c].message} \X found] \in Writes
    <3>1. tx[c] \in Writes
      BY DEF TypeOK
    <3>2. tx[c].message \in Nat /\ found \subseteq Role
      BY <2>1, <3>1 DEF Writes
    <3>3. {tx[c].message} \X found \subseteq Nat \X Role
      BY <3>2
    <3> HIDE DEF found
    <3> QED
      BY <3>1, <3>3 DEF Writes
  <2> QED
    BY <1>11, <2>2, StepType DEF LinkRoles, Write, RememberStep, TypeOK
<1>7. CASE CommitMessage(c)
  <2>1. req[c] \in RememberRequest /\ tx[c] \in Writes
    BY <1>7 DEF CommitMessage, TypeOK, RememberStep
  <2>2. NewMessage(c) \in Message
    BY <2>1 DEF NewMessage, Message, RememberRequest, Writes
  <2>3. /\ DOMAIN t_messages' \subseteq Nat
        /\ \A m \in DOMAIN t_messages' : t_messages'[m] \in Message
    BY <1>7, <2>1, <2>2 DEF CommitMessage, TypeOK, Writes
  <2>4. /\ t_sessions' \subseteq Session
        /\ t_message_topics' \subseteq Nat \X Nat
        /\ m_role' \subseteq Role
        /\ t_message_roles' \subseteq Nat \X Role
    BY <1>7, <2>1 DEF CommitMessage, TypeOK, Writes
  <2> QED
    BY <1>7, <2>3, <2>4, FinishType DEF CommitMessage, TypeOK
<1>8. CASE FindTopic(c)
  <2>1. CASE ~ Rollback(c)
    <3> DEFINE wanted == req[c].add \X {req[c].topic}
    <3>1. req[c] \in UpdateRequest
      BY <1>8, <2>1 DEF FindTopic, Step, TypeOK, UpdateStep
    <3>2. wanted \subseteq Nat \X Nat
      <4>1. req[c].add \in IdList /\ req[c].topic \in 1..MaxTopic
        BY <3>1 DEF UpdateRequest, TopicId
      <4>2. req[c].add \in SUBSET Nat
        BY <4>1, BoundsAssumption, Zenon
      <4>3. req[c].topic \in Nat
        BY <4>1
      <4> QED
        BY <4>2, <4>3
    <3>3. /\ Step(c, "findTopic", "linkMessages") /\ UNCHANGED seq
          /\ Write(c, [tx[c] EXCEPT !.rows = wanted])
      BY <1>8, <2>1 DEF FindTopic
    <3>4. tx[c] \in Writes
      BY DEF TypeOK
    <3> HIDE DEF wanted
    <3>5. [tx[c] EXCEPT !.rows = wanted] \in Writes
      BY <3>2, <3>4, RowsType
    <3> QED
      BY <3>3, <3>5, UpdateStepType DEF UpdateStep
  <2> QED
    BY <2>1, RollbackType
<1>9. CASE LinkMessage(c) \/ UnlinkMessage(c)
  <2>1. PICK l \in tx[c].rows :
           \/ Write(c, [tx[c] EXCEPT !.rows = @ \ {l},
                                     !.links = @ \cup ({l} \ t_message_topics)])
           \/ Write(c, [tx[c] EXCEPT !.rows = @ \ {l},
                                     !.unlinks = @ \cup ({l} \cap t_message_topics)])
    BY <1>9 DEF LinkMessage, UnlinkMessage
  <2>2. tx[c] \in Writes /\ l \in Nat \X Nat
    BY DEF TypeOK, Writes
  <2>3. /\ [tx[c] EXCEPT !.rows = @ \ {l},
                         !.links = @ \cup ({l} \ t_message_topics)] \in Writes
        /\ [tx[c] EXCEPT !.rows = @ \ {l},
                         !.unlinks = @ \cup ({l} \cap t_message_topics)] \in Writes
    BY <2>2 DEF Writes
  <2>4. /\ \/ Step(c, "linkMessages", "linkMessages")
           \/ Step(c, "unlinkMessages", "unlinkMessages")
        /\ UNCHANGED seq
    BY <1>9 DEF LinkMessage, UnlinkMessage
  <2>5. \E rows \in Writes : Write(c, rows)
    BY <2>1, <2>3
  <2> QED
    BY <2>4, <2>5, UpdateStepType DEF UpdateStep
<1>12. CASE LinksChecked(c)
  <2>1. CASE ~ Rollback(c)
    <3> DEFINE doomed == (req[c].remove \X {req[c].topic}) \cap t_message_topics
    <3>1. /\ Step(c, "linkMessages", "unlinkMessages") /\ UNCHANGED seq
          /\ Write(c, [tx[c] EXCEPT !.rows = doomed])
      BY <1>12, <2>1 DEF LinksChecked
    <3>2. tx[c] \in Writes /\ doomed \subseteq Nat \X Nat
      BY DEF TypeOK
    <3> HIDE DEF doomed
    <3>3. [tx[c] EXCEPT !.rows = doomed] \in Writes
      BY <3>2, RowsType
    <3> QED
      BY <3>1, <3>3, UpdateStepType DEF UpdateStep
  <2> QED
    BY <2>1, RollbackType
<1>10. CASE CommitUpdate(c)
  <2>1. t_message_topics' \subseteq Nat \X Nat
    BY <1>10 DEF CommitUpdate, TypeOK, Writes
  <2> QED
    BY <1>10, <2>1, FinishType DEF CommitUpdate, TypeOK
<1> QED
  BY <1>1, <1>2, <1>3, <1>4, <1>5, <1>6, <1>7, <1>8, <1>9, <1>10, <1>11, <1>12
  DEF Proceed

LEMMA TypeStep == TypeOK /\ [Next]_vars => TypeOK'
<1> SUFFICES ASSUME TypeOK, [Next]_vars PROVE TypeOK'
  OBVIOUS
<1>1. CASE UNCHANGED vars
  BY <1>1 DEF vars, tables, TypeOK
<1>2. ASSUME NEW c \in Call, Abort(c) PROVE TypeOK'
  BY <1>2, RollbackType DEF Abort
<1> QED
  BY <1>1, <1>2, ArriveType, ProceedType DEF Next

LEMMA TypeInit == Init => TypeOK
<1>1. NoWrites \in Writes
  BY DEF NoWrites, Writes
<1> QED
  BY <1>1 DEF Init, TypeOK, RememberStep, UpdateStep

(* The tables, the sequences and every call's request and private rows     *)
(* keep their types.                                                       *)
THEOREM TypeCorrect == Spec => []TypeOK
BY TypeInit, TypeStep, PTL DEF Spec

-----------------------------------------------------------------------------
(* The inductive invariant: what the tables and the private rows of every  *)
(* call have to do with each other.                                        *)

Numbered == {"linkTopic", "linkRoles", "commitMessage"}
Sessioned == {"insertMessage"} \cup Numbered
Checked == {"checkTopic", "checkOverlap", "findSession", "insertSession"}
           \cup Sessioned

(* The sources a call has found are stored. *)
SourcesStored(c) ==
    pc[c] \in Checked => req[c].compacted_from \subseteq DOMAIN t_messages

(* The id of its message is its own and newer than every source. *)
IdDrawn(c) ==
    pc[c] \in Numbered => /\ tx[c].message \in 1..seq.message
                          /\ tx[c].message \notin DOMAIN t_messages
                          /\ \A s \in req[c].compacted_from : s < tx[c].message

(* Its session is stored or will be with it, and is the one of its date. *)
SessionFound(c) ==
    pc[c] \in Sessioned => \E s \in t_sessions \cup tx[c].sessions :
                              s.id = tx[c].session /\ s.date = req[c].date

(* The links it is going to commit. *)
LinksReady(c) ==
    /\ pc[c] \in RememberStep \ {"linkRoles", "commitMessage"} => tx[c].links = {}
    /\ pc[c] \in {"linkRoles", "commitMessage"} =>
          \/ req[c].topic = NoTopic /\ tx[c].links = {}
          \/ /\ req[c].topic \in DOMAIN t_topics
             /\ tx[c].links = {<<tx[c].message, req[c].topic>>}
    /\ pc[c] = "findTopic" => tx[c].links = {}
    /\ pc[c] = "linkMessages" =>
          /\ req[c].topic \in DOMAIN t_topics
          /\ tx[c].links \subseteq req[c].add \X {req[c].topic}
          /\ tx[c].rows \subseteq req[c].add \X {req[c].topic}
    /\ pc[c] = "unlinkMessages" =>
          tx[c].links \subseteq (DOMAIN t_messages) \X (DOMAIN t_topics)

RolesReady(c) ==
    /\ pc[c] \in RememberStep \ {"commitMessage"} => tx[c].roleLinks = {}
    /\ pc[c] \in RememberStep \ {"linkRoles", "commitMessage"} => tx[c].names = {}
    /\ pc[c] = "linkRoles" => tx[c].names \subseteq m_role \cup tx[c].roles
    /\ pc[c] = "commitMessage" =>
          /\ tx[c].roleLinks = {tx[c].message} \X req[c].roles
          /\ req[c].roles \subseteq m_role \cup tx[c].roles

NothingWritten(c) == pc[c] = "idle" => tx[c] = NoWrites

CallInv == \A c \in Call : /\ SourcesStored(c) /\ IdDrawn(c) /\ SessionFound(c)
                           /\ LinksReady(c) /\ RolesReady(c) /\ NothingWritten(c)

MessageIds ==
    /\ DOMAIN t_messages \subseteq 1..seq.message
    /\ \A c, d \in Call : (c # d /\ pc[c] \in Numbered /\ pc[d] \in Numbered)
                             => tx[c].message # tx[d].message

(* A session row in a call's hands is new in id and date, or is the stored *)
(* row itself; no two calls hold the same id or date.                      *)
Agree(s, t) == (s.date = t.date \/ s.id = t.id) => s = t

SessionIds ==
    /\ \A s \in t_sessions : s.id <= seq.session
    /\ \A c \in Call : \A s \in tx[c].sessions : s.id <= seq.session
    /\ \A c \in Call : \A s \in tx[c].sessions, t \in t_sessions : Agree(s, t)
    /\ \A c \in Call : \A s, t \in tx[c].sessions : s = t
    /\ \A c, d \in Call : c # d => \A s \in tx[c].sessions, t \in tx[d].sessions :
                                      s.date # t.date /\ s.id # t.id

IInv == /\ TypeOK
        /\ CallInv
        /\ MessageIds
        /\ SessionIds
        /\ OneSessionPerDate
        /\ CompactionWellFounded
        /\ References

-----------------------------------------------------------------------------
(* What every step leaves alone. *)

LEMMA CheckMoves ==
    ASSUME NEW c \in Call, CheckLive(c) \/ CheckTopic(c) \/ CheckOverlap(c)
    PROVE  /\ UNCHANGED <<tables, seq, remembers>>
           /\ \/ Finish(c)
              \/ /\ UNCHANGED <<req, tx>>
                 /\ \E from, to \in RememberStep \ Sessioned :
                       /\ Step(c, from, to)
                       /\ from \notin Checked =>
                             \A m \in req[c].compacted_from : Live(m)
BY DEF CheckLive, CheckTopic, CheckOverlap, Check, Rollback, Step,
       RememberStep, Checked, Sessioned, Numbered

(* One call moves; what the others are doing stays as it is. *)
LEMMA OthersStay ==
    ASSUME NEW c \in Call, Arrive(c) \/ Proceed(c) \/ Abort(c), TypeOK,
           NEW d \in Call \ {c}
    PROVE  pc'[d] = pc[d] /\ req'[d] = req[d] /\ tx'[d] = tx[d]
<1> USE DEF Step, Write, Finish, Rollback
<1>1. CASE Arrive(c)
  BY <1>1 DEF Arrive, Remember, UpdateTopic, CreateTopic, Forget, Edit,
              CloseTopic, ReopenTopic, SetTopic, TypeOK
<1>2. CASE Abort(c)
  BY <1>2 DEF Abort, TypeOK
<1>3. CASE CheckLive(c) \/ CheckTopic(c) \/ CheckOverlap(c)
  BY <1>3, CheckMoves DEF TypeOK
<1>4. CASE FindSession(c)
  BY <1>4 DEF FindSession, TypeOK
<1>5. CASE InsertSession(c)
  BY <1>5 DEF InsertSession, TypeOK
<1>6. CASE InsertMessage(c)
  BY <1>6 DEF InsertMessage, TypeOK
<1>7. CASE LinkTopic(c)
  BY <1>7 DEF LinkTopic, TypeOK
<1>8. CASE InsertRole(c) \/ LinkRoles(c)
  BY <1>8 DEF InsertRole, LinkRoles, TypeOK
<1>9. CASE CommitMessage(c)
  BY <1>9 DEF CommitMessage, TypeOK
<1>10. CASE FindTopic(c) \/ LinksChecked(c)
  BY <1>10 DEF FindTopic, LinksChecked, TypeOK
<1>11. CASE LinkMessage(c) \/ UnlinkMessage(c)
  BY <1>11 DEF LinkMessage, UnlinkMessage, TypeOK
<1>12. CASE CommitUpdate(c)
  BY <1>12 DEF CommitUpdate, TypeOK
<1> QED
  BY <1>1, <1>2, <1>3, <1>4, <1>5, <1>6, <1>7, <1>8, <1>9, <1>10, <1>11, <1>12
  DEF Proceed

(* Only a commit adds a message, and only InsertMessage draws an id. *)
LEMMA TablesGrow ==
    ASSUME NEW c \in Call, Arrive(c) \/ Proceed(c) \/ Abort(c), TypeOK
    PROVE  /\ \/ CommitMessage(c)
              \/ /\ DOMAIN t_messages' = DOMAIN t_messages
                 /\ UNCHANGED <<t_sessions, m_role, t_message_roles>>
           /\ DOMAIN t_topics \subseteq DOMAIN t_topics'
           /\ InsertMessage(c) \/ seq'.message = seq.message
           /\ InsertSession(c) \/ seq'.session = seq.session
<1> USE DEF tables
<1>1. CASE Arrive(c)
  BY <1>1 DEF Arrive, Remember, UpdateTopic, CreateTopic, Forget, Edit,
              CloseTopic, ReopenTopic, SetTopic, TypeOK
<1>2. CASE Abort(c)
  BY <1>2 DEF Abort, Rollback
<1>3. CASE CheckLive(c) \/ CheckTopic(c) \/ CheckOverlap(c)
  BY <1>3, CheckMoves
<1>4. CASE FindSession(c) \/ LinkTopic(c) \/ InsertRole(c) \/ LinkRoles(c)
  BY <1>4 DEF FindSession, LinkTopic, InsertRole, LinkRoles, Write, Rollback
<1>5. CASE InsertSession(c)
  BY <1>5 DEF InsertSession, Write, TypeOK
<1>6. CASE InsertMessage(c)
  BY <1>6 DEF InsertMessage, Write, TypeOK
<1>7. CASE CommitMessage(c)
  BY <1>7 DEF CommitMessage
<1>8. CASE FindTopic(c) \/ LinkMessage(c) \/ LinksChecked(c)
           \/ UnlinkMessage(c) \/ CommitUpdate(c)
  BY <1>8 DEF FindTopic, LinkMessage, LinksChecked, UnlinkMessage, CommitUpdate,
              Write, Rollback
<1> QED
  BY <1>1, <1>2, <1>3, <1>4, <1>5, <1>6, <1>7, <1>8 DEF Proceed

LEMMA TablesOnlyGrow ==
    ASSUME NEW c \in Call, Arrive(c) \/ Proceed(c) \/ Abort(c), TypeOK
    PROVE  /\ DOMAIN t_messages \subseteq DOMAIN t_messages'
           /\ t_sessions \subseteq t_sessions'
           /\ DOMAIN t_topics \subseteq DOMAIN t_topics'
           /\ m_role \subseteq m_role'
           /\ seq'.message \in Nat /\ seq.message <= seq'.message
           /\ seq'.session \in Nat /\ seq.session <= seq'.session
<1>1. /\ InsertMessage(c) => seq'.message = seq.message + 1
      /\ InsertSession(c) => seq'.session = seq.session + 1
  BY DEF InsertMessage, InsertSession, TypeOK
<1>2. CommitMessage(c) => /\ DOMAIN t_messages \subseteq DOMAIN t_messages'
                          /\ t_sessions \subseteq t_sessions'
                          /\ m_role \subseteq m_role'
  BY DEF CommitMessage
<1> QED
  BY <1>1, <1>2, TablesGrow DEF TypeOK

-----------------------------------------------------------------------------
(* The calls that do not move keep their part of the invariant. *)
LEMMA OthersKeep ==
    ASSUME IInv, NEW c \in Call, Arrive(c) \/ Proceed(c) \/ Abort(c),
           NEW d \in Call \ {c}
    PROVE  /\ SourcesStored(d)' /\ IdDrawn(d)' /\ SessionFound(d)'
           /\ LinksReady(d)' /\ RolesReady(d)' /\ NothingWritten(d)'
<1> USE DEF IInv, CallInv
<1>1. pc'[d] = pc[d] /\ req'[d] = req[d] /\ tx'[d] = tx[d]
  BY OthersStay
<1>2. SourcesStored(d)'
  BY <1>1, TablesOnlyGrow DEF SourcesStored
<1>3. pc[d] \in Numbered => tx[d].message \notin DOMAIN t_messages'
  <2>1. CASE CommitMessage(c)
    BY <2>1 DEF CommitMessage, MessageIds, IdDrawn, Numbered
  <2>2. CASE DOMAIN t_messages' = DOMAIN t_messages
    BY <2>2 DEF IdDrawn
  <2> QED
    BY <2>1, <2>2, TablesGrow
<1>4. IdDrawn(d)'
  BY <1>1, <1>3, TablesOnlyGrow DEF IdDrawn, TypeOK
<1>5. SessionFound(d)'
  BY <1>1, TablesOnlyGrow DEF SessionFound
<1>6. LinksReady(d)'
  BY <1>1, TablesOnlyGrow DEF LinksReady
<1>7. RolesReady(d)'
  BY <1>1, TablesOnlyGrow DEF RolesReady
<1>8. NothingWritten(d)'
  BY <1>1 DEF NothingWritten
<1> QED
  BY <1>2, <1>4, <1>5, <1>6, <1>7, <1>8

(* A call that ends, or that only starts. *)
LEMMA FinishKeeps ==
    ASSUME TypeOK, NEW c \in Call, Finish(c)
    PROVE  /\ SourcesStored(c)' /\ IdDrawn(c)' /\ SessionFound(c)'
           /\ LinksReady(c)' /\ RolesReady(c)' /\ NothingWritten(c)'
BY DEF Finish, TypeOK, SourcesStored, IdDrawn, SessionFound, LinksReady,
       RolesReady, NothingWritten, Checked, Sessioned, Numbered, RememberStep,
       UpdateStep

LEMMA ArriveKeeps ==
    ASSUME IInv, NEW c \in Call, Arrive(c)
    PROVE  /\ SourcesStored(c)' /\ IdDrawn(c)' /\ SessionFound(c)'
           /\ LinksReady(c)' /\ RolesReady(c)' /\ NothingWritten(c)'
<1> USE DEF IInv, CallInv
<1>0. NothingWritten(c)
  OBVIOUS
<1>1. ASSUME NEW r \in RememberRequest, Remember(c, r)
      PROVE  /\ pc'[c] \in {"findSession", "checkLive"}
             /\ tx'[c] = NoWrites
             /\ pc'[c] = "findSession" => req'[c].compacted_from = {}
  BY <1>0, <1>1 DEF Remember, Step, TypeOK, NothingWritten
<1>2. ASSUME NEW r \in UpdateRequest, UpdateTopic(c, r)
      PROVE  pc'[c] = "findTopic" /\ tx'[c] = NoWrites
  BY <1>0, <1>2 DEF UpdateTopic, Step, TypeOK, NothingWritten
<1>3. ASSUME ~ \E r \in RememberRequest : Remember(c, r),
             ~ \E r \in UpdateRequest : UpdateTopic(c, r)
      PROVE  pc'[c] = "idle" /\ tx'[c] = NoWrites
  BY <1>0, <1>3 DEF Arrive, CreateTopic, Forget, Edit, CloseTopic, ReopenTopic,
                    SetTopic, NothingWritten
<1>4. \/ /\ pc'[c] \in {"findSession", "checkLive"}
         /\ tx'[c] = NoWrites
         /\ pc'[c] = "findSession" => req'[c].compacted_from = {}
      \/ pc'[c] \in {"findTopic", "idle"} /\ tx'[c] = NoWrites
  BY <1>1, <1>2, <1>3
<1> QED
  BY <1>4 DEF NoWrites, SourcesStored, IdDrawn, SessionFound, LinksReady,
              RolesReady, NothingWritten, Checked, Sessioned, Numbered,
              RememberStep, UpdateStep

LEMMA ProceedKeeps ==
    ASSUME IInv, NEW c \in Call, Proceed(c)
    PROVE  /\ SourcesStored(c)' /\ IdDrawn(c)' /\ SessionFound(c)'
           /\ LinksReady(c)' /\ RolesReady(c)' /\ NothingWritten(c)'
<1> DEFINE Kept == /\ SourcesStored(c)' /\ IdDrawn(c)' /\ SessionFound(c)'
                   /\ LinksReady(c)' /\ RolesReady(c)' /\ NothingWritten(c)'
<1> USE DEF IInv, CallInv
<1>a. /\ SourcesStored(c) /\ IdDrawn(c) /\ SessionFound(c)
      /\ LinksReady(c) /\ RolesReady(c) /\ NothingWritten(c)
  OBVIOUS
<1>b. tx[c] \in Writes /\ req \in [Call -> RememberRequest \cup UpdateRequest \cup {NoRequest}]
  BY DEF TypeOK
<1>1. CASE CheckLive(c) \/ CheckTopic(c) \/ CheckOverlap(c)
  <2>1. CASE Finish(c)
    BY <2>1, FinishKeeps
  <2>2. ASSUME UNCHANGED <<req, tx>>,
               NEW from \in RememberStep \ Sessioned,
               NEW to \in RememberStep \ Sessioned, Step(c, from, to),
               from \notin Checked => \A m \in req[c].compacted_from : Live(m)
        PROVE  Kept
    <3>1. UNCHANGED tables /\ UNCHANGED seq
      BY <1>1, CheckMoves
    <3>2. req[c].compacted_from \subseteq DOMAIN t_messages
      BY <2>2, <1>a DEF SourcesStored, Live, Step
    <3> QED
      BY <2>2, <3>1, <3>2, <1>a
      DEF Step, TypeOK, tables, SourcesStored, IdDrawn, SessionFound, LinksReady,
          RolesReady, NothingWritten, Sessioned, Numbered, RememberStep, UpdateStep
  <2> QED
    BY <1>1, <2>1, <2>2, CheckMoves
<1>2. CASE FindSession(c)
  <2>1. /\ pc[c] = "findSession"
        /\ UNCHANGED <<tables, seq, req>>
    BY <1>2 DEF FindSession, Step, Write
  <2>2. ASSUME NEW s \in t_sessions, s.date = req[c].date,
               Step(c, "findSession", "insertMessage"),
               Write(c, [tx[c] EXCEPT !.session = s.id])
        PROVE  Kept
    <3>1. /\ pc'[c] = "insertMessage"
          /\ tx'[c].session = s.id /\ tx'[c].links = tx[c].links
          /\ tx'[c].roleLinks = tx[c].roleLinks /\ tx'[c].names = tx[c].names
      BY <2>2, <1>b DEF Step, Write, TypeOK, Writes
    <3> QED
      BY <2>1, <2>2, <3>1, <1>a
      DEF tables, SourcesStored, IdDrawn, SessionFound, LinksReady, RolesReady,
          NothingWritten, Checked, Sessioned, Numbered, RememberStep, UpdateStep
  <2>3. CASE Step(c, "findSession", "insertSession") /\ UNCHANGED tx
    <3>1. pc'[c] = "insertSession"
      BY <2>3 DEF Step, TypeOK
    <3> QED
      BY <2>1, <2>3, <3>1, <1>a
      DEF tables, SourcesStored, IdDrawn, SessionFound, LinksReady, RolesReady,
          NothingWritten, Checked, Sessioned, Numbered, RememberStep, UpdateStep
  <2> QED
    BY <1>2, <2>2, <2>3 DEF FindSession
<1>3. CASE InsertSession(c)
  <2>1. /\ pc[c] = "insertSession" /\ pc'[c] = "insertMessage"
        /\ UNCHANGED <<tables, req>>
        /\ tx'[c].links = tx[c].links /\ tx'[c].roleLinks = tx[c].roleLinks
        /\ tx'[c].names = tx[c].names
        /\ \E s \in tx'[c].sessions : s.id = tx'[c].session /\ s.date = req[c].date
    <3>1. PICK s : /\ s.date = req[c].date
                   /\ Write(c, [tx[c] EXCEPT !.session = s.id, !.sessions = {s}])
      BY <1>3 DEF InsertSession
    <3> QED
      BY <1>3, <1>b, <3>1 DEF InsertSession, Step, Write, TypeOK, Writes
  <2> QED
    BY <2>1, <1>a
    DEF tables, SourcesStored, IdDrawn, SessionFound, LinksReady, RolesReady,
        NothingWritten, Checked, Sessioned, Numbered, RememberStep, UpdateStep
<1>4. CASE InsertMessage(c)
  <2>1. /\ pc[c] = "insertMessage" /\ pc'[c] = AfterMessage(req[c])
        /\ UNCHANGED <<tables, req>>
        /\ seq'.message = seq.message + 1 /\ tx'[c].message = seq.message + 1
        /\ tx'[c] = [tx[c] EXCEPT !.message = seq.message + 1]
    BY <1>4, <1>b DEF InsertMessage, Step, Write, TypeOK, Writes
  <2>2. /\ tx'[c].links = tx[c].links /\ tx'[c].roleLinks = tx[c].roleLinks
        /\ tx'[c].session = tx[c].session /\ tx'[c].sessions = tx[c].sessions
        /\ tx'[c].names = tx[c].names
    BY <2>1, <1>b DEF Writes
  <2>3. /\ pc'[c] \in Numbered
        /\ pc'[c] # "linkTopic" => req[c].topic = NoTopic
        /\ pc'[c] = "commitMessage" => req[c].roles = {}
    BY <2>1 DEF AfterMessage, Numbered
  <2>4. tx'[c].message \notin DOMAIN t_messages /\ tx'[c].message \in 1..seq'.message
    BY <2>1 DEF MessageIds, TypeOK
  <2>5. \A s \in req[c].compacted_from : s < tx'[c].message
    BY <2>1, <1>a DEF SourcesStored, Checked, Sessioned, MessageIds, TypeOK
  <2>6. tx[c].links = {} /\ tx[c].roleLinks = {} /\ tx[c].names = {}
    BY <2>1, <1>a DEF LinksReady, RolesReady, RememberStep
  <2> QED
    BY <2>1, <2>2, <2>3, <2>4, <2>5, <2>6, <1>a
    DEF tables, SourcesStored, IdDrawn, SessionFound, LinksReady, RolesReady,
        NothingWritten, Checked, Sessioned, Numbered, RememberStep, UpdateStep
<1>5. CASE LinkTopic(c)
  <2>1. CASE Rollback(c)
    BY <2>1, FinishKeeps DEF Rollback
  <2>2. CASE ~ Rollback(c)
    <3>1. /\ pc[c] = "linkTopic" /\ req[c].topic \in DOMAIN t_topics
          /\ pc'[c] = AfterMessage([req[c] EXCEPT !.topic = NoTopic])
          /\ UNCHANGED <<tables, req, seq>>
          /\ tx'[c] = [tx[c] EXCEPT !.links = {<<tx[c].message, req[c].topic>>}]
      BY <1>5, <2>2 DEF LinkTopic, Step, Write, TypeOK
    <3>2. /\ tx'[c].links = {<<tx[c].message, req[c].topic>>}
          /\ tx'[c].roleLinks = tx[c].roleLinks /\ tx'[c].message = tx[c].message
          /\ tx'[c].session = tx[c].session /\ tx'[c].sessions = tx[c].sessions
          /\ tx'[c].names = tx[c].names
      BY <3>1, <1>b DEF Writes
    <3>3. req[c] \in RememberRequest
      BY <3>1 DEF TypeOK, RememberStep
    <3>4. /\ pc'[c] \in {"linkRoles", "commitMessage"}
          /\ pc'[c] = "commitMessage" => req[c].roles = {}
      BY <3>1, <3>3 DEF AfterMessage, RememberRequest
    <3>5. tx[c].roleLinks = {} /\ tx[c].names = {}
      BY <3>1, <1>a DEF RolesReady, RememberStep
    <3> QED
      BY <3>1, <3>2, <3>4, <3>5, <1>a
      DEF tables, SourcesStored, IdDrawn, SessionFound, LinksReady, RolesReady,
          NothingWritten, Checked, Sessioned, Numbered, RememberStep, UpdateStep
  <2> QED
    BY <2>1, <2>2
<1>6. CASE InsertRole(c)
  <2>1. PICK r \in NamesLeft(c) :
           Write(c, [tx[c] EXCEPT !.names = @ \cup {r},
                                  !.roles = @ \cup ({r} \ m_role)])
    BY <1>6 DEF InsertRole
  <2>2. /\ pc[c] = "linkRoles" /\ pc'[c] = "linkRoles"
        /\ UNCHANGED <<tables, req, seq>>
    BY <1>6, <2>1 DEF InsertRole, Step, Write, TypeOK
  <2>3. /\ tx'[c].links = tx[c].links /\ tx'[c].message = tx[c].message
        /\ tx'[c].session = tx[c].session /\ tx'[c].sessions = tx[c].sessions
        /\ tx'[c].roleLinks = tx[c].roleLinks
        /\ tx'[c].names = tx[c].names \cup {r}
        /\ tx'[c].roles = tx[c].roles \cup ({r} \ m_role)
    BY <2>1, <1>b DEF Write, TypeOK, Writes
  <2> QED
    BY <2>2, <2>3, <1>a
    DEF tables, SourcesStored, IdDrawn, SessionFound, LinksReady, RolesReady,
        NothingWritten, Checked, Sessioned, Numbered, RememberStep, UpdateStep
<1>11. CASE LinkRoles(c)
  <2> DEFINE found == req[c].roles \cap (m_role \cup tx[c].roles)
  <2>1. /\ pc[c] = "linkRoles" /\ pc'[c] = "commitMessage"
        /\ UNCHANGED <<tables, req, seq>>
        /\ tx'[c] = [tx[c] EXCEPT !.roleLinks = {tx[c].message} \X found]
    BY <1>11 DEF LinkRoles, Step, Write, TypeOK
  <2>2. req[c].roles \subseteq m_role \cup tx[c].roles
    BY <1>11, <2>1, <1>a DEF LinkRoles, NamesLeft, RolesReady
  <2>3. /\ tx'[c].links = tx[c].links /\ tx'[c].message = tx[c].message
        /\ tx'[c].session = tx[c].session /\ tx'[c].sessions = tx[c].sessions
        /\ tx'[c].roles = tx[c].roles
        /\ tx'[c].roleLinks = {tx[c].message} \X req[c].roles
    <3>1. found = req[c].roles
      BY <2>2
    <3> QED
      BY <2>1, <3>1, <1>b DEF Writes
  <2> QED
    BY <2>1, <2>2, <2>3, <1>a
    DEF tables, SourcesStored, IdDrawn, SessionFound, LinksReady, RolesReady,
        NothingWritten, Checked, Sessioned, Numbered, RememberStep, UpdateStep
<1>7. CASE CommitMessage(c)
  BY <1>7, FinishKeeps DEF CommitMessage
<1>8. CASE FindTopic(c)
  <2>1. CASE Rollback(c)
    BY <2>1, FinishKeeps DEF Rollback
  <2>2. CASE ~ Rollback(c)
    <3>1. /\ pc[c] = "findTopic" /\ pc'[c] = "linkMessages"
          /\ UNCHANGED <<tables, req, seq>>
          /\ req[c].topic \in DOMAIN t_topics
          /\ tx'[c] = [tx[c] EXCEPT !.rows = req[c].add \X {req[c].topic}]
      BY <1>8, <2>2 DEF FindTopic, Step, Write, TypeOK
    <3>2. /\ tx'[c].links = {}
          /\ tx'[c].rows = req[c].add \X {req[c].topic}
      BY <3>1, <1>a, <1>b DEF Writes, LinksReady
    <3> QED
      BY <3>1, <3>2
      DEF tables, SourcesStored, IdDrawn, SessionFound, LinksReady, RolesReady,
          NothingWritten, Checked, Sessioned, Numbered, RememberStep, UpdateStep
  <2> QED
    BY <2>1, <2>2
<1>9. CASE LinkMessage(c)
  <2>1. PICK l \in tx[c].rows :
           Write(c, [tx[c] EXCEPT !.rows = @ \ {l},
                                  !.links = @ \cup ({l} \ t_message_topics)])
    BY <1>9 DEF LinkMessage
  <2>2. /\ pc[c] = "linkMessages" /\ pc'[c] = "linkMessages"
        /\ UNCHANGED <<tables, req, seq>>
    BY <1>9, <2>1 DEF LinkMessage, Step, Write, TypeOK
  <2>3. /\ tx'[c].rows = tx[c].rows \ {l}
        /\ tx'[c].links = tx[c].links \cup ({l} \ t_message_topics)
    BY <2>1, <1>b DEF Write, TypeOK, Writes
  <2> QED
    BY <2>2, <2>3, <1>a
    DEF tables, SourcesStored, IdDrawn, SessionFound, LinksReady, RolesReady,
        NothingWritten, Checked, Sessioned, Numbered, RememberStep, UpdateStep
<1>12. CASE LinksChecked(c)
  <2>1. CASE Rollback(c)
    BY <2>1, FinishKeeps DEF Rollback
  <2>2. CASE ~ Rollback(c)
    <3>1. /\ pc[c] = "linkMessages" /\ pc'[c] = "unlinkMessages"
          /\ UNCHANGED <<tables, req, seq>>
          /\ req[c].add \subseteq DOMAIN t_messages
          /\ tx'[c].links = tx[c].links
      BY <1>12, <2>2, <1>b DEF LinksChecked, Step, Write, TypeOK, Writes
    <3>2. tx'[c].links \subseteq (DOMAIN t_messages) \X (DOMAIN t_topics)
      BY <3>1, <1>a DEF LinksReady
    <3> QED
      BY <3>1, <3>2
      DEF tables, SourcesStored, IdDrawn, SessionFound, LinksReady, RolesReady,
          NothingWritten, Checked, Sessioned, Numbered, RememberStep, UpdateStep
  <2> QED
    BY <2>1, <2>2
<1>13. CASE UnlinkMessage(c)
  <2>1. /\ pc[c] = "unlinkMessages" /\ pc'[c] = "unlinkMessages"
        /\ UNCHANGED <<tables, req, seq>>
        /\ tx'[c].links = tx[c].links
    BY <1>13, <1>b DEF UnlinkMessage, Step, Write, TypeOK, Writes
  <2> QED
    BY <2>1, <1>a
    DEF tables, SourcesStored, IdDrawn, SessionFound, LinksReady, RolesReady,
        NothingWritten, Checked, Sessioned, Numbered, RememberStep, UpdateStep
<1>10. CASE CommitUpdate(c)
  BY <1>10, FinishKeeps DEF CommitUpdate
<1> QED
  BY <1>1, <1>2, <1>3, <1>4, <1>5, <1>6, <1>7, <1>8, <1>9, <1>10, <1>11, <1>12,
     <1>13
  DEF Proceed

LEMMA CallStep ==
    ASSUME IInv, NEW c \in Call, Arrive(c) \/ Proceed(c) \/ Abort(c)
    PROVE  CallInv'
<1>1. /\ SourcesStored(c)' /\ IdDrawn(c)' /\ SessionFound(c)'
      /\ LinksReady(c)' /\ RolesReady(c)' /\ NothingWritten(c)'
  BY ArriveKeeps, ProceedKeeps, FinishKeeps DEF Abort, Rollback, IInv
<1> QED
  BY <1>1, OthersKeep DEF CallInv

-----------------------------------------------------------------------------
(* The identities. *)

(* An id is only numbered by InsertMessage, which draws a new one. *)
LEMMA NumberedOnce ==
    ASSUME IInv, NEW c \in Call, Arrive(c) \/ Proceed(c) \/ Abort(c),
           pc'[c] \in Numbered
    PROVE  \/ InsertMessage(c) /\ tx'[c].message = seq.message + 1
           \/ pc[c] \in Numbered /\ tx'[c].message = tx[c].message
<1> USE DEF IInv
<1>b. tx[c] \in Writes /\ pc \in [Call -> {"idle"} \cup RememberStep \cup UpdateStep]
      /\ tx \in [Call -> Writes]
  BY DEF TypeOK
<1>1. CASE Arrive(c)
  BY <1>1, <1>b DEF Arrive, Remember, UpdateTopic, CreateTopic, Forget, Edit,
     CloseTopic, ReopenTopic, SetTopic, Step, Numbered
<1>2. CASE Abort(c) \/ CommitMessage(c) \/ CommitUpdate(c)
  BY <1>2, <1>b DEF Abort, Rollback, CommitMessage, CommitUpdate, Finish, Numbered
<1>3. CASE CheckLive(c) \/ CheckTopic(c) \/ CheckOverlap(c)
  <2>1. pc'[c] \in {"idle"} \cup (RememberStep \ Sessioned)
    BY <1>3, <1>b, CheckMoves DEF Step, Finish
  <2> QED
    BY <2>1 DEF Sessioned, Numbered
<1>4. CASE \/ FindSession(c) \/ InsertSession(c)
           \/ FindTopic(c) \/ LinkMessage(c) \/ LinksChecked(c) \/ UnlinkMessage(c)
  BY <1>4, <1>b DEF FindSession, InsertSession, FindTopic, LinkMessage,
     LinksChecked, UnlinkMessage, Step, Rollback, Finish, Numbered
<1>5. CASE InsertMessage(c)
  BY <1>5, <1>b DEF InsertMessage, Write, Writes
<1>6. CASE LinkTopic(c) /\ ~ Rollback(c)
  BY <1>6, <1>b DEF LinkTopic, Write, Step, Writes, Numbered
<1>7. CASE LinkTopic(c) /\ Rollback(c)
  BY <1>7, <1>b DEF Rollback, Finish, Numbered
<1>8. CASE LinkRoles(c)
  BY <1>8, <1>b DEF LinkRoles, Write, Step, Writes, Numbered
<1>9. CASE InsertRole(c)
  <2>1. PICK r \in NamesLeft(c) :
           Write(c, [tx[c] EXCEPT !.names = @ \cup {r},
                                  !.roles = @ \cup ({r} \ m_role)])
    BY <1>9 DEF InsertRole
  <2>2. tx'[c].message = tx[c].message
    BY <2>1, <1>b DEF Write, Writes
  <2>3. pc[c] = "linkRoles"
    BY <1>9 DEF InsertRole, Step
  <2> QED
    BY <2>2, <2>3 DEF Numbered
<1> QED
  BY <1>1, <1>2, <1>3, <1>4, <1>5, <1>6, <1>7, <1>8, <1>9 DEF Proceed

LEMMA MessageIdsStep ==
    ASSUME IInv, NEW c \in Call, Arrive(c) \/ Proceed(c) \/ Abort(c)
    PROVE  MessageIds'
<1> USE DEF IInv
<1>1. DOMAIN t_messages' \subseteq 1..seq'.message
  <2>1. CASE CommitMessage(c)
    BY <2>1 DEF CommitMessage, MessageIds, CallInv, IdDrawn, Numbered
  <2>2. CASE DOMAIN t_messages' = DOMAIN t_messages
    BY <2>2, TablesOnlyGrow DEF MessageIds, TypeOK
  <2> QED
    BY <2>1, <2>2, TablesGrow
<1>2. ASSUME NEW d \in Call, d # c, pc'[c] \in Numbered, pc'[d] \in Numbered
      PROVE  tx'[c].message # tx'[d].message
  <2>1. pc[d] \in Numbered /\ tx'[d].message = tx[d].message
    BY <1>2, OthersStay
  <2>2. tx[d].message \in 1..seq.message
    BY <2>1 DEF CallInv, IdDrawn
  <2> QED
    BY <1>2, <2>1, <2>2, NumberedOnce DEF MessageIds, TypeOK
<1>3. ASSUME NEW d \in Call, NEW e \in Call, d # e, d # c, e # c,
             pc'[d] \in Numbered, pc'[e] \in Numbered
      PROVE  tx'[d].message # tx'[e].message
  BY <1>3, OthersStay DEF MessageIds
<1> QED
  BY <1>1, <1>2, <1>3 DEF MessageIds

(* Which rows a call holds changes in InsertSession only, or at its end. *)
LEMMA SessionsHeld ==
    ASSUME IInv, NEW c \in Call, Arrive(c) \/ Proceed(c) \/ Abort(c),
           ~ InsertSession(c)
    PROVE  tx'[c].sessions \in {{}, tx[c].sessions}
<1> USE DEF IInv
<1>b. tx[c] \in Writes /\ tx \in [Call -> Writes]
  BY DEF TypeOK
<1>1. CASE Arrive(c)
  BY <1>1 DEF Arrive, Remember, UpdateTopic, CreateTopic, Forget, Edit,
     CloseTopic, ReopenTopic, SetTopic
<1>2. ASSUME Finish(c) PROVE tx'[c].sessions = {}
  BY <1>2, <1>b DEF Finish, NoWrites
<1>3. CASE Abort(c) \/ CommitMessage(c) \/ CommitUpdate(c)
  BY <1>2, <1>3 DEF Abort, Rollback, CommitMessage, CommitUpdate
<1>4. CASE CheckLive(c) \/ CheckTopic(c) \/ CheckOverlap(c)
  BY <1>2, <1>4, CheckMoves
<1>5. CASE FindSession(c)
  BY <1>5, <1>b DEF FindSession, Write, Writes
<1>6. CASE InsertMessage(c)
  BY <1>6, <1>b DEF InsertMessage, Write, Writes
<1>7. CASE LinkTopic(c)
  BY <1>2, <1>7, <1>b DEF LinkTopic, Rollback, Write, Writes
<1>8. CASE InsertRole(c)
  BY <1>8, <1>b DEF InsertRole, Write, Writes
<1>11. CASE LinkRoles(c)
  BY <1>11, <1>b DEF LinkRoles, Write, Writes
<1>9. CASE FindTopic(c)
  BY <1>2, <1>9, <1>b DEF FindTopic, Rollback, Write, Writes
<1>12. CASE LinksChecked(c)
  BY <1>2, <1>12, <1>b DEF LinksChecked, Rollback, Write, Writes
<1>10. CASE LinkMessage(c)
  BY <1>10, <1>b DEF LinkMessage, Write, Writes
<1>13. CASE UnlinkMessage(c)
  BY <1>13, <1>b DEF UnlinkMessage, Write, Writes
<1> QED
  BY <1>1, <1>3, <1>4, <1>5, <1>6, <1>7, <1>8, <1>9, <1>10, <1>11, <1>12, <1>13
  DEF Proceed

LEMMA SessionIdsStep ==
    ASSUME IInv, NEW c \in Call, Arrive(c) \/ Proceed(c) \/ Abort(c)
    PROVE  SessionIds' /\ OneSessionPerDate'
<1> USE DEF IInv
<1>0. /\ \A s \in t_sessions : s.id \in Nat
      /\ \A d \in Call : \A s \in tx[d].sessions : s.id \in Nat
      /\ seq.session \in Nat
  BY DEF TypeOK, Session, Writes
<1>1. \A d \in Call \ {c} : tx'[d].sessions = tx[d].sessions
  BY OthersStay
<1>2. seq'.session \in Nat /\ seq.session <= seq'.session
  BY TablesOnlyGrow
<1>3. CASE InsertSession(c)
  <2>1. UNCHANGED t_sessions
    BY <1>3 DEF InsertSession, Write, tables
  <2>2. \A o \in Call \ {c} : \A s \in tx[o].sessions : s.date # req[c].date
    BY <1>3 DEF InsertSession, SessionLocked
  <2>3. PICK s : /\ tx'[c].sessions = {s}
                 /\ s.date = req[c].date
                 /\ s.id <= seq'.session
                 /\ \/ s \in t_sessions
                    \/ s.id = seq.session + 1 /\ \A t \in t_sessions : t.date # s.date
    <3>1. seq'.session = seq.session + 1
      BY <1>3 DEF InsertSession, TypeOK
    <3>2. PICK s : /\ Write(c, [tx[c] EXCEPT !.session = s.id, !.sessions = {s}])
                   /\ s.date = req[c].date
                   /\ \/ s \in t_sessions
                      \/ /\ s.id = seq.session + 1
                         /\ \A t \in t_sessions : t.date # s.date
      <4> DEFINE Held(s) ==
            Write(c, [tx[c] EXCEPT !.session = s.id, !.sessions = {s}])
      <4>1. CASE \E s \in t_sessions : s.date = req[c].date /\ Held(s)
        BY <4>1
      <4>2. ASSUME \A s \in t_sessions : s.date # req[c].date,
                   Held([id |-> seq.session + 1, date |-> req[c].date])
            PROVE  \E s : /\ Held(s) /\ s.date = req[c].date
                          /\ s.id = seq.session + 1
                          /\ \A t \in t_sessions : t.date # s.date
        <5> DEFINE s == [id |-> seq.session + 1, date |-> req[c].date]
        <5>1. s.id = seq.session + 1 /\ s.date = req[c].date
          OBVIOUS
        <5> HIDE DEF s, Held
        <5>2. Held(s)
          BY <4>2 DEF s
        <5> QED
          BY <4>2, <5>1, <5>2
      <4> QED
        BY <1>3, <4>1, <4>2 DEF InsertSession
    <3>3. tx'[c].sessions = {s}
      BY <3>2 DEF Write, TypeOK, Writes
    <3>4. s.id <= seq'.session
      BY <1>0, <3>1, <3>2 DEF SessionIds
    <3> QED
      BY <3>2, <3>3, <3>4
  <2>4. ASSUME NEW d \in Call \ {c}, NEW t \in tx[d].sessions
        PROVE  s.date # t.date /\ s.id # t.id
    <3>1. s.date # t.date
      BY <2>2, <2>3
    <3>2. CASE s \in t_sessions
      BY <3>1, <3>2 DEF SessionIds, Agree
    <3>3. CASE s.id = seq.session + 1
      BY <1>0, <3>1, <3>3 DEF SessionIds
    <3> QED
      BY <2>3, <3>2, <3>3
  <2>5. \A t \in t_sessions : Agree(s, t)
    BY <1>0, <2>3 DEF SessionIds, OneSessionPerDate, Agree
  <2>6. SessionIds'
    <3>1. \A t \in t_sessions' : t.id <= seq'.session
      BY <1>0, <1>2, <2>1 DEF SessionIds
    <3>2. \A d \in Call : \A t \in tx'[d].sessions : t.id <= seq'.session
      BY <1>0, <1>1, <1>2, <2>3 DEF SessionIds
    <3>3. \A d \in Call : \A t \in tx'[d].sessions, u \in t_sessions' : Agree(t, u)
      BY <1>1, <2>1, <2>3, <2>5 DEF SessionIds
    <3>4. \A d \in Call : \A t, u \in tx'[d].sessions : t = u
      BY <1>1, <2>3 DEF SessionIds
    <3>5. \A d, e \in Call : d # e => \A t \in tx'[d].sessions, u \in tx'[e].sessions :
                                         t.date # u.date /\ t.id # u.id
      BY <1>1, <2>3, <2>4 DEF SessionIds
    <3> QED
      BY <3>1, <3>2, <3>3, <3>4, <3>5 DEF SessionIds, Agree
  <2> QED
    BY <2>1, <2>6 DEF OneSessionPerDate
<1>4. CASE ~ InsertSession(c)
  <2>1. tx'[c].sessions \subseteq tx[c].sessions
    BY <1>4, SessionsHeld
  <2>2. \A d \in Call : tx'[d].sessions \subseteq tx[d].sessions
    BY <1>1, <2>1
  <2>3. CASE UNCHANGED t_sessions
    <3>1. \A s \in t_sessions' : s.id <= seq'.session
      BY <1>0, <1>2, <2>3 DEF SessionIds
    <3>2. \A d \in Call : \A s \in tx'[d].sessions : s.id <= seq'.session
      BY <1>0, <1>2, <2>2 DEF SessionIds
    <3> QED
      BY <2>2, <2>3, <3>1, <3>2 DEF SessionIds, OneSessionPerDate, Agree
  <2>4. CASE CommitMessage(c)
    <3>1. t_sessions' = t_sessions \cup tx[c].sessions /\ tx'[c].sessions = {}
      BY <2>4 DEF CommitMessage, Finish, NoWrites, TypeOK
    <3>2. \A s \in t_sessions' : s.id <= seq'.session
      BY <1>0, <1>2, <3>1 DEF SessionIds
    <3>3. \A d \in Call : \A s \in tx'[d].sessions : s.id <= seq'.session
      BY <1>0, <1>2, <2>2 DEF SessionIds
    <3>4. \A d \in Call : \A s \in tx'[d].sessions, t \in t_sessions' : Agree(s, t)
      <4> TAKE d \in Call
      <4> TAKE s \in tx'[d].sessions, t \in t_sessions'
      <4>1. d # c /\ s \in tx[d].sessions
        BY <1>1, <3>1
      <4> QED
        BY <3>1, <4>1 DEF SessionIds, Agree
    <3>5. OneSessionPerDate'
      BY <3>1 DEF SessionIds, OneSessionPerDate, Agree
    <3> QED
      BY <2>2, <3>2, <3>3, <3>4, <3>5 DEF SessionIds, Agree
  <2> QED
    BY <2>3, <2>4, TablesGrow
<1> QED
  BY <1>3, <1>4

-----------------------------------------------------------------------------
(* The rows. *)

(* A stored message keeps its session and its sources, and everything once *)
(* it is forgotten.                                                        *)
LEMMA RowsKeep ==
    ASSUME IInv, NEW c \in Call, Arrive(c) \/ Proceed(c) \/ Abort(c),
           NEW m \in DOMAIN t_messages
    PROVE  /\ m \in DOMAIN t_messages'
           /\ t_messages[m].is_deleted => t_messages'[m] = t_messages[m]
           /\ t_messages'[m].session = t_messages[m].session
           /\ t_messages'[m].compacted_from = t_messages[m].compacted_from
<1> USE DEF IInv
<1>0. m \in DOMAIN t_messages' /\ t_messages[m] \in Message
  BY TablesOnlyGrow DEF TypeOK
<1>1. CASE UNCHANGED t_messages
  BY <1>0, <1>1
<1>2. ASSUME NEW n \in MessageId, Forget(c, n)
      PROVE  \/ t_messages'[m] = t_messages[m]
             \/ /\ ~ t_messages[m].is_deleted
                /\ t_messages'[m] = [t_messages[m] EXCEPT !.is_deleted = TRUE]
  BY <1>2 DEF Forget, Live
<1>3. ASSUME NEW n \in MessageId, NEW text \in Content, Edit(c, n, text)
      PROVE  \/ t_messages'[m] = t_messages[m]
             \/ /\ ~ t_messages[m].is_deleted
                /\ t_messages'[m] = [t_messages[m] EXCEPT !.content = text]
  BY <1>3 DEF Edit, Live
<1>4. ASSUME CommitMessage(c) PROVE t_messages'[m] = t_messages[m]
  <2>1. tx[c].message \notin DOMAIN t_messages
    BY <1>4 DEF CommitMessage, CallInv, IdDrawn, Numbered
  <2> QED
    BY <1>4, <2>1 DEF CommitMessage
<1>5. \/ UNCHANGED t_messages
      \/ \E n \in MessageId : Forget(c, n)
      \/ \E n \in MessageId, text \in Content : Edit(c, n, text)
      \/ CommitMessage(c)
  <2>1. CASE Arrive(c)
    BY <2>1 DEF Arrive, Remember, UpdateTopic, CreateTopic, CloseTopic,
       ReopenTopic, SetTopic, tables
  <2>2. CASE CheckLive(c) \/ CheckTopic(c) \/ CheckOverlap(c)
    BY <2>2, CheckMoves DEF tables
  <2>3. CASE Proceed(c) /\ ~ (CheckLive(c) \/ CheckTopic(c) \/ CheckOverlap(c))
    BY <2>3 DEF Proceed, FindSession, InsertSession, InsertMessage, LinkTopic,
       InsertRole, LinkRoles, FindTopic, LinkMessage, LinksChecked,
       UnlinkMessage, CommitUpdate, Write, Rollback, tables
  <2>4. CASE Abort(c)
    BY <2>4 DEF Abort, Rollback, tables
  <2> QED
    BY <2>1, <2>2, <2>3, <2>4
<1> QED
  BY <1>0, <1>1, <1>2, <1>3, <1>4, <1>5 DEF Message

(* The row a commit adds. *)
LEMMA RowAdded ==
    ASSUME IInv, NEW c \in Call, Arrive(c) \/ Proceed(c) \/ Abort(c),
           NEW m \in DOMAIN t_messages' \ DOMAIN t_messages
    PROVE  /\ CommitMessage(c)
           /\ m = tx[c].message
           /\ t_messages'[m] = NewMessage(c)
           /\ t_messages'[m].session = tx[c].session
           /\ t_messages'[m].compacted_from = req[c].compacted_from
<1>1. CommitMessage(c)
  BY TablesGrow DEF IInv
<1>2. m = tx[c].message
  BY <1>1 DEF CommitMessage
<1>3. t_messages'[m] = NewMessage(c)
  BY <1>1, <1>2 DEF CommitMessage
<1> QED
  BY <1>1, <1>2, <1>3 DEF NewMessage

LEMMA CompactionStep ==
    ASSUME IInv, NEW c \in Call, Arrive(c) \/ Proceed(c) \/ Abort(c)
    PROVE  CompactionWellFounded'
<1> USE DEF IInv
<1> SUFFICES ASSUME NEW m \in DOMAIN t_messages',
                    NEW s \in t_messages'[m].compacted_from
             PROVE  s \in DOMAIN t_messages' /\ s < m
  BY DEF CompactionWellFounded
<1>1. CASE m \in DOMAIN t_messages
  BY <1>1, RowsKeep, TablesOnlyGrow DEF CompactionWellFounded
<1>2. CASE m \notin DOMAIN t_messages
  <2>1. /\ CommitMessage(c)
        /\ m = tx[c].message
        /\ s \in req[c].compacted_from
    BY <1>2, RowAdded
  <2>2. s \in DOMAIN t_messages /\ s < m
    BY <2>1 DEF CommitMessage, CallInv, SourcesStored, IdDrawn, Checked,
                Sessioned, Numbered
  <2> QED
    BY <2>2, TablesOnlyGrow
<1> QED
  BY <1>1, <1>2

LEMMA ReferencesStep ==
    ASSUME IInv, NEW c \in Call, Arrive(c) \/ Proceed(c) \/ Abort(c)
    PROVE  References'
<1> USE DEF IInv
<1>1. ASSUME NEW m \in DOMAIN t_messages'
      PROVE  \E s \in t_sessions' : s.id = t_messages'[m].session
  <2>1. CASE m \in DOMAIN t_messages
    BY <2>1, RowsKeep, TablesOnlyGrow DEF References
  <2>2. CASE m \notin DOMAIN t_messages
    <3>1. CommitMessage(c) /\ t_messages'[m].session = tx[c].session
      BY <2>2, RowAdded
    <3>2. t_sessions' = t_sessions \cup tx[c].sessions
      BY <3>1 DEF CommitMessage
    <3> QED
      BY <3>1, <3>2 DEF CommitMessage, CallInv, SessionFound, Sessioned, Numbered
  <2> QED
    BY <2>1, <2>2
<1>2. ASSUME NEW l \in t_message_topics'
      PROVE  l[1] \in DOMAIN t_messages' /\ l[2] \in DOMAIN t_topics'
  <2>1. CASE l \in t_message_topics
    BY <2>1, TablesOnlyGrow DEF References
  <2>2. CASE CommitMessage(c) /\ l \in tx[c].links
    <3>1. /\ l = <<tx[c].message, req[c].topic>>
          /\ req[c].topic \in DOMAIN t_topics
      BY <2>2 DEF CommitMessage, CallInv, LinksReady
    <3>2. tx[c].message \in DOMAIN t_messages'
      BY <2>2 DEF CommitMessage
    <3> QED
      BY <3>1, <3>2, TablesOnlyGrow
  <2>3. CASE CommitUpdate(c) /\ l \in tx[c].links
    <3>1. l \in (DOMAIN t_messages) \X (DOMAIN t_topics)
      BY <2>3 DEF CommitUpdate, CallInv, LinksReady, UpdateStep
    <3> QED
      BY <3>1, TablesOnlyGrow
  <2>4. ASSUME NEW ms \in IdList, CreateTopic(c, ms), l \notin t_message_topics
        PROVE  l[1] \in DOMAIN t_messages' /\ l[2] \in DOMAIN t_topics'
    <3>1. /\ ms \subseteq DOMAIN t_messages
          /\ l \in ms \X {seq.topic + 1}
          /\ DOMAIN t_topics' = DOMAIN t_topics \cup {seq.topic + 1}
          /\ UNCHANGED t_messages
      BY <2>4 DEF CreateTopic
    <3> QED
      BY <3>1
  <2>5. \/ t_message_topics' \subseteq t_message_topics
        \/ CommitMessage(c) /\ t_message_topics' = t_message_topics \cup tx[c].links
        \/ CommitUpdate(c) /\ t_message_topics' \subseteq t_message_topics \cup tx[c].links
        \/ \E ms \in IdList : CreateTopic(c, ms)
    <3>1. CASE Arrive(c)
      BY <3>1 DEF Arrive, Remember, UpdateTopic, Forget, Edit, CloseTopic,
         ReopenTopic, SetTopic, tables
    <3>2. CASE CheckLive(c) \/ CheckTopic(c) \/ CheckOverlap(c)
      BY <3>2, CheckMoves DEF tables
    <3>3. CASE CommitMessage(c) \/ CommitUpdate(c)
      BY <3>3 DEF CommitMessage, CommitUpdate
    <3>4. CASE \/ FindSession(c) \/ InsertSession(c) \/ InsertMessage(c)
               \/ LinkTopic(c) \/ InsertRole(c) \/ LinkRoles(c)
               \/ FindTopic(c) \/ LinkMessage(c) \/ LinksChecked(c)
               \/ UnlinkMessage(c) \/ Abort(c)
      BY <3>4 DEF FindSession, InsertSession, InsertMessage, LinkTopic,
         InsertRole, LinkRoles, FindTopic, LinkMessage, LinksChecked,
         UnlinkMessage, Abort, Write, Rollback, tables
    <3> QED
      BY <3>1, <3>2, <3>3, <3>4 DEF Proceed
  <2> QED
    BY <2>1, <2>2, <2>3, <2>4, <2>5
<1>3. ASSUME NEW l \in t_message_roles'
      PROVE  l[1] \in DOMAIN t_messages' /\ l[2] \in m_role'
  <2>1. CASE l \in t_message_roles
    BY <2>1, TablesOnlyGrow DEF References
  <2>2. CASE l \notin t_message_roles
    <3>1. CommitMessage(c)
      BY <2>2, TablesGrow
    <3>2. /\ l \in {tx[c].message} \X req[c].roles
          /\ req[c].roles \subseteq m_role'
          /\ tx[c].message \in DOMAIN t_messages'
      BY <2>2, <3>1 DEF CommitMessage, CallInv, RolesReady
    <3> QED
      BY <3>2
  <2> QED
    BY <2>1, <2>2
<1> QED
  BY <1>1, <1>2, <1>3 DEF References

-----------------------------------------------------------------------------
LEMMA InvariantInit == Init => IInv
<1> SUFFICES ASSUME Init PROVE IInv
  OBVIOUS
<1>1. CallInv
  BY DEF Init, CallInv, SourcesStored, IdDrawn, SessionFound, LinksReady,
         RolesReady, NothingWritten, Checked, Sessioned, Numbered, RememberStep,
         UpdateStep
<1>2. MessageIds /\ CompactionWellFounded
  BY DEF Init, MessageIds, CompactionWellFounded, Numbered
<1>3. SessionIds /\ OneSessionPerDate
  BY DEF Init, SessionIds, OneSessionPerDate, NoWrites
<1>4. References
  BY DEF Init, References
<1> QED
  BY <1>1, <1>2, <1>3, <1>4, TypeInit DEF IInv

LEMMA InvariantStep == IInv /\ [Next]_vars => IInv'
<1> SUFFICES ASSUME IInv, [Next]_vars PROVE IInv'
  OBVIOUS
<1>0. TypeOK'
  BY TypeStep DEF IInv
<1>1. CASE UNCHANGED vars
  <2>1. CallInv'
    BY <1>1 DEF IInv, vars, tables, CallInv, SourcesStored, IdDrawn, SessionFound,
                LinksReady, RolesReady, NothingWritten
  <2>2. MessageIds' /\ CompactionWellFounded' /\ References'
    BY <1>1 DEF IInv, vars, tables, MessageIds, CompactionWellFounded, References
  <2>3. SessionIds' /\ OneSessionPerDate'
    BY <1>1 DEF IInv, vars, tables, SessionIds, OneSessionPerDate, Agree
  <2> QED
    BY <1>0, <2>1, <2>2, <2>3 DEF IInv
<1>2. ASSUME NEW c \in Call, Arrive(c) \/ Proceed(c) \/ Abort(c) PROVE IInv'
  BY <1>0, <1>2, CallStep, MessageIdsStep, SessionIdsStep, CompactionStep,
     ReferencesStep DEF IInv
<1> QED
  BY <1>1, <1>2 DEF Next

LEMMA Invariant == Spec => []IInv
BY InvariantInit, InvariantStep, PTL DEF Spec

(* A compaction only names stored and older messages: no dangling source,  *)
(* no cycle, whatever compactions run beside each other.                   *)
THEOREM WellFounded == Spec => []CompactionWellFounded
<1>1. IInv => CompactionWellFounded
  BY DEF IInv
<1> QED
  BY Invariant, <1>1, PTL

(* findOrCreateSession makes one session per date in any number of         *)
(* concurrent transactions.                                                *)
THEOREM OneSession == Spec => []OneSessionPerDate
<1>1. IInv => OneSessionPerDate
  BY DEF IInv
<1> QED
  BY Invariant, <1>1, PTL

(* No foreign key dangles at any commit. *)
THEOREM Referential == Spec => []References
<1>1. IInv => References
  BY DEF IInv
<1> QED
  BY Invariant, <1>1, PTL

(* Messages are never removed and a forgotten one never changes.           *)
THEOREM Persistence == Spec => MessagesPersist
<1>1. IInv /\ [Next]_vars =>
        [\A m \in DOMAIN t_messages :
           /\ m \in DOMAIN t_messages'
           /\ t_messages[m].is_deleted => t_messages'[m] = t_messages[m]
           /\ t_messages'[m].session = t_messages[m].session
           /\ t_messages'[m].compacted_from = t_messages[m].compacted_from]_vars
  BY RowsKeep DEF Next
<1> QED
  BY Invariant, <1>1, PTL DEF Spec, MessagesPersist

(* The step that inserts a message is the commit of one remember call, and *)
(* it makes the session, the topic link and the role links visible too.    *)
LEMMA WholeRow ==
    ASSUME IInv, NEW c \in Call, Arrive(c) \/ Proceed(c) \/ Abort(c),
           NEW m \in DOMAIN t_messages' \ DOMAIN t_messages
    PROVE  /\ tx[c].message = m
           /\ t_messages'[m].compacted_from = req[c].compacted_from
           /\ \E s \in t_sessions' : s.id = t_messages'[m].session
                                     /\ s.date = req[c].date
           /\ req[c].topic # NoTopic => <<m, req[c].topic>> \in t_message_topics'
           /\ {m} \X req[c].roles \subseteq t_message_roles'
<1>1. /\ CommitMessage(c) /\ tx[c].message = m
      /\ t_messages'[m].session = tx[c].session
      /\ t_messages'[m].compacted_from = req[c].compacted_from
  BY RowAdded
<1>2. /\ pc[c] = "commitMessage"
      /\ t_sessions' = t_sessions \cup tx[c].sessions
      /\ t_message_topics' = t_message_topics \cup tx[c].links
      /\ t_message_roles' = t_message_roles \cup tx[c].roleLinks
  BY <1>1 DEF CommitMessage
<1>3. SessionFound(c) /\ LinksReady(c) /\ RolesReady(c)
  BY DEF IInv, CallInv
<1>4. \E s \in t_sessions' : s.id = t_messages'[m].session /\ s.date = req[c].date
  BY <1>1, <1>2, <1>3 DEF SessionFound, Sessioned, Numbered
<1>5. req[c].topic # NoTopic => <<m, req[c].topic>> \in t_message_topics'
  BY <1>1, <1>2, <1>3 DEF LinksReady
<1>6. {m} \X req[c].roles \subseteq t_message_roles'
  BY <1>1, <1>2, <1>3 DEF RolesReady
<1> QED
  BY <1>1, <1>4, <1>5, <1>6

(* A message is saved with its session, its topic and all its roles, or    *)
(* not at all: the INSERTs of one remember commit together.                *)
THEOREM AllOrNothing == Spec => SavedWhole
<1>1. IInv /\ [Next]_vars =>
        [\A m \in DOMAIN t_messages' \ DOMAIN t_messages : \E c \in Call :
           /\ tx[c].message = m
           /\ t_messages'[m].compacted_from = req[c].compacted_from
           /\ \E s \in t_sessions' : s.id = t_messages'[m].session
                                     /\ s.date = req[c].date
           /\ req[c].topic # NoTopic => <<m, req[c].topic>> \in t_message_topics'
           /\ {m} \X req[c].roles \subseteq t_message_roles']_vars
  BY WholeRow DEF Next
<1> QED
  BY Invariant, <1>1, PTL DEF Spec, SavedWhole

-----------------------------------------------------------------------------
(* Double compaction: the sources a call has found free stay free for it   *)
(* as long as nobody with a common source is past the check as well.       *)
StillFree == \A c \in Compacting : ~ AlreadyCompacted(req[c].compacted_from)

(* Who is past the overlap check was there before, or has just passed it.  *)
LEMMA PassingTheCheck ==
    ASSUME IInv, NEW c \in Call, Arrive(c) \/ Proceed(c) \/ Abort(c),
           c \in Compacting'
    PROVE  /\ req'[c] = req[c]
           /\ UNCHANGED t_messages
           /\ c \in Compacting \/ ~ AlreadyCompacted(req[c].compacted_from)
<1> USE DEF IInv
<1>b. /\ pc \in [Call -> {"idle"} \cup RememberStep \cup UpdateStep]
      /\ req \in [Call -> RememberRequest \cup UpdateRequest \cup {NoRequest}]
  BY DEF TypeOK
<1>0. ~ Finish(c)
  BY <1>b DEF Finish, Compacting
<1>1. CASE Arrive(c)
  BY <1>1, <1>b DEF Arrive, Remember, UpdateTopic, CreateTopic, Forget, Edit,
     CloseTopic, ReopenTopic, SetTopic, Step, Compacting
<1>2. CASE CheckLive(c) \/ CheckTopic(c)
  BY <1>0, <1>2, <1>b DEF CheckLive, CheckTopic, Check, Rollback, Step, Compacting
<1>3. CASE CheckOverlap(c)
  BY <1>0, <1>3 DEF CheckOverlap, Check, Rollback, tables
<1>4. CASE \/ FindSession(c) \/ InsertSession(c) \/ InsertMessage(c)
           \/ LinkTopic(c) \/ InsertRole(c) \/ LinkRoles(c)
  BY <1>0, <1>4 DEF FindSession, InsertSession, InsertMessage, LinkTopic,
     InsertRole, LinkRoles, Write, Rollback, Step, tables, Compacting
<1>5. CASE CommitMessage(c) \/ CommitUpdate(c) \/ Abort(c)
  BY <1>0, <1>5 DEF CommitMessage, CommitUpdate, Abort, Rollback
<1>6. CASE FindTopic(c) \/ LinkMessage(c) \/ LinksChecked(c) \/ UnlinkMessage(c)
  BY <1>0, <1>6, <1>b DEF FindTopic, LinkMessage, LinksChecked, UnlinkMessage,
     Rollback, Step, Compacting
<1> QED
  BY <1>1, <1>2, <1>3, <1>4, <1>5, <1>6 DEF Proceed

(* What is in a compaction after a step was before it, or was committed.   *)
LEMMA CompactedGrows ==
    ASSUME IInv, NEW c \in Call, Arrive(c) \/ Proceed(c) \/ Abort(c),
           NEW m \in DOMAIN t_messages'
    PROVE  \/ /\ m \in DOMAIN t_messages
              /\ t_messages'[m].compacted_from = t_messages[m].compacted_from
           \/ /\ m \notin DOMAIN t_messages /\ m = tx[c].message
              /\ t_messages'[m].compacted_from = req[c].compacted_from
              /\ CommitMessage(c)
BY RowsKeep, RowAdded

LEMMA SerialStep ==
    IInv /\ SerialCompaction /\ StillFree /\ NoDoubleCompaction /\ [Next]_vars
        => StillFree' /\ NoDoubleCompaction'
<1> SUFFICES ASSUME IInv, SerialCompaction, StillFree, NoDoubleCompaction, [Next]_vars
             PROVE  StillFree' /\ NoDoubleCompaction'
  OBVIOUS
<1>1. CASE UNCHANGED vars
  BY <1>1 DEF vars, tables, StillFree, NoDoubleCompaction, Compacting, AlreadyCompacted
<1>2. ASSUME NEW c \in Call, Arrive(c) \/ Proceed(c) \/ Abort(c)
      PROVE  StillFree' /\ NoDoubleCompaction'
  <2>1. CommitMessage(c) => c \in Compacting \/ req[c].compacted_from = {}
    BY DEF CommitMessage, Compacting
  <2>2. NoDoubleCompaction'
    <3> SUFFICES ASSUME NEW m \in DOMAIN t_messages', NEW n \in DOMAIN t_messages',
                        m # n
                 PROVE  t_messages'[m].compacted_from \cap
                        t_messages'[n].compacted_from = {}
      BY DEF NoDoubleCompaction
    <3>1. ASSUME NEW x \in DOMAIN t_messages, CommitMessage(c)
          PROVE  t_messages[x].compacted_from \cap req[c].compacted_from = {}
      BY <2>1, <3>1 DEF StillFree, AlreadyCompacted
    <3> QED
      BY <1>2, <3>1, CompactedGrows DEF NoDoubleCompaction
  <2>3. StillFree'
    <3> SUFFICES ASSUME NEW d \in Compacting', NEW m \in DOMAIN t_messages'
                 PROVE  t_messages'[m].compacted_from \cap
                        req'[d].compacted_from = {}
      BY DEF StillFree, AlreadyCompacted
    <3>1. d \in Call
      BY DEF Compacting
    <3>2. CASE d = c
      BY <1>2, <3>2, PassingTheCheck DEF StillFree, AlreadyCompacted
    <3>3. CASE d # c
      <4>1. d \in Compacting /\ req'[d] = req[d]
        BY <1>2, <3>1, <3>3, OthersStay DEF Compacting, IInv
      <4>2. CommitMessage(c) =>
               req[c].compacted_from \cap req[d].compacted_from = {}
        BY <2>1, <3>3, <4>1 DEF SerialCompaction
      <4> QED
        BY <1>2, <4>1, <4>2, CompactedGrows DEF StillFree, AlreadyCompacted
    <3> QED
      BY <3>2, <3>3
  <2> QED
    BY <2>2, <2>3
<1> QED
  BY <1>1, <1>2 DEF Next

LEMMA SerialInit == Init => StillFree /\ NoDoubleCompaction
BY DEF Init, StillFree, NoDoubleCompaction, Compacting

(* The overlap check prevents double compaction as long as no two calls    *)
(* with a common source are past it at the same time.                      *)
THEOREM SerialSuffices == Spec => SerialCompactionSuffices
BY Invariant, SerialInit, SerialStep, PTL DEF Spec, SerialCompactionSuffices

(* In stdio mode, where one call runs at a time, nothing is compacted      *)
(* twice.                                                                  *)
THEOREM StdioCompactsOnce ==
    ASSUME \A c, d \in Call : c = d
    PROVE  Spec => []NoDoubleCompaction
<1>1. SerialCompaction
  BY DEF SerialCompaction, Compacting
<1> QED
  BY <1>1, SerialSuffices, PTL DEF SerialCompactionSuffices

-----------------------------------------------------------------------------
(* The stdio server: calls one at a time.  What validateCompactSource has  *)
(* found of the sources still holds, as nobody else writes meanwhile.      *)
OneBusy == \A c, d \in Call : pc[c] # "idle" /\ pc[d] # "idle" => c = d

SourcesSound(c) ==
    LET from == req[c].compacted_from
    IN  /\ pc[c] \in Checked => \A s \in from : Live(s)
        /\ pc[c] \in Checked \ {"checkTopic"} =>
              \A s, t \in TopicsOf(from) : s = t
        /\ pc[c] \in Checked \ {"checkTopic", "checkOverlap"} =>
              ~ AlreadyCompacted(from)

SerialInv == serial => /\ OneBusy
                       /\ \A c \in Call : SourcesSound(c)
                       /\ NoDoubleCompaction

(* The call's own step: the checks establish it, and it writes no table    *)
(* before its commit.                                                      *)
LEMMA SourcesStaySound ==
    ASSUME IInv, NEW c \in Call, Arrive(c) \/ Proceed(c) \/ Abort(c), SourcesSound(c)
    PROVE  SourcesSound(c)'
<1>b. /\ pc \in [Call -> {"idle"} \cup RememberStep \cup UpdateStep]
      /\ req \in [Call -> RememberRequest \cup UpdateRequest \cup {NoRequest}]
  BY DEF IInv, TypeOK
<1>0. ASSUME pc'[c] \notin Checked PROVE SourcesSound(c)'
  BY <1>0 DEF SourcesSound
<1>f. ASSUME Finish(c) PROVE SourcesSound(c)'
  BY <1>0, <1>f, <1>b DEF Finish, Checked, Sessioned, Numbered
<1>e. ASSUME req'[c].compacted_from = {} PROVE SourcesSound(c)'
  BY <1>e DEF SourcesSound, TopicsOf, AlreadyCompacted
<1>s. ASSUME UNCHANGED <<t_messages, t_message_topics, req>>,
             pc[c] \in Checked \ {"checkTopic", "checkOverlap"}
      PROVE  SourcesSound(c)'
  BY <1>s DEF SourcesSound, Live, TopicsOf, AlreadyCompacted
<1>1. CASE Arrive(c)
  <2>1. ASSUME NEW r \in RememberRequest, Remember(c, r) PROVE SourcesSound(c)'
    <3>1. /\ req'[c] = r
          /\ pc'[c] = "checkLive" \/ r.compacted_from = {}
      BY <2>1, <1>b DEF Remember, Step
    <3> QED
      BY <3>1, <1>0, <1>e DEF Checked, Sessioned, Numbered
  <2>2. ASSUME NEW r \in UpdateRequest, UpdateTopic(c, r) PROVE SourcesSound(c)'
    BY <2>2, <1>b, <1>0 DEF UpdateTopic, Step, Checked, Sessioned, Numbered
  <2>3. CASE pc[c] = "idle" /\ UNCHANGED pc
    BY <2>3, <1>0 DEF Checked, Sessioned, Numbered
  <2> QED
    BY <1>1, <2>1, <2>2, <2>3
    DEF Arrive, CreateTopic, Forget, Edit, CloseTopic, ReopenTopic, SetTopic
<1>2. CASE CheckLive(c)
  <2>1. CASE /\ Step(c, "checkLive", "checkTopic")
             /\ \A m \in req[c].compacted_from : Live(m)
             /\ UNCHANGED <<tables, req>>
    BY <2>1, <1>b DEF Step, tables, SourcesSound, Live
  <2> QED
    BY <1>2, <2>1, <1>f DEF CheckLive, Check, Rollback
<1>3. CASE CheckTopic(c)
  <2>1. CASE /\ Step(c, "checkTopic", "checkOverlap")
             /\ \A s, t \in TopicsOf(req[c].compacted_from) : s = t
             /\ UNCHANGED <<tables, req>>
    BY <2>1, <1>b DEF Step, tables, SourcesSound, Live, TopicsOf, Checked
  <2> QED
    BY <1>3, <2>1, <1>f DEF CheckTopic, Check, Rollback
<1>4. CASE CheckOverlap(c)
  <2>1. CASE /\ Step(c, "checkOverlap", "findSession")
             /\ ~ AlreadyCompacted(req[c].compacted_from)
             /\ UNCHANGED <<tables, req>>
    BY <2>1, <1>b DEF Step, tables, SourcesSound, Live, TopicsOf,
                      AlreadyCompacted, Checked
  <2> QED
    BY <1>4, <2>1, <1>f DEF CheckOverlap, Check, Rollback
<1>5. CASE FindSession(c) \/ InsertSession(c) \/ InsertMessage(c)
  BY <1>5, <1>s DEF FindSession, InsertSession, InsertMessage, Write, Step, tables,
     Checked, Sessioned
<1>6. CASE LinkTopic(c) \/ InsertRole(c) \/ LinkRoles(c)
  BY <1>6, <1>s, <1>f DEF LinkTopic, InsertRole, LinkRoles, Write, Step, Rollback,
     tables, Checked, Sessioned, Numbered
<1>7. CASE CommitMessage(c) \/ CommitUpdate(c) \/ Abort(c)
  BY <1>7, <1>f DEF CommitMessage, CommitUpdate, Abort, Rollback
<1>8. CASE FindTopic(c) \/ LinkMessage(c) \/ LinksChecked(c) \/ UnlinkMessage(c)
  BY <1>8, <1>b, <1>0, <1>f DEF FindTopic, LinkMessage, LinksChecked, UnlinkMessage,
     Rollback, Step, Checked, Sessioned, Numbered
<1> QED
  BY <1>1, <1>2, <1>3, <1>4, <1>5, <1>6, <1>7, <1>8 DEF Proceed

LEMMA SerialInvStep ==
    IInv /\ SerialInv /\ [ServerNext]_<<vars, serial>> => SerialInv'
<1> SUFFICES ASSUME IInv, SerialInv, [ServerNext]_<<vars, serial>>, serial'
             PROVE  /\ OneBusy'
                    /\ \A c \in Call : SourcesSound(c)'
                    /\ NoDoubleCompaction'
  BY DEF SerialInv
<1>0. serial /\ OneBusy /\ (\A c \in Call : SourcesSound(c)) /\ NoDoubleCompaction
  BY DEF ServerNext, SerialInv
<1>1. CASE UNCHANGED <<vars, serial>>
  BY <1>0, <1>1 DEF vars, tables, OneBusy, SourcesSound, NoDoubleCompaction, Live,
     TopicsOf, AlreadyCompacted
<1>2. ASSUME NEW c \in Call, Busy \subseteq {c}, Arrive(c) \/ Proceed(c) \/ Abort(c)
      PROVE  /\ OneBusy'
             /\ \A d \in Call : SourcesSound(d)'
             /\ NoDoubleCompaction'
  <2>1. ASSUME NEW d \in Call, d # c PROVE pc'[d] = "idle"
    <3>1. pc[d] = "idle"
      BY <1>2, <2>1 DEF Busy
    <3> QED
      BY <1>2, <2>1, <3>1, OthersStay DEF IInv
  <2>2. OneBusy'
    BY <2>1 DEF OneBusy
  <2>3. ASSUME NEW d \in Call PROVE SourcesSound(d)'
    <3>1. CASE d = c
      BY <1>0, <1>2, <3>1, SourcesStaySound
    <3>2. CASE d # c
      BY <2>1, <3>2 DEF SourcesSound, Checked, Sessioned, Numbered
    <3> QED
      BY <3>1, <3>2
  <2>4. SerialCompaction
    BY <1>0 DEF OneBusy, SerialCompaction, Compacting
  <2>5. StillFree
    BY <1>0 DEF StillFree, Compacting, SourcesSound, Checked, Sessioned, Numbered
  <2>6. [Next]_vars
    BY <1>2 DEF Next
  <2>7. NoDoubleCompaction'
    BY <1>0, <2>4, <2>5, <2>6, SerialStep
  <2> QED
    BY <2>2, <2>3, <2>7
<1> QED
  BY <1>0, <1>1, <1>2 DEF ServerNext

LEMMA SerialInvariant == ServerSpec => [](IInv /\ SerialInv)
<1>1. ServerInit => IInv /\ SerialInv
  <2> SUFFICES ASSUME Init PROVE IInv /\ SerialInv
    BY DEF ServerInit
  <2>1. \A c \in Call : pc[c] = "idle"
    BY DEF Init
  <2>2. OneBusy /\ \A c \in Call : SourcesSound(c)
    BY <2>1 DEF OneBusy, SourcesSound, Checked, Sessioned, Numbered
  <2> QED
    BY <2>2, InvariantInit, SerialInit DEF SerialInv
<1>2. IInv /\ [ServerNext]_<<vars, serial>> => IInv'
  <2>1. [ServerNext]_<<vars, serial>> => [Next]_vars
    BY DEF ServerNext, Next, vars
  <2> QED
    BY <2>1, InvariantStep
<1> QED
  BY <1>1, <1>2, SerialInvStep, PTL DEF ServerSpec

(* Over stdio no message is the source of two compactions: what            *)
(* message_repo.py:544 calls double compaction prevention, it is there.    *)
THEOREM SerialCompactsOnce == ServerSpec => []SerialNoDoubleCompaction
<1>1. SerialInv => SerialNoDoubleCompaction
  BY DEF SerialInv, SerialNoDoubleCompaction
<1> QED
  BY <1>1, SerialInvariant, PTL

(* Over stdio the sources of a compaction are live, of one topic and in no *)
(* other compaction at the commit that stores it, as they were when        *)
(* validateCompactSource looked.                                           *)
THEOREM SerialCompactsSound == ServerSpec => SerialCompactionSound
<1>1. IInv /\ SerialInv /\ [ServerNext]_<<vars, serial>>
         => [serial => SoundCompactions]_vars
  <2> SUFFICES ASSUME IInv, SerialInv, serial, NEW c \in Call,
                      Arrive(c) \/ Proceed(c) \/ Abort(c),
                      NEW m \in DOMAIN t_messages' \ DOMAIN t_messages
               PROVE  LET from == t_messages'[m].compacted_from
                      IN  /\ \A s \in from : Live(s)
                          /\ \A s, t \in TopicsOf(from) : s = t
                          /\ ~ AlreadyCompacted(from)
    BY DEF ServerNext, SoundCompactions, vars
  <2>1. pc[c] = "commitMessage" /\ t_messages'[m].compacted_from = req[c].compacted_from
    BY RowAdded DEF CommitMessage
  <2>2. SourcesSound(c)
    BY DEF SerialInv
  <2> QED
    BY <2>1, <2>2 DEF SourcesSound, Checked, Sessioned, Numbered
<1> QED
  BY <1>1, SerialInvariant, PTL DEF ServerSpec, SerialCompactionSound

-----------------------------------------------------------------------------
(* The store implements Memory.  Three things more are needed: ids stay    *)
(* below the bounds Memory has for them, since every message drawn belongs *)
(* to a remember that was started; the topics are those created; an update *)
(* writes links of its own topic only.                                     *)
Starting == {c \in Call : pc[c] \in RememberStep \ Numbered}

IdsInBounds == /\ IsFiniteSet(Starting)
               /\ seq.message + Cardinality(Starting) <= remembers
               /\ remembers <= MaxRemember

TopicsInBounds == /\ DOMAIN t_topics \subseteq 1..seq.topic
                  /\ seq.topic <= MaxTopic

OwnTopic(c) ==
    /\ pc[c] = "findTopic" => tx[c].unlinks = {}
    /\ pc[c] \in {"linkMessages", "unlinkMessages"} =>
          /\ req[c].topic \in DOMAIN t_topics
          /\ tx[c].links \subseteq Nat \X {req[c].topic}
          /\ tx[c].unlinks \subseteq Nat \X {req[c].topic}
          /\ tx[c].rows \subseteq Nat \X {req[c].topic}

RefineInv == IdsInBounds /\ TopicsInBounds /\ \A c \in Call : OwnTopic(c)

(* Who is on the way to an id: one more by Remember, one less by the       *)
(* statement that draws it.                                                *)
LEMMA StartingMoves ==
    ASSUME TypeOK, NEW c \in Call, Arrive(c) \/ Proceed(c) \/ Abort(c)
    PROVE  \/ /\ Starting' \subseteq Starting
              /\ seq'.message = seq.message /\ remembers' = remembers
           \/ /\ c \notin Starting /\ Starting' = Starting \cup {c}
              /\ seq'.message = seq.message
              /\ remembers' = remembers + 1 /\ remembers < MaxRemember
           \/ /\ c \in Starting /\ Starting' = Starting \ {c}
              /\ seq'.message = seq.message + 1 /\ remembers' = remembers
<1>b. /\ pc \in [Call -> {"idle"} \cup RememberStep \cup UpdateStep]
      /\ seq \in [session : Nat, message : Nat, topic : Nat]
  BY DEF TypeOK
<1>o. \A d \in Call \ {c} : pc'[d] = pc[d]
  BY OthersStay
<1>k. ASSUME seq'.message = seq.message, remembers' = remembers,
             pc'[c] \in RememberStep \ Numbered => pc[c] \in RememberStep \ Numbered
      PROVE  /\ Starting' \subseteq Starting
             /\ seq'.message = seq.message /\ remembers' = remembers
  BY <1>k, <1>o DEF Starting
<1>f. ASSUME Finish(c) PROVE pc'[c] \notin RememberStep \ Numbered
  BY <1>f, <1>b DEF Finish, RememberStep
<1>1. CASE Arrive(c)
  <2>1. ASSUME NEW r \in RememberRequest, Remember(c, r)
        PROVE  /\ c \notin Starting /\ Starting' = Starting \cup {c}
               /\ seq'.message = seq.message
               /\ remembers' = remembers + 1 /\ remembers < MaxRemember
    BY <2>1, <1>b, <1>o DEF Remember, Step, Starting, RememberStep, Numbered
  <2>2. ASSUME NEW r \in UpdateRequest, UpdateTopic(c, r)
        PROVE  /\ seq'.message = seq.message /\ remembers' = remembers
               /\ pc'[c] \notin RememberStep \ Numbered
    BY <2>2, <1>b DEF UpdateTopic, Step, RememberStep
  <2>3. CASE \E ms \in IdList : CreateTopic(c, ms)
    BY <2>3, <1>b, <1>k DEF CreateTopic
  <2>4. CASE /\ pc' = pc /\ seq' = seq /\ remembers' = remembers
    BY <2>4, <1>k
  <2> QED
    BY <1>1, <1>k, <2>1, <2>2, <2>3, <2>4
    DEF Arrive, Forget, Edit, CloseTopic, ReopenTopic, SetTopic
<1>2. CASE InsertMessage(c)
  <2>1. /\ pc[c] = "insertMessage" /\ pc'[c] \in Numbered
        /\ seq'.message = seq.message + 1 /\ remembers' = remembers
    BY <1>2, <1>b DEF InsertMessage, Step, Write, AfterMessage, Numbered
  <2> QED
    BY <2>1, <1>o DEF Starting, RememberStep, Numbered
<1>3. CASE CheckLive(c) \/ CheckTopic(c) \/ CheckOverlap(c)
  <2>1. seq'.message = seq.message /\ remembers' = remembers
    BY <1>3, CheckMoves
  <2>2. pc[c] \in RememberStep \ Numbered
    BY <1>3 DEF CheckLive, CheckTopic, CheckOverlap, Check, Step, RememberStep, Numbered
  <2> QED
    BY <1>k, <2>1, <2>2
<1>4. CASE FindSession(c) \/ InsertSession(c)
  <2>1. /\ seq'.message = seq.message /\ remembers' = remembers
        /\ pc[c] \in RememberStep \ Numbered
    BY <1>4, <1>b DEF FindSession, InsertSession, Write, Step, RememberStep, Numbered
  <2> QED
    BY <1>k, <2>1
<1>5. CASE LinkTopic(c) \/ InsertRole(c) \/ LinkRoles(c)
  <2>1. seq'.message = seq.message /\ remembers' = remembers
    BY <1>5 DEF LinkTopic, InsertRole, LinkRoles, Write, Rollback
  <2>2. pc'[c] \notin RememberStep \ Numbered
    BY <1>5, <1>b, <1>f DEF LinkTopic, InsertRole, LinkRoles, Rollback, Step,
       AfterMessage, Numbered
  <2> QED
    BY <1>k, <2>1, <2>2
<1>6. CASE CommitMessage(c) \/ CommitUpdate(c) \/ Abort(c)
  BY <1>6, <1>k, <1>f DEF CommitMessage, CommitUpdate, Abort, Rollback
<1>7. CASE FindTopic(c) \/ LinkMessage(c) \/ LinksChecked(c) \/ UnlinkMessage(c)
  <2>1. seq'.message = seq.message /\ remembers' = remembers
    BY <1>7 DEF FindTopic, LinkMessage, LinksChecked, UnlinkMessage, Write, Rollback
  <2>2. pc'[c] \notin RememberStep \ Numbered
    BY <1>7, <1>b, <1>f DEF FindTopic, LinkMessage, LinksChecked, UnlinkMessage,
       Rollback, Step, RememberStep
  <2> QED
    BY <1>k, <2>1, <2>2
<1> QED
  BY <1>1, <1>2, <1>3, <1>4, <1>5, <1>6, <1>7 DEF Proceed

LEMMA IdsStayInBounds ==
    ASSUME TypeOK, TypeOK', IdsInBounds,
           NEW c \in Call, Arrive(c) \/ Proceed(c) \/ Abort(c)
    PROVE  IdsInBounds'
<1>1. /\ IsFiniteSet(Starting) /\ Cardinality(Starting) \in Nat
      /\ seq.message \in Nat /\ remembers \in Nat /\ MaxRemember \in Nat
  BY FS_CardinalityType, BoundsAssumption DEF IdsInBounds, TypeOK
<1>2. CASE /\ Starting' \subseteq Starting
           /\ seq'.message = seq.message /\ remembers' = remembers
  <2>1. /\ IsFiniteSet(Starting') /\ Cardinality(Starting') \in Nat
        /\ Cardinality(Starting') <= Cardinality(Starting)
    BY <1>1, <1>2, FS_Subset, FS_CardinalityType
  <2> QED
    BY <1>1, <1>2, <2>1 DEF IdsInBounds
<1>3. CASE /\ c \notin Starting /\ Starting' = Starting \cup {c}
           /\ seq'.message = seq.message
           /\ remembers' = remembers + 1 /\ remembers < MaxRemember
  <2>1. IsFiniteSet(Starting') /\ Cardinality(Starting') = Cardinality(Starting) + 1
    BY <1>1, <1>3, FS_AddElement
  <2> QED
    BY <1>1, <1>3, <2>1 DEF IdsInBounds
<1>4. CASE /\ c \in Starting /\ Starting' = Starting \ {c}
           /\ seq'.message = seq.message + 1 /\ remembers' = remembers
  <2>1. IsFiniteSet(Starting') /\ Cardinality(Starting') = Cardinality(Starting) - 1
    BY <1>1, <1>4, FS_RemoveElement
  <2> QED
    BY <1>1, <1>4, <2>1 DEF IdsInBounds
<1> QED
  BY <1>2, <1>3, <1>4, StartingMoves

LEMMA TopicsStayInBounds ==
    ASSUME TypeOK, TopicsInBounds,
           NEW c \in Call, Arrive(c) \/ Proceed(c) \/ Abort(c)
    PROVE  TopicsInBounds'
<1>1. CASE \E ms \in IdList : CreateTopic(c, ms)
  <2>1. /\ seq'.topic = seq.topic + 1 /\ seq.topic < MaxTopic
        /\ seq.topic \in Nat /\ MaxTopic \in Nat
    BY <1>1, BoundsAssumption DEF CreateTopic, TypeOK
  <2>2. DOMAIN t_topics' \subseteq DOMAIN t_topics \cup {seq.topic + 1}
    BY <1>1 DEF CreateTopic
  <2> QED
    BY <2>1, <2>2 DEF TopicsInBounds
<1>2. CASE DOMAIN t_topics' = DOMAIN t_topics /\ seq'.topic = seq.topic
  BY <1>2 DEF TopicsInBounds
<1>3. CASE CheckLive(c) \/ CheckTopic(c) \/ CheckOverlap(c)
  BY <1>2, <1>3, CheckMoves DEF tables
<1>4. CASE InsertSession(c) \/ InsertMessage(c)
  BY <1>2, <1>4 DEF InsertSession, InsertMessage, Write, tables, TypeOK
<1>5. CASE FindSession(c) \/ LinkTopic(c) \/ InsertRole(c) \/ LinkRoles(c)
           \/ CommitMessage(c)
  BY <1>2, <1>5 DEF FindSession, LinkTopic, InsertRole, LinkRoles, CommitMessage,
     Write, Rollback, tables
<1>6. CASE FindTopic(c) \/ LinkMessage(c) \/ LinksChecked(c) \/ UnlinkMessage(c)
           \/ CommitUpdate(c) \/ Abort(c)
  BY <1>2, <1>6 DEF FindTopic, LinkMessage, LinksChecked, UnlinkMessage,
     CommitUpdate, Abort, Write, Rollback, tables
<1>7. CASE Arrive(c) /\ ~ (\E ms \in IdList : CreateTopic(c, ms))
  BY <1>2, <1>7 DEF Arrive, Remember, UpdateTopic, Forget, Edit, CloseTopic,
     ReopenTopic, SetTopic, tables
<1> QED
  BY <1>1, <1>3, <1>4, <1>5, <1>6, <1>7 DEF Proceed

LEMMA OwnTopicStays ==
    ASSUME IInv, NEW c \in Call, Arrive(c) \/ Proceed(c) \/ Abort(c), OwnTopic(c)
    PROVE  OwnTopic(c)'
<1>b. /\ pc \in [Call -> {"idle"} \cup RememberStep \cup UpdateStep]
      /\ req \in [Call -> RememberRequest \cup UpdateRequest \cup {NoRequest}]
      /\ tx \in [Call -> Writes]
      /\ LinksReady(c) /\ NothingWritten(c)
      /\ DOMAIN t_topics \subseteq DOMAIN t_topics'
  BY TablesOnlyGrow DEF IInv, TypeOK, CallInv
<1>0. ASSUME pc'[c] \notin UpdateStep PROVE OwnTopic(c)'
  BY <1>0 DEF OwnTopic, UpdateStep
<1>f. ASSUME Finish(c) PROVE OwnTopic(c)'
  BY <1>f, <1>0, <1>b DEF Finish, UpdateStep
<1>1. CASE Arrive(c)
  <2>1. ASSUME NEW r \in UpdateRequest, UpdateTopic(c, r) PROVE OwnTopic(c)'
    <3>1. pc'[c] = "findTopic" /\ tx'[c].unlinks = {}
      BY <2>1, <1>b DEF UpdateTopic, Step, NothingWritten, NoWrites
    <3> QED
      BY <3>1 DEF OwnTopic
  <2>2. ASSUME NEW r \in RememberRequest, Remember(c, r) PROVE OwnTopic(c)'
    BY <2>2, <1>0, <1>b DEF Remember, Step, UpdateStep
  <2>3. CASE pc[c] = "idle" /\ UNCHANGED pc
    BY <2>3, <1>0 DEF UpdateStep
  <2> QED
    BY <1>1, <2>1, <2>2, <2>3
    DEF Arrive, CreateTopic, Forget, Edit, CloseTopic, ReopenTopic, SetTopic
<1>2. CASE CheckLive(c) \/ CheckTopic(c) \/ CheckOverlap(c)
  BY <1>2, <1>0, <1>f, <1>b, CheckMoves DEF Step, RememberStep, UpdateStep
<1>3. CASE FindSession(c) \/ InsertSession(c) \/ InsertMessage(c)
  BY <1>3, <1>0, <1>b, AfterMessageType DEF FindSession, InsertSession, InsertMessage,
     Step, UpdateStep
<1>4. CASE LinkTopic(c) \/ InsertRole(c) \/ LinkRoles(c)
  BY <1>4, <1>0, <1>f, <1>b, AfterMessageType DEF LinkTopic, InsertRole, LinkRoles,
     Step, Rollback, UpdateStep
<1>5. CASE CommitMessage(c) \/ CommitUpdate(c) \/ Abort(c)
  BY <1>5, <1>f DEF CommitMessage, CommitUpdate, Abort, Rollback
<1>6. CASE FindTopic(c)
  <2>1. CASE ~ Rollback(c)
    <3> DEFINE wanted == req[c].add \X {req[c].topic}
    <3>1. /\ pc[c] = "findTopic" /\ pc'[c] = "linkMessages" /\ req'[c] = req[c]
          /\ req[c].topic \in DOMAIN t_topics
          /\ tx'[c] = [tx[c] EXCEPT !.rows = wanted]
      BY <1>6, <2>1, <1>b DEF FindTopic, Step, Write
    <3>2. tx'[c].links = tx[c].links /\ tx'[c].unlinks = tx[c].unlinks
          /\ tx'[c].rows = wanted
      BY <3>1, <1>b DEF Writes
    <3>3. tx[c].links = {} /\ tx[c].unlinks = {}
      BY <3>1, <1>b DEF LinksReady, OwnTopic
    <3>4. wanted \subseteq Nat \X {req[c].topic}
      <4>1. req[c] \in UpdateRequest
        BY <3>1 DEF IInv, TypeOK, UpdateStep
      <4>2. req[c].add \in IdList
        BY <4>1 DEF UpdateRequest
      <4>3. req[c].add \in SUBSET Nat
        BY <4>2, BoundsAssumption, Zenon
      <4> QED
        BY <4>3
    <3> HIDE DEF wanted
    <3> QED
      BY <3>1, <3>2, <3>3, <3>4, <1>b DEF OwnTopic
  <2> QED
    BY <2>1, <1>f DEF Rollback
<1>7. CASE LinkMessage(c) \/ UnlinkMessage(c)
  <2>1. PICK l \in tx[c].rows :
           \/ tx'[c] = [tx[c] EXCEPT !.rows = @ \ {l},
                                     !.links = @ \cup ({l} \ t_message_topics)]
           \/ tx'[c] = [tx[c] EXCEPT !.rows = @ \ {l},
                                     !.unlinks = @ \cup ({l} \cap t_message_topics)]
    BY <1>7, <1>b DEF LinkMessage, UnlinkMessage, Write
  <2>2. /\ pc[c] \in {"linkMessages", "unlinkMessages"} /\ pc'[c] = pc[c]
        /\ req'[c] = req[c]
    BY <1>7, <1>b DEF LinkMessage, UnlinkMessage, Write, Step
  <2>3. /\ tx'[c].rows \subseteq tx[c].rows
        /\ tx'[c].links \subseteq tx[c].links \cup {l}
        /\ tx'[c].unlinks \subseteq tx[c].unlinks \cup {l}
    BY <2>1, <1>b DEF Writes
  <2> QED
    BY <2>2, <2>3, <1>b DEF OwnTopic
<1>8. CASE LinksChecked(c)
  <2>1. CASE ~ Rollback(c)
    <3> DEFINE doomed == (req[c].remove \X {req[c].topic}) \cap t_message_topics
    <3>1. /\ pc[c] = "linkMessages" /\ pc'[c] = "unlinkMessages" /\ req'[c] = req[c]
          /\ tx'[c] = [tx[c] EXCEPT !.rows = doomed]
      BY <1>8, <2>1, <1>b DEF LinksChecked, Step, Write
    <3>2. tx'[c].links = tx[c].links /\ tx'[c].unlinks = tx[c].unlinks
          /\ tx'[c].rows = doomed
      BY <3>1, <1>b DEF Writes
    <3>4. doomed \subseteq Nat \X {req[c].topic}
      BY DEF IInv, TypeOK
    <3> HIDE DEF doomed
    <3> QED
      BY <3>1, <3>2, <3>4, <1>b DEF OwnTopic
  <2> QED
    BY <2>1, <1>f DEF Rollback
<1> QED
  BY <1>1, <1>2, <1>3, <1>4, <1>5, <1>6, <1>7, <1>8 DEF Proceed

LEMMA RefineInvStep == IInv /\ RefineInv /\ [Next]_vars => RefineInv'
<1> SUFFICES ASSUME IInv, RefineInv, [Next]_vars PROVE RefineInv'
  OBVIOUS
<1>1. CASE UNCHANGED vars
  <2>1. Starting' = Starting
    BY <1>1 DEF vars, Starting
  <2> QED
    BY <1>1, <2>1 DEF vars, tables, RefineInv, IdsInBounds, TopicsInBounds, OwnTopic
<1>2. ASSUME NEW c \in Call, Arrive(c) \/ Proceed(c) \/ Abort(c) PROVE RefineInv'
  <2>1. TypeOK /\ TypeOK'
    BY <1>2, TypeStep DEF IInv, Next
  <2>2. ASSUME NEW d \in Call PROVE OwnTopic(d)'
    <3>1. CASE d = c
      BY <1>2, <3>1, OwnTopicStays DEF RefineInv
    <3>2. CASE d # c
      <4>1. /\ pc'[d] = pc[d] /\ req'[d] = req[d] /\ tx'[d] = tx[d]
            /\ DOMAIN t_topics \subseteq DOMAIN t_topics'
        BY <1>2, <2>1, <3>2, OthersStay, TablesOnlyGrow
      <4> QED
        BY <4>1 DEF RefineInv, OwnTopic
    <3> QED
      BY <3>1, <3>2
  <2> QED
    BY <1>2, <2>1, <2>2, IdsStayInBounds, TopicsStayInBounds DEF RefineInv
<1> QED
  BY <1>1, <1>2 DEF Next

LEMMA RefineInvariant == Spec => [](IInv /\ RefineInv)
<1>1. Init => RefineInv
  <2> SUFFICES ASSUME Init PROVE RefineInv
    OBVIOUS
  <2>1. Starting = {}
    BY DEF Init, Starting, RememberStep
  <2>2. IdsInBounds
    BY <2>1, FS_EmptySet, BoundsAssumption DEF Init, IdsInBounds
  <2> QED
    BY <2>2, BoundsAssumption DEF Init, RefineInv, TopicsInBounds, OwnTopic
<1> QED
  BY <1>1, InvariantInit, InvariantStep, RefineInvStep, PTL DEF Spec

(* What a memory is made of, row by row. *)
SeenAs ==
    /\ \A m, t : t \in TopicsOf({m}) <=> <<m, t>> \in t_message_topics
    /\ \A m, r : r \in MemoryOf(m).roles <=> <<m, r>> \in t_message_roles
    /\ \A m \in DOMAIN t_messages : \A s \in t_sessions :
          s.id = t_messages[m].session => DateOf(m) = s.date

LEMMA Seen == IInv => SeenAs
<1> SUFFICES ASSUME IInv PROVE SeenAs
  OBVIOUS
<1>1. ASSUME NEW m, NEW t
      PROVE  t \in TopicsOf({m}) <=> <<m, t>> \in t_message_topics
  BY DEF TopicsOf, IInv, TypeOK
<1>2. ASSUME NEW m, NEW r
      PROVE  r \in MemoryOf(m).roles <=> <<m, r>> \in t_message_roles
  BY DEF MemoryOf, IInv, TypeOK
<1>3. ASSUME NEW m \in DOMAIN t_messages, NEW s \in t_sessions,
             s.id = t_messages[m].session
      PROVE  DateOf(m) = s.date
  <2>1. \A r \in t_sessions : r.id = t_messages[m].session => r = s
    BY <1>3 DEF IInv, OneSessionPerDate
  <2>2. (CHOOSE r \in t_sessions : r.id = t_messages[m].session) = s
    BY <1>3, <2>1
  <2> QED
    BY <2>2 DEF DateOf
<1> QED
  BY <1>1, <1>2, <1>3 DEF SeenAs

LEMMA SeenNext == IInv' => SeenAs'
BY Seen, PTL

(* Of a stored memory a step may change the content, the flag and the topics. *)
LEMMA SameMemory ==
    ASSUME IInv, IInv', NEW c \in Call, Arrive(c) \/ Proceed(c) \/ Abort(c),
           NEW m \in DOMAIN t_messages
    PROVE  /\ m \in DOMAIN t_messages'
           /\ MemoryOf(m)' = [date |-> DateOf(m), content |-> t_messages'[m].content,
                              is_deleted |-> t_messages'[m].is_deleted,
                              compacted_from |-> t_messages[m].compacted_from,
                              roles |-> MemoryOf(m).roles,
                              topics |-> TopicsOf({m})']
<1>1. /\ m \in DOMAIN t_messages'
      /\ t_messages'[m].session = t_messages[m].session
      /\ t_messages'[m].compacted_from = t_messages[m].compacted_from
  BY RowsKeep
<1>2. SeenAs /\ SeenAs'
  BY Seen, SeenNext
<1>3. DateOf(m)' = DateOf(m)
  <2>1. PICK s \in t_sessions : s.id = t_messages[m].session
    BY DEF IInv, References
  <2>2. s \in t_sessions'
    BY <2>1, TablesOnlyGrow DEF IInv
  <2> QED
    BY <1>1, <1>2, <2>1, <2>2 DEF SeenAs
<1>4. MemoryOf(m)'.roles = MemoryOf(m).roles
  <2>1. \A r : <<m, r>> \in t_message_roles' <=> <<m, r>> \in t_message_roles
    <3>1. CASE CommitMessage(c)
      <4>1. /\ t_message_roles' = t_message_roles \cup tx[c].roleLinks
            /\ tx[c].roleLinks = {tx[c].message} \X req[c].roles
            /\ tx[c].message \notin DOMAIN t_messages
        BY <3>1 DEF CommitMessage, IInv, CallInv, RolesReady, IdDrawn, Numbered
      <4> QED
        BY <4>1
    <3>2. CASE UNCHANGED t_message_roles
      BY <3>2
    <3> QED
      BY <3>1, <3>2, TablesGrow DEF IInv
  <2>2. \A r : r \in MemoryOf(m)'.roles <=> r \in MemoryOf(m).roles
    BY <1>2, <2>1 DEF SeenAs
  <2> QED
    BY <2>2 DEF MemoryOf
<1> QED
  BY <1>1, <1>3, <1>4 DEF MemoryOf

(* Links that stay leave the topics as they are. *)
LEMMA SameTopics ==
    ASSUME IInv, IInv', NEW m,
           \A t : <<m, t>> \in t_message_topics' <=> <<m, t>> \in t_message_topics
    PROVE  TopicsOf({m})' = TopicsOf({m})
<1>1. \A t : t \in TopicsOf({m})' <=> t \in TopicsOf({m})
  BY Seen, SeenNext DEF SeenAs
<1> QED
  BY <1>1 DEF TopicsOf

LEMMA Stutters ==
    ASSUME IInv, IInv', NEW c \in Call, Arrive(c) \/ Proceed(c) \/ Abort(c),
           UNCHANGED <<t_messages, t_topics, t_message_topics>>
    PROVE  UNCHANGED <<Memories, TopicStates>>
<1>1. ASSUME NEW m \in DOMAIN t_messages PROVE MemoryOf(m)' = MemoryOf(m)
  BY SameMemory, SameTopics DEF MemoryOf
<1> QED
  BY <1>1 DEF Memories, TopicStates

LEMMA FlagSet ==
    ASSUME NEW x, NEW y, NEW d, NEW text, NEW f, NEW g, NEW from, NEW rs, NEW ts,
           x = [date |-> d, content |-> text, is_deleted |-> f,
                compacted_from |-> from, roles |-> rs, topics |-> ts],
           y = [date |-> d, content |-> text, is_deleted |-> g,
                compacted_from |-> from, roles |-> rs, topics |-> ts]
    PROVE  y = [x EXCEPT !.is_deleted = g]
OBVIOUS

LEMMA ForgetImplements ==
    ASSUME IInv, IInv', NEW c \in Call, Arrive(c),
           NEW m \in MessageId, Forget(c, m)
    PROVE  Abstract!Forget(m)
<1>1. /\ m \in DOMAIN t_messages /\ ~ t_messages[m].is_deleted
      /\ t_messages' = [t_messages EXCEPT ![m].is_deleted = TRUE]
      /\ UNCHANGED <<t_topics, t_message_topics>>
  BY DEF Forget, Live
<1>2. ASSUME NEW n \in DOMAIN t_messages
      PROVE  MemoryOf(n)' = IF n = m THEN [MemoryOf(m) EXCEPT !.is_deleted = TRUE]
                                     ELSE MemoryOf(n)
  <2>1. /\ t_messages[n] \in Message
        /\ t_messages'[n].content = t_messages[n].content
        /\ t_messages'[n].is_deleted = IF n = m THEN TRUE ELSE t_messages[n].is_deleted
    BY <1>1 DEF IInv, TypeOK, Message
  <2>2. TopicsOf({n})' = TopicsOf({n})
    BY <1>1, SameTopics
  <2>3. MemoryOf(n) = [date |-> DateOf(n), content |-> t_messages[n].content,
                       is_deleted |-> t_messages[n].is_deleted,
                       compacted_from |-> t_messages[n].compacted_from,
                       roles |-> MemoryOf(n).roles, topics |-> TopicsOf({n})]
    BY DEF MemoryOf
  <2>4. MemoryOf(n)' = [date |-> DateOf(n), content |-> t_messages'[n].content,
                        is_deleted |-> t_messages'[n].is_deleted,
                        compacted_from |-> t_messages[n].compacted_from,
                        roles |-> MemoryOf(n).roles, topics |-> TopicsOf({n})]
    BY <2>2, SameMemory
  <2>5. CASE n = m
    <3>1. PICK rs, g : rs = MemoryOf(n).roles /\ g = t_messages'[n].is_deleted
      OBVIOUS
    <3>2. MemoryOf(n) = [date |-> DateOf(n), content |-> t_messages[n].content,
                         is_deleted |-> t_messages[n].is_deleted,
                         compacted_from |-> t_messages[n].compacted_from,
                         roles |-> rs, topics |-> TopicsOf({n})]
      BY <2>3, <3>1
    <3>3. MemoryOf(n)' = [date |-> DateOf(n), content |-> t_messages[n].content,
                          is_deleted |-> g,
                          compacted_from |-> t_messages[n].compacted_from,
                          roles |-> rs, topics |-> TopicsOf({n})]
      BY <2>1, <2>4, <3>1
    <3>4. MemoryOf(n)' = [MemoryOf(n) EXCEPT !.is_deleted = g]
      BY <3>2, <3>3, FlagSet
    <3>5. g = TRUE
      BY <2>1, <2>5, <3>1
    <3>6. MemoryOf(n)' = [MemoryOf(n) EXCEPT !.is_deleted = TRUE]
      BY <3>4, <3>5
    <3> QED
      BY <2>5, <3>6
  <2>6. CASE n # m
    BY <2>1, <2>3, <2>4, <2>6
  <2> QED
    BY <2>5, <2>6
<1>3. Memories' = [Memories EXCEPT ![m].is_deleted = TRUE]
  BY <1>1, <1>2 DEF Memories
<1>4. ~ Memories[m].is_deleted /\ m \in DOMAIN Memories
  BY <1>1 DEF Memories, MemoryOf
<1> QED
  BY <1>1, <1>3, <1>4 DEF Abstract!Forget, TopicStates

(* An edit to the text that is there already changes nothing. *)
LEMMA EditImplements ==
    ASSUME IInv, IInv', NEW c \in Call, Arrive(c),
           NEW m \in MessageId, NEW text \in Content, Edit(c, m, text)
    PROVE  Abstract!Edit(m, text) \/ UNCHANGED <<Memories, TopicStates>>
<1>1. /\ m \in DOMAIN t_messages /\ ~ t_messages[m].is_deleted
      /\ t_messages' = [t_messages EXCEPT ![m].content = text]
      /\ UNCHANGED <<t_topics, t_message_topics>>
  BY DEF Edit, Live
<1>2. ASSUME NEW n \in DOMAIN t_messages
      PROVE  MemoryOf(n)' = IF n = m THEN [MemoryOf(m) EXCEPT !.content = text]
                                     ELSE MemoryOf(n)
  <2>1. /\ t_messages[n] \in Message
        /\ t_messages'[n].is_deleted = t_messages[n].is_deleted
        /\ t_messages'[n].content = IF n = m THEN text ELSE t_messages[n].content
    BY <1>1 DEF IInv, TypeOK, Message
  <2>2. TopicsOf({n})' = TopicsOf({n})
    BY <1>1, SameTopics
  <2>3. MemoryOf(n) = [date |-> DateOf(n), content |-> t_messages[n].content,
                       is_deleted |-> t_messages[n].is_deleted,
                       compacted_from |-> t_messages[n].compacted_from,
                       roles |-> MemoryOf(n).roles, topics |-> TopicsOf({n})]
    BY DEF MemoryOf
  <2>4. MemoryOf(n)' = [date |-> DateOf(n), content |-> t_messages'[n].content,
                        is_deleted |-> t_messages'[n].is_deleted,
                        compacted_from |-> t_messages[n].compacted_from,
                        roles |-> MemoryOf(n).roles, topics |-> TopicsOf({n})]
    BY <2>2, SameMemory
  <2>5. CASE n = m
    BY <2>1, <2>3, <2>4, <2>5
  <2>6. CASE n # m
    BY <2>1, <2>3, <2>4, <2>6
  <2> QED
    BY <2>5, <2>6
<1>3. Memories' = [Memories EXCEPT ![m].content = text]
  BY <1>1, <1>2 DEF Memories
<1>4. /\ ~ Memories[m].is_deleted /\ m \in DOMAIN Memories
      /\ Memories[m].content = t_messages[m].content
  BY <1>1 DEF Memories, MemoryOf
<1>5. CASE t_messages[m].content # text
  BY <1>1, <1>3, <1>4, <1>5 DEF Abstract!Edit, TopicStates
<1>6. CASE t_messages[m].content = text
  <2>1. [MemoryOf(m) EXCEPT !.content = text] = MemoryOf(m)
    <3>1. /\ MemoryOf(m).content = text
          /\ MemoryOf(m) = [f \in DOMAIN MemoryOf(m) |-> MemoryOf(m)[f]]
      BY <1>6 DEF MemoryOf
    <3> QED
      BY <3>1
  <2>2. \A n \in DOMAIN t_messages : MemoryOf(n)' = MemoryOf(n)
    BY <1>2, <2>1
  <2> QED
    BY <1>1, <2>2 DEF Memories, TopicStates
<1> QED
  BY <1>5, <1>6

LEMMA ToggleImplements ==
    ASSUME IInv, IInv', NEW c \in Call, Arrive(c),
           NEW t \in TopicId, CloseTopic(c, t) \/ ReopenTopic(c, t)
    PROVE  Abstract!Toggle(t, "open", "closed") \/ Abstract!Toggle(t, "closed", "open")
<1>1. /\ t \in DOMAIN t_topics
      /\ UNCHANGED <<t_messages, t_message_topics>>
  BY DEF CloseTopic, ReopenTopic, SetTopic
<1>2. UNCHANGED Memories
  <2>1. ASSUME NEW m \in DOMAIN t_messages PROVE MemoryOf(m)' = MemoryOf(m)
    BY <1>1, SameMemory, SameTopics DEF MemoryOf
  <2> QED
    BY <1>1, <2>1 DEF Memories
<1>3. CASE CloseTopic(c, t)
  <2>1. /\ t_topics[t].status = "open"
        /\ t_topics' = [t_topics EXCEPT ![t] = [status |-> "closed", closed_at |-> TRUE]]
    BY <1>3 DEF CloseTopic, SetTopic
  <2>2. TopicStates' = [TopicStates EXCEPT ![t] = "closed"]
    BY <1>1, <2>1 DEF TopicStates
  <2> QED
    BY <1>1, <1>2, <2>1, <2>2 DEF Abstract!Toggle, TopicStates
<1>4. CASE ReopenTopic(c, t)
  <2>1. /\ t_topics[t].status = "closed"
        /\ t_topics' = [t_topics EXCEPT ![t] = [status |-> "open", closed_at |-> FALSE]]
    BY <1>4 DEF ReopenTopic, SetTopic
  <2>2. TopicStates' = [TopicStates EXCEPT ![t] = "open"]
    BY <1>1, <2>1 DEF TopicStates
  <2> QED
    BY <1>1, <1>2, <2>1, <2>2 DEF Abstract!Toggle, TopicStates
<1> QED
  BY <1>3, <1>4

-----------------------------------------------------------------------------
(* Memories whose links under one topic change, and nothing else of them. *)
LEMMA Relinks ==
    ASSUME IInv, IInv', NEW c \in Call, Arrive(c) \/ Proceed(c) \/ Abort(c),
           UNCHANGED t_messages, NEW t, NEW add, NEW remove,
           \A m \in DOMAIN t_messages : \A x :
              <<m, x>> \in t_message_topics' <=>
                 /\ <<m, x>> \in t_message_topics \/ (x = t /\ m \in add)
                 /\ ~ (x = t /\ m \in remove)
    PROVE  Memories' = Abstract!Relinked(t, add, remove)
<1> DEFINE relinked(m) == [MemoryOf(m) EXCEPT !.topics =
                              (@ \cup {x \in {t} : m \in add})
                                 \ {x \in {t} : m \in remove}]
<1>1. ASSUME NEW m \in DOMAIN t_messages PROVE MemoryOf(m)' = relinked(m)
  <2> DEFINE now == (TopicsOf({m}) \cup {x \in {t} : m \in add})
                       \ {x \in {t} : m \in remove}
  <2>1. TopicsOf({m})' = now
    <3>1. \A x : x \in TopicsOf({m})' <=> <<m, x>> \in t_message_topics'
      BY SeenNext DEF SeenAs
    <3>2. \A x : x \in TopicsOf({m}) <=> <<m, x>> \in t_message_topics
      BY Seen DEF SeenAs
    <3>3. ASSUME NEW x PROVE x \in TopicsOf({m})' <=> x \in now
      <4>1. x \in now <=> /\ x \in TopicsOf({m}) \/ (x = t /\ m \in add)
                         /\ ~ (x = t /\ m \in remove)
        OBVIOUS
      <4>2. <<m, x>> \in t_message_topics' <=>
               /\ <<m, x>> \in t_message_topics \/ (x = t /\ m \in add)
               /\ ~ (x = t /\ m \in remove)
        OBVIOUS
      <4> HIDE DEF now
      <4> QED
        BY <3>1, <3>2, <4>1, <4>2
    <3> QED
      BY <3>3 DEF TopicsOf
  <2>2. PICK rs, ts : rs = MemoryOf(m).roles /\ ts = TopicsOf({m})
    OBVIOUS
  <2>3. MemoryOf(m) = [date |-> DateOf(m), content |-> t_messages[m].content,
                       is_deleted |-> t_messages[m].is_deleted,
                       compacted_from |-> t_messages[m].compacted_from,
                       roles |-> rs, topics |-> ts]
    BY <2>2 DEF MemoryOf
  <2>4. MemoryOf(m)' = [date |-> DateOf(m), content |-> t_messages[m].content,
                        is_deleted |-> t_messages[m].is_deleted,
                        compacted_from |-> t_messages[m].compacted_from,
                        roles |-> rs, topics |-> now]
    BY <2>1, <2>2, SameMemory
  <2>5. MemoryOf(m).topics = TopicsOf({m})
    BY DEF MemoryOf
  <2>6. relinked(m) = [MemoryOf(m) EXCEPT !.topics = now]
    BY <2>5
  <2> HIDE DEF now, relinked
  <2>7. [MemoryOf(m) EXCEPT !.topics = now] =
           [date |-> DateOf(m), content |-> t_messages[m].content,
            is_deleted |-> t_messages[m].is_deleted,
            compacted_from |-> t_messages[m].compacted_from,
            roles |-> rs, topics |-> now]
    BY <2>3
  <2> QED
    BY <2>4, <2>6, <2>7
<1>2. Abstract!Relinked(t, add, remove) = [m \in DOMAIN t_messages |-> relinked(m)]
  BY DEF Abstract!Relinked, Memories
<1> HIDE DEF relinked
<1> QED
  BY <1>1, <1>2 DEF Memories

(* A topic is opened with its links, or not at all. *)
LEMMA CreateImplements ==
    ASSUME IInv, IInv', RefineInv, NEW c \in Call, Arrive(c),
           NEW ms \in IdList, CreateTopic(c, ms)
    PROVE  \/ \E t \in TopicId : Abstract!Open(t, ms)
           \/ UNCHANGED <<Memories, TopicStates>>
<1>1. CASE ms \subseteq DOMAIN t_messages
  <2> DEFINE t == seq.topic + 1
  <2>1. /\ t \in TopicId /\ t \notin DOMAIN t_topics
    <3>1. seq.topic \in Nat /\ seq.topic < MaxTopic /\ MaxTopic \in Nat
      BY BoundsAssumption DEF CreateTopic, IInv, TypeOK
    <3> QED
      BY <3>1 DEF RefineInv, TopicsInBounds, TopicId
  <2>2. /\ t_message_topics' = t_message_topics \cup (ms \X {t})
        /\ UNCHANGED t_messages
        /\ t_topics' = [x \in DOMAIN t_topics \cup {t} |->
                           IF x = t THEN [status |-> "open", closed_at |-> FALSE]
                                    ELSE t_topics[x]]
    BY <1>1 DEF CreateTopic
  <2> HIDE DEF t
  <2>3. Memories' = Abstract!Relinked(t, ms, {})
    BY <2>2, Relinks
  <2>4. TopicStates' = [x \in DOMAIN TopicStates \cup {t} |->
                          IF x = t THEN "open" ELSE TopicStates[x]]
    BY <2>1, <2>2 DEF TopicStates
  <2>5. Abstract!Open(t, ms)
    BY <1>1, <2>1, <2>3, <2>4 DEF Abstract!Open, Memories, TopicStates
  <2> QED
    BY <2>1, <2>5
<1>2. CASE ~ (ms \subseteq DOMAIN t_messages)
  BY <1>2, Stutters DEF CreateTopic
<1> QED
  BY <1>1, <1>2

(* The links an update commits, as the sets of memories that come under its *)
(* topic and that leave it.                                                 *)
LEMMA UpdateImplements ==
    ASSUME IInv, IInv', RefineInv, NEW c \in Call, Proceed(c), CommitUpdate(c)
    PROVE  \E t \in TopicId : \E add, remove \in SUBSET DOMAIN Memories :
              Abstract!Relink(t, add, remove)
<1> DEFINE t == req[c].topic
           add == {m \in DOMAIN t_messages :
                     <<m, t>> \in (tx[c].links \ tx[c].unlinks) \ t_message_topics}
           remove == {m \in DOMAIN t_messages :
                        <<m, t>> \in tx[c].unlinks \cap t_message_topics}
<1>1. /\ pc[c] = "unlinkMessages"
      /\ t_message_topics' = (t_message_topics \cup tx[c].links) \ tx[c].unlinks
      /\ UNCHANGED <<t_messages, t_topics>>
  BY DEF CommitUpdate
<1>2. /\ t \in TopicId /\ t \in DOMAIN t_topics
      /\ tx[c].links \subseteq Nat \X {t}
      /\ tx[c].unlinks \subseteq Nat \X {t}
  <2>1. req[c] \in UpdateRequest
    BY <1>1 DEF IInv, TypeOK, UpdateStep
  <2> QED
    BY <1>1, <2>1 DEF RefineInv, OwnTopic, UpdateRequest
<1> HIDE DEF t
<1>3. ASSUME NEW m \in DOMAIN t_messages, NEW x
      PROVE  <<m, x>> \in t_message_topics' <=>
                /\ <<m, x>> \in t_message_topics \/ (x = t /\ m \in add)
                /\ ~ (x = t /\ m \in remove)
  BY <1>1, <1>2
<1>4. Memories' = Abstract!Relinked(t, add, remove)
  <2> HIDE DEF add, remove
  <2> QED
    BY <1>1, <1>3, Relinks
<1>5. ASSUME NEW m \in DOMAIN t_messages
      PROVE  t \in Memories[m].topics <=> <<m, t>> \in t_message_topics
  <2>1. Memories[m].topics = TopicsOf({m})
    BY DEF Memories, MemoryOf
  <2> QED
    BY <2>1, Seen DEF SeenAs
<1>6. /\ \A m \in add : t \notin Memories[m].topics
      /\ \A m \in remove : t \in Memories[m].topics
  BY <1>5
<1>7. add \in SUBSET DOMAIN Memories /\ remove \in SUBSET DOMAIN Memories
  BY DEF Memories
<1> HIDE DEF add, remove
<1>8. Abstract!Relink(t, add, remove)
  BY <1>1, <1>2, <1>4, <1>6 DEF Abstract!Relink, TopicStates
<1> QED
  BY <1>2, <1>7, <1>8

(* The commit of a remember: one memory appears, with its date, its topic *)
(* and its roles.                                                         *)
LEMMA SaveImplements ==
    ASSUME IInv, IInv', RefineInv, NEW c \in Call, Proceed(c), CommitMessage(c)
    PROVE  \E m \in MessageId, row \in Abstract!SavedRow : Abstract!Save(m, row)
<1>0. PICK m : m = tx[c].message
  OBVIOUS
<1> DEFINE under == IF req[c].topic = NoTopic THEN {} ELSE {req[c].topic}
           row == [date |-> req[c].date, content |-> req[c].content,
                   is_deleted |-> FALSE, compacted_from |-> req[c].compacted_from,
                   roles |-> req[c].roles, topics |-> under]
<1>1. /\ pc[c] = "commitMessage" /\ req[c] \in RememberRequest
      /\ t_message_topics' = t_message_topics \cup tx[c].links
      /\ t_message_roles' = t_message_roles \cup tx[c].roleLinks
      /\ UNCHANGED t_topics
  BY DEF CommitMessage, IInv, TypeOK, RememberStep
<1>2. /\ m \in 1..seq.message /\ m \notin DOMAIN t_messages
      /\ \A s \in req[c].compacted_from : s < m
      /\ req[c].compacted_from \subseteq DOMAIN t_messages
  BY <1>0, <1>1 DEF IInv, CallInv, IdDrawn, SourcesStored, Numbered, Checked, Sessioned
<1>3. m \in MessageId
  <2>1. Cardinality(Starting) \in Nat /\ seq.message \in Nat /\ remembers \in Nat
    BY FS_CardinalityType DEF RefineInv, IdsInBounds, IInv, TypeOK
  <2> QED
    BY <1>2, <2>1, BoundsAssumption DEF RefineInv, IdsInBounds, MessageId
<1>4. /\ m \in DOMAIN t_messages' \ DOMAIN t_messages
      /\ DOMAIN t_messages' = DOMAIN t_messages \cup {m}
      /\ t_messages'[m] = NewMessage(c)
      /\ \A n \in DOMAIN t_messages : t_messages'[n] = t_messages[n]
  BY <1>0, <1>2 DEF CommitMessage
<1>5. /\ tx[c].links = {m} \X under
      /\ under \in {{}} \cup {{t} : t \in TopicId}
      /\ under \subseteq DOMAIN t_topics
  <2>1. LinksReady(c) /\ NoTopic \notin DOMAIN t_topics
    BY BoundsAssumption DEF IInv, CallInv, RefineInv, TopicsInBounds, NoTopic, TypeOK
  <2>2. req[c].topic \in TopicId \cup {NoTopic}
    BY <1>1 DEF RememberRequest
  <2> QED
    BY <1>0, <1>1, <2>1, <2>2 DEF LinksReady
<1>6. tx[c].roleLinks = {m} \X req[c].roles
  BY <1>0, <1>1 DEF IInv, CallInv, RolesReady
<1> HIDE DEF under
<1>7. SeenAs /\ SeenAs'
  BY Seen, SeenNext
<1>8. MemoryOf(m)' = row
  <2>1. DateOf(m)' = req[c].date
    <3>1. PICK s \in t_sessions' : s.id = t_messages'[m].session /\ s.date = req[c].date
      BY <1>4, WholeRow
    <3> QED
      BY <1>4, <1>7, <3>1 DEF SeenAs
  <2>2. TopicsOf({m})' = under
    <3>1. \A t : <<m, t>> \notin t_message_topics
      BY <1>2 DEF IInv, References
    <3>2. \A t : <<m, t>> \in t_message_topics' <=> t \in under
      BY <1>1, <1>5, <3>1
    <3>3. \A t : t \in TopicsOf({m})' <=> t \in under
      BY <1>7, <3>2 DEF SeenAs
    <3> QED
      BY <3>3 DEF TopicsOf
  <2>3. MemoryOf(m)'.roles = req[c].roles
    <3>1. \A r : <<m, r>> \notin t_message_roles
      BY <1>2 DEF IInv, References
    <3>2. \A r : <<m, r>> \in t_message_roles' <=> r \in req[c].roles
      BY <1>1, <1>6, <3>1
    <3>3. \A r : r \in MemoryOf(m)'.roles <=> r \in req[c].roles
      BY <1>7, <3>2 DEF SeenAs
    <3> QED
      BY <3>3 DEF MemoryOf
  <2>4. MemoryOf(m)' = [date |-> DateOf(m)', content |-> t_messages'[m].content,
                        is_deleted |-> t_messages'[m].is_deleted,
                        compacted_from |-> t_messages'[m].compacted_from,
                        roles |-> req[c].roles, topics |-> TopicsOf({m})']
    BY <2>3 DEF MemoryOf
  <2>5. /\ t_messages'[m].content = req[c].content
        /\ t_messages'[m].is_deleted = FALSE
        /\ t_messages'[m].compacted_from = req[c].compacted_from
    BY <1>4 DEF NewMessage
  <2> QED
    BY <2>1, <2>2, <2>4, <2>5
<1>9. ASSUME NEW n \in DOMAIN t_messages PROVE MemoryOf(n)' = MemoryOf(n)
  <2>1. \A t : <<n, t>> \in t_message_topics' <=> <<n, t>> \in t_message_topics
    BY <1>1, <1>2, <1>5
  <2> QED
    BY <1>4, <2>1, SameMemory, SameTopics DEF MemoryOf
<1>10. row \in Abstract!SavedRow
  BY <1>1, <1>5 DEF RememberRequest, Abstract!SavedRow
<1> HIDE DEF row
<1>11. Memories' = [i \in DOMAIN Memories \cup {m} |-> IF i = m THEN row ELSE Memories[i]]
  BY <1>2, <1>4, <1>8, <1>9 DEF Memories
<1>12. /\ row.compacted_from = req[c].compacted_from
       /\ row.topics = under
  BY DEF row
<1>13. Abstract!Save(m, row)
  BY <1>1, <1>2, <1>5, <1>11, <1>12 DEF Abstract!Save, Memories, TopicStates
<1> QED
  BY <1>3, <1>10, <1>13

LEMMA StepImplements ==
    ASSUME IInv, IInv', RefineInv, [Next]_vars
    PROVE  [Abstract!Next]_<<Memories, TopicStates>>
<1>1. CASE UNCHANGED vars
  <2>1. ASSUME NEW m PROVE MemoryOf(m)' = MemoryOf(m)
    BY <1>1 DEF vars, tables, MemoryOf, DateOf, TopicsOf
  <2> QED
    BY <1>1, <2>1 DEF vars, tables, Memories, TopicStates
<1>2. ASSUME NEW c \in Call, Arrive(c) PROVE [Abstract!Next]_<<Memories, TopicStates>>
  <2>1. CASE UNCHANGED <<t_messages, t_topics, t_message_topics>>
    BY <1>2, <2>1, Stutters
  <2>2. ASSUME NEW ms \in IdList, CreateTopic(c, ms)
        PROVE  [Abstract!Next]_<<Memories, TopicStates>>
    BY <1>2, <2>2, CreateImplements DEF Abstract!Next
  <2>3. ASSUME NEW m \in MessageId, Forget(c, m)
        PROVE  [Abstract!Next]_<<Memories, TopicStates>>
    BY <1>2, <2>3, ForgetImplements DEF Abstract!Next
  <2>4. ASSUME NEW m \in MessageId, NEW text \in Content, Edit(c, m, text)
        PROVE  [Abstract!Next]_<<Memories, TopicStates>>
    BY <1>2, <2>4, EditImplements DEF Abstract!Next
  <2>5. ASSUME NEW t \in TopicId, CloseTopic(c, t) \/ ReopenTopic(c, t)
        PROVE  [Abstract!Next]_<<Memories, TopicStates>>
    BY <1>2, <2>5, ToggleImplements DEF Abstract!Next
  <2> QED
    BY <1>2, <2>1, <2>2, <2>3, <2>4, <2>5 DEF Arrive, Remember, UpdateTopic, tables
<1>3. ASSUME NEW c \in Call, Proceed(c) PROVE [Abstract!Next]_<<Memories, TopicStates>>
  <2>1. CASE CommitMessage(c)
    BY <1>3, <2>1, SaveImplements DEF Abstract!Next
  <2>2. CASE CommitUpdate(c)
    BY <1>3, <2>2, UpdateImplements DEF Abstract!Next
  <2>3. CASE UNCHANGED tables
    BY <1>3, <2>3, Stutters DEF tables
  <2>4. CASE CheckLive(c) \/ CheckTopic(c) \/ CheckOverlap(c)
    BY <2>3, <2>4, CheckMoves
  <2> QED
    BY <1>3, <2>1, <2>2, <2>3, <2>4 DEF Proceed, FindSession, InsertSession,
       InsertMessage, LinkTopic, InsertRole, LinkRoles, FindTopic, LinkMessage,
       LinksChecked, UnlinkMessage, Write, Rollback
<1>4. ASSUME NEW c \in Call, Abort(c) PROVE [Abstract!Next]_<<Memories, TopicStates>>
  BY <1>4, Stutters DEF Abort, Rollback, tables
<1> QED
  BY <1>1, <1>2, <1>3, <1>4 DEF Next

(* Every command takes effect in one step for whoever reads the committed  *)
(* tables, however its statements interleave with those of other calls and *)
(* wherever it is cut off: the store implements Memory.                    *)
THEOREM ImplementsMemory == Spec => ActsAtomically
<1>1. Init => Abstract!Init
  BY DEF Init, Abstract!Init, Memories, TopicStates
<1>2. IInv /\ IInv' /\ RefineInv /\ [Next]_vars => [Abstract!Next]_<<Memories, TopicStates>>
  BY StepImplements
<1> QED
  BY <1>1, <1>2, RefineInvariant, PTL DEF Spec, ActsAtomically, Abstract!Spec

-----------------------------------------------------------------------------
(* Deadlocks.  What a call has locked, by the statement it is at.          *)
LocksHeld(c) ==
    /\ tx[c].sessions # {} => pc[c] \in Sessioned
    /\ tx[c].names # {} => pc[c] \in {"linkRoles", "commitMessage"}
    /\ tx[c].roles \subseteq tx[c].names
    /\ pc[c] = "linkRoles" => tx[c].names \subseteq req[c].roles
    /\ LinksHeld(c) # {} => pc[c] \in {"linkRoles", "commitMessage",
                                       "linkMessages", "unlinkMessages"}
    /\ pc[c] \in UpdateStep => req[c].add \cap req[c].remove = {}
    /\ pc[c] = "linkMessages" =>
          /\ tx[c].rows \cup tx[c].links \subseteq req[c].add \X {req[c].topic}
          /\ tx[c].rows \cap tx[c].links = {}
          /\ tx[c].unlinks = {}
    /\ pc[c] = "unlinkMessages" =>
          /\ tx[c].links \subseteq req[c].add \X {req[c].topic}
          /\ tx[c].rows \cup tx[c].unlinks \subseteq req[c].remove \X {req[c].topic}
          /\ tx[c].rows \cap tx[c].unlinks = {}

(* A call that names two roles, or links and unlinks two messages.         *)
TakesTwo(c) ==
    \/ pc[c] = "linkRoles" /\ \E x, y \in req[c].roles : x # y
    \/ /\ pc[c] \in {"linkMessages", "unlinkMessages"}
       /\ \E x, y \in req[c].add \cup req[c].remove : x # y

(* Whoever waits in a circle, two of the calls in it name two roles or two *)
(* messages each: the session row, the topic's link and a single name are  *)
(* always taken in the same order.                                         *)
DeadlocksNeedTwo ==
    \A S \in SUBSET Call : (S # {} /\ \A b \in S : Blocked(b, S)) =>
        \E b, d \in S : b # d /\ TakesTwo(b) /\ TakesTwo(d)

LEMMA NothingHeld ==
    ASSUME NEW c \in Call, tx'[c] = NoWrites, pc'[c] \notin UpdateStep
    PROVE  LocksHeld(c)'
BY DEF LocksHeld, LinksHeld, NoWrites, UpdateStep

LEMMA LocksMove ==
    ASSUME IInv, NEW c \in Call, Arrive(c) \/ Proceed(c) \/ Abort(c), LocksHeld(c)
    PROVE  LocksHeld(c)'
<1>b. /\ pc \in [Call -> {"idle"} \cup RememberStep \cup UpdateStep]
      /\ req \in [Call -> RememberRequest \cup UpdateRequest \cup {NoRequest}]
      /\ tx \in [Call -> Writes]
      /\ seq \in [session : Nat, message : Nat, topic : Nat]
      /\ NothingWritten(c)
  BY DEF IInv, TypeOK, CallInv
<1>n. NoWrites.unlinks = {}
  BY DEF NoWrites
<1>f. ASSUME Finish(c) PROVE LocksHeld(c)'
  BY <1>f, <1>b, NothingHeld DEF Finish, UpdateStep
<1>1. CASE Arrive(c)
  <2>0. pc[c] = "idle" /\ tx'[c] = NoWrites
    BY <1>1, <1>b DEF Arrive, Remember, UpdateTopic, CreateTopic, Forget, Edit,
       CloseTopic, ReopenTopic, SetTopic, Step, NothingWritten
  <2>1. ASSUME NEW r \in UpdateRequest, UpdateTopic(c, r) PROVE LocksHeld(c)'
    <3>1. pc'[c] = "findTopic" /\ req'[c].add \cap req'[c].remove = {}
      BY <2>1, <1>b DEF UpdateTopic, Step
    <3> QED
      BY <2>0, <3>1 DEF LocksHeld, LinksHeld, NoWrites
  <2>2. CASE pc'[c] \notin UpdateStep
    BY <2>0, <2>2, NothingHeld
  <2>3. ASSUME pc'[c] \in UpdateStep
        PROVE  \E r \in UpdateRequest : UpdateTopic(c, r)
    BY <1>1, <1>b, <2>0, <2>3
    DEF Arrive, Remember, CreateTopic, Forget, Edit, CloseTopic, ReopenTopic,
        SetTopic, Step, UpdateStep
  <2> QED
    BY <2>1, <2>2, <2>3
<1>2. CASE CheckLive(c) \/ CheckTopic(c) \/ CheckOverlap(c)
  <2>1. CASE Finish(c)
    BY <1>f, <2>1
  <2>2. ASSUME UNCHANGED <<req, tx>>,
               NEW from \in RememberStep \ Sessioned,
               NEW to \in RememberStep \ Sessioned, Step(c, from, to)
        PROVE  LocksHeld(c)'
    BY <2>2, <1>b DEF LocksHeld, LinksHeld, Step, Sessioned, Numbered,
       RememberStep, UpdateStep
  <2> QED
    BY <1>2, <2>1, <2>2, CheckMoves
<1>3. CASE FindSession(c) \/ InsertSession(c) \/ InsertMessage(c)
  <2>0. /\ tx'[c].names = tx[c].names /\ tx'[c].roles = tx[c].roles
        /\ tx'[c].links = tx[c].links /\ tx'[c].unlinks = tx[c].unlinks
        /\ InsertMessage(c) => tx'[c].sessions = tx[c].sessions
    <3>1. CASE FindSession(c)
      <4>1. CASE UNCHANGED tx
        BY <3>1, <4>1 DEF FindSession, InsertMessage, Step
      <4>2. ASSUME NEW s \in t_sessions, Write(c, [tx[c] EXCEPT !.session = s.id])
            PROVE  /\ tx'[c].names = tx[c].names /\ tx'[c].roles = tx[c].roles
                   /\ tx'[c].links = tx[c].links /\ tx'[c].unlinks = tx[c].unlinks
        BY <4>2, <1>b DEF Write, Writes
      <4> QED
        BY <3>1, <4>1, <4>2 DEF FindSession, InsertMessage, Step
    <3>2. CASE InsertSession(c)
      <4>1. PICK s : Write(c, [tx[c] EXCEPT !.session = s.id, !.sessions = {s}])
        BY <3>2, <1>b DEF InsertSession
      <4>2. pc[c] = "insertSession"
        BY <3>2, <1>b DEF InsertSession, Step
      <4> QED
        BY <4>1, <4>2, <1>b DEF Write, Writes, InsertMessage, Step
    <3>3. CASE InsertMessage(c)
      <4>1. Write(c, [tx[c] EXCEPT !.message = seq.message + 1])
        BY <3>3 DEF InsertMessage
      <4> QED
        BY <4>1, <1>b DEF Write, Writes
    <3> QED
      BY <1>3, <3>1, <3>2, <3>3
  <2>1. /\ pc[c] \in {"findSession", "insertSession", "insertMessage"}
        /\ pc'[c] \in {"insertSession", "insertMessage", "linkTopic", "linkRoles",
                       "commitMessage"}
        /\ pc'[c] = "insertSession" => tx'[c] = tx[c] /\ pc[c] = "findSession"
        /\ pc[c] = "insertMessage" => InsertMessage(c)
    BY <1>3, <1>b, AfterMessageType
    DEF FindSession, InsertSession, InsertMessage, Step
  <2>2. pc[c] \in {"findSession", "insertSession"} => tx[c].sessions = {}
    BY DEF LocksHeld, Sessioned, Numbered
  <2>3. tx'[c].names = {} /\ tx'[c].roles = {} /\ LinksHeld(c)' = {}
    BY <2>0, <2>1 DEF LocksHeld, LinksHeld
  <2> QED
    BY <2>0, <2>1, <2>2, <2>3 DEF LocksHeld, Sessioned, Numbered, UpdateStep
<1>4. CASE LinkTopic(c)
  <2>1. CASE ~ Rollback(c)
    <3> DEFINE rows == [tx[c] EXCEPT !.links = {<<tx[c].message, req[c].topic>>}]
               next == AfterMessage([req[c] EXCEPT !.topic = NoTopic])
    <3>0. next \in {"linkRoles", "commitMessage"}
      <4>1. [req[c] EXCEPT !.topic = NoTopic].topic = NoTopic
        <5>1. pc[c] = "linkTopic"
          BY <1>4 DEF LinkTopic, Step
        <5>2. req[c] \in RememberRequest
          BY <5>1 DEF IInv, TypeOK, RememberStep
        <5> QED
          BY <5>2 DEF RememberRequest
      <4> QED
        BY <4>1 DEF AfterMessage
    <3>1. /\ pc[c] = "linkTopic"
          /\ pc'[c] \in {"linkRoles", "commitMessage"}
          /\ tx'[c] = rows
      <4>1. Step(c, "linkTopic", next) /\ Write(c, rows)
        BY <1>4, <2>1 DEF LinkTopic
      <4> HIDE DEF rows, next
      <4> QED
        BY <3>0, <4>1, <1>b DEF Step, Write
    <3>2. tx'[c].names = {} /\ tx'[c].roles = {}
      BY <3>1, <1>b DEF LocksHeld, Writes
    <3> QED
      BY <3>1, <3>2 DEF LocksHeld, Sessioned, Numbered, UpdateStep
  <2> QED
    BY <2>1, <1>f DEF Rollback
<1>5. CASE InsertRole(c)
  <2> DEFINE rows(r) == [tx[c] EXCEPT !.names = @ \cup {r},
                                      !.roles = @ \cup ({r} \ m_role)]
  <2>0. PICK r \in NamesLeft(c) : Write(c, rows(r))
    BY <1>5, <1>b DEF InsertRole
  <2>1. tx'[c] = rows(r) /\ req'[c] = req[c]
    BY <2>0, <1>b DEF Write
  <2>2. /\ pc[c] = "linkRoles" /\ pc'[c] = "linkRoles"
        /\ r \in req[c].roles
    BY <1>5, <1>b DEF InsertRole, Step, NamesLeft
  <2>3. /\ tx'[c].names = tx[c].names \cup {r}
        /\ tx'[c].roles \subseteq tx[c].roles \cup {r}
        /\ tx'[c].sessions = tx[c].sessions /\ LinksHeld(c)' = LinksHeld(c)
    BY <2>1, <1>b DEF Writes, LinksHeld
  <2> QED
    BY <2>1, <2>2, <2>3 DEF LocksHeld, Sessioned, Numbered, UpdateStep
<1>6. CASE LinkRoles(c)
  <2>1. /\ pc[c] = "linkRoles" /\ pc'[c] = "commitMessage"
        /\ tx'[c].names = tx[c].names /\ tx'[c].roles = tx[c].roles
    BY <1>6, <1>b DEF LinkRoles, Write, Step, Writes
  <2> QED
    BY <2>1 DEF LocksHeld, Sessioned, Numbered, UpdateStep
<1>7. CASE CommitMessage(c) \/ CommitUpdate(c) \/ Abort(c)
  BY <1>7, <1>f DEF CommitMessage, CommitUpdate, Abort, Rollback
<1>8. CASE FindTopic(c)
  <2>1. CASE ~ Rollback(c)
    <3> DEFINE wanted == req[c].add \X {req[c].topic}
    <3>1. /\ pc[c] = "findTopic" /\ pc'[c] = "linkMessages" /\ req'[c] = req[c]
          /\ tx'[c] = [tx[c] EXCEPT !.rows = wanted]
      BY <1>8, <2>1, <1>b DEF FindTopic, Step, Write
    <3>2. tx'[c] = [tx[c] EXCEPT !.rows = wanted] /\ tx[c] \in Writes
      BY <3>1, <1>b
    <3>3. /\ tx'[c].rows = wanted /\ tx'[c].links = tx[c].links
          /\ tx'[c].unlinks = tx[c].unlinks /\ tx'[c].names = tx[c].names
          /\ tx'[c].roles = tx[c].roles /\ tx'[c].sessions = tx[c].sessions
      <4> HIDE DEF wanted
      <4> QED
        BY <3>2 DEF Writes
    <3>4. /\ tx[c].links = {} /\ tx[c].unlinks = {} /\ tx[c].names = {}
          /\ tx[c].roles = {} /\ tx[c].sessions = {}
          /\ req[c].add \cap req[c].remove = {}
      BY <3>1 DEF LocksHeld, LinksHeld, UpdateStep, Sessioned, Numbered
    <3> QED
      BY <3>1, <3>3, <3>4 DEF LocksHeld, LinksHeld
  <2> QED
    BY <2>1, <1>f DEF Rollback
<1>9. CASE LinkMessage(c)
  <2> DEFINE rows(l) == [tx[c] EXCEPT !.rows = @ \ {l}, !.links = @ \cup ({l} \ t_message_topics)]
  <2>0. PICK l \in tx[c].rows : Write(c, rows(l))
    BY <1>9, <1>b DEF LinkMessage
  <2>1. tx' = [tx EXCEPT ![c] = rows(l)] /\ tx'[c] = rows(l)
    BY <2>0, <1>b DEF Write
  <2>2. /\ pc[c] = "linkMessages" /\ pc'[c] = "linkMessages" /\ req'[c] = req[c]
    BY <1>9, <1>b DEF LinkMessage, Write, Step
  <2>3. /\ tx'[c].rows = tx[c].rows \ {l}
        /\ tx'[c].links \subseteq tx[c].links \cup {l}
        /\ tx'[c].unlinks = tx[c].unlinks /\ tx'[c].names = tx[c].names
        /\ tx'[c].roles = tx[c].roles /\ tx'[c].sessions = tx[c].sessions
    BY <2>1, <1>b DEF Writes
  <2>4. /\ tx[c].rows \cup tx[c].links \subseteq req[c].add \X {req[c].topic}
        /\ tx[c].rows \cap tx[c].links = {}
        /\ tx[c].unlinks = {} /\ tx[c].names = {}
        /\ tx[c].roles = {} /\ tx[c].sessions = {}
        /\ req[c].add \cap req[c].remove = {}
    BY <2>2 DEF LocksHeld, UpdateStep, Sessioned, Numbered
  <2>5. /\ tx'[c].rows \cup tx'[c].links \subseteq tx[c].rows \cup tx[c].links
        /\ tx'[c].rows \cap tx'[c].links = {}
    BY <2>3, <2>4
  <2>6. tx'[c].rows \cup tx'[c].links \subseteq req[c].add \X {req[c].topic}
    BY <2>4, <2>5
  <2> QED
    BY <2>2, <2>3, <2>4, <2>5, <2>6 DEF LocksHeld
<1>10. CASE UnlinkMessage(c)
  <2> DEFINE rows(l) == [tx[c] EXCEPT !.rows = @ \ {l}, !.unlinks = @ \cup ({l} \cap t_message_topics)]
  <2>0. PICK l \in tx[c].rows : Write(c, rows(l))
    BY <1>10, <1>b DEF UnlinkMessage
  <2>1. tx' = [tx EXCEPT ![c] = rows(l)] /\ tx'[c] = rows(l)
    BY <2>0, <1>b DEF Write
  <2>2. /\ pc[c] = "unlinkMessages" /\ pc'[c] = "unlinkMessages" /\ req'[c] = req[c]
    BY <1>10, <1>b DEF UnlinkMessage, Write, Step
  <2>3. /\ tx'[c].rows = tx[c].rows \ {l}
        /\ tx'[c].unlinks \subseteq tx[c].unlinks \cup {l}
        /\ tx'[c].links = tx[c].links /\ tx'[c].names = tx[c].names
        /\ tx'[c].roles = tx[c].roles /\ tx'[c].sessions = tx[c].sessions
    BY <2>1, <1>b DEF Writes
  <2>4. /\ tx[c].links \subseteq req[c].add \X {req[c].topic}
        /\ tx[c].rows \cup tx[c].unlinks \subseteq req[c].remove \X {req[c].topic}
        /\ tx[c].rows \cap tx[c].unlinks = {} /\ tx[c].names = {}
        /\ tx[c].roles = {} /\ tx[c].sessions = {}
        /\ req[c].add \cap req[c].remove = {}
    BY <2>2 DEF LocksHeld, UpdateStep, Sessioned, Numbered
  <2>5. /\ tx'[c].rows \cup tx'[c].unlinks \subseteq tx[c].rows \cup tx[c].unlinks
        /\ tx'[c].rows \cap tx'[c].unlinks = {}
    BY <2>3, <2>4
  <2>6. tx'[c].rows \cup tx'[c].unlinks \subseteq req[c].remove \X {req[c].topic}
    BY <2>4, <2>5
  <2> QED
    BY <2>2, <2>3, <2>4, <2>5, <2>6 DEF LocksHeld
<1>11. CASE LinksChecked(c)
  <2>1. CASE ~ Rollback(c)
    <3> DEFINE doomed == (req[c].remove \X {req[c].topic}) \cap t_message_topics
    <3>1. /\ pc[c] = "linkMessages" /\ pc'[c] = "unlinkMessages" /\ req'[c] = req[c]
          /\ tx'[c] = [tx[c] EXCEPT !.rows = doomed]
      BY <1>11, <2>1, <1>b DEF LinksChecked, Step, Write
    <3>2. tx'[c] = [tx[c] EXCEPT !.rows = doomed] /\ tx[c] \in Writes
      BY <3>1, <1>b
    <3>3. /\ tx'[c].rows = doomed /\ tx'[c].links = tx[c].links
          /\ tx'[c].unlinks = tx[c].unlinks /\ tx'[c].names = tx[c].names
          /\ tx'[c].roles = tx[c].roles /\ tx'[c].sessions = tx[c].sessions
      <4> HIDE DEF doomed
      <4> QED
        BY <3>2 DEF Writes
    <3>4. /\ tx[c].links \subseteq req[c].add \X {req[c].topic}
          /\ tx[c].unlinks = {} /\ tx[c].names = {}
          /\ tx[c].roles = {} /\ tx[c].sessions = {}
          /\ req[c].add \cap req[c].remove = {}
      BY <3>1 DEF LocksHeld, UpdateStep, Sessioned, Numbered
    <3>5. doomed \subseteq req[c].remove \X {req[c].topic}
      OBVIOUS
    <3> HIDE DEF doomed
    <3> QED
      BY <3>1, <3>3, <3>4, <3>5 DEF LocksHeld
  <2> QED
    BY <2>1, <1>f DEF Rollback
<1> QED
  BY <1>1, <1>2, <1>3, <1>4, <1>5, <1>6, <1>7, <1>8, <1>9, <1>10, <1>11 DEF Proceed

LEMMA LocksInvariant == Spec => [](\A c \in Call : LocksHeld(c))
<1>1. Init => \A c \in Call : LocksHeld(c)
  BY DEF Init, LocksHeld, LinksHeld, NoWrites, UpdateStep
<1>2. IInv /\ (\A c \in Call : LocksHeld(c)) /\ [Next]_vars
        => (\A c \in Call : LocksHeld(c))'
  <2> SUFFICES ASSUME IInv, \A c \in Call : LocksHeld(c), [Next]_vars,
                      NEW d \in Call
               PROVE  LocksHeld(d)'
    OBVIOUS
  <2>1. CASE UNCHANGED vars
    BY <2>1 DEF vars, LocksHeld, LinksHeld
  <2>2. ASSUME NEW c \in Call, Arrive(c) \/ Proceed(c) \/ Abort(c)
        PROVE  LocksHeld(d)'
    <3>1. CASE d = c
      BY <2>2, <3>1, LocksMove
    <3>2. CASE d # c
      <4>1. pc'[d] = pc[d] /\ req'[d] = req[d] /\ tx'[d] = tx[d]
        BY <2>2, <3>2, OthersStay DEF IInv
      <4> QED
        BY <4>1 DEF LocksHeld, LinksHeld
    <3> QED
      BY <3>1, <3>2
  <2> QED
    BY <2>1, <2>2 DEF Next
<1> QED
  BY <1>1, <1>2, Invariant, PTL DEF Spec

(* Who holds a role name and waits for another asks for two.  Who holds a  *)
(* link and waits asks for two messages, or is a remember with a link of   *)
(* its own message, which waits for a role name.                           *)
LEMMA HolderTakesTwo ==
    ASSUME \A b \in Call : LocksHeld(b),
           NEW S \in SUBSET Call, NEW o \in S, Blocked(o, S)
    PROVE  /\ tx[o].roles # {} => pc[o] = "linkRoles" /\ TakesTwo(o)
           /\ LinksHeld(o) # {} => pc[o] = "linkRoles" \/ TakesTwo(o)
           /\ tx[o].sessions # {} => pc[o] = "linkRoles"
<1>0. LocksHeld(o)
  OBVIOUS
<1>1. pc[o] \in {"insertSession", "linkRoles", "linkMessages", "unlinkMessages"}
  BY DEF Blocked
<1>2. ASSUME tx[o].roles # {} PROVE pc[o] = "linkRoles" /\ TakesTwo(o)
  <2>1. pc[o] = "linkRoles" /\ tx[o].names # {}
    BY <1>0, <1>1, <1>2 DEF LocksHeld
  <2>2. PICK x, y : x \in tx[o].names /\ y \in NamesLeft(o)
    BY <2>1 DEF Blocked
  <2>3. x \in req[o].roles /\ y \in req[o].roles /\ x # y
    BY <1>0, <2>1, <2>2 DEF LocksHeld, NamesLeft
  <2> QED
    BY <2>1, <2>3 DEF TakesTwo
<1>3. ASSUME LinksHeld(o) # {}, pc[o] # "linkRoles" PROVE TakesTwo(o)
  <2>1. pc[o] \in {"linkMessages", "unlinkMessages"}
    BY <1>0, <1>1, <1>3 DEF LocksHeld
  <2>2. PICK k, l : k \in LinksHeld(o) /\ l \in tx[o].rows
    BY <1>3, <2>1 DEF Blocked
  <2>3. /\ k \in (req[o].add \cup req[o].remove) \X {req[o].topic}
        /\ l \in (req[o].add \cup req[o].remove) \X {req[o].topic}
    BY <1>0, <2>1, <2>2 DEF LocksHeld, LinksHeld
  <2>4. k # l
    <3>1. CASE pc[o] = "linkMessages"
      BY <1>0, <2>2, <3>1 DEF LocksHeld, LinksHeld
    <3>2. CASE pc[o] = "unlinkMessages" /\ k \in tx[o].unlinks
      BY <1>0, <2>2, <3>2 DEF LocksHeld, LinksHeld
    <3>3. CASE pc[o] = "unlinkMessages" /\ k \in tx[o].links
      <4>1. k \in req[o].add \X {req[o].topic} /\ l \in req[o].remove \X {req[o].topic}
        BY <1>0, <2>2, <3>3 DEF LocksHeld
      <4>2. req[o].add \cap req[o].remove = {}
        BY <1>0, <3>3 DEF LocksHeld, UpdateStep
      <4> QED
        BY <4>1, <4>2
    <3> QED
      BY <2>1, <2>2, <3>1, <3>2, <3>3 DEF LinksHeld
  <2>5. k[1] # l[1]
    BY <2>3, <2>4
  <2> QED
    BY <2>1, <2>3, <2>5 DEF TakesTwo
<1>4. tx[o].sessions # {} => pc[o] = "linkRoles"
  BY <1>0, <1>1 DEF LocksHeld, Sessioned, Numbered
<1> QED
  BY <1>2, <1>3, <1>4

(* Behind everyone in a circle of waiting calls there is another that      *)
(* takes two.                                                              *)
LEMMA AnotherTakesTwo ==
    ASSUME \A b \in Call : LocksHeld(b),
           NEW S \in SUBSET Call, \A b \in S : Blocked(b, S), NEW c \in S
    PROVE  /\ pc[c] = "linkRoles" =>
                 \E o \in S \ {c} : pc[o] = "linkRoles" /\ TakesTwo(o)
           /\ pc[c] # "linkRoles" => \E o \in S \ {c} : TakesTwo(o)
<1>1. ASSUME NEW d \in S, pc[d] = "linkRoles"
      PROVE  \E o \in S \ {d} : pc[o] = "linkRoles" /\ TakesTwo(o)
  <2>1. PICK o \in S \ {d} : tx[o].roles # {}
    BY <1>1 DEF Blocked, RolesHeld
  <2> QED
    BY <2>1, HolderTakesTwo
<1>2. CASE pc[c] # "linkRoles"
  <2>1. PICK o \in S \ {c} : tx[o].sessions # {} \/ LinksHeld(o) # {}
    BY <1>2 DEF Blocked
  <2>2. pc[o] = "linkRoles" \/ TakesTwo(o)
    BY <2>1, HolderTakesTwo
  <2>3. CASE pc[o] = "linkRoles"
    <3>1. PICK d \in S \ {o} : pc[d] = "linkRoles" /\ TakesTwo(d)
      BY <1>1, <2>3
    <3> QED
      BY <1>2, <3>1
  <2> QED
    BY <1>2, <2>1, <2>2, <2>3
<1> QED
  BY <1>1, <1>2

(* Calls that name one role or one message never wait in a circle, however *)
(* many they are: a deadlock takes two calls that each name two.           *)
THEOREM DeadlockTakesTwo == Spec => []DeadlocksNeedTwo
<1>1. (\A c \in Call : LocksHeld(c)) => DeadlocksNeedTwo
  <2> SUFFICES ASSUME \A c \in Call : LocksHeld(c),
                      NEW S \in SUBSET Call, NEW c \in S,
                      \A b \in S : Blocked(b, S)
               PROVE  \E b, d \in S : b # d /\ TakesTwo(b) /\ TakesTwo(d)
    BY DEF DeadlocksNeedTwo
  <2>1. PICK b \in S : TakesTwo(b)
    BY AnotherTakesTwo
  <2>2. PICK d \in S \ {b} : TakesTwo(d)
    BY AnotherTakesTwo
  <2> QED
    BY <2>1, <2>2
<1> QED
  BY <1>1, LocksInvariant, PTL
=============================================================================
