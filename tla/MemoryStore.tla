---------------------------- MODULE MemoryStore ----------------------------
(***************************************************************************)
(* The memory tables of lisanima and the commands that write them:         *)
(* remember (with compaction), forget, edit and topic_manage.              *)
(*                                                                         *)
(* Every command is one transaction at READ COMMITTED.  The t_* and m_role *)
(* variables hold the committed rows.  A command of several statements is  *)
(* a call: one action per statement that reads or locks shared rows, its   *)
(* own uncommitted rows in tx[c] until its commit.  A command whose        *)
(* transaction is a single writing statement (forget, edit, close, reopen) *)
(* or whose first rows nobody else can see (create) is one action of an    *)
(* idle caller.  Topic names, emotions, projects and speakers are data no  *)
(* statement here branches on and are left out.                            *)
(***************************************************************************)
EXTENDS Integers, FiniteSets

CONSTANTS
    Call,         \* concurrent MCP tool calls; one element = stdio mode
    Date,         \* session dates
    Role,         \* normalised role names
    Content,      \* message contents
    IdList,       \* the message id lists callers pass, known or made up
    RoleList,     \* the role lists callers pass
    MaxRemember,  \* bound: remember calls that may be started
    MaxTopic      \* bound: topics that may be created

ASSUME BoundsAssumption == /\ MaxRemember \in Nat
                           /\ MaxTopic \in Nat
                           /\ IdList \subseteq SUBSET Nat
                           /\ RoleList \subseteq SUBSET Role

VARIABLES
    t_sessions,        \* set of [id, date]; session_seq is always 1
    t_messages,        \* message id -> row
    t_topics,          \* topic id -> row
    t_message_topics,  \* set of <<message id, topic id>>
    m_role,            \* set of role names
    t_message_roles,   \* set of <<message id, role name>>
    seq,               \* last value of each identity sequence
    remembers,         \* remember calls started (bounded by MaxRemember)
    pc, req, tx        \* per call: next statement, parameters, private rows

tables == <<t_sessions, t_messages, t_topics, t_message_topics, m_role,
            t_message_roles>>
vars == <<tables, seq, remembers, pc, req, tx>>

RememberStep == {"checkLive", "checkTopic", "checkOverlap", "findSession",
                 "insertSession", "insertMessage", "linkTopic", "linkRoles",
                 "commitMessage"}
UpdateStep == {"findTopic", "linkMessages", "unlinkMessages"}

MessageId == 1..MaxRemember
TopicId == 1..MaxTopic
NoTopic == 0

Session == [id : Nat, date : Date]
Message == [session : Nat, compacted_from : IdList,
            is_deleted : BOOLEAN, content : Content]
Topic == [status : {"open", "closed"}, closed_at : BOOLEAN]

RememberRequest == [op : {"remember"}, date : Date, content : Content,
                    compacted_from : IdList,
                    topic : TopicId \cup {NoTopic}, roles : RoleList]
UpdateRequest == [op : {"update"}, topic : TopicId,
                  add : IdList, remove : IdList]
NoRequest == [op |-> "none"]

(* The rows a transaction has written and nobody else sees.  sessions also *)
(* holds an existing row the no-op DO UPDATE has locked.  A statement that *)
(* writes several rows takes them one by one: rows and names say which     *)
(* link rows it has before it and which role names behind it.              *)
NoWrites == [session |-> 0, message |-> 0, sessions |-> {}, links |-> {},
             unlinks |-> {}, roles |-> {}, roleLinks |-> {},
             rows |-> {}, names |-> {}]
Writes == [session : Nat, message : Nat, sessions : SUBSET Session,
           links : SUBSET (Nat \X Nat), unlinks : SUBSET (Nat \X Nat),
           roles : SUBSET Role, roleLinks : SUBSET (Nat \X Role),
           rows : SUBSET (Nat \X Nat), names : SUBSET Role]

TypeOK ==
    /\ t_sessions \subseteq Session
    /\ DOMAIN t_messages \subseteq Nat
    /\ \A m \in DOMAIN t_messages : t_messages[m] \in Message
    /\ DOMAIN t_topics \subseteq Nat
    /\ \A t \in DOMAIN t_topics : t_topics[t] \in Topic
    /\ t_message_topics \subseteq Nat \X Nat
    /\ m_role \subseteq Role
    /\ t_message_roles \subseteq Nat \X Role
    /\ seq \in [session : Nat, message : Nat, topic : Nat]
    /\ remembers \in Nat
    /\ pc \in [Call -> {"idle"} \cup RememberStep \cup UpdateStep]
    /\ req \in [Call -> RememberRequest \cup UpdateRequest \cup {NoRequest}]
    /\ tx \in [Call -> Writes]
    /\ \A c \in Call : /\ pc[c] \in RememberStep => req[c] \in RememberRequest
                       /\ pc[c] \in UpdateStep => req[c] \in UpdateRequest

Init ==
    /\ t_sessions = {}
    /\ t_messages = [m \in {} |-> 0]
    /\ t_topics = [t \in {} |-> 0]
    /\ t_message_topics = {}
    /\ m_role = {}
    /\ t_message_roles = {}
    /\ seq = [session |-> 0, message |-> 0, topic |-> 0]
    /\ remembers = 0
    /\ pc = [c \in Call |-> "idle"]
    /\ req = [c \in Call |-> NoRequest]
    /\ tx = [c \in Call |-> NoWrites]

(***************************************************************************)
(* Transaction control.                                                    *)
(***************************************************************************)
Step(c, from, to) == pc[c] = from /\ pc' = [pc EXCEPT ![c] = to]

(* Bug: the transaction is left open when the answer is returned. *)
FinishWithoutEnding(c) == /\ pc' = [pc EXCEPT ![c] = "idle"]
                          /\ req' = [req EXCEPT ![c] = NoRequest]
                          /\ UNCHANGED tx

Finish(c) == /\ pc' = [pc EXCEPT ![c] = "idle"]
             /\ req' = [req EXCEPT ![c] = NoRequest]
             /\ tx' = [tx EXCEPT ![c] = NoWrites]

(* A statement that writes private rows only. *)
Write(c, rows) == /\ tx' = [tx EXCEPT ![c] = rows]
                  /\ UNCHANGED <<tables, req, remembers>>

(* An early return or an exception: nothing of the transaction stays. *)
Rollback(c) == Finish(c) /\ UNCHANGED <<tables, seq, remembers>>

(* Any statement may fail: statement_timeout, lost connection, process     *)
(* killed.                                                                 *)
Abort(c) == pc[c] # "idle" /\ Rollback(c)

(***************************************************************************)
(* remember.                                                               *)
(***************************************************************************)
Remember(c, r) ==
    /\ remembers < MaxRemember
    /\ Step(c, "idle", IF r.compacted_from = {} THEN "findSession"
                                                ELSE "checkLive")
    /\ req' = [req EXCEPT ![c] = r]
    /\ remembers' = remembers + 1
    /\ UNCHANGED <<tables, seq, tx>>

(* Bug: the is_deleted condition is dropped. *)
LiveOrForgotten(m) == m \in DOMAIN t_messages

Live(m) == m \in DOMAIN t_messages /\ ~ t_messages[m].is_deleted

TopicsOf(ms) == {l[2] : l \in {k \in t_message_topics : k[1] \in ms}}

(* Bug: = where the query has && (a common element). *)
CompactedAlike(ms) ==
    \E m \in DOMAIN t_messages : t_messages[m].compacted_from = ms

AlreadyCompacted(ms) ==
    \E m \in DOMAIN t_messages : t_messages[m].compacted_from \cap ms # {}

(* validateCompactSource: one statement, one snapshot, per check. *)
Check(c, from, to, valid) ==
    \/ /\ valid
       /\ Step(c, from, to)
       /\ UNCHANGED <<tables, seq, remembers, req, tx>>
    \/ /\ ~ valid
       /\ pc[c] = from
       /\ Rollback(c)

(* Bug: ids that are not stored are skipped. *)
CheckLiveOfFound(c) ==
    /\ pc[c] = "checkLive"
    /\ Check(c, "checkLive", "checkTopic",
             \A m \in req[c].compacted_from :
                m \in DOMAIN t_messages => ~ t_messages[m].is_deleted)

CheckLive(c) ==
    /\ pc[c] = "checkLive"
    /\ Check(c, "checkLive", "checkTopic",
             \A m \in req[c].compacted_from : Live(m))

(* Bug: sources of several topics pass. *)
CheckTopicNever(c) == Check(c, "checkTopic", "checkOverlap", TRUE)

CheckTopic(c) ==
    /\ pc[c] = "checkTopic"
    /\ Check(c, "checkTopic", "checkOverlap",
             \A s, t \in TopicsOf(req[c].compacted_from) : s = t)

CheckOverlap(c) ==
    /\ pc[c] = "checkOverlap"
    /\ Check(c, "checkOverlap", "findSession",
             ~ AlreadyCompacted(req[c].compacted_from))

(* findOrCreateSession, the SELECT. *)
FindSession(c) ==
    \/ \E s \in t_sessions :
          /\ Step(c, "findSession", "insertMessage")
          /\ s.date = req[c].date
          /\ Write(c, [tx[c] EXCEPT !.session = s.id])
          /\ UNCHANGED seq
    \/ /\ Step(c, "findSession", "insertSession")
       /\ \A s \in t_sessions : s.date # req[c].date
       /\ UNCHANGED <<tables, seq, remembers, req, tx>>

(* Bug: the insert does not meet an uncommitted row of the date (no UNIQUE). *)
NeverLocked(c, d) == FALSE

(* The session row of a date that another transaction inserted or locked. *)
SessionLocked(c, d) ==
    \E o \in Call \ {c} : \E s \in tx[o].sessions : s.date = d

(* findOrCreateSession, INSERT ON CONFLICT DO UPDATE RETURNING: waits for  *)
(* the holder of the row.  The identity value is drawn in both cases.      *)
InsertSession(c) ==
    /\ Step(c, "insertSession", "insertMessage")
    /\ ~ SessionLocked(c, req[c].date)
    /\ seq' = [seq EXCEPT !.session = @ + 1]
    /\ \/ \E s \in t_sessions :
             /\ s.date = req[c].date
             /\ Write(c, [tx[c] EXCEPT !.session = s.id, !.sessions = {s}])
       \/ /\ \A s \in t_sessions : s.date # req[c].date
          /\ LET s == [id |-> seq.session + 1, date |-> req[c].date]
             IN  Write(c, [tx[c] EXCEPT !.session = s.id, !.sessions = {s}])

AfterMessage(r) == IF r.topic # NoTopic THEN "linkTopic"
                   ELSE IF r.roles # {} THEN "linkRoles" ELSE "commitMessage"

InsertMessage(c) ==
    /\ Step(c, "insertMessage", AfterMessage(req[c]))
    /\ seq' = [seq EXCEPT !.message = @ + 1]
    /\ Write(c, [tx[c] EXCEPT !.message = seq.message + 1])

(* Bug: the topic is not looked up. *)
LinkTopicUnchecked(c) ==
    /\ Step(c, "linkTopic", AfterMessage([req[c] EXCEPT !.topic = NoTopic]))
    /\ Write(c, [tx[c] EXCEPT !.links = {<<tx[c].message, req[c].topic>>}])
    /\ UNCHANGED seq

(* getTopicById then linkMessageTopics: a committed topic never goes away, *)
(* so the two statements see the same topic.  LookupError rolls back.      *)
LinkTopic(c) ==
    \/ /\ Step(c, "linkTopic", AfterMessage([req[c] EXCEPT !.topic = NoTopic]))
       /\ req[c].topic \in DOMAIN t_topics
       /\ Write(c, [tx[c] EXCEPT !.links = {<<tx[c].message, req[c].topic>>}])
       /\ UNCHANGED seq
    \/ /\ pc[c] = "linkTopic"
       /\ req[c].topic \notin DOMAIN t_topics
       /\ Rollback(c)

RolesHeld(c) == tx[c].roles
RolesLocked(c) == UNION {RolesHeld(o) : o \in Call \ {c}}
NamesLeft(c) == req[c].roles \ tx[c].names

(* Bug: an uncommitted row of another transaction counts as existing. *)
InsertRoleNoWait(c) ==
    /\ Step(c, "linkRoles", "linkRoles")
    /\ \E r \in NamesLeft(c) :
          Write(c, [tx[c] EXCEPT !.names = @ \cup {r},
                                 !.roles = @ \cup ({r} \ (m_role \cup RolesLocked(c)))])
    /\ UNCHANGED seq

(* findOrCreateRoles, the INSERT: name by name, in the caller's order.     *)
(* ON CONFLICT DO NOTHING waits for an uncommitted row of the same name.   *)
InsertRole(c) ==
    /\ Step(c, "linkRoles", "linkRoles")
    /\ \E r \in NamesLeft(c) \ RolesLocked(c) :
          Write(c, [tx[c] EXCEPT !.names = @ \cup {r},
                                 !.roles = @ \cup ({r} \ m_role)])
    /\ UNCHANGED seq

(* The SELECT finds the committed roles and the call's own; then           *)
(* linkMessageRoles.                                                       *)
LinkRoles(c) ==
    /\ Step(c, "linkRoles", "commitMessage")
    /\ NamesLeft(c) = {}
    /\ Write(c, [tx[c] EXCEPT !.roleLinks =
                    {tx[c].message} \X (req[c].roles \cap (m_role \cup tx[c].roles))])
    /\ UNCHANGED seq

(* Bug: the session id is not stored. *)
NewMessageNoSession(c) == [compacted_from |-> req[c].compacted_from,
                           is_deleted |-> FALSE, content |-> req[c].content]

NewMessage(c) == [session |-> tx[c].session,
                  compacted_from |-> req[c].compacted_from,
                  is_deleted |-> FALSE, content |-> req[c].content]

CommitMessage(c) ==
    /\ pc[c] = "commitMessage"
    /\ t_sessions' = t_sessions \cup tx[c].sessions
    /\ t_messages' = [m \in DOMAIN t_messages \cup {tx[c].message} |->
                        IF m = tx[c].message THEN NewMessage(c)
                                             ELSE t_messages[m]]
    /\ t_message_topics' = t_message_topics \cup tx[c].links
    /\ m_role' = m_role \cup tx[c].roles
    /\ t_message_roles' = t_message_roles \cup tx[c].roleLinks
    /\ Finish(c)
    /\ UNCHANGED <<t_topics, seq, remembers>>

(***************************************************************************)
(* forget and edit: one UPDATE ... WHERE is_deleted = FALSE each.  The     *)
(* NOT_FOUND answers change nothing.                                       *)
(***************************************************************************)
Forget(c, m) ==
    /\ pc[c] = "idle"
    /\ Live(m)
    /\ t_messages' = [t_messages EXCEPT ![m].is_deleted = TRUE]
    /\ UNCHANGED <<t_sessions, t_topics, t_message_topics, m_role,
                   t_message_roles, seq, remembers, pc, req, tx>>

Edit(c, m, text) ==
    /\ pc[c] = "idle"
    /\ Live(m)
    /\ t_messages' = [t_messages EXCEPT ![m].content = text]
    /\ UNCHANGED <<t_sessions, t_topics, t_message_topics, m_role,
                   t_message_roles, seq, remembers, pc, req, tx>>

(***************************************************************************)
(* topic_manage.                                                           *)
(***************************************************************************)
CreateTopic(c, ms) ==
    /\ pc[c] = "idle"
    /\ seq.topic < MaxTopic
    /\ seq' = [seq EXCEPT !.topic = @ + 1]
    /\ IF ms \subseteq DOMAIN t_messages
         THEN /\ t_topics' = [t \in DOMAIN t_topics \cup {seq.topic + 1} |->
                                IF t = seq.topic + 1
                                  THEN [status |-> "open", closed_at |-> FALSE]
                                  ELSE t_topics[t]]
              /\ t_message_topics' =
                    t_message_topics \cup (ms \X {seq.topic + 1})
         ELSE UNCHANGED <<t_topics, t_message_topics>>  \* FK violation
    /\ UNCHANGED <<t_sessions, t_messages, m_role, t_message_roles, remembers,
                   pc, req, tx>>

SetTopic(c, t, from, row) ==
    /\ pc[c] = "idle"
    /\ t \in DOMAIN t_topics
    /\ t_topics[t].status = from
    /\ t_topics' = [t_topics EXCEPT ![t] = row]
    /\ UNCHANGED <<t_sessions, t_messages, t_message_topics, m_role,
                   t_message_roles, seq, remembers, pc, req, tx>>

CloseTopic(c, t) ==
    SetTopic(c, t, "open", [status |-> "closed", closed_at |-> TRUE])

ReopenTopic(c, t) ==
    SetTopic(c, t, "closed", [status |-> "open", closed_at |-> FALSE])

UpdateTopic(c, r) ==
    /\ r.add \cap r.remove = {}
    /\ Step(c, "idle", "findTopic")
    /\ req' = [req EXCEPT ![c] = r]
    /\ UNCHANGED <<tables, seq, remembers, tx>>

(* Link rows an update has inserted or deleted and not committed. *)
LinksHeld(c) == tx[c].links \cup tx[c].unlinks
LinksLocked(c) == UNION {LinksHeld(o) : o \in Call \ {c}}

(* updateTopic, the SELECT (NOT_FOUND), up to the INSERT. *)
FindTopic(c) ==
    \/ /\ Step(c, "findTopic", "linkMessages")
       /\ req[c].topic \in DOMAIN t_topics
       /\ Write(c, [tx[c] EXCEPT !.rows = req[c].add \X {req[c].topic}])
       /\ UNCHANGED seq
    \/ /\ pc[c] = "findTopic"
       /\ req[c].topic \notin DOMAIN t_topics
       /\ Rollback(c)

(* linkMessageTopics: row by row; waits for a row of the same key that     *)
(* another transaction inserted or deleted and keeps a committed one.      *)
LinkMessage(c) ==
    /\ Step(c, "linkMessages", "linkMessages")
    /\ \E l \in tx[c].rows \ LinksLocked(c) :
          Write(c, [tx[c] EXCEPT !.rows = @ \ {l},
                                 !.links = @ \cup ({l} \ t_message_topics)])
    /\ UNCHANGED seq

(* The INSERT ends with the check of its foreign keys; unlinkMessageTopics *)
(* starts with the committed rows it sees.                                 *)
LinksChecked(c) ==
    /\ tx[c].rows = {}
    /\ \/ /\ Step(c, "linkMessages", "unlinkMessages")
          /\ req[c].add \subseteq DOMAIN t_messages
          /\ Write(c, [tx[c] EXCEPT !.rows =
                          (req[c].remove \X {req[c].topic}) \cap t_message_topics])
          /\ UNCHANGED seq
       \/ /\ pc[c] = "linkMessages"
          /\ ~ (req[c].add \subseteq DOMAIN t_messages)
          /\ Rollback(c)

(* The DELETE, row by row; a row that is gone by then is passed over. *)
UnlinkMessage(c) ==
    /\ Step(c, "unlinkMessages", "unlinkMessages")
    /\ \E l \in tx[c].rows \ LinksLocked(c) :
          Write(c, [tx[c] EXCEPT !.rows = @ \ {l},
                                 !.unlinks = @ \cup ({l} \cap t_message_topics)])
    /\ UNCHANGED seq

CommitUpdate(c) ==
    /\ pc[c] = "unlinkMessages"
    /\ tx[c].rows = {}
    /\ t_message_topics' = (t_message_topics \cup tx[c].links) \ tx[c].unlinks
    /\ Finish(c)
    /\ UNCHANGED <<t_sessions, t_messages, t_topics, m_role, t_message_roles,
                   seq, remembers>>

-----------------------------------------------------------------------------
Proceed(c) ==
    \/ CheckLive(c) \/ CheckTopic(c) \/ CheckOverlap(c)
    \/ FindSession(c) \/ InsertSession(c) \/ InsertMessage(c)
    \/ LinkTopic(c) \/ InsertRole(c) \/ LinkRoles(c) \/ CommitMessage(c)
    \/ FindTopic(c) \/ LinkMessage(c) \/ LinksChecked(c)
    \/ UnlinkMessage(c) \/ CommitUpdate(c)

Arrive(c) ==
    \/ \E r \in RememberRequest : Remember(c, r)
    \/ \E r \in UpdateRequest : UpdateTopic(c, r)
    \/ \E ms \in IdList : CreateTopic(c, ms)
    \/ \E m \in MessageId : Forget(c, m)
    \/ \E m \in MessageId, text \in Content : Edit(c, m, text)
    \/ \E t \in TopicId : CloseTopic(c, t) \/ ReopenTopic(c, t)

Next == \E c \in Call : Arrive(c) \/ Proceed(c) \/ Abort(c)

Spec == Init /\ [][Next]_vars

(* The calls of S keep each other waiting: whatever the statement of c     *)
(* needs next is held by others of S.                                      *)
Blocked(c, S) ==
    LET others == S \ {c}
    IN  \/ /\ pc[c] = "insertSession"
           /\ \E o \in others : \E s \in tx[o].sessions : s.date = req[c].date
        \/ /\ pc[c] = "linkRoles"
           /\ NamesLeft(c) # {}
           /\ NamesLeft(c) \subseteq UNION {RolesHeld(o) : o \in others}
        \/ /\ pc[c] \in {"linkMessages", "unlinkMessages"}
           /\ tx[c].rows # {}
           /\ tx[c].rows \subseteq UNION {LinksHeld(o) : o \in others}

Deadlocked(c) == \E S \in SUBSET Call : c \in S /\ \A b \in S : Blocked(b, S)

(* PostgreSQL ends one of the transactions that wait for each other. *)
DeadlockDetected == \E c \in Call : Deadlocked(c) /\ Abort(c)

(* Each call runs on its own connection and PostgreSQL queues lock waiters, *)
(* so a statement that can run again and again is eventually run, and it    *)
(* resolves deadlocks.  New calls need not arrive; statement_timeout is not *)
(* relied on.                                                               *)
FairSpec == /\ Spec
            /\ \A c \in Call : SF_vars(Proceed(c))
            /\ WF_vars(DeadlockDetected)

(***************************************************************************)
(* Safety.                                                                 *)
(***************************************************************************)

(* A message is the source of at most one compaction ("double compaction   *)
(* prevention", message_repo.py:492,544).  The overlap check and the insert *)
(* are separate statements, so two calls can both pass the check.          *)
NoDoubleCompaction ==
    \A m, n \in DOMAIN t_messages :
        m # n => t_messages[m].compacted_from \cap
                 t_messages[n].compacted_from = {}

(* A compaction only names messages that are stored, and older ones: the   *)
(* compaction graph has no dangling edge and no cycle.  compacted_from has *)
(* no foreign key; the existence check, what is visible to it and the time *)
(* the identity is drawn must give this together.                          *)
CompactionWellFounded ==
    \A m \in DOMAIN t_messages : \A s \in t_messages[m].compacted_from :
        s \in DOMAIN t_messages /\ s < m

(* One session per date whoever comes first: findOrCreateSession may run   *)
(* in any number of transactions at once.                                  *)
OneSessionPerDate ==
    \A s, t \in t_sessions : (s.date = t.date \/ s.id = t.id) => s = t

(* No link to a row that was rolled back or never stored, in any table.    *)
References ==
    /\ \A m \in DOMAIN t_messages :
          \E s \in t_sessions : s.id = t_messages[m].session
    /\ \A l \in t_message_topics : l[1] \in DOMAIN t_messages
                                   /\ l[2] \in DOMAIN t_topics
    /\ \A l \in t_message_roles : l[1] \in DOMAIN t_messages /\ l[2] \in m_role

(* remember is all or nothing: a message appears together with the session *)
(* of its date, the topic link and every role link its call asked for.     *)
SavedWhole ==
    [][\A m \in DOMAIN t_messages' \ DOMAIN t_messages : \E c \in Call :
         /\ tx[c].message = m
         /\ t_messages'[m].compacted_from = req[c].compacted_from
         /\ \E s \in t_sessions' : s.id = t_messages'[m].session
                                   /\ s.date = req[c].date
         /\ req[c].topic # NoTopic => <<m, req[c].topic>> \in t_message_topics'
         /\ {m} \X req[c].roles \subseteq t_message_roles']_vars

(* Messages are never removed, their session and sources never change, and *)
(* a forgotten message never changes again: no edit reaches it and no      *)
(* later insert takes its id.                                              *)
MessagesPersist ==
    [][\A m \in DOMAIN t_messages :
         /\ m \in DOMAIN t_messages'
         /\ t_messages[m].is_deleted => t_messages'[m] = t_messages[m]
         /\ t_messages'[m].session = t_messages[m].session
         /\ t_messages'[m].compacted_from = t_messages[m].compacted_from]_vars

(* What validateCompactSource asks of the sources of a message, at the     *)
(* step that stores it.                                                    *)
SoundCompactions ==
    \A m \in DOMAIN t_messages' \ DOMAIN t_messages :
        LET from == t_messages'[m].compacted_from
        IN  /\ \A s \in from : Live(s)
            /\ \A s, t \in TopicsOf(from) : s = t
            /\ ~ AlreadyCompacted(from)

(* The calls between their overlap check and their commit.                 *)
Compacting ==
    {c \in Call : /\ pc[c] \in {"findSession", "insertSession", "insertMessage",
                                "linkTopic", "linkRoles", "commitMessage"}
                  /\ req[c].compacted_from # {}}

SerialCompaction ==
    \A c, d \in Compacting : req[c].compacted_from \cap req[d].compacted_from # {}
                             => c = d

(* The exact condition under which the overlap check works: no two calls   *)
(* with a common source are past it at the same time.                      *)
SerialCompactionSuffices == []SerialCompaction => []NoDoubleCompaction

(***************************************************************************)
(* Refinement: the committed tables, read as memories.                     *)
(***************************************************************************)
DateOf(m) ==
    (CHOOSE s \in t_sessions : s.id = t_messages[m].session).date

MemoryOf(m) ==
    [date |-> DateOf(m), content |-> t_messages[m].content,
     is_deleted |-> t_messages[m].is_deleted,
     compacted_from |-> t_messages[m].compacted_from,
     roles |-> {l[2] : l \in {k \in t_message_roles : k[1] = m}},
     topics |-> TopicsOf({m})]

Memories == [m \in DOMAIN t_messages |-> MemoryOf(m)]
TopicStates == [t \in DOMAIN t_topics |-> t_topics[t].status]

Abstract == INSTANCE Memory WITH
    Id <- MessageId, TopicIds <- TopicId,
    memory <- Memories, topics <- TopicStates

(* Seen from outside every call takes effect in one step, although its     *)
(* statements interleave with those of other calls and any of them may     *)
(* fail.                                                                   *)
ActsAtomically == Abstract!Spec

(***************************************************************************)
(* Liveness.                                                               *)
(***************************************************************************)

(* Every call is answered: no lock wait on a session row, a role name or a *)
(* link row goes on for ever, although two calls may insert the same names *)
(* or link and unlink the same rows in opposite orders.                    *)
CallsReturn == \A c \in Call : pc[c] # "idle" ~> pc[c] = "idle"
=============================================================================
