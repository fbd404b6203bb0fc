------------------------------- MODULE Recall -------------------------------
(***************************************************************************)
(* recall, the command that reads the memory: pages of a search, the       *)
(* memories that surface by themselves (hot) and the statistics.  A call   *)
(* is a sequence of SELECTs without a snapshot of its own: at READ         *)
(* COMMITTED each of them sees what is committed when it starts.           *)
(*                                                                         *)
(* Calls of other clients write meanwhile.  They are the steps of Memory,  *)
(* which MemoryStore implements, so one step here is one committed call.   *)
(* One reader is enough: readers change nothing another one could see.     *)
(*                                                                         *)
(* The columns a search compares with constants that no command changes    *)
(* (speaker, project, date, source) are left out, and so are tags, which   *)
(* Organize has.  A content, the text with its emotions, is a number: the  *)
(* place that its similarity to the query and its emotion_total give it.   *)
(***************************************************************************)
EXTENDS Integers, FiniteSets

CONSTANTS
    Id, TopicIds, Date, Content, RoleList, IdList,  \* as in Memory
    Filter,     \* the filters callers pass
    Limit,      \* the page sizes callers pass
    MinOccurrences,  \* the values of min_occurrences, 0 for None
    Moment,     \* creation times
    MaxChange   \* bound: memories that leave, move, come or are stored meanwhile

(* A filter: topic_id and topics_empty; matching, the contents with its    *)
(* keywords and emotions in the ranges of its emotion_filter; ranked,      *)
(* whether it has keywords; roles, the role names asked for, and asked,    *)
(* the length of the list they come in.                                    *)
(* _validateParams refuses topic_id together with topics_empty.            *)
ASSUME RecallAssumption ==
    /\ Content \subseteq Nat /\ Moment \subseteq Nat /\ MinOccurrences \subseteq Nat
    /\ Limit \subseteq Nat \ {0}
    /\ MaxChange \in Nat
    /\ \A f \in Filter :
          /\ f.topics_empty => f.topic_id = {}
          /\ f.roles = {} => f.asked = 0
          /\ f.asked \in Nat
          /\ IsFiniteSet(f.roles) /\ Cardinality(f.roles) <= f.asked

VARIABLES
    memory, topics,  \* the committed memories and topics, as in Memory
    made,    \* id -> created_at, the time the storing transaction began
    pc,      \* the statement the reader's call is at
    walk,    \* the search whose pages the reader asks for, and its answer
    report,  \* the answer of a stats call, as far as it is known
    unseen,  \* history: wanted from the start, never moved, on no page yet
    lost,    \* history: times a wanted memory left or moved in the walk
    tied,    \* history: times an unseen one was split from its equals
    late,    \* history: memories wanted anew since the last count
    saved    \* history: memories stored since the summary

store == <<memory, topics, made>>
history == <<unseen, lost, tied, late, saved>>
vars == <<store, pc, walk, report, history>>

Store == INSTANCE Memory

NoFilter == [topic_id |-> {}, topics_empty |-> FALSE, ranked |-> FALSE,
             matching |-> Content, roles |-> {}, asked |-> 0]
NoWalk == [mode |-> "default", filter |-> NoFilter, limit |-> 1, offset |-> 0,
           total |-> 0, rows |-> {}, shown |-> [m \in {} |-> {}]]
NoReport == [least |-> 0, active |-> 0, topics |-> [t \in {} |-> 0],
             roles |-> [r \in {} |-> 0]]

Init == /\ Store!Init
        /\ made = [m \in {} |-> 0]
        /\ pc = "idle"
        /\ walk = NoWalk
        /\ report = NoReport
        /\ unseen = {}
        /\ lost = 0 /\ tied = 0 /\ late = 0 /\ saved = 0

(***************************************************************************)
(* The search.                                                             *)
(***************************************************************************)
LiveOnes == {m \in DOMAIN memory : ~ memory[m].is_deleted}

(* The WHERE clause. *)
Conditions(f) ==
    {m \in LiveOnes :
        /\ memory[m].content \in f.matching
        /\ f.topic_id # {} => memory[m].topics \cap f.topic_id # {}
        /\ f.topics_empty => memory[m].topics = {}}

(* The roles join: GROUP BY m.id HAVING COUNT(DISTINCT r.name) = len(roles). *)
Found(f) ==
    {m \in Conditions(f) :
        f.roles # {} => Cardinality(f.roles \cap memory[m].roles) = f.asked}

(* ORDER BY similarity DESC, emotion_total DESC with a query, then         *)
(* created_at DESC.  Nothing tells memories apart that are equal in these. *)
Similarity(f, m) == IF f.ranked THEN memory[m].content ELSE 0
Before(f, m, n) ==
    \/ Similarity(f, m) > Similarity(f, n)
    \/ Similarity(f, m) = Similarity(f, n) /\ made[m] > made[n]
Ahead(f, ms, m) == {n \in ms : Before(f, n, m)}
NotBehind(f, ms, m) == {n \in ms : ~ Before(f, m, n)}

(* The orders an answer may have: equal memories stand in any order, and   *)
(* every SELECT may choose another one.                                    *)
Orders(f, ms) ==
    {place \in [ms -> 0..(Cardinality(ms) - 1)] :
        \A m, n \in ms : /\ place[m] = place[n] => m = n
                         /\ Before(f, m, n) => place[m] < place[n]}

(* Bug: the page begins behind its first row. *)
PageSkipsRow(place, limit, offset) ==
    {m \in DOMAIN place : offset < place[m] /\ place[m] < offset + limit}

(* LIMIT and OFFSET. *)
Page(place, limit, offset) ==
    {m \in DOMAIN place : offset <= place[m] /\ place[m] < offset + limit}

(* Unseen memories that the start of a page separates from equal ones:     *)
(* they may stand before it now though others stood there a page ago.      *)
Split(f, ms, offset) ==
    {m \in unseen : /\ Cardinality(Ahead(f, ms, m)) < offset
                    /\ offset < Cardinality(NotBehind(f, ms, m))}

(***************************************************************************)
(* The calls of others.                                                    *)
(***************************************************************************)

(* What a search should find, whatever its joins do. *)
Wanted(f) == {m \in Conditions(f) : f.roles \subseteq memory[m].roles}

Gone == {m \in Wanted(walk.filter) :
            \/ m \notin Wanted(walk.filter)'
            \/ Similarity(walk.filter, m)' # Similarity(walk.filter, m)}
Come == Wanted(walk.filter)' \ Wanted(walk.filter)

Walking == walk.mode = "default"
           /\ pc \in {"count", "page", "decorate", "answered"}
Reporting == pc \in {"topicStats", "roleStats"}

Note == /\ IF Walking THEN /\ lost' = lost + Cardinality(Gone)
                           /\ unseen' = unseen \ Gone
                      ELSE UNCHANGED <<lost, unseen>>
        /\ late' = IF pc = "page" THEN late + Cardinality(Come) ELSE late
        /\ UNCHANGED tied
        /\ saved' = IF Reporting
                      THEN saved + Cardinality(DOMAIN memory' \ DOMAIN memory)
                      ELSE saved

(* created_at is the start of the transaction, calls commit in any order,  *)
(* and some begin at the same time: a new memory may be older than those   *)
(* that are there already, or as old as one of them.                       *)
Write ==
    /\ Store!Next
    /\ \/ DOMAIN memory' = DOMAIN memory /\ UNCHANGED made
       \/ /\ DOMAIN memory' # DOMAIN memory
          /\ \E k \in Moment :
                made' = [m \in DOMAIN memory' |->
                            IF m \in DOMAIN made THEN made[m] ELSE k]
    /\ UNCHANGED <<pc, walk, report>>
    /\ Note
    /\ lost' <= MaxChange /\ late' <= MaxChange /\ saved' <= MaxChange

(***************************************************************************)
(* The reader.                                                             *)
(***************************************************************************)
Step(from, to) == pc = from /\ pc' = to

(* A client asks for the first page. *)
Search(f, limit) ==
    /\ Step("idle", "count")
    /\ walk' = [NoWalk EXCEPT !.filter = f, !.limit = limit]
    /\ unseen' = Wanted(f)
    /\ UNCHANGED <<store, report, lost, tied, late, saved>>

(* Bug: the roles shown of the page before stay. *)
CountKeepsShown ==
    LET total == Cardinality(Found(walk.filter))
    IN  /\ Step("count", IF walk.offset >= total /\ total > 0
                         THEN "answered" ELSE "page")
        /\ walk' = [walk EXCEPT !.total = total, !.rows = {}]
        /\ late' = 0
        /\ UNCHANGED <<store, report, unseen, lost, tied, saved>>

(* Bug: the early return takes a last page that is short for an empty one. *)
CountEarly ==
    LET total == Cardinality(Found(walk.filter))
    IN  /\ Step("count", IF walk.offset + walk.limit > total /\ total > 0
                         THEN "answered" ELSE "page")
        /\ walk' = [walk EXCEPT !.total = total,
                                !.rows = {}, !.shown = NoWalk.shown]
        /\ late' = 0
        /\ UNCHANGED <<store, report, unseen, lost, tied, saved>>

(* SELECT COUNT; past the end the answer is empty at once. *)
Count ==
    LET total == Cardinality(Found(walk.filter))
    IN  /\ Step("count", IF walk.offset >= total /\ total > 0
                         THEN "answered" ELSE "page")
        /\ walk' = [walk EXCEPT !.total = total,
                                !.rows = {}, !.shown = NoWalk.shown]
        /\ late' = 0
        /\ UNCHANGED <<store, report, unseen, lost, tied, saved>>

(* The SELECT of a page. *)
Fetch ==
    /\ pc = "page"
    /\ LET found == Found(walk.filter)
       IN  /\ \E place \in Orders(walk.filter, found) :
                 walk' = [walk EXCEPT !.rows = Page(place, walk.limit, walk.offset)]
           /\ tied' = tied + Cardinality(Split(walk.filter, found, walk.offset))
    /\ pc' = IF walk'.rows = {} THEN "answered" ELSE "decorate"
    /\ unseen' = unseen \ walk'.rows
    /\ UNCHANGED <<store, report, lost, late, saved>>

(* _getMessageRolesBatch for the rows of the page. *)
Decorate ==
    /\ Step("decorate", "answered")
    /\ walk' = [walk EXCEPT !.shown = [m \in walk.rows |-> memory[m].roles]]
    /\ UNCHANGED <<store, report, history>>

(* The client asks for the page behind a full one. *)
NextPage ==
    /\ Step("answered", "count")
    /\ walk.mode = "default"
    /\ Cardinality(walk.rows) = walk.limit
    /\ walk' = [walk EXCEPT !.offset = @ + walk.limit]
    /\ UNCHANGED <<store, report, history>>

(* mode hot: the live memories of the highest score.  Emotions and age     *)
(* weigh in the score, so any of them may be among the first.              *)
Hot(limit) ==
    /\ Step("idle", "decorate")
    /\ \E rows \in SUBSET LiveOnes :
          /\ \/ Cardinality(rows) = limit
             \/ Cardinality(rows) < limit /\ rows = LiveOnes
          /\ walk' = [NoWalk EXCEPT !.mode = "hot", !.limit = limit,
                          !.rows = rows, !.total = Cardinality(rows)]
    /\ UNCHANGED <<store, report, history>>

(* mode stats: getMessageStats, getTopicStats and getRoleStats, each a     *)
(* statement.  The LEFT JOINs keep topics and roles without memories.      *)
Summary(least) ==
    /\ Step("idle", "topicStats")
    /\ report' = [NoReport EXCEPT !.least = least,
                                  !.active = Cardinality(LiveOnes)]
    /\ UNCHANGED <<store, walk, history>>

(* Bug: the condition on is_deleted is not in the join. *)
UsageOfAll(users) ==
    LET count == [n \in DOMAIN users |-> Cardinality(users[n])]
    IN  [n \in {k \in DOMAIN users : count[k] >= report.least} |-> count[n]]

(* users: the memories linked with each name or topic.  GROUP BY with      *)
(* COUNT(m.id), HAVING COUNT(m.id) >= min_occurrences.                     *)
Usage(users) ==
    LET count == [n \in DOMAIN users |-> Cardinality(users[n] \cap LiveOnes)]
    IN  [n \in {k \in DOMAIN users : count[k] >= report.least} |-> count[n]]

TopicStats ==
    /\ Step("topicStats", "roleStats")
    /\ report' = [report EXCEPT !.topics =
          Usage([t \in DOMAIN topics |->
                    {m \in DOMAIN memory : t \in memory[m].topics}])]
    /\ UNCHANGED <<store, walk, history>>

RoleStats ==
    /\ Step("roleStats", "reported")
    /\ report' = [report EXCEPT !.roles =
          Usage([r \in UNION {memory[m].roles : m \in DOMAIN memory} |->
                    {m \in DOMAIN memory : r \in memory[m].roles}])]
    /\ UNCHANGED <<store, walk, history>>

(* The client has what it wants, or the statement fails. *)
Leave ==
    /\ pc # "idle"
    /\ pc' = "idle" /\ walk' = NoWalk /\ report' = NoReport
    /\ unseen' = {} /\ lost' = 0 /\ tied' = 0 /\ late' = 0 /\ saved' = 0
    /\ UNCHANGED store

-----------------------------------------------------------------------------
Next ==
    \/ Write
    \/ \E f \in Filter, limit \in Limit : Search(f, limit)
    \/ Count \/ Fetch \/ Decorate \/ NextPage
    \/ \E limit \in Limit : Hot(limit)
    \/ \E least \in MinOccurrences : Summary(least)
    \/ TopicStats \/ RoleStats
    \/ Leave

Spec == Init /\ [][Next]_vars

Row == [date : Date, content : Content, is_deleted : BOOLEAN,
        compacted_from : IdList, roles : RoleList, topics : SUBSET TopicIds]

TypeOK ==
    /\ DOMAIN memory \subseteq Id /\ IsFiniteSet(DOMAIN memory)
    /\ memory \in [DOMAIN memory -> Row]
    /\ DOMAIN topics \subseteq TopicIds
    /\ topics \in [DOMAIN topics -> {"open", "closed"}]
    /\ made \in [DOMAIN memory -> Moment]
    /\ pc \in {"idle", "count", "page", "decorate", "answered",
               "topicStats", "roleStats", "reported"}
    /\ walk.mode \in {"default", "hot"} /\ walk.filter \in Filter \cup {NoFilter}
    /\ walk.limit \in Nat \ {0} /\ walk.offset \in Nat /\ walk.total \in Nat
    /\ walk.rows \subseteq DOMAIN memory
    /\ DOMAIN walk.shown \subseteq walk.rows
    /\ walk.shown = [m \in DOMAIN walk.shown |-> memory[m].roles]
    /\ report.least \in Nat /\ report.active \in Nat
    /\ report.topics \in [DOMAIN report.topics -> Nat]
    /\ report.roles \in [DOMAIN report.roles -> Nat]
    /\ unseen \subseteq DOMAIN memory
    /\ lost \in Nat /\ tied \in Nat /\ late \in Nat /\ saved \in Nat

(***************************************************************************)
(* Safety.                                                                 *)
(***************************************************************************)

(* A search in which no role name is repeated. *)
NoRepeat == walk.filter.asked = Cardinality(walk.filter.roles)

(* A client that asks for pages by offset until one is short has seen      *)
(* every memory that matched all the time, but for as many as left or      *)
(* moved meanwhile and as were split from memories of equal rank by the    *)
(* start of a page (searchMessages: COUNT, the early return and the page   *)
(* are statements of their own, each page is a call of its own, and        *)
(* ORDER BY ends in created_at, which several memories may share).         *)
WalkToShortPage ==
    /\ pc = "answered" /\ NoRepeat
    /\ Cardinality(walk.rows) < walk.limit
    => Cardinality(unseen) <= lost + tied

(* One that stops when total says that nothing follows may also miss as    *)
(* many as came between the COUNT and the page of its last call, no more.  *)
WalkToTotal ==
    /\ pc = "answered" /\ NoRepeat
    /\ walk.offset + walk.limit >= walk.total
    => Cardinality(unseen) <= lost + tied + late

(* The roles shown beside a row are read after the row was found; they     *)
(* still hold every role the filter asked for.                             *)
ShownRolesMatch ==
    \A m \in DOMAIN walk.shown : walk.filter.roles \subseteq walk.shown[m]

(* The parts of a stats answer are counted by statements of their own: no  *)
(* topic and no role counts more memories than the summary has active ones *)
(* and others have stored since.                                           *)
StatsWithinSummary ==
    pc = "reported" =>
        /\ \A t \in DOMAIN report.topics :
              report.topics[t] <= report.active + saved
        /\ \A r \in DOMAIN report.roles :
              report.roles[r] <= report.active + saved

=============================================================================
