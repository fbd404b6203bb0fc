------------------------------- MODULE Memory -------------------------------
(***************************************************************************)
(* What the memory promises its callers: every tool call that changes it   *)
(* does so in one step, whatever else runs at the same time.  A memory     *)
(* carries its date, topics and roles with it; there are no sessions, link *)
(* tables or transactions here.                                            *)
(*                                                                         *)
(* It does not promise that a memory is compacted only once: see           *)
(* NoDoubleCompaction in MemoryStore.                                      *)
(***************************************************************************)
EXTENDS Integers

CONSTANTS Id, TopicIds, Date, Content, RoleList, IdList

VARIABLES
    memory,   \* id -> record
    topics    \* topic id -> "open" or "closed"

Init == /\ memory = [m \in {} |-> 0]
        /\ topics = [t \in {} |-> "open"]

(* remember: the sources exist and are older, the topic exists. *)
Save(m, row) ==
    /\ m \notin DOMAIN memory
    /\ \A s \in row.compacted_from : s \in DOMAIN memory /\ s < m
    /\ row.topics \subseteq DOMAIN topics
    /\ memory' = [i \in DOMAIN memory \cup {m} |->
                     IF i = m THEN row ELSE memory[i]]
    /\ UNCHANGED topics

Forget(m) ==
    /\ m \in DOMAIN memory
    /\ ~ memory[m].is_deleted
    /\ memory' = [memory EXCEPT ![m].is_deleted = TRUE]
    /\ UNCHANGED topics

Edit(m, text) ==
    /\ m \in DOMAIN memory
    /\ ~ memory[m].is_deleted
    /\ memory[m].content # text
    /\ memory' = [memory EXCEPT ![m].content = text]
    /\ UNCHANGED topics

(* The memories of add are put under topic t, those of remove taken out. *)
Relinked(t, add, remove) ==
    [m \in DOMAIN memory |->
        [memory[m] EXCEPT !.topics = (@ \cup {x \in {t} : m \in add})
                                     \ {x \in {t} : m \in remove}]]

Open(t, ms) ==
    /\ t \notin DOMAIN topics
    /\ ms \subseteq DOMAIN memory
    /\ topics' = [x \in DOMAIN topics \cup {t} |->
                     IF x = t THEN "open" ELSE topics[x]]
    /\ memory' = Relinked(t, ms, {})

Toggle(t, from, to) ==
    /\ t \in DOMAIN topics
    /\ topics[t] = from
    /\ topics' = [topics EXCEPT ![t] = to]
    /\ UNCHANGED memory

Relink(t, add, remove) ==
    /\ t \in DOMAIN topics
    /\ \A m \in add : t \notin memory[m].topics
    /\ \A m \in remove : t \in memory[m].topics
    /\ memory' = Relinked(t, add, remove)
    /\ UNCHANGED topics

SavedRow == [date : Date, content : Content, is_deleted : {FALSE},
             compacted_from : IdList, roles : RoleList,
             topics : {{}} \cup {{t} : t \in TopicIds}]

Next ==
    \/ \E m \in Id, row \in SavedRow : Save(m, row)
    \/ \E m \in Id : Forget(m)
    \/ \E m \in Id, text \in Content : Edit(m, text)
    \/ \E t \in TopicIds, ms \in IdList : Open(t, ms)
    \/ \E t \in TopicIds : Toggle(t, "open", "closed")
                           \/ Toggle(t, "closed", "open")
    \/ \E t \in TopicIds : \E add, remove \in SUBSET DOMAIN memory :
          Relink(t, add, remove)

Spec == Init /\ [][Next]_<<memory, topics>>
=============================================================================
