------------------------------ MODULE Organize ------------------------------
(***************************************************************************)
(* The tag tables of lisanima and organize, the command that looks for     *)
(* messages and adds and removes tags on them.  One call is one            *)
(* transaction at READ COMMITTED: the statements that look for messages    *)
(* and those that link tags see what is committed when each of them        *)
(* starts, with remember, forget and other organize calls in between.      *)
(* Tags are identified by their normalised names; what a call has written  *)
(* and not committed is in tx[c].                                          *)
(***************************************************************************)
EXTENDS Integers, FiniteSets

CONSTANTS
    Call,       \* concurrent organize calls
    MessageId,  \* ids of messages
    Name,       \* tag names as callers write them
    Tag,        \* normalised tag names
    Blank,      \* what is left of a name of spaces
    Normal,     \* normalizeTagName: strip, NFKC, lower
    Lower,      \* lower, strip: what searchMessages does to a name
    Request     \* the parameters callers pass

(* seek is the tags filter; more says whether other conditions or the      *)
(* limit narrow the search further.                                        *)
Parameters == [ids : SUBSET MessageId, seek : SUBSET Name, more : BOOLEAN,
               include_deleted : BOOLEAN, add : SUBSET Name,
               remove : SUBSET Name]

ASSUME OrganizeAssumption ==
    /\ Blank \notin Tag
    /\ Normal \in [Name -> Tag \cup {Blank}]
    /\ Request \subseteq Parameters
    /\ \A r \in Request : IsFiniteSet(r.seek)  \* a list

VARIABLES
    t_messages,      \* message id -> "absent", "live" or "forgotten"
    t_tags,          \* set of tags
    t_message_tags,  \* set of <<message id, tag>>
    pc, req, tx      \* per call: next statement, parameters, private rows

tables == <<t_messages, t_tags, t_message_tags>>
vars == <<tables, pc, req, tx>>

Step == {"findIds", "search", "insertTags", "linkTags", "unlinkTags", "answer"}

NoRequest == [op |-> "none"]

Normalised(names) == {Normal[n] : n \in names} \ {Blank}
HasSearch(r) == r.seek # {} \/ r.more

(* _validateParams *)
Valid(r) == /\ r.add # {} \/ r.remove # {}
            /\ Normalised(r.add) \cap Normalised(r.remove) = {}
            /\ r.ids # {} \/ HasSearch(r)

NoWrites == [target |-> {}, tags |-> {}, names |-> {},
             links |-> {}, unlinks |-> {}, rows |-> {}]
Writes == [target : SUBSET MessageId, tags : SUBSET Tag, names : SUBSET Tag,
           links : SUBSET (MessageId \X Tag),
           unlinks : SUBSET (MessageId \X Tag),
           rows : SUBSET (MessageId \X Tag)]

TypeOK ==
    /\ t_messages \in [MessageId -> {"absent", "live", "forgotten"}]
    /\ t_tags \subseteq Tag
    /\ t_message_tags \subseteq MessageId \X t_tags
    /\ pc \in [Call -> {"idle"} \cup Step]
    /\ req \in [Call -> Request \cup {NoRequest}]
    /\ tx \in [Call -> Writes]
    /\ \A c \in Call : pc[c] \in Step => req[c] \in Request

Init ==
    /\ t_messages \in [MessageId -> {"absent", "live"}]
    /\ t_tags = {}
    /\ t_message_tags = {}
    /\ pc = [c \in Call |-> "idle"]
    /\ req = [c \in Call |-> NoRequest]
    /\ tx = [c \in Call |-> NoWrites]

(***************************************************************************)
(* What other commands do to the messages.                                 *)
(***************************************************************************)
SetMessage(m, from, to) == /\ t_messages[m] = from
                           /\ t_messages' = [t_messages EXCEPT ![m] = to]
                           /\ UNCHANGED <<t_tags, t_message_tags, pc, req, tx>>

Remember(m) == SetMessage(m, "absent", "live")
Forget(m) == SetMessage(m, "live", "forgotten")

(***************************************************************************)
(* organize.                                                               *)
(***************************************************************************)
Go(c, from, to) == pc[c] = from /\ pc' = [pc EXCEPT ![c] = to]

(* Bug: the transaction is left open when the answer is returned. *)
FinishWithoutEnding(c) == /\ pc' = [pc EXCEPT ![c] = "idle"]
                          /\ req' = [req EXCEPT ![c] = NoRequest]
                          /\ UNCHANGED tx

Finish(c) == /\ pc' = [pc EXCEPT ![c] = "idle"]
             /\ req' = [req EXCEPT ![c] = NoRequest]
             /\ tx' = [tx EXCEPT ![c] = NoWrites]

(* An early return, an exception, or a transaction PostgreSQL has ended. *)
Rollback(c) == Finish(c) /\ UNCHANGED tables

Abort(c) == pc[c] \in Step \ {"answer"} /\ Rollback(c)

Write(c, rows) == /\ tx' = [tx EXCEPT ![c] = rows]
                  /\ UNCHANGED <<tables, req>>

Organize(c, r) ==
    /\ Valid(r)
    /\ Go(c, "idle", IF r.ids # {} THEN "findIds" ELSE "search")
    /\ req' = [req EXCEPT ![c] = r]
    /\ UNCHANGED <<tables, tx>>

(* The messages a statement of c sees. *)
Visible(c) == {m \in MessageId : \/ t_messages[m] = "live"
                                 \/ t_messages[m] = "forgotten"
                                    /\ req[c].include_deleted}

(* SELECT id ... WHERE id IN message_ids; NOT_FOUND if one is missing. *)
FindIds(c) ==
    \/ /\ Go(c, "findIds", "search")
       /\ req[c].ids \subseteq Visible(c)
       /\ Write(c, [tx[c] EXCEPT !.target = req[c].ids])
    \/ /\ pc[c] = "findIds"
       /\ ~ (req[c].ids \subseteq Visible(c))
       /\ Rollback(c)

TagsOf(m) == {t \in t_tags : <<m, t>> \in t_message_tags}

(* t.name IN names, COUNT(DISTINCT t.name) = number of names. *)
Carries(m, names) ==
    Cardinality({Lower[n] : n \in names} \cap TagsOf(m)) = Cardinality(names)

Matching(c) == {m \in Visible(c) : Carries(m, req[c].seek)}

(* What the search may return: no condition but the tags, all that matches. *)
Found(c) == IF ~ HasSearch(req[c]) THEN {{}}
            ELSE IF req[c].more THEN SUBSET Matching(c) ELSE {Matching(c)}

(* searchMessages; nothing found and no ids given ends the call. *)
Search(c) ==
    /\ pc[c] = "search"
    /\ \E found \in Found(c) :
          LET target == tx[c].target \cup found
          IN  \/ /\ target # {}
                 /\ Go(c, "search", "insertTags")
                 /\ Write(c, [tx[c] EXCEPT !.target = target])
              \/ target = {} /\ Rollback(c)

(* Tags and links another call has inserted or deleted and not committed. *)
TagsHeld(c) == tx[c].tags
TagsLocked(c) == UNION {TagsHeld(o) : o \in Call \ {c}}
LinksHeld(c) == tx[c].links \cup tx[c].unlinks
LinksLocked(c) == UNION {LinksHeld(o) : o \in Call \ {c}}
NamesLeft(c) == Normalised(req[c].add) \ tx[c].names

(* Bug: an uncommitted row of another transaction counts as existing. *)
InsertTagNoWait(c) ==
    /\ Go(c, "insertTags", "insertTags")
    /\ \E t \in NamesLeft(c) :
          Write(c, [tx[c] EXCEPT !.names = @ \cup {t},
                                 !.tags = @ \cup ({t} \ (t_tags \cup TagsLocked(c)))])

(* findOrCreateTags, the INSERT: name by name; waits for an uncommitted    *)
(* row of the same name.                                                   *)
InsertTag(c) ==
    /\ Go(c, "insertTags", "insertTags")
    /\ \E t \in NamesLeft(c) \ TagsLocked(c) :
          Write(c, [tx[c] EXCEPT !.names = @ \cup {t},
                                 !.tags = @ \cup ({t} \ t_tags)])

(* findOrCreateTags, the SELECT, up to the INSERT of the links. *)
SelectTags(c) ==
    /\ Go(c, "insertTags", "linkTags")
    /\ NamesLeft(c) = {}
    /\ Write(c, [tx[c] EXCEPT !.rows =
                    tx[c].target \X (Normalised(req[c].add) \cap (t_tags \cup tx[c].tags))])

(* linkMessageTagsBatch: row by row; waits for a row of the same key that  *)
(* another transaction inserted or deleted and keeps a committed one.      *)
LinkTag(c) ==
    /\ Go(c, "linkTags", "linkTags")
    /\ \E l \in tx[c].rows \ LinksLocked(c) :
          Write(c, [tx[c] EXCEPT !.rows = @ \ {l},
                                 !.links = @ \cup ({l} \ t_message_tags)])

(* Bug: remove_tags are not normalised. *)
BeginUnlinkAsWritten(c) ==
    /\ Go(c, "linkTags", "unlinkTags")
    /\ tx[c].rows = {}
    /\ Write(c, [tx[c] EXCEPT !.rows =
                    (tx[c].target \X (req[c].remove \cap t_tags))
                       \cap (t_message_tags \cup tx[c].links)])

(* unlinkMessageTagsBatch starts with the links it sees. *)
BeginUnlink(c) ==
    /\ Go(c, "linkTags", "unlinkTags")
    /\ tx[c].rows = {}
    /\ Write(c, [tx[c] EXCEPT !.rows =
                    (tx[c].target \X Normalised(req[c].remove))
                       \cap (t_message_tags \cup tx[c].links)])

(* The DELETE, row by row; a row that is gone by then is passed over. *)
UnlinkTag(c) ==
    /\ Go(c, "unlinkTags", "unlinkTags")
    /\ \E l \in tx[c].rows \ LinksLocked(c) :
          Write(c, [tx[c] EXCEPT !.rows = @ \ {l},
                                 !.unlinks = @ \cup ({l} \cap t_message_tags)])

(* Bug: new tags stay behind. *)
CommitLinksOnly(c) ==
    /\ Go(c, "unlinkTags", "answer")
    /\ tx[c].rows = {}
    /\ t_message_tags' = (t_message_tags \cup tx[c].links) \ tx[c].unlinks
    /\ tx' = [tx EXCEPT ![c] = [NoWrites EXCEPT !.target = tx[c].target]]
    /\ UNCHANGED <<t_messages, t_tags, req>>

Commit(c) ==
    /\ Go(c, "unlinkTags", "answer")
    /\ tx[c].rows = {}
    /\ t_tags' = t_tags \cup tx[c].tags
    /\ t_message_tags' = (t_message_tags \cup tx[c].links) \ tx[c].unlinks
    /\ tx' = [tx EXCEPT ![c] = [NoWrites EXCEPT !.target = tx[c].target]]
    /\ UNCHANGED <<t_messages, req>>

(* The connection is back in the pool: the answer says what was done. *)
Answer(c) == pc[c] = "answer" /\ Rollback(c)

-----------------------------------------------------------------------------
Proceed(c) == \/ FindIds(c) \/ Search(c) \/ InsertTag(c) \/ SelectTags(c)
              \/ LinkTag(c) \/ BeginUnlink(c) \/ UnlinkTag(c)
              \/ Commit(c) \/ Answer(c)

Next == \/ \E m \in MessageId : Remember(m) \/ Forget(m)
        \/ \E c \in Call, r \in Request : Organize(c, r)
        \/ \E c \in Call : Proceed(c) \/ Abort(c)

Spec == Init /\ [][Next]_vars

(* The calls of S keep each other waiting: whatever the statement of c     *)
(* needs next is held by others of S.                                      *)
Blocked(c, S) ==
    LET others == S \ {c}
    IN  \/ /\ pc[c] = "insertTags"
           /\ NamesLeft(c) # {}
           /\ NamesLeft(c) \subseteq UNION {TagsHeld(o) : o \in others}
        \/ /\ pc[c] \in {"linkTags", "unlinkTags"}
           /\ tx[c].rows # {}
           /\ tx[c].rows \subseteq UNION {LinksHeld(o) : o \in others}

(* PostgreSQL ends one of the transactions that wait for each other. *)
DeadlockDetected ==
    \E S \in SUBSET Call : \E c \in S :
        (\A b \in S : Blocked(b, S)) /\ Abort(c)

(* Statements that can run again and again are run, and deadlocks are      *)
(* resolved.  No call has to arrive.                                       *)
FairSpec == /\ Spec
            /\ \A c \in Call : SF_vars(Proceed(c))
            /\ WF_vars(DeadlockDetected)

(***************************************************************************)
(* Properties.                                                             *)
(***************************************************************************)

(* When organize answers with the tags it has added and removed, all its   *)
(* messages carry the ones and none carries the others.                    *)
Applied ==
    \A c \in Call : pc[c] = "answer" =>
        /\ tx[c].target \X Normalised(req[c].add) \subseteq t_message_tags
        /\ tx[c].target \X Normalised(req[c].remove) \cap t_message_tags = {}

(* One call removes from a message what another one adds to it. *)
Opposed ==
    \E c, d \in Call : /\ c # d
                       /\ tx[c].target \cap tx[d].target # {}
                       /\ Normalised(req[c].add) \cap Normalised(req[d].remove) # {}

(* An answer of organize is true unless calls with opposite wishes overlap *)
(* on a message: calls that create the same tags and link the same         *)
(* messages do not lose each other's links.                                *)
AppliedUnlessOpposed == []~ Opposed => []Applied

Alone == \A c, d \in Call : pc[c] # "idle" /\ pc[d] # "idle" => c = d

(* The searched names mean to searchMessages what they mean to organize. *)
PlainNames(names) == /\ \A n \in names : Lower[n] = Normal[n]
                     /\ Cardinality(Normalised(names)) = Cardinality(names)

(* organize(tags, remove_tags) with a common name empties the search that  *)
(* it made: nothing it could see carries all the searched tags any more.   *)
SearchEmptied ==
    \A c \in Call :
        /\ pc[c] = "answer"
        /\ req[c].seek \cap req[c].remove # {}
        /\ ~ req[c].more
        /\ PlainNames(req[c].seek)
        => \A m \in Visible(c) : ~ (Normalised(req[c].seek) \subseteq TagsOf(m))

(* In stdio mode, one call after the other, this holds although messages   *)
(* are stored and forgotten in between.                                    *)
RetagsAll == []Alone => []SearchEmptied

(* Every call is answered, although two calls may create the same tags or  *)
(* link and unlink the same rows in opposite orders.                       *)
CallsReturn == \A c \in Call : pc[c] # "idle" ~> pc[c] = "idle"
=============================================================================
