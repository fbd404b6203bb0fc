------------------------------- MODULE DbPool -------------------------------
(***************************************************************************)
(* The life of the connection pool in db.py.  One object, db_pool, is      *)
(* shared by everything in the process; its field _pool points to the      *)
(* current psycopg pool.  The lifespan of every MCP session opens db_pool  *)
(* when the session starts and closes it when the session ends.  OAuth and *)
(* PIN routes run outside any session and open db_pool themselves when     *)
(* they find no pool.  All of it runs on one event loop: an action is what *)
(* runs between two suspensions.                                           *)
(***************************************************************************)
EXTENDS Integers, FiniteSets

CONSTANTS
    Session,   \* MCP sessions
    Tool,      \* tool calls, each inside a session
    Route,     \* OAuth and PIN requests, outside any session
    MaxSize,   \* connections of a pool (max_size)
    MaxPool    \* bound: pools created in the life of a process

ASSUME PoolAssumption == /\ MaxSize \in Nat \ {0}
                         /\ MaxPool \in Nat \ {0}
                         /\ Tool \cap Route = {}
                         /\ IsFiniteSet(Tool) /\ IsFiniteSet(Route)

VARIABLES
    field,     \* db_pool._pool: a pool, or None
    created,   \* pools created so far
    open,      \* the created pools that are not closed
    life,      \* per session: its lifespan
    use        \* per request: what it does, on which pool, in which session

vars == <<field, created, open, life, use>>

Request == Tool \cup Route
None == 0
Pool == 1..MaxPool
NoSession == "none"

Use == [phase : {"idle", "waiting", "holding"}, pool : Pool \cup {None},
        session : Session \cup {NoSession}]
Idle == [phase |-> "idle", pool |-> None, session |-> NoSession]

TypeOK ==
    /\ field \in Pool \cup {None}
    /\ created \in 0..MaxPool
    /\ open \subseteq 1..created
    /\ field <= created
    /\ life \in [Session -> {"down", "up", "closing"}]
    /\ use \in [Request -> Use]

Init == /\ field = None
        /\ created = 0
        /\ open = {}
        /\ life = [s \in Session |-> "down"]
        /\ use = [r \in Request |-> Idle]

(* Bug: the pool replaces one that is still counted. *)
OpenPoolUncounted == /\ created < MaxPool
                     /\ open' = open \cup {created + 1}
                     /\ UNCHANGED created

(* AsyncDatabasePool.open: always a new pool.  Opening it does not wait    *)
(* for its connections, so nothing runs in between.                        *)
OpenPool == /\ created < MaxPool
            /\ created' = created + 1
            /\ open' = open \cup {created + 1}

(* lifespan, before the yield *)
SessionStart(s) ==
    /\ life[s] = "down"
    /\ OpenPool
    /\ field' = created + 1
    /\ life' = [life EXCEPT ![s] = "up"]
    /\ UNCHANGED use

Calls(s) == {t \in Tool : use[t].session = s}
Waiters(k) == {r \in Request : use[r].phase = "waiting" /\ use[r].pool = k}
Busy(k) == {r \in Request : use[r].phase = "holding" /\ use[r].pool = k}

(* Bug: a closing pool leaves its waiting clients alone. *)
KeepWaiters(k) == UNCHANGED use

(* The psycopg pool refuses new clients from here on and fails those that  *)
(* wait; connections in use are closed when they come back.                *)
FailWaiters(k) ==
    use' = [r \in Request |-> IF r \in Waiters(k) THEN Idle ELSE use[r]]

(* Bug: the field is cleared and the pool never shut. *)
SessionEndForgets(s) ==
    /\ life[s] = "up"
    /\ Calls(s) = {}
    /\ field' = None
    /\ life' = [life EXCEPT ![s] = "down"]
    /\ UNCHANGED <<created, open, use>>

(* lifespan, finally: close() looks at the field, shuts that pool and      *)
(* waits for its workers.  A pool that is shut already is not waited for.  *)
SessionEnd(s) ==
    /\ life[s] = "up"
    /\ Calls(s) = {}
    /\ UNCHANGED created
    /\ \/ /\ field \in open
          /\ open' = open \ {field}
          /\ FailWaiters(field)
          /\ life' = [life EXCEPT ![s] = "closing"]
          /\ UNCHANGED field
       \/ /\ field \notin open
          /\ field' = None
          /\ life' = [life EXCEPT ![s] = "down"]
          /\ UNCHANGED <<open, use>>

(* Bug: close() does not clear the field. *)
CloseFinishKeepsField(s) ==
    /\ life[s] = "closing"
    /\ life' = [life EXCEPT ![s] = "down"]
    /\ UNCHANGED <<field, created, open, use>>

(* close(), after the await: whatever the field holds now is forgotten. *)
CloseFinish(s) ==
    /\ life[s] = "closing"
    /\ field' = None
    /\ life' = [life EXCEPT ![s] = "down"]
    /\ UNCHANGED <<created, open, use>>

(* get_connection up to the checkout: the pool of the field, opened first  *)
(* when there is none.  A closed pool raises PoolClosed.                   *)
Checkout(r, s, k, ready) ==
    LET phase == IF Cardinality(Busy(k)) < MaxSize THEN "holding" ELSE "waiting"
    IN  IF ready
          THEN use' = [use EXCEPT ![r] =
                          [phase |-> phase, pool |-> k, session |-> s]]
          ELSE UNCHANGED use

GetConnection(r, s) ==
    /\ use[r] = Idle
    /\ \/ /\ field # None
          /\ Checkout(r, s, field, field \in open)
          /\ UNCHANGED <<field, created, open>>
       \/ /\ field = None
          /\ OpenPool
          /\ field' = created + 1
          /\ Checkout(r, s, created + 1, TRUE)
    /\ UNCHANGED life

ToolCall(t, s) == life[s] = "up" /\ GetConnection(t, s)

RouteRequest(r) == GetConnection(r, NoSession)

(* The pool hands a returned connection to a waiting client. *)
Grant(r) ==
    /\ use[r].phase = "waiting"
    /\ use[r].pool \in open
    /\ Cardinality(Busy(use[r].pool)) < MaxSize
    /\ use' = [use EXCEPT ![r].phase = "holding"]
    /\ UNCHANGED <<field, created, open, life>>

Leave(r, phase) == /\ use[r].phase = phase
                   /\ use' = [use EXCEPT ![r] = Idle]
                   /\ UNCHANGED <<field, created, open, life>>

(* The transaction is over; the wait for a connection timed out. *)
Release(r) == Leave(r, "holding")
PoolTimeout(r) == Leave(r, "waiting")

(* The process is restarted. *)
Restart == /\ field' = None
           /\ created' = 0
           /\ open' = {}
           /\ life' = [s \in Session |-> "down"]
           /\ use' = [r \in Request |-> Idle]

Next == \/ \E s \in Session : SessionStart(s) \/ SessionEnd(s) \/ CloseFinish(s)
        \/ \E t \in Tool, s \in Session : ToolCall(t, s)
        \/ \E r \in Route : RouteRequest(r)
        \/ \E r \in Request : Grant(r) \/ Release(r) \/ PoolTimeout(r)
        \/ Restart

Spec == Init /\ [][Next]_vars

(* close() ends within its timeout, transactions within statement_timeout, *)
(* and the pool serves a waiting client when a connection comes back.      *)
FairSpec == /\ Spec
            /\ \A s \in Session : WF_vars(CloseFinish(s))
            /\ \A r \in Request : WF_vars(Release(r)) /\ SF_vars(Grant(r))

(***************************************************************************)
(* Properties.                                                             *)
(***************************************************************************)

(* db_pool.open() does nothing when the pool is open already, so there is  *)
(* never more than one open pool (09_transaction.md:254).                  *)
OnePool == Cardinality(open) <= 1

(* Every open pool can still be reached, used and closed through the field. *)
NoLostPool == open \subseteq {field}

(* One session at a time, and requests outside it only while it lasts.     *)
OneUser ==
    /\ \A s, r \in Session : life[s] # "down" /\ life[r] # "down" => s = r
    /\ \A r \in Route : use[r] # Idle => \E s \in Session : life[s] # "down"

(* What the lifespan of server.py is written for: as long as no session    *)
(* overlaps another one and no request comes outside a session, every pool *)
(* that open() creates is still there for close() to shut.                 *)
LostByOverlapOnly == []OneUser => []NoLostPool

(* A shut pool is left in the field only while some lifespan waits in its  *)
(* close(): the refusals it causes have an end.                            *)
ShutOnlyWhileClosing ==
    (field # None /\ field \notin open) => \E s \in Session : life[s] = "closing"

(* Nobody waits for a connection of a pool that will never hand one out.   *)
WaitersHavePool ==
    \A r \in Request : use[r].phase = "waiting" => use[r].pool \in open

(* After any end of sessions, with requests and new sessions in between,   *)
(* requests are served again.                                              *)
ServiceRecovers == []<>(field = None \/ field \in open)

(* A request that waits for a connection gets one or is told it will not.  *)
WaitersAnswered ==
    \A r \in Request : use[r].phase = "waiting" ~> use[r].phase # "waiting"
=============================================================================
