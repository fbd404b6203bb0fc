---------------------------- MODULE DbPoolProofs ----------------------------
(***************************************************************************)
(* The connection pool for any number of sessions, requests, connections   *)
(* and pools.                                                              *)
(***************************************************************************)
EXTENDS DbPool, TLAPS

IInv == TypeOK /\ ShutOnlyWhileClosing /\ WaitersHavePool

-----------------------------------------------------------------------------
LEMMA Types ==
    ASSUME TypeOK
    PROVE  /\ field \in Pool \cup {None} /\ field <= created
           /\ created \in 0..MaxPool /\ created \in Nat
           /\ open \subseteq 1..created
           /\ life \in [Session -> {"down", "up", "closing"}]
           /\ use \in [Request -> Use]
BY PoolAssumption DEF TypeOK

(* Opening a pool: the new one is open and reachable. *)
LEMMA OpenPoolType ==
    ASSUME TypeOK, OpenPool, field' = created + 1
    PROVE  /\ field' \in Pool /\ field' <= created' /\ field' # None
           /\ created' \in 0..MaxPool
           /\ open' \subseteq 1..created'
           /\ open \subseteq open'
           /\ field' \in open'
BY Types, PoolAssumption DEF OpenPool, Pool, None

LEMMA CheckoutType ==
    ASSUME TypeOK, NEW r \in Request, NEW s \in Session \cup {NoSession},
           NEW k \in Pool, NEW ready, Checkout(r, s, k, ready)
    PROVE  /\ use' \in [Request -> Use]
           /\ \A q \in Request \ {r} : use'[q] = use[q]
           /\ \/ ready /\ use'[r].pool = k
              \/ use'[r] = use[r]
<1> DEFINE phase == IF Cardinality(Busy(k)) < MaxSize THEN "holding" ELSE "waiting"
           u == [phase |-> phase, pool |-> k, session |-> s]
<1>1. u \in Use
  BY DEF Use
<1>2. CASE ready
  <2>1. use' = [use EXCEPT ![r] = u]
    BY <1>2 DEF Checkout
  <2> QED
    BY <1>1, <1>2, <2>1, Types
<1>3. CASE ~ ready
  BY <1>3, Types DEF Checkout
<1> QED
  BY <1>2, <1>3

(* A request that asks for a connection. *)
LEMMA GetConnectionStep ==
    ASSUME IInv, NEW r \in Request, NEW s \in Session \cup {NoSession},
           GetConnection(r, s)
    PROVE  IInv'
<1> USE DEF IInv
<1>1. UNCHANGED life
  BY DEF GetConnection
<1>2. CASE /\ field # None
           /\ Checkout(r, s, field, field \in open)
           /\ UNCHANGED <<field, created, open>>
  <2>1. field \in Pool
    BY <1>2, Types
  <2>2. /\ use' \in [Request -> Use]
        /\ \A q \in Request \ {r} : use'[q] = use[q]
        /\ (field \in open /\ use'[r].pool = field) \/ use'[r] = use[r]
    BY <1>2, <2>1, CheckoutType
  <2> QED
    BY <1>1, <1>2, <2>2 DEF TypeOK, ShutOnlyWhileClosing, WaitersHavePool
<1>3. CASE /\ OpenPool
           /\ field' = created + 1
           /\ Checkout(r, s, created + 1, TRUE)
  <2>1. /\ field' \in Pool /\ field' <= created' /\ created' \in 0..MaxPool
        /\ open' \subseteq 1..created' /\ open \subseteq open' /\ field' \in open'
    BY <1>3, OpenPoolType
  <2>2. /\ use' \in [Request -> Use]
        /\ \A q \in Request \ {r} : use'[q] = use[q]
        /\ use'[r].pool = field' \/ use'[r] = use[r]
    BY <1>3, <2>1, CheckoutType
  <2> QED
    BY <1>1, <2>1, <2>2 DEF TypeOK, ShutOnlyWhileClosing, WaitersHavePool
<1> QED
  BY <1>2, <1>3 DEF GetConnection

LEMMA SessionStep ==
    ASSUME IInv, NEW s \in Session,
           SessionStart(s) \/ SessionEnd(s) \/ CloseFinish(s)
    PROVE  IInv'
<1> USE DEF IInv
<1>1. CASE SessionStart(s)
  <2>1. /\ field' \in Pool /\ field' <= created' /\ created' \in 0..MaxPool
        /\ open' \subseteq 1..created' /\ open \subseteq open' /\ field' \in open'
    BY <1>1, OpenPoolType DEF SessionStart
  <2>2. UNCHANGED use /\ life' \in [Session -> {"down", "up", "closing"}]
    BY <1>1, Types DEF SessionStart
  <2> QED
    BY <2>1, <2>2 DEF TypeOK, ShutOnlyWhileClosing, WaitersHavePool
<1>2. CASE SessionEnd(s) /\ field \in open
  <2>1. /\ open' = open \ {field}
        /\ use' = [r \in Request |-> IF r \in Waiters(field) THEN Idle ELSE use[r]]
        /\ life' = [life EXCEPT ![s] = "closing"]
        /\ UNCHANGED <<field, created>>
    BY <1>2 DEF SessionEnd, FailWaiters
  <2>2. Idle \in Use
    BY DEF Idle, Use
  <2>3. TypeOK'
    BY <2>1, <2>2, Types DEF TypeOK
  <2>4. ShutOnlyWhileClosing'
    BY <2>1, Types DEF ShutOnlyWhileClosing
  <2>5. WaitersHavePool'
    BY <2>1 DEF WaitersHavePool, Waiters, Idle
  <2> QED
    BY <2>3, <2>4, <2>5
<1>3. CASE SessionEnd(s) /\ field \notin open
  <2>1. /\ field' = None
        /\ life' = [life EXCEPT ![s] = "down"]
        /\ UNCHANGED <<created, open, use>>
    BY <1>3 DEF SessionEnd
  <2> QED
    BY <2>1, Types DEF TypeOK, ShutOnlyWhileClosing, WaitersHavePool, None
<1>4. CASE CloseFinish(s)
  BY <1>4, Types DEF CloseFinish, TypeOK, ShutOnlyWhileClosing, WaitersHavePool, None
<1> QED
  BY <1>1, <1>2, <1>3, <1>4

LEMMA RequestStep ==
    ASSUME IInv, NEW r \in Request, Grant(r) \/ Release(r) \/ PoolTimeout(r)
    PROVE  IInv'
<1> USE DEF IInv
<1>1. UNCHANGED <<field, created, open, life>>
  BY DEF Grant, Release, PoolTimeout, Leave
<1>2. /\ use' \in [Request -> Use]
      /\ \A q \in Request : use'[q].phase = "waiting" => use'[q] = use[q]
  <2>1. CASE Grant(r)
    BY <2>1, Types DEF Grant, Use
  <2>2. CASE Release(r) \/ PoolTimeout(r)
    BY <2>2, Types DEF Release, PoolTimeout, Leave, Idle, Use
  <2> QED
    BY <2>1, <2>2
<1> QED
  BY <1>1, <1>2 DEF TypeOK, ShutOnlyWhileClosing, WaitersHavePool

LEMMA StartInvariant ==
    ASSUME field = None, created = 0, open = {},
           life = [s \in Session |-> "down"], use = [r \in Request |-> Idle]
    PROVE  IInv
BY PoolAssumption DEF IInv, TypeOK, ShutOnlyWhileClosing, WaitersHavePool,
   None, Idle, Use

LEMMA InvariantStep == IInv /\ [Next]_vars => IInv'
<1> SUFFICES ASSUME IInv, [Next]_vars PROVE IInv'
  OBVIOUS
<1>1. CASE UNCHANGED vars
  BY <1>1 DEF vars, IInv, TypeOK, ShutOnlyWhileClosing, WaitersHavePool
<1>2. ASSUME NEW t \in Tool, NEW s \in Session, ToolCall(t, s) PROVE IInv'
  BY <1>2, GetConnectionStep DEF ToolCall, Request
<1>3. ASSUME NEW r \in Route, RouteRequest(r) PROVE IInv'
  BY <1>3, GetConnectionStep DEF RouteRequest, Request
<1>4. CASE Restart
  BY <1>4, PoolAssumption DEF Restart, IInv, TypeOK, ShutOnlyWhileClosing,
     WaitersHavePool, None, Idle, Use
<1> QED
  BY <1>1, <1>2, <1>3, <1>4, SessionStep, RequestStep DEF Next

LEMMA Invariant == Spec => []IInv
<1>1. Init => IInv
  BY StartInvariant DEF Init
<1> QED
  BY <1>1, InvariantStep, PTL DEF Spec

(* The pool's variables keep their types, and no pool is open or pointed   *)
(* to before it is created.                                                *)
THEOREM TypeCorrect == Spec => []TypeOK
<1>1. IInv => TypeOK
  BY DEF IInv
<1> QED
  BY Invariant, <1>1, PTL

(* A shut pool stays in the field only during somebody's close().          *)
THEOREM ShutIsTransient == Spec => []ShutOnlyWhileClosing
<1>1. IInv => ShutOnlyWhileClosing
  BY DEF IInv
<1> QED
  BY Invariant, <1>1, PTL

(* Whoever waits for a connection waits on a pool that is open.            *)
THEOREM WaitersServed == Spec => []WaitersHavePool
<1>1. IInv => WaitersHavePool
  BY DEF IInv
<1> QED
  BY Invariant, <1>1, PTL

-----------------------------------------------------------------------------
(* One user of the pool at a time.  Between two lifespans the field is     *)
(* empty, during one it is not, and a closing lifespan has shut all there  *)
(* was: whoever opens a pool finds none open.                              *)
FieldFollowsLife ==
    /\ field # None => \E s \in Session : life[s] # "down"
    /\ \A s \in Session : life[s] # "down" => field # None
    /\ \A s \in Session : life[s] = "closing" => open = {}

Kept == NoLostPool /\ FieldFollowsLife

LEMMA KeptStep == IInv /\ OneUser /\ OneUser' /\ Kept /\ [Next]_vars => Kept'
<1> SUFFICES ASSUME IInv, OneUser, OneUser', Kept, [Next]_vars PROVE Kept'
  OBVIOUS
<1> USE DEF IInv
<1>t. TypeOK /\ life \in [Session -> {"down", "up", "closing"}]
      /\ open \subseteq 1..created /\ created \in Nat
  BY Types
<1>1. ASSUME NEW s \in Session, SessionStart(s) PROVE Kept'
  <2>1. life' = [life EXCEPT ![s] = "up"] /\ field' = created + 1
        /\ open' = open \cup {created + 1} /\ life[s] = "down"
    BY <1>1 DEF SessionStart, OpenPool
  <2>2. \A r \in Session \ {s} : life[r] = "down"
    BY <2>1, <1>t DEF OneUser
  <2>3. open = {}
    BY <2>1, <2>2, <1>t DEF Kept, NoLostPool, FieldFollowsLife, None
  <2>4. created + 1 # None
    BY <1>t DEF None
  <2> QED
    BY <2>1, <2>2, <2>3, <2>4, <1>t DEF Kept, NoLostPool, FieldFollowsLife
<1>2. ASSUME NEW s \in Session, SessionEnd(s) PROVE Kept'
  <2>1. life[s] = "up" /\ \A r \in Session \ {s} : life[r] = "down"
    BY <1>2 DEF SessionEnd, OneUser
  <2>2. field # None
    BY <2>1 DEF Kept, FieldFollowsLife
  <2>3. CASE field \in open
    <3>1. open' = {} /\ field' = field /\ life' = [life EXCEPT ![s] = "closing"]
      BY <1>2, <2>3 DEF SessionEnd, Kept, NoLostPool
    <3> QED
      BY <2>2, <3>1, <1>t DEF Kept, NoLostPool, FieldFollowsLife
  <2>4. CASE field \notin open
    <3>1. open = {} /\ open' = open /\ field' = None
          /\ life' = [life EXCEPT ![s] = "down"]
      BY <1>2, <2>4 DEF SessionEnd, Kept, NoLostPool
    <3> QED
      BY <2>1, <3>1, <1>t DEF Kept, NoLostPool, FieldFollowsLife
  <2> QED
    BY <2>3, <2>4
<1>3. ASSUME NEW s \in Session, CloseFinish(s) PROVE Kept'
  <2>1. life[s] = "closing" /\ \A r \in Session \ {s} : life[r] = "down"
    BY <1>3 DEF CloseFinish, OneUser
  <2>2. open = {} /\ open' = open /\ field' = None
        /\ life' = [life EXCEPT ![s] = "down"]
    BY <1>3, <2>1 DEF CloseFinish, Kept, FieldFollowsLife
  <2> QED
    BY <2>1, <2>2, <1>t DEF Kept, NoLostPool, FieldFollowsLife
<1>4. ASSUME NEW r \in Request, NEW s \in Session \cup {NoSession},
             GetConnection(r, s), r \in Tool => s \in Session /\ life[s] = "up"
      PROVE  Kept'
  <2>1. CASE UNCHANGED <<field, open, life>>
    BY <2>1 DEF Kept, NoLostPool, FieldFollowsLife
  <2>2. CASE field = None /\ Checkout(r, s, created + 1, TRUE) /\ use[r] = Idle
             /\ OpenPool /\ UNCHANGED life
    <3>1. \A q \in Session : life[q] = "down"
      BY <2>2 DEF Kept, FieldFollowsLife
    <3>2. r \in Route
      BY <1>4, <3>1 DEF Request
    <3>3. use'[r].pool = created + 1
      BY <2>2, <1>t DEF Checkout, TypeOK
    <3>4. use'[r] # Idle
      BY <3>3, <1>t DEF Idle, None
    <3> QED
      BY <2>2, <3>1, <3>2, <3>4 DEF OneUser
  <2> QED
    BY <1>4, <2>1, <2>2 DEF GetConnection
<1>5. ASSUME NEW r \in Request, Grant(r) \/ Release(r) \/ PoolTimeout(r)
      PROVE  Kept'
  BY <1>5 DEF Grant, Release, PoolTimeout, Leave, Kept, NoLostPool, FieldFollowsLife
<1>6. CASE Restart
  BY <1>6 DEF Restart, Kept, NoLostPool, FieldFollowsLife
<1>7. CASE UNCHANGED vars
  BY <1>7 DEF vars, Kept, NoLostPool, FieldFollowsLife
<1>8. ASSUME NEW t \in Tool, NEW s \in Session, ToolCall(t, s) PROVE Kept'
  BY <1>4, <1>8 DEF ToolCall, Request
<1>9. ASSUME NEW r \in Route, RouteRequest(r) PROVE Kept'
  BY <1>4, <1>9, PoolAssumption DEF RouteRequest, Request
<1> QED
  BY <1>1, <1>2, <1>3, <1>5, <1>6, <1>7, <1>8, <1>9 DEF Next

(* As long as sessions do not overlap and no request comes outside one,    *)
(* no open pool is lost.                                                   *)
THEOREM OverlapLoses == Spec => LostByOverlapOnly
<1>1. Init => Kept
  BY DEF Init, Kept, NoLostPool, FieldFollowsLife
<1>2. Kept => NoLostPool
  BY DEF Kept
<1> QED
  BY Invariant, <1>1, <1>2, KeptStep, PTL DEF Spec, LostByOverlapOnly
=============================================================================
