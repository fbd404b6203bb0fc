------------------------ MODULE AuthorizationProofs ------------------------
(***************************************************************************)
(* Proofs about Authorization for any number of requests, clients and      *)
(* tokens and any lifetimes: types, the lockout counter, the renewal of    *)
(* access, and what a consent is worth.                                    *)
(***************************************************************************)
EXTENDS Authorization, FiniteSetTheorems, TLAPS

Phase == {"idle", "pin", "issue", "code", "refresh", "revokeAccess",
          "revokeRefresh"}

(***************************************************************************)
(* Helpers: what the pieces of the actions do to the types.                *)
(***************************************************************************)
LEMMA FinishType ==
  ASSUME TypeOK, NEW c \in Call, Finish(c)
  PROVE  /\ pc' \in [Call -> Phase]
         /\ tx' \in [Call -> Row \cup {Nothing}]
         /\ \A d \in Call : pc'[d] # "idle" => tx'[d] \in Row
BY DEF Finish, TypeOK, Phase

LEMMA LoadType ==
  ASSUME TypeOK, NEW c \in Call, NEW table \in SUBSET Row,
         NEW next \in Phase, Load(c, table, next)
  PROVE  TypeOK'
<1>1. PICK r \in table : tx' = [tx EXCEPT ![c] = Known(r)]
  BY DEF Load, Live
<1>2. Known(r) \in Row
  BY DEF Known, Row
<1>3. /\ pc' \in [Call -> Phase]
      /\ tx' \in [Call -> Row \cup {Nothing}]
      /\ \A d \in Call : pc'[d] # "idle" => tx'[d] \in Row
  BY <1>1, <1>2 DEF Load, TypeOK, Phase
<1>4. overlaps' \in [Token -> Nat]
  BY DEF Load, TypeOK
<1> QED
  BY <1>3, <1>4 DEF Load, TypeOK, tables, lockoutVars, LockoutType, Phase

LEMMA IssueType ==
  ASSUME NEW r \in Row, NEW token \in Token, NEW expires \in Int
  PROVE  /\ Issue(r, token, expires) \in Row
         /\ Issue(r, token, expires).token = token
         /\ Issue(r, token, expires).grant = r.grant
         /\ Issue(r, token, expires).client = r.client
         /\ Issue(r, token, expires).left = expires
BY DEF Issue, Row

LEMMA NewTokenFresh ==
  ASSUME NEW table, NEW held, Fresh(table, held) # {}
  PROVE  /\ NewToken(table, held) \in Token
         /\ \A r \in table \cup held : r.token # NewToken(table, held)
<1>1. NewToken(table, held) \in Fresh(table, held)
  BY DEF NewToken
<1> QED
  BY <1>1 DEF Fresh

LEMMA AgeType ==
  ASSUME NEW table \in SUBSET Row
  PROVE  Age(table) \subseteq Row
<1> SUFFICES ASSUME NEW r \in table
             PROVE  [r EXCEPT !.left = IF @ > Gone THEN @ - 1 ELSE Gone] \in Row
  BY DEF Age
<1> QED
  BY DEF Row, Gone

LEMMA WrongPinType ==
  ASSUME LockoutType, WrongPin
  PROVE  LockoutType'
BY LockoutAssumption
DEF LockoutType, WrongPin, FailuresNow, LockedOut, NoLockout, lockoutVars

LEMMA NoPinType ==
  ASSUME LockoutType, NoPin
  PROVE  LockoutType'
BY DEF LockoutType, NoPin, NoLockout, lockoutVars

LEMMA LockoutTickType ==
  ASSUME LockoutType, LockoutTick
  PROVE  LockoutType'
BY LockoutAssumption DEF LockoutType, LockoutTick, NoLockout

(* The two rows of a new pair. *)
NewAccess(c) ==
    Issue(tx[c], NewToken(t_oauth_access_token, HeldByOthers(c)), AccessExpires)
NewRefresh(c, table) ==
    Issue(tx[c], NewToken(table, HeldByOthers(c)), RefreshExpires)

LEMMA PairRows ==
  ASSUME NEW c \in Call, tx[c] \in Row, NEW table, NewPair(c, table)
  PROVE  /\ NewAccess(c) \in Row /\ NewRefresh(c, table) \in Row
         /\ NewAccess(c).left = AccessExpires
         /\ NewRefresh(c, table).left = RefreshExpires
         /\ \A r \in {NewAccess(c), NewRefresh(c, table)} :
               r.grant = tx[c].grant /\ r.client = tx[c].client
         /\ \A r \in table \cup HeldByOthers(c) :
               r.token # NewRefresh(c, table).token
         /\ t_oauth_access_token' = t_oauth_access_token \cup {NewAccess(c)}
         /\ t_oauth_refresh_token' = table \cup {NewRefresh(c, table)}
<1>1. /\ NewToken(t_oauth_access_token, HeldByOthers(c)) \in Token
      /\ NewToken(table, HeldByOthers(c)) \in Token
      /\ \A r \in table \cup HeldByOthers(c) :
            r.token # NewToken(table, HeldByOthers(c))
  BY NewTokenFresh DEF NewPair
<1>2. AccessExpires \in Int /\ RefreshExpires \in Int
  BY ExpiryAssumption
<1> QED
  BY <1>1, <1>2, IssueType DEF NewPair, NewAccess, NewRefresh

LEMMA NewPairType ==
  ASSUME TypeOK, NEW c \in Call, tx[c] \in Row,
         NEW table \in SUBSET Row, NewPair(c, table)
  PROVE  t_oauth_access_token' \subseteq Row /\ t_oauth_refresh_token' \subseteq Row
BY PairRows DEF TypeOK

LEMMA InitType == Init => TypeOK
BY DEF Init, TypeOK, LockoutInit, LockoutType

LEMMA TypeStep == TypeOK /\ [Next]_vars => TypeOK'
<1> SUFFICES ASSUME TypeOK, [Next]_vars
             PROVE  TypeOK'
  OBVIOUS
<1>1. CASE \E client \in Client : RegisterClient(client)
  BY <1>1 DEF RegisterClient, TypeOK, LockoutType, lockoutVars, tables
<1>2. ASSUME NEW client \in Client, Authorize(client)
      PROVE  TypeOK'
  <2>1. PICK t \in Token : t_oauth_auth_session' = t_oauth_auth_session \cup
           {[token |-> t, grant |-> t, client |-> client, left |-> SessionExpires]}
    BY <1>2 DEF Authorize, Fresh
  <2>2. [token |-> t, grant |-> t, client |-> client, left |-> SessionExpires]
           \in Row
    BY ExpiryAssumption DEF Row
  <2> QED
    BY <1>2, <2>1, <2>2 DEF Authorize, TypeOK, LockoutType, lockoutVars
<1>3. ASSUME NEW c \in Call, Post(c)
      PROVE  TypeOK'
  <2>1. CASE PinLoad(c)
    BY <2>1, LoadType DEF PinLoad, TypeOK, Phase
  <2>2. CASE Deny(c)
    BY <2>2, FinishType DEF Deny, Without, TypeOK, LockoutType, lockoutVars, Phase
  <2>3. CASE PinWrong(c)
    BY <2>3, FinishType, WrongPinType DEF PinWrong, TypeOK, tables, Phase
  <2>4. CASE PinRight(c)
    <3>1. LockoutType'
      BY <2>4 DEF PinRight, RightPin, LockoutType
    <3> QED
      BY <2>4, <3>1 DEF PinRight, TypeOK, tables
  <2>5. CASE IssueCode(c)
    <3>1. tx[c] \in Row /\ NewToken(t_oauth_auth_code, Held) \in Token
      BY <2>5, NewTokenFresh DEF IssueCode, TypeOK
    <3>2. Issue(tx[c], NewToken(t_oauth_auth_code, Held), CodeExpires) \in Row
      BY <3>1, IssueType, ExpiryAssumption
    <3> QED
      BY <2>5, <3>2, FinishType
      DEF IssueCode, Without, TypeOK, LockoutType, lockoutVars, Phase
  <2>6. CASE PinFails(c)
    BY <2>6, FinishType, NoPinType DEF PinFails, TypeOK, tables, Phase
  <2> QED
    BY <1>3, <2>1, <2>2, <2>3, <2>4, <2>5, <2>6 DEF Post
<1>4. ASSUME NEW c \in Call, Exchange(c)
      PROVE  TypeOK'
  <2>1. CASE CodeLoad(c)
    BY <2>1, LoadType DEF CodeLoad, TypeOK, Phase
  <2>2. CASE RefreshLoad(c)
    BY <2>2, LoadType DEF RefreshLoad, TypeOK, Phase
  <2>3. CASE ExchangeCode(c)
    <3>1. tx[c] \in Row
      BY <2>3 DEF ExchangeCode, TypeOK
    <3>2. /\ t_oauth_access_token' \subseteq Row
          /\ t_oauth_refresh_token' \subseteq Row
      BY <2>3, <3>1, NewPairType DEF ExchangeCode, TypeOK
    <3> QED
      BY <2>3, <3>2, FinishType
      DEF ExchangeCode, Without, TypeOK, LockoutType, lockoutVars, Phase
  <2>4. CASE ExchangeRefresh(c)
    <3>1. tx[c] \in Row /\ Without(t_oauth_refresh_token, tx[c].token) \subseteq Row
      BY <2>4 DEF ExchangeRefresh, Without, TypeOK
    <3>2. /\ t_oauth_access_token' \subseteq Row
          /\ t_oauth_refresh_token' \subseteq Row
      BY <2>4, <3>1, NewPairType DEF ExchangeRefresh
    <3> QED
      BY <2>4, <3>2, FinishType
      DEF ExchangeRefresh, TypeOK, LockoutType, lockoutVars, Phase
  <2> QED
    BY <1>4, <2>1, <2>2, <2>3, <2>4 DEF Exchange
<1>5. ASSUME NEW c \in Call, Revoke(c)
      PROVE  TypeOK'
  <2>1. CASE AccessLoad(c) \/ RefreshRevokeLoad(c)
    BY <2>1, LoadType DEF AccessLoad, RefreshRevokeLoad, TypeOK, Phase
  <2>2. CASE RevokeAccess(c)
    BY <2>2, FinishType
    DEF RevokeAccess, Without, OfOthers, TypeOK, LockoutType, lockoutVars, Phase
  <2>3. CASE RevokeRefresh(c)
    BY <2>3, FinishType
    DEF RevokeRefresh, Without, OfOthers, TypeOK, LockoutType, lockoutVars, Phase
  <2> QED
    BY <1>5, <2>1, <2>2, <2>3 DEF Revoke
<1>6. ASSUME NEW c \in Call, Drop(c)
      PROVE  TypeOK'
  BY <1>6, FinishType DEF Drop, TypeOK, LockoutType, lockoutVars, tables, Phase
<1>7. CASE Cleanup
  BY <1>7 DEF Cleanup, Clean, TypeOK, LockoutType, lockoutVars
<1>8. CASE Tick
  BY <1>8, AgeType, LockoutTickType DEF Tick, TypeOK
<1>9. CASE Restart
  BY <1>9 DEF Restart, TypeOK, LockoutType, tables
<1>10. CASE UNCHANGED vars
  BY <1>10 DEF vars, TypeOK, LockoutType, lockoutVars, tables
<1> QED
  BY <1>1, <1>2, <1>3, <1>4, <1>5, <1>6, <1>7, <1>8, <1>9, <1>10 DEF Next

(* The tables, the counter and what requests hold keep their types.        *)
THEOREM TypeCorrect == Spec => []TypeOK
BY InitType, TypeStep, PTL DEF Spec

(***************************************************************************)
(* The lockout.                                                            *)
(***************************************************************************)
LEMMA LockoutStep ==
  ASSUME TypeOK, LockoutExact, [Next]_vars
  PROVE  LockoutExact'
<1> USE LockoutAssumption DEF NoLockout
<1>1. CASE UNCHANGED lockoutVars
  BY <1>1 DEF LockoutExact, lockoutVars
<1>2. CASE WrongPin
  BY <1>2 DEF WrongPin, FailuresNow, LockedOut, LockoutExact, TypeOK,
              LockoutType, lockoutVars
<1>3. CASE RightPin
  BY <1>3 DEF RightPin, LockoutExact
<1>4. CASE LockoutTick
  BY <1>4 DEF LockoutTick, LockoutExact, TypeOK, LockoutType
<1>5. CASE Restart
  BY <1>5 DEF Restart, LockoutExact
<1>6. CASE NoPin
  BY <1>6 DEF NoPin, LockoutExact, TypeOK, LockoutType, lockoutVars
<1>7. \/ UNCHANGED lockoutVars \/ WrongPin \/ RightPin \/ NoPin
      \/ LockoutTick \/ Restart
  BY DEF Next, vars, RegisterClient, Authorize, Post, PinLoad, Deny, PinWrong,
         PinFails, PinRight, IssueCode, Exchange, CodeLoad, ExchangeCode, RefreshLoad,
         ExchangeRefresh, Revoke, AccessLoad, RevokeAccess, RefreshRevokeLoad,
         RevokeRefresh, Load, Drop, Cleanup, Tick
<1> QED
  BY <1>1, <1>2, <1>3, <1>4, <1>5, <1>6, <1>7

(* Whatever requests, clock and restarts do, the counter of wrong PINs     *)
(* never passes the maximum and stands there exactly during a lockout or   *)
(* until the first POST after it.                                          *)
THEOREM LockoutCounts == Spec => []LockoutExact
<1>1. Init => LockoutExact
  BY LockoutAssumption DEF Init, LockoutInit, LockoutExact, NoLockout
<1> QED
  BY <1>1, LockoutStep, TypeCorrect, PTL DEF Spec

(***************************************************************************)
(* The renewal of access.  The strengthening: a token names one row of the *)
(* refresh table, a request that holds a refresh token still knows its     *)
(* row's grant, no access token lives longer than it was given, and a      *)
(* grant belongs to one client.                                            *)
(***************************************************************************)
OneRowPerToken ==
    \A r, s \in t_oauth_refresh_token : r.token = s.token => r.grant = s.grant

HeldMatch ==
    \A c \in Call : pc[c] \in {"refresh", "revokeRefresh"} =>
        \A r \in t_oauth_refresh_token :
            r.token = tx[c].token => r.grant = tx[c].grant

AccessBound == \A a \in t_oauth_access_token : a.left <= AccessExpires

GrantClient ==
    \A r, s \in Stored \cup Held : r.grant = s.grant => r.client = s.client

IInv == /\ TypeOK
        /\ OneRowPerToken
        /\ HeldMatch
        /\ AccessBound
        /\ GrantClient

(***************************************************************************)
(* What requests hold after an action.                                     *)
(***************************************************************************)
LEMMA FinishHeld ==
  ASSUME TypeOK, NEW c \in Call, Finish(c)
  PROVE  Held' \subseteq Held
BY DEF Finish, Held, TypeOK

LEMMA LoadHeld ==
  ASSUME TypeOK, NEW c \in Call, NEW table, NEW next, Load(c, table, next)
  PROVE  Held' \subseteq Held \cup {Known(r) : r \in table}
BY DEF Load, Live, Held, TypeOK

Kin(r) == \E q \in Stored \cup Held : q.grant = r.grant /\ q.client = r.client

LEMMA KinOfKept == \A r \in Stored \cup Held : Kin(r)
BY DEF Kin

LEMMA KinOfIssued ==
  ASSUME TypeOK, NEW c \in Call, pc[c] # "idle",
         NEW token \in Token, NEW expires \in Int
  PROVE  Kin(Issue(tx[c], token, expires))
<1>1. tx[c] \in Row /\ tx[c] \in Held
  BY DEF TypeOK, Held
<1> QED
  BY <1>1, IssueType DEF Kin

LEMMA KinOfPair ==
  ASSUME TypeOK, NEW c \in Call, pc[c] # "idle",
         NEW table \in SUBSET t_oauth_refresh_token, NewPair(c, table)
  PROVE  \A r \in t_oauth_access_token' \cup t_oauth_refresh_token' : Kin(r)
<1>1. tx[c] \in Row /\ tx[c] \in Held
  BY DEF TypeOK, Held
<1>2. Kin(NewAccess(c)) /\ Kin(NewRefresh(c, table))
  BY <1>1, PairRows DEF Kin
<1> QED
  BY <1>1, <1>2, KinOfKept, PairRows DEF Stored

LEMMA KinOfLoaded ==
  ASSUME TypeOK, NEW c \in Call, NEW table \in SUBSET Stored, NEW next,
         Load(c, table, next)
  PROVE  \A r \in Stored' \cup Held' : Kin(r)
<1>1. Stored' = Stored
  BY DEF Load, tables, Stored
<1>2. ASSUME NEW q \in table
      PROVE  Kin(Known(q))
  BY DEF Kin, Known, TypeOK, Stored, Row
<1> QED
  BY <1>1, <1>2, LoadHeld, KinOfKept

LEMMA KinOfAged ==
  ASSUME TypeOK, NEW table \in SUBSET Stored
  PROVE  \A r \in Age(table) : Kin(r)
<1> SUFFICES ASSUME NEW q \in table
             PROVE  Kin([q EXCEPT !.left = IF @ > Gone THEN @ - 1 ELSE Gone])
  BY DEF Age
<1>1. q \in Row /\ q \in Stored
  BY DEF TypeOK, Stored
<1> QED
  BY <1>1 DEF Kin, Row

(* Every row, stored or held, comes from an earlier one of its grant and   *)
(* client, unless an authorization starts a grant.                         *)
LEMMA Kinship ==
  ASSUME TypeOK, [Next]_vars, \A client \in Client : ~ Authorize(client)
  PROVE  \A r \in Stored' \cup Held' : Kin(r)
<1> DEFINE Kept == Stored' \subseteq Stored /\ Held' \subseteq Stored \cup Held
<1>1. CASE Kept
  BY <1>1, KinOfKept
<1>2. CASE \E client \in Client : RegisterClient(client)
  BY <1>1, <1>2 DEF RegisterClient, tables, Stored, Held
<1>3. ASSUME NEW c \in Call, Post(c)
      PROVE  \A r \in Stored' \cup Held' : Kin(r)
  <2>1. CASE PinLoad(c)
    BY <2>1, KinOfLoaded DEF PinLoad, Stored
  <2>2. CASE Deny(c)
    BY <1>1, <2>2, FinishHeld DEF Deny, Without, Stored
  <2>3. CASE PinWrong(c)
    BY <1>1, <2>3, FinishHeld DEF PinWrong, tables, Stored
  <2>4. CASE PinRight(c)
    BY <1>1, <2>4 DEF PinRight, tables, Stored, Held, TypeOK
  <2>5. CASE IssueCode(c)
    <3>1. NewToken(t_oauth_auth_code, Held) \in Token
      BY <2>5, NewTokenFresh DEF IssueCode
    <3>2. Kin(Issue(tx[c], NewToken(t_oauth_auth_code, Held), CodeExpires))
      BY <2>5, <3>1, KinOfIssued, ExpiryAssumption DEF IssueCode
    <3>3. Held' \subseteq Held
      BY <2>5, FinishHeld DEF IssueCode
    <3> QED
      BY <2>5, <3>2, <3>3, KinOfKept DEF IssueCode, Without, Stored
  <2>6. CASE PinFails(c)
    BY <1>1, <2>6, FinishHeld DEF PinFails, tables, Stored
  <2> QED
    BY <1>3, <2>1, <2>2, <2>3, <2>4, <2>5, <2>6 DEF Post
<1>4. ASSUME NEW c \in Call, Exchange(c)
      PROVE  \A r \in Stored' \cup Held' : Kin(r)
  <2>1. CASE CodeLoad(c) \/ RefreshLoad(c)
    BY <2>1, KinOfLoaded DEF CodeLoad, RefreshLoad, Stored
  <2>2. CASE ExchangeCode(c)
    <3>1. \A r \in t_oauth_access_token' \cup t_oauth_refresh_token' : Kin(r)
      BY <2>2, KinOfPair DEF ExchangeCode
    <3>2. Held' \subseteq Held
      BY <2>2, FinishHeld DEF ExchangeCode
    <3> QED
      BY <2>2, <3>1, <3>2, KinOfKept DEF ExchangeCode, Without, Stored
  <2>3. CASE ExchangeRefresh(c)
    <3>1. Without(t_oauth_refresh_token, tx[c].token) \subseteq t_oauth_refresh_token
      BY DEF Without
    <3>2. \A r \in t_oauth_access_token' \cup t_oauth_refresh_token' : Kin(r)
      BY <2>3, <3>1, KinOfPair DEF ExchangeRefresh
    <3>3. Held' \subseteq Held
      BY <2>3, FinishHeld DEF ExchangeRefresh
    <3> QED
      BY <2>3, <3>2, <3>3, KinOfKept DEF ExchangeRefresh, Stored
  <2> QED
    BY <1>4, <2>1, <2>2, <2>3 DEF Exchange
<1>5. ASSUME NEW c \in Call, Revoke(c)
      PROVE  \A r \in Stored' \cup Held' : Kin(r)
  <2>1. CASE AccessLoad(c) \/ RefreshRevokeLoad(c)
    BY <2>1, KinOfLoaded DEF AccessLoad, RefreshRevokeLoad, Stored
  <2>2. CASE RevokeAccess(c)
    BY <1>1, <2>2, FinishHeld DEF RevokeAccess, Without, OfOthers, Stored
  <2>3. CASE RevokeRefresh(c)
    BY <1>1, <2>3, FinishHeld DEF RevokeRefresh, Without, OfOthers, Stored
  <2> QED
    BY <1>5, <2>1, <2>2, <2>3 DEF Revoke
<1>6. ASSUME NEW c \in Call, Drop(c)
      PROVE  \A r \in Stored' \cup Held' : Kin(r)
  BY <1>1, <1>6, FinishHeld DEF Drop, tables, Stored
<1>7. CASE Cleanup
  BY <1>1, <1>7 DEF Cleanup, Clean, Stored, Held
<1>8. CASE Tick
  <2>1. \A r \in Stored' : Kin(r)
    BY <1>8, KinOfAged DEF Tick, Stored
  <2> QED
    BY <1>8, <2>1, KinOfKept DEF Tick, Held
<1>9. CASE Restart
  BY <1>1, <1>9 DEF Restart, tables, Stored, Held
<1>10. CASE UNCHANGED vars
  BY <1>1, <1>10 DEF vars, tables, Stored, Held
<1> QED
  BY <1>2, <1>3, <1>4, <1>5, <1>6, <1>7, <1>8, <1>9, <1>10 DEF Next
LEMMA GrantClientStep ==
  ASSUME TypeOK, GrantClient, [Next]_vars
  PROVE  GrantClient'
<1>1. CASE \A client \in Client : ~ Authorize(client)
  <2>1. \A r \in Stored' \cup Held' : Kin(r)
    BY <1>1, Kinship
  <2> QED
    BY <2>1 DEF GrantClient, Kin
<1>2. ASSUME NEW client \in Client, Authorize(client)
      PROVE  GrantClient'
  <2>1. PICK t : /\ \A r \in Stored \cup Held : r.grant # t
                 /\ t_oauth_auth_session' = t_oauth_auth_session \cup
                      {[token |-> t, grant |-> t, client |-> client,
                        left |-> SessionExpires]}
    BY <1>2 DEF Authorize
  <2>2. /\ Stored' = Stored \cup {[token |-> t, grant |-> t, client |-> client,
                                   left |-> SessionExpires]}
        /\ Held' = Held
    BY <1>2, <2>1 DEF Authorize, Stored, Held
  <2> QED
    BY <2>1, <2>2 DEF GrantClient
<1> QED
  BY <1>1, <1>2

(***************************************************************************)
(* The refresh table and its holders.                                      *)
(***************************************************************************)
Exchanged(c) == ExchangeCode(c) \/ ExchangeRefresh(c)

(* Outside the exchanges no refresh token appears.                         *)
LEMMA RefreshKept ==
  ASSUME TypeOK, [Next]_vars, \A c \in Call : ~ Exchanged(c)
  PROVE  \A r \in t_oauth_refresh_token' : \E q \in t_oauth_refresh_token :
            q.token = r.token /\ q.grant = r.grant
<1>1. CASE t_oauth_refresh_token' \subseteq t_oauth_refresh_token
  BY <1>1
<1>2. CASE Tick
  <2>1. t_oauth_refresh_token' = Age(t_oauth_refresh_token)
    BY <1>2 DEF Tick
  <2>2. ASSUME NEW q \in t_oauth_refresh_token
        PROVE  LET r == [q EXCEPT !.left = IF @ > Gone THEN @ - 1 ELSE Gone]
               IN  q.token = r.token /\ q.grant = r.grant
    BY DEF TypeOK, Row
  <2> SUFFICES ASSUME NEW r \in t_oauth_refresh_token'
               PROVE  \E q \in t_oauth_refresh_token :
                         q.token = r.token /\ q.grant = r.grant
    OBVIOUS
  <2>3. PICK q \in t_oauth_refresh_token :
               r = [q EXCEPT !.left = IF @ > Gone THEN @ - 1 ELSE Gone]
    BY <2>1 DEF Age
  <2> QED
    BY <2>2, <2>3
<1>3. ASSUME NEW c \in Call, Post(c) \/ Exchange(c) \/ Revoke(c) \/ Drop(c)
      PROVE  t_oauth_refresh_token' \subseteq t_oauth_refresh_token
  BY <1>3
  DEF Post, Exchange, Exchanged, Revoke, Drop, PinLoad, Deny, PinWrong,
      PinFails, PinRight, IssueCode, CodeLoad, RefreshLoad, AccessLoad, RefreshRevokeLoad,
      Load, RevokeAccess, RevokeRefresh, Without, OfOthers, tables
<1>4. CASE \/ \E client \in Client : RegisterClient(client) \/ Authorize(client)
           \/ Cleanup \/ Restart \/ UNCHANGED vars
  BY <1>1, <1>4 DEF RegisterClient, Authorize, Cleanup, Clean, Restart, vars, tables
<1> QED
  BY <1>1, <1>2, <1>3, <1>4 DEF Next

(* Who holds a refresh token held it before, or has just loaded it.        *)
Loaded(c) == /\ UNCHANGED tables
             /\ \E q \in t_oauth_refresh_token :
                   q.token = tx'[c].token /\ q.grant = tx'[c].grant

LEMMA RefreshHolders ==
  ASSUME TypeOK, [Next]_vars, NEW c \in Call,
         pc'[c] \in {"refresh", "revokeRefresh"}
  PROVE  \/ pc[c] = pc'[c] /\ tx'[c] = tx[c]
         \/ Loaded(c)
<1>1. CASE UNCHANGED <<pc, tx>>
  BY <1>1
<1>2. ASSUME NEW d \in Call, Finish(d)
      PROVE  pc[c] = pc'[c] /\ tx'[c] = tx[c]
  BY <1>2 DEF Finish, TypeOK
<1>3. ASSUME NEW d \in Call, PinRight(d)
      PROVE  pc[c] = pc'[c] /\ tx'[c] = tx[c]
  BY <1>3 DEF PinRight, TypeOK
<1>4. ASSUME NEW d \in Call,
             PinLoad(d) \/ CodeLoad(d) \/ RefreshLoad(d) \/ AccessLoad(d)
               \/ RefreshRevokeLoad(d)
      PROVE  \/ pc[c] = pc'[c] /\ tx'[c] = tx[c]
             \/ Loaded(c)
  <2>1. \A r \in Row : Known(r).token = r.token /\ Known(r).grant = r.grant
    BY DEF Known, Row
  <2> QED
    BY <1>4, <2>1 DEF PinLoad, CodeLoad, RefreshLoad, AccessLoad,
                      RefreshRevokeLoad, Load, Live, TypeOK, Loaded
<1>5. CASE Restart
  BY <1>5 DEF Restart
<1>6. \/ UNCHANGED <<pc, tx>> \/ Restart
      \/ \E d \in Call : \/ Finish(d) \/ PinRight(d) \/ PinLoad(d) \/ CodeLoad(d)
                         \/ RefreshLoad(d) \/ AccessLoad(d) \/ RefreshRevokeLoad(d)
  BY DEF Next, vars, RegisterClient, Authorize, Post, Deny, PinWrong, PinFails,
         IssueCode,
         Exchange, ExchangeCode, ExchangeRefresh, Revoke, RevokeAccess,
         RevokeRefresh, Drop, Cleanup, Tick
<1> QED
  BY <1>1, <1>2, <1>3, <1>4, <1>5, <1>6

LEMMA TokenStep ==
  ASSUME IInv, [Next]_vars
  PROVE  OneRowPerToken' /\ HeldMatch'
<1> USE DEF IInv
<1>1. CASE \A c \in Call : ~ Exchanged(c)
  <2>1. OneRowPerToken'
    BY <1>1, RefreshKept DEF OneRowPerToken
  <2>2. ASSUME NEW c \in Call, pc'[c] \in {"refresh", "revokeRefresh"},
               NEW r \in t_oauth_refresh_token', r.token = tx'[c].token
        PROVE  r.grant = tx'[c].grant
    <3>1. PICK q \in t_oauth_refresh_token : q.token = r.token /\ q.grant = r.grant
      BY <1>1, RefreshKept
    <3>2. CASE pc[c] = pc'[c] /\ tx'[c] = tx[c]
      BY <2>2, <3>1, <3>2 DEF HeldMatch
    <3>3. CASE Loaded(c)
      BY <2>2, <3>1, <3>3 DEF OneRowPerToken, Loaded
    <3> QED
      BY <2>2, <3>2, <3>3, RefreshHolders
  <2> QED
    BY <2>1, <2>2 DEF HeldMatch
<1>2. ASSUME NEW c \in Call, Exchanged(c)
      PROVE  OneRowPerToken' /\ HeldMatch'
  <2>1. PICK table \in SUBSET t_oauth_refresh_token : NewPair(c, table)
    BY <1>2 DEF Exchanged, ExchangeCode, ExchangeRefresh, Without
  <2>2. tx[c] \in Row
    BY <1>2 DEF Exchanged, ExchangeCode, ExchangeRefresh, TypeOK
  <2>3. /\ t_oauth_refresh_token' = table \cup {NewRefresh(c, table)}
        /\ \A r \in table \cup HeldByOthers(c) :
              r.token # NewRefresh(c, table).token
    BY <2>1, <2>2, PairRows
  <2>4. Finish(c)
    BY <1>2 DEF Exchanged, ExchangeCode, ExchangeRefresh
  <2>5. \A d \in Call : pc'[d] \in {"refresh", "revokeRefresh"} =>
           pc[d] = pc'[d] /\ tx'[d] = tx[d] /\ tx[d] \in HeldByOthers(c)
    BY <2>4 DEF Finish, TypeOK, HeldByOthers
  <2> QED
    BY <2>3, <2>5 DEF OneRowPerToken, HeldMatch
<1> QED
  BY <1>1, <1>2

LEMMA AccessStep ==
  ASSUME IInv, [Next]_vars
  PROVE  AccessBound'
<1> USE DEF IInv
<1>1. CASE t_oauth_access_token' \subseteq t_oauth_access_token
  BY <1>1 DEF AccessBound
<1>2. ASSUME NEW c \in Call, Exchanged(c)
      PROVE  AccessBound'
  <2>1. PICK table : NewPair(c, table)
    BY <1>2 DEF Exchanged, ExchangeCode, ExchangeRefresh
  <2>2. tx[c] \in Row
    BY <1>2 DEF Exchanged, ExchangeCode, ExchangeRefresh, TypeOK
  <2>3. /\ t_oauth_access_token' = t_oauth_access_token \cup {NewAccess(c)}
        /\ NewAccess(c).left = AccessExpires /\ AccessExpires \in Nat
    BY <2>1, <2>2, PairRows, ExpiryAssumption
  <2> QED
    BY <2>3 DEF AccessBound
<1>3. CASE Tick
  <2> SUFFICES ASSUME NEW q \in t_oauth_access_token
               PROVE  LET r == [q EXCEPT !.left = IF @ > Gone THEN @ - 1 ELSE Gone]
                      IN  r.left <= AccessExpires
    BY <1>3 DEF Tick, Age, AccessBound
  <2>1. q \in Row /\ q.left <= AccessExpires /\ AccessExpires \in Nat
    BY ExpiryAssumption DEF TypeOK, AccessBound
  <2> QED
    BY <2>1 DEF Row, Gone
<1>4. ASSUME NEW c \in Call, Post(c) \/ Exchange(c) \/ Revoke(c) \/ Drop(c),
             ~ Exchanged(c)
      PROVE  t_oauth_access_token' \subseteq t_oauth_access_token
  BY <1>4
  DEF Post, Exchange, Exchanged, Revoke, Drop, PinLoad, Deny, PinWrong,
      PinFails, PinRight, IssueCode, CodeLoad, RefreshLoad, AccessLoad, RefreshRevokeLoad,
      Load, RevokeAccess, RevokeRefresh, Without, OfOthers, tables
<1>5. CASE \/ \E client \in Client : RegisterClient(client) \/ Authorize(client)
           \/ Cleanup \/ Restart \/ UNCHANGED vars
  BY <1>1, <1>5 DEF RegisterClient, Authorize, Cleanup, Clean, Restart, vars, tables
<1> QED
  BY <1>1, <1>2, <1>3, <1>4, <1>5 DEF Next

LEMMA Invariant == Spec => []IInv
<1>1. Init => IInv
  BY InitType DEF Init, IInv, OneRowPerToken, HeldMatch, AccessBound,
                  GrantClient, Stored, Held
<1>2. IInv /\ [Next]_vars => IInv'
  BY TypeStep, TokenStep, AccessStep, GrantClientStep DEF IInv
<1> QED
  BY <1>1, <1>2, PTL DEF Spec
(***************************************************************************)
(* Renewal outlives access, one action at a time.                          *)
(***************************************************************************)
RenewalStep ==
    \A a \in t_oauth_access_token' :
       (a.left > 0 /\ ~ Renewable(a)')
          => \E b \in t_oauth_access_token :
                b.token = a.token /\ (~ Renewable(b) \/ Revoking(b.client))

LEMMA RenewalUntouched ==
  ASSUME UNCHANGED <<t_oauth_access_token, t_oauth_refresh_token>>
  PROVE  RenewalStep
BY DEF RenewalStep, Renewable

LEMMA RenewalExchange ==
  ASSUME IInv, NEW c \in Call, Exchanged(c)
  PROVE  RenewalStep
<1> USE DEF IInv
<1>1. PICK table \in SUBSET t_oauth_refresh_token :
         /\ NewPair(c, table)
         /\ \A r \in t_oauth_refresh_token \ table : r.grant = tx[c].grant
  <2>1. CASE ExchangeCode(c)
    BY <2>1 DEF ExchangeCode
  <2>2. CASE ExchangeRefresh(c)
    <3> DEFINE table == Without(t_oauth_refresh_token, tx[c].token)
    <3>1. table \subseteq t_oauth_refresh_token
          /\ \A r \in t_oauth_refresh_token \ table : r.token = tx[c].token
      BY DEF Without
    <3> QED
      BY <2>2, <3>1 DEF ExchangeRefresh, HeldMatch
  <2> QED
    BY <2>1, <2>2 DEF Exchanged
<1> DEFINE access == NewAccess(c)
           refresh == NewRefresh(c, table)
<1>2. tx[c] \in Row
  BY DEF Exchanged, ExchangeCode, ExchangeRefresh, TypeOK
<1>3. /\ t_oauth_access_token' = t_oauth_access_token \cup {access}
      /\ t_oauth_refresh_token' = table \cup {refresh}
      /\ access.grant = tx[c].grant /\ access.left = AccessExpires
      /\ refresh.grant = tx[c].grant /\ refresh.left = RefreshExpires
  BY <1>1, <1>2, PairRows
<1>4. /\ AccessExpires \in Int /\ RefreshExpires \in Int
      /\ AccessExpires <= RefreshExpires
  BY ExpiryAssumption
<1> HIDE DEF access, refresh
<1>5. \A a \in t_oauth_access_token' : a.grant = tx[c].grant => Renewable(a)'
  <2> SUFFICES ASSUME NEW a \in t_oauth_access_token', a.grant = tx[c].grant
               PROVE  refresh.left >= a.left
    BY <1>3 DEF Renewable
  <2>1. a.left \in Int /\ a.left <= AccessExpires
    BY <1>3, <1>4 DEF TypeOK, Row, AccessBound
  <2> QED
    BY <1>3, <1>4, <2>1
<1>6. ASSUME NEW a \in t_oauth_access_token, a.grant # tx[c].grant, Renewable(a)
      PROVE  Renewable(a)'
  BY <1>1, <1>3, <1>6 DEF Renewable
<1> QED
  BY <1>3, <1>5, <1>6 DEF RenewalStep

LEMMA RenewalRevokeAccess ==
  ASSUME IInv, NEW c \in Call, RevokeAccess(c)
  PROVE  RenewalStep
<1> SUFFICES ASSUME NEW a \in t_oauth_access_token', ~ Renewable(a)',
                    Renewable(a)
             PROVE  a \in t_oauth_access_token /\ Revoking(a.client)
  BY DEF RenewalStep, RevokeAccess, Without
<1>1. a \in t_oauth_access_token
  BY DEF RevokeAccess, Without
<1>2. PICK r \in t_oauth_refresh_token : r.grant = a.grant /\ r.left >= a.left
  BY DEF Renewable
<1>3. r.client = tx[c].client
  BY <1>2 DEF RevokeAccess, OfOthers, Renewable
<1>4. a.client = tx[c].client
  BY <1>1, <1>2, <1>3 DEF IInv, GrantClient, Stored
<1>5. pc[c] = "revokeAccess" /\ pc'[c] = "idle"
  BY DEF RevokeAccess, Finish, IInv, TypeOK
<1> QED
  BY <1>1, <1>4, <1>5 DEF Revoking

LEMMA RenewalRevokeRefresh ==
  ASSUME IInv, NEW c \in Call, RevokeRefresh(c)
  PROVE  RenewalStep
<1> SUFFICES ASSUME NEW a \in t_oauth_access_token, a \in t_oauth_access_token',
                    Renewable(a)
             PROVE  Renewable(a)'
  BY DEF RenewalStep, RevokeRefresh, OfOthers
<1>1. PICK r \in t_oauth_refresh_token : r.grant = a.grant /\ r.left >= a.left
  BY DEF Renewable
<1>2. a.client # tx[c].client
  BY DEF RevokeRefresh, OfOthers
<1>3. tx[c] \in Held
  BY DEF RevokeRefresh, Held
<1>4. r.grant # tx[c].grant
  BY <1>1, <1>2, <1>3 DEF IInv, GrantClient, Stored
<1>5. r.token # tx[c].token
  BY <1>4 DEF IInv, HeldMatch, RevokeRefresh
<1> QED
  BY <1>1, <1>5 DEF RevokeRefresh, Without, Renewable

LEMMA RenewalCleanup ==
  ASSUME IInv, Cleanup
  PROVE  RenewalStep
<1> SUFFICES ASSUME NEW a \in t_oauth_access_token, a.left > 0, Renewable(a)
             PROVE  Renewable(a)'
  BY DEF RenewalStep, Cleanup, Clean
<1>1. PICK r \in t_oauth_refresh_token : r.grant = a.grant /\ r.left >= a.left
  BY DEF Renewable
<1>2. r.left \in Int /\ a.left \in Int
  BY DEF IInv, TypeOK, Row
<1> QED
  BY <1>1, <1>2 DEF Cleanup, Clean, Renewable

LEMMA RenewalTick ==
  ASSUME IInv, Tick
  PROVE  RenewalStep
<1> DEFINE Older(r) == [r EXCEPT !.left = IF @ > Gone THEN @ - 1 ELSE Gone]
<1>1. \A r \in Row : /\ Older(r).token = r.token
                     /\ Older(r).grant = r.grant
                     /\ Older(r).left = IF r.left > Gone THEN r.left - 1 ELSE Gone
  BY DEF Row
<1>2. /\ t_oauth_access_token' = {Older(r) : r \in t_oauth_access_token}
      /\ t_oauth_refresh_token' = {Older(r) : r \in t_oauth_refresh_token}
  BY DEF Tick, Age
<1> HIDE DEF Older
<1> SUFFICES ASSUME NEW b \in t_oauth_access_token, Older(b).left > 0, Renewable(b)
             PROVE  Renewable(Older(b))' /\ b.token = Older(b).token
  BY <1>1, <1>2 DEF RenewalStep, Renewable, IInv, TypeOK
<1>3. PICK r \in t_oauth_refresh_token : r.grant = b.grant /\ r.left >= b.left
  BY DEF Renewable
<1>4. /\ b \in Row /\ r \in Row
      /\ r.left \in Int /\ b.left \in Int
  BY DEF IInv, TypeOK, Row
<1>5. Older(r).left >= Older(b).left /\ Older(r).grant = Older(b).grant
  BY <1>1, <1>3, <1>4 DEF Gone
<1> QED
  BY <1>1, <1>2, <1>4, <1>5 DEF Renewable

LEMMA RenewalAny ==
  ASSUME IInv, [Next]_vars
  PROVE  RenewalStep
<1>1. CASE UNCHANGED <<t_oauth_access_token, t_oauth_refresh_token>>
  BY <1>1, RenewalUntouched
<1>2. CASE \E c \in Call : Exchanged(c)
  BY <1>2, RenewalExchange
<1>3. CASE \E c \in Call : RevokeAccess(c) \/ RevokeRefresh(c)
  BY <1>3, RenewalRevokeAccess, RenewalRevokeRefresh
<1>4. CASE Cleanup \/ Tick
  BY <1>4, RenewalCleanup, RenewalTick
<1>5. CASE \E c \in Call : \/ Post(c) \/ CodeLoad(c) \/ RefreshLoad(c)
                           \/ AccessLoad(c) \/ RefreshRevokeLoad(c) \/ Drop(c)
  BY <1>1, <1>5 DEF Post, PinLoad, Deny, PinWrong, PinFails, PinRight, IssueCode, CodeLoad,
                    RefreshLoad, AccessLoad, RefreshRevokeLoad, Load, Drop, tables
<1>6. CASE \/ \E client \in Client : RegisterClient(client) \/ Authorize(client)
           \/ Restart \/ UNCHANGED vars
  BY <1>1, <1>6 DEF RegisterClient, Authorize, Restart, vars, tables
<1> QED
  BY <1>2, <1>3, <1>4, <1>5, <1>6 DEF Next, Exchange, Revoke, Exchanged

(* A live access token always has, in its grant, a refresh token that      *)
(* lives at least as long, until an access token of the client is revoked. *)
THEOREM RenewalLasts == Spec => RenewalOutlivesAccess
<1>1. IInv /\ [Next]_vars =>
        [\A a \in t_oauth_access_token' :
           (a.left > 0 /\ ~ Renewable(a)')
              => \E b \in t_oauth_access_token :
                    /\ b.token = a.token
                    /\ ~ Renewable(b) \/ Revoking(b.client)]_vars
  BY RenewalAny DEF RenewalStep
<1> QED
  BY Invariant, <1>1, PTL DEF Spec, RenewalOutlivesAccess

(***************************************************************************)
(* What a consent is worth.  Counting rows is not inductive: a request     *)
(* goes on with a row that is deleted, and two may go on with one row.     *)
(* What is at stake is the rows no request is about to consume and the     *)
(* requests that are; each step but an overlapping load leaves as many.    *)
(***************************************************************************)
Tag(p) == <<p[1], p[2].token>>
Mark(c) == <<Source(pc[c]), tx[c].token>>

Takers(g) == {c \in Call : pc[c] \in Taken /\ tx[c].grant = g}
Tags(g) == {Tag(p) : p \in Worth(g)}
Free(g) == {k \in Tags(g) : \A c \in Call : pc[c] \in Taken => Mark(c) # k}
Stake(g) == Free(g) \cup {<<"request", c>> : c \in Takers(g)}

(* A value names one row of a table. *)
RowsOnce == \A p, q \in Chain : Tag(p) = Tag(q) => p = q

(* A request knows the grant of the row it is about to consume. *)
TakersMatch ==
    \A c \in Call, p \in Chain :
        (pc[c] \in Taken /\ Mark(c) = Tag(p)) => p[2].grant = tx[c].grant

StakesFew ==
    \A g \in Token : /\ IsFiniteSet(Stake(g))
                     /\ Cardinality(Stake(g)) <= 1 + overlaps[g]

GrantInv == RowsOnce /\ TakersMatch /\ StakesFew

LEMMA ChainRows ==
  \A k, r : <<k, r>> \in Chain <=> \/ k = "session" /\ r \in t_oauth_auth_session
                                   \/ k = "code" /\ r \in t_oauth_auth_code
                                   \/ k = "refresh" /\ r \in t_oauth_refresh_token
BY DEF Chain

LEMMA ChainType ==
  ASSUME TypeOK
  PROVE  \A p \in Chain : /\ p[1] \in {"session", "code", "refresh"}
                          /\ p[2] \in Row /\ p = <<p[1], p[2]>>
BY DEF Chain, TypeOK

(* One for one, and one more. *)
LEMMA SwapOne ==
  ASSUME NEW S, IsFiniteSet(S), NEW x \in S, NEW y, NEW T,
         T \subseteq (S \ {x}) \cup {y}
  PROVE  IsFiniteSet(T) /\ Cardinality(T) <= Cardinality(S)
<1>1. IsFiniteSet(S \ {x}) /\ Cardinality(S \ {x}) = Cardinality(S) - 1
  BY FS_RemoveElement
<1>2. Cardinality(S) \in Nat
  BY FS_CardinalityType
<1>3. /\ IsFiniteSet((S \ {x}) \cup {y})
      /\ Cardinality((S \ {x}) \cup {y}) <= Cardinality(S)
  <2>1. CASE y \in S \ {x}
    <3>1. (S \ {x}) \cup {y} = S \ {x}
      BY <2>1
    <3> QED
      BY <1>1, <1>2, <3>1
  <2>2. CASE y \notin S \ {x}
    <3>1. /\ IsFiniteSet((S \ {x}) \cup {y})
          /\ Cardinality((S \ {x}) \cup {y}) = Cardinality(S \ {x}) + 1
      BY <1>1, <2>2, FS_AddElement, Zenon
    <3> QED
      BY <1>1, <1>2, <3>1
  <2> QED
    BY <2>1, <2>2
<1>4. /\ IsFiniteSet(T) /\ Cardinality(T) <= Cardinality((S \ {x}) \cup {y})
      /\ Cardinality(T) \in Nat /\ Cardinality((S \ {x}) \cup {y}) \in Nat
  BY <1>3, FS_Subset, FS_CardinalityType
<1> QED
  BY <1>2, <1>3, <1>4

LEMMA OneMore ==
  ASSUME NEW S, IsFiniteSet(S), NEW y, NEW T, T \subseteq S \cup {y}
  PROVE  IsFiniteSet(T) /\ Cardinality(T) <= Cardinality(S) + 1
<1>1. Cardinality(S) \in Nat
  BY FS_CardinalityType
<1>2. /\ IsFiniteSet(S \cup {y})
      /\ Cardinality(S \cup {y}) <= Cardinality(S) + 1
  <2>1. CASE y \in S
    <3>1. S \cup {y} = S
      BY <2>1
    <3>2. Cardinality(S \cup {y}) = Cardinality(S) /\ IsFiniteSet(S \cup {y})
      BY <3>1, Zenon
    <3> QED
      BY <1>1, <3>2
  <2>2. CASE y \notin S
    <3>1. /\ IsFiniteSet(S \cup {y})
          /\ Cardinality(S \cup {y}) = Cardinality(S) + 1
      BY <2>2, FS_AddElement, Zenon
    <3> QED
      BY <1>1, <3>1
  <2> QED
    BY <2>1, <2>2
<1>3. /\ IsFiniteSet(T) /\ Cardinality(T) <= Cardinality(S \cup {y})
      /\ Cardinality(T) \in Nat /\ Cardinality(S \cup {y}) \in Nat
  BY <1>2, FS_Subset, FS_CardinalityType
<1> QED
  BY <1>1, <1>2, <1>3

(* Each row of a grant is at stake, itself or with a request that holds it. *)
LEMMA TagsFew ==
  ASSUME TypeOK, TakersMatch, NEW g, IsFiniteSet(Stake(g))
  PROVE  IsFiniteSet(Tags(g)) /\ Cardinality(Tags(g)) <= Cardinality(Stake(g))
<1> DEFINE holder(k) == CHOOSE c \in Call : pc[c] \in Taken /\ Mark(c) = k
           at == [k \in Tags(g) |-> IF k \in Free(g) THEN k
                                                     ELSE <<"request", holder(k)>>]
<1>1. ASSUME NEW k \in Tags(g), k \notin Free(g)
      PROVE  /\ holder(k) \in Takers(g)
             /\ Mark(holder(k)) = k
  <2>1. \E c \in Call : pc[c] \in Taken /\ Mark(c) = k
    BY <1>1 DEF Free
  <2>2. holder(k) \in Call /\ pc[holder(k)] \in Taken /\ Mark(holder(k)) = k
    BY <2>1
  <2>3. PICK p \in Chain : p[2].grant = g /\ Tag(p) = k
    BY DEF Tags, Worth
  <2> QED
    BY <2>2, <2>3 DEF TakersMatch, Takers
<1>2. \A k \in Free(g) : k[1] # "request" /\ k \in Tags(g)
  BY ChainType DEF Free, Tags, Worth, Tag
<1> HIDE DEF holder
<1>3. at \in [Tags(g) -> Stake(g)]
  BY <1>1 DEF Stake
<1>4. ASSUME NEW k \in Tags(g), NEW l \in Tags(g), at[k] = at[l]
      PROVE  k = l
  <2>1. CASE k \in Free(g) /\ l \in Free(g)
    BY <1>4, <2>1
  <2>2. CASE k \in Free(g) /\ l \notin Free(g)
    BY <1>2, <1>4, <2>2
  <2>3. CASE k \notin Free(g) /\ l \in Free(g)
    BY <1>2, <1>4, <2>3
  <2>4. CASE k \notin Free(g) /\ l \notin Free(g)
    <3>1. holder(k) = holder(l)
      BY <1>4, <2>4
    <3> QED
      BY <1>1, <2>4, <3>1
  <2> QED
    BY <2>1, <2>2, <2>3, <2>4
<1>5. at \in Injection(Tags(g), Stake(g))
  BY <1>3, <1>4 DEF Injection, IsInjective
<1> HIDE DEF at
<1> QED
  BY <1>5, FS_Injection

LEMMA WorthFew ==
  ASSUME TypeOK, GrantInv, NEW g \in Token
  PROVE  Cardinality(Worth(g)) <= 1 + overlaps[g]
<1> DEFINE at == [p \in Worth(g) |-> Tag(p)]
<1>1. /\ IsFiniteSet(Tags(g)) /\ Cardinality(Tags(g)) <= Cardinality(Stake(g))
      /\ IsFiniteSet(Stake(g)) /\ Cardinality(Stake(g)) <= 1 + overlaps[g]
  BY TagsFew DEF GrantInv, StakesFew
<1>2. at \in [Worth(g) -> Tags(g)]
  BY DEF Tags
<1>3. \A p, q \in Worth(g) : at[p] = at[q] => p = q
  BY DEF GrantInv, RowsOnce, Worth
<1>4. at \in Injection(Worth(g), Tags(g))
  BY <1>2, <1>3 DEF Injection, IsInjective
<1> HIDE DEF at
<1>5. IsFiniteSet(Worth(g)) /\ Cardinality(Worth(g)) <= Cardinality(Tags(g))
  BY <1>1, <1>4, FS_Injection
<1>6. /\ Cardinality(Worth(g)) \in Nat /\ Cardinality(Tags(g)) \in Nat
      /\ Cardinality(Stake(g)) \in Nat /\ overlaps[g] \in Nat
  BY <1>1, <1>5, FS_CardinalityType DEF TypeOK
<1> QED
  BY <1>1, <1>5, <1>6

(* Who goes on and who does not when a request ends. *)
LEMMA FinishTakers ==
  ASSUME TypeOK, NEW c \in Call, Finish(c)
  PROVE  \A d \in Call :
            /\ pc'[d] \in Taken <=> (d # c /\ pc[d] \in Taken)
            /\ pc'[d] \in Taken => Mark(d)' = Mark(d) /\ tx'[d] = tx[d]
BY DEF Finish, TypeOK, Taken, Source, Mark

(* Nothing new is at stake when no row is new and the same requests are    *)
(* about to consume the same rows.                                         *)
LEMMA GrantQuiet ==
  ASSUME TypeOK, GrantInv, RowsOnce', overlaps' = overlaps,
         \A p \in Chain' : \E q \in Chain :
            Tag(p) = Tag(q) /\ p[2].grant = q[2].grant,
         \A c \in Call :
            /\ pc'[c] \in Taken <=> pc[c] \in Taken
            /\ pc'[c] \in Taken => Mark(c)' = Mark(c) /\ tx'[c].grant = tx[c].grant
  PROVE  GrantInv'
<1>1. TakersMatch'
  BY DEF GrantInv, TakersMatch
<1>2. ASSUME NEW g \in Token
      PROVE  Stake(g)' \in SUBSET Stake(g)
  <2>1. Tags(g)' \subseteq Tags(g)
    BY DEF Tags, Worth
  <2>2. Free(g)' \subseteq Free(g)
    BY <2>1 DEF Free
  <2>3. Takers(g)' = Takers(g)
    BY DEF Takers
  <2> QED
    BY <2>2, <2>3 DEF Stake
<1>3. ASSUME NEW g \in Token
      PROVE  IsFiniteSet(Stake(g)') /\ Cardinality(Stake(g)') <= 1 + overlaps'[g]
  <2>1. /\ IsFiniteSet(Stake(g)) /\ Cardinality(Stake(g)) <= 1 + overlaps[g]
        /\ overlaps[g] \in Nat
    BY DEF GrantInv, StakesFew, TypeOK
  <2>2. /\ IsFiniteSet(Stake(g)') /\ Cardinality(Stake(g)') <= Cardinality(Stake(g))
        /\ Cardinality(Stake(g)) \in Nat /\ Cardinality(Stake(g)') \in Nat
    BY <1>2, <2>1, FS_Subset, FS_CardinalityType
  <2> QED
    BY <2>1, <2>2
<1>4. StakesFew'
  BY <1>3 DEF StakesFew
<1> QED
  BY <1>1, <1>4 DEF GrantInv

(* A request that ends puts at stake the row it held, or the one that it   *)
(* stored in its place, and is no longer at stake itself.                  *)
LEMMA GrantEnds ==
  ASSUME TypeOK, GrantInv, RowsOnce', TakersMatch', overlaps' = overlaps,
         NEW c \in Call, pc[c] \in Taken, Finish(c), NEW tag,
         \A p \in Chain' :
            \/ Tag(p) = tag /\ p[2].grant = tx[c].grant
            \/ p \in Chain /\ Tag(p) # Mark(c)
  PROVE  GrantInv'
<1> DEFINE me == <<"request", c>>
<1>1. ASSUME NEW g \in Token
      PROVE  IsFiniteSet(Stake(g)') /\ Cardinality(Stake(g)') <= 1 + overlaps'[g]
  <2>1. /\ IsFiniteSet(Stake(g)) /\ Cardinality(Stake(g)) <= 1 + overlaps[g]
        /\ overlaps[g] \in Nat /\ Cardinality(Stake(g)) \in Nat
    BY FS_CardinalityType DEF GrantInv, StakesFew, TypeOK
  <2>2. Takers(g)' = Takers(g) \ {c}
    BY FinishTakers DEF Takers
  <2>3. ASSUME NEW k \in Free(g)', k # tag \/ g # tx[c].grant
        PROVE  k \in Free(g)
    <3>1. PICK p \in Chain' : p[2].grant = g /\ Tag(p) = k
      BY DEF Free, Tags, Worth
    <3>2. p \in Chain /\ k # Mark(c)
      BY <2>3, <3>1
    <3>3. k \in Tags(g)
      BY <3>1, <3>2 DEF Tags, Worth
    <3>4. \A d \in Call : pc[d] \in Taken => Mark(d) # k
      BY <3>2, FinishTakers DEF Free
    <3> QED
      BY <3>3, <3>4 DEF Free
  <2>4. CASE g = tx[c].grant
    <3>1. me \in Stake(g)
      BY <2>4 DEF Stake, Takers
    <3>2. me \notin Free(g)
      BY ChainType DEF Free, Tags, Worth, Tag
    <3>3. Stake(g)' \subseteq (Stake(g) \ {me}) \cup {tag}
      BY <2>2, <2>3, <3>2 DEF Stake
    <3>4. /\ IsFiniteSet(Stake(g)')
          /\ Cardinality(Stake(g)') <= Cardinality(Stake(g))
      BY <2>1, <3>1, <3>3, SwapOne
    <3> QED
      BY <2>1, <3>4, FS_CardinalityType
  <2>5. CASE g # tx[c].grant
    <3>1. Stake(g)' \in SUBSET Stake(g)
      BY <2>2, <2>3, <2>5 DEF Stake
    <3>2. /\ IsFiniteSet(Stake(g)')
          /\ Cardinality(Stake(g)') <= Cardinality(Stake(g))
      BY <2>1, <3>1, FS_Subset
    <3> QED
      BY <2>1, <3>2, FS_CardinalityType
  <2> QED
    BY <2>4, <2>5
<1>2. StakesFew'
  BY <1>1 DEF StakesFew
<1> QED
  BY <1>2 DEF GrantInv

(* A request that ends without storing a row. *)
LEMMA GrantLeaves ==
  ASSUME TypeOK, GrantInv, NEW c \in Call, pc[c] \in Taken, Finish(c),
         Chain' \subseteq Chain, overlaps' = overlaps
  PROVE  GrantInv'
<1>1. RowsOnce'
  BY DEF GrantInv, RowsOnce
<1>2. TakersMatch'
  BY FinishTakers DEF GrantInv, TakersMatch
<1>3. \A p \in Chain' : \/ Tag(p) = Mark(c) /\ p[2].grant = tx[c].grant
                        \/ p \in Chain /\ Tag(p) # Mark(c)
  BY DEF GrantInv, TakersMatch
<1> QED
  BY <1>1, <1>2, <1>3, GrantEnds

(* A request consumes its row and puts one row of the grant in its place.  *)
LEMMA GrantConsumes ==
  ASSUME TypeOK, GrantInv, NEW c \in Call, pc[c] \in Taken, Finish(c),
         overlaps' = overlaps,
         NEW kind, NEW row, row.grant = tx[c].grant,
         \A p \in Chain' : \/ p = <<kind, row>>
                           \/ /\ p \in Chain /\ Tag(p) # Mark(c)
                              /\ Tag(p) # <<kind, row.token>>,
         \A d \in Call : (d # c /\ pc[d] \in Taken) => tx[d].token # row.token
  PROVE  GrantInv'
<1> DEFINE new == <<kind, row>>
<1>1. Tag(new) = <<kind, row.token>> /\ new[2].grant = tx[c].grant
  BY DEF Tag
<1>2. \A p \in Chain' : p = new \/ (p \in Chain /\ Tag(p) # Mark(c)
                                    /\ Tag(p) # Tag(new))
  BY <1>1
<1>3. \A d \in Call : (d # c /\ pc[d] \in Taken) => Mark(d) # Tag(new)
  BY <1>1 DEF Mark
<1> HIDE DEF new
<1>4. RowsOnce'
  BY <1>2 DEF GrantInv, RowsOnce
<1>5. TakersMatch'
  BY <1>2, <1>3, FinishTakers DEF GrantInv, TakersMatch
<1>6. \A p \in Chain' : \/ Tag(p) = Tag(new) /\ p[2].grant = tx[c].grant
                        \/ p \in Chain /\ Tag(p) # Mark(c)
  BY <1>1, <1>2
<1> QED
  BY <1>4, <1>5, <1>6, GrantEnds

(* A request loads a row to consume it. *)
LEMMA GrantLoads ==
  ASSUME TypeOK, GrantInv, NEW c \in Call, NEW next \in {"pin", "code", "refresh"},
         NEW table, Load(c, table, next),
         \A r \in table : <<Source(next), r>> \in Chain
  PROVE  GrantInv'
<1>1. PICK r \in table :
         /\ tx' = [tx EXCEPT ![c] = Known(r)]
         /\ IF Shared(r, next)
              THEN overlaps' = [overlaps EXCEPT ![r.grant] = @ + 1]
              ELSE overlaps' = overlaps
  BY DEF Load, Live
<1> DEFINE row == <<Source(next), r>>
           g0 == r.grant
           me == <<"request", c>>
<1>2. /\ row \in Chain /\ r \in Row /\ Tag(row) = <<Source(next), r.token>>
      /\ row[2].grant = g0 /\ g0 \in Token
  BY ChainType DEF Tag, Row
<1>3. /\ pc[c] \notin Taken /\ pc'[c] \in Taken
      /\ Mark(c)' = Tag(row) /\ tx'[c].grant = g0
  BY <1>1, <1>2 DEF Load, TypeOK, Mark, Taken, Known, Row
<1>4. \A d \in Call \ {c} : /\ pc'[d] = pc[d] /\ tx'[d] = tx[d]
                            /\ Mark(d)' = Mark(d)
  BY <1>1 DEF Load, TypeOK, Mark
<1>5. Chain' = Chain
  BY DEF Load, tables, Chain
<1> HIDE DEF row
<1>6. RowsOnce'
  BY <1>5 DEF GrantInv, RowsOnce
<1>7. TakersMatch'
  <2>1. ASSUME NEW p \in Chain, Tag(p) = Mark(c)'
        PROVE  p[2].grant = tx'[c].grant
    BY <1>2, <1>3, <2>1 DEF GrantInv, RowsOnce
  <2> QED
    BY <1>4, <1>5, <2>1 DEF GrantInv, TakersMatch
<1>8. ASSUME NEW g \in Token
      PROVE  IsFiniteSet(Stake(g)') /\ Cardinality(Stake(g)') <= 1 + overlaps'[g]
  <2>1. /\ IsFiniteSet(Stake(g)) /\ Cardinality(Stake(g)) <= 1 + overlaps[g]
        /\ overlaps[g] \in Nat /\ Cardinality(Stake(g)) \in Nat
    BY FS_CardinalityType DEF GrantInv, StakesFew, TypeOK
  <2>2. Tags(g)' = Tags(g)
    BY <1>5 DEF Tags, Worth
  <2>3. Free(g)' \subseteq Free(g) /\ Tag(row) \notin Free(g)'
    BY <1>3, <1>4, <2>2 DEF Free
  <2>4. Takers(g)' = IF g = g0 THEN Takers(g) \cup {c} ELSE Takers(g)
    BY <1>3, <1>4 DEF Takers
  <2>5. CASE g # g0
    <3>1. Stake(g)' \in SUBSET Stake(g)
      BY <2>3, <2>4, <2>5 DEF Stake
    <3>2. /\ IsFiniteSet(Stake(g)')
          /\ Cardinality(Stake(g)') <= Cardinality(Stake(g))
      BY <2>1, <3>1, FS_Subset
    <3>3. overlaps'[g] = overlaps[g]
      BY <1>1, <2>5 DEF TypeOK
    <3> QED
      BY <2>1, <3>2, <3>3, FS_CardinalityType
  <2>6. CASE g = g0 /\ Shared(r, next)
    <3>1. Stake(g)' \subseteq Stake(g) \cup {me}
      BY <2>3, <2>4, <2>6 DEF Stake
    <3>2. /\ IsFiniteSet(Stake(g)')
          /\ Cardinality(Stake(g)') <= Cardinality(Stake(g)) + 1
      BY <2>1, <3>1, OneMore
    <3>3. overlaps'[g] = overlaps[g] + 1
      BY <1>1, <2>6 DEF TypeOK
    <3> QED
      BY <2>1, <3>2, <3>3, FS_CardinalityType
  <2>7. CASE g = g0 /\ ~ Shared(r, next)
    <3>1. Tag(row) \in Tags(g)
      BY <1>2, <2>7 DEF Tags, Worth
    <3>2. \A d \in Call : pc[d] \in Taken => Mark(d) # Tag(row)
      BY <1>2, <2>7 DEF Shared, Mark
    <3>3. Tag(row) \in Stake(g)
      BY <3>1, <3>2 DEF Free, Stake
    <3>4. \A d : Tag(row) # <<"request", d>>
      BY <1>2, ChainType DEF Tag
    <3>5. Stake(g)' \subseteq (Stake(g) \ {Tag(row)}) \cup {me}
      BY <2>3, <2>4, <2>7, <3>4 DEF Stake
    <3>6. /\ IsFiniteSet(Stake(g)')
          /\ Cardinality(Stake(g)') <= Cardinality(Stake(g))
      BY <2>1, <3>3, <3>5, SwapOne
    <3>7. overlaps'[g] = overlaps[g]
      BY <1>1, <2>7
    <3> QED
      BY <2>1, <3>6, <3>7, FS_CardinalityType
  <2> QED
    BY <2>5, <2>6, <2>7
<1>9. StakesFew'
  BY <1>8 DEF StakesFew
<1> QED
  BY <1>6, <1>7, <1>9 DEF GrantInv

LEMMA GrantAuthorize ==
  ASSUME TypeOK, GrantInv, NEW client \in Client, Authorize(client)
  PROVE  GrantInv'
<1>1. PICK t \in Token :
         /\ \A r \in Stored \cup Held : r.grant # t
         /\ \A r \in t_oauth_auth_session \cup Held : r.token # t
         /\ t_oauth_auth_session' = t_oauth_auth_session \cup
              {[token |-> t, grant |-> t, client |-> client,
                left |-> SessionExpires]}
         /\ overlaps' = [overlaps EXCEPT ![t] = 0]
  BY DEF Authorize, Fresh
<1> DEFINE row == <<"session", [token |-> t, grant |-> t, client |-> client,
                                left |-> SessionExpires]>>
<1>2. Tag(row) = <<"session", t>> /\ row[2].grant = t
  BY DEF Tag
<1>3. Chain' = Chain \cup {row}
  BY <1>1 DEF Authorize, Chain
<1> HIDE DEF row
<1>4. \A p \in Chain : p[2].grant # t /\ Tag(p) # Tag(row)
  BY <1>1, <1>2 DEF Chain, Stored, Tag
<1>5. \A c \in Call : pc[c] \in Taken => tx[c].grant # t /\ Mark(c) # Tag(row)
  BY <1>1, <1>2 DEF Held, Taken, Mark
<1>6. \A c \in Call : pc'[c] = pc[c] /\ tx'[c] = tx[c] /\ Mark(c)' = Mark(c)
  BY DEF Authorize, Mark
<1>7. RowsOnce'
  BY <1>3, <1>4 DEF GrantInv, RowsOnce
<1>8. TakersMatch'
  BY <1>3, <1>5, <1>6 DEF GrantInv, TakersMatch
<1>9. ASSUME NEW g \in Token
      PROVE  IsFiniteSet(Stake(g)') /\ Cardinality(Stake(g)') <= 1 + overlaps'[g]
  <2>1. Takers(g)' = Takers(g)
    BY <1>6 DEF Takers
  <2>2. CASE g = t
    <3>1. Takers(g) = {}
      BY <1>5, <2>2 DEF Takers
    <3>2. Tags(g)' \subseteq {Tag(row)}
      BY <1>3, <1>4, <2>2 DEF Tags, Worth
    <3>3. Stake(g)' \subseteq {} \cup {Tag(row)}
      BY <2>1, <3>1, <3>2 DEF Stake, Free
    <3>4. IsFiniteSet({}) /\ Cardinality({}) = 0
      BY FS_EmptySet
    <3>5. IsFiniteSet(Stake(g)') /\ Cardinality(Stake(g)') <= Cardinality({}) + 1
      BY <3>3, <3>4, OneMore
    <3>6. overlaps'[g] = 0
      BY <1>1, <2>2 DEF TypeOK
    <3> QED
      BY <3>4, <3>5, <3>6
  <2>3. CASE g # t
    <3>1. Tags(g)' \subseteq Tags(g)
      BY <1>2, <1>3, <2>3 DEF Tags, Worth
    <3>2. Stake(g)' \in SUBSET Stake(g)
      BY <1>6, <2>1, <3>1 DEF Stake, Free
    <3>3. /\ IsFiniteSet(Stake(g)) /\ Cardinality(Stake(g)) <= 1 + overlaps[g]
          /\ overlaps[g] \in Nat /\ Cardinality(Stake(g)) \in Nat
      BY FS_CardinalityType DEF GrantInv, StakesFew, TypeOK
    <3>4. /\ IsFiniteSet(Stake(g)')
          /\ Cardinality(Stake(g)') <= Cardinality(Stake(g))
      BY <3>2, <3>3, FS_Subset
    <3>5. overlaps'[g] = overlaps[g]
      BY <1>1, <2>3 DEF TypeOK
    <3> QED
      BY <3>3, <3>4, <3>5, FS_CardinalityType
  <2> QED
    BY <2>2, <2>3
<1>10. StakesFew'
  BY <1>9 DEF StakesFew
<1> QED
  BY <1>7, <1>8, <1>10 DEF GrantInv

LEMMA GrantTick ==
  ASSUME TypeOK, GrantInv, Tick
  PROVE  GrantInv'
<1> DEFINE Older(r) == [r EXCEPT !.left = IF @ > Gone THEN @ - 1 ELSE Gone]
<1>1. \A r \in Row : Older(r).token = r.token /\ Older(r).grant = r.grant
  BY DEF Row
<1>2. /\ t_oauth_auth_session' = {Older(r) : r \in t_oauth_auth_session}
      /\ t_oauth_auth_code' = {Older(r) : r \in t_oauth_auth_code}
      /\ t_oauth_refresh_token' = {Older(r) : r \in t_oauth_refresh_token}
  BY DEF Tick, Age
<1> HIDE DEF Older
<1>3. \A p \in Chain' : \E q \in Chain :
         p = <<q[1], Older(q[2])>> /\ q[2] \in Row
  <2> SUFFICES ASSUME NEW p \in Chain'
               PROVE  \E k, r : /\ <<k, r>> \in Chain /\ r \in Row
                              /\ p = <<k, Older(r)>>
    OBVIOUS
  <2>1. CASE p \in {"session"} \X t_oauth_auth_session'
    <3>1. PICK r \in t_oauth_auth_session : p = <<"session", Older(r)>>
      BY <1>2, <2>1
    <3> QED
      BY <3>1, ChainRows DEF TypeOK
  <2>2. CASE p \in {"code"} \X t_oauth_auth_code'
    <3>1. PICK r \in t_oauth_auth_code : p = <<"code", Older(r)>>
      BY <1>2, <2>2
    <3> QED
      BY <3>1, ChainRows DEF TypeOK
  <2>3. CASE p \in {"refresh"} \X t_oauth_refresh_token'
    <3>1. PICK r \in t_oauth_refresh_token : p = <<"refresh", Older(r)>>
      BY <1>2, <2>3
    <3> QED
      BY <3>1, ChainRows DEF TypeOK
  <2> QED
    BY <2>1, <2>2, <2>3 DEF Chain
<1>4. \A p \in Chain' : \E q \in Chain :
         /\ p = <<q[1], Older(q[2])>>
         /\ Tag(p) = Tag(q) /\ p[2].grant = q[2].grant
  BY <1>1, <1>3 DEF Tag
<1>5. RowsOnce'
  BY <1>4 DEF GrantInv, RowsOnce
<1>6. \A c \in Call : pc'[c] = pc[c] /\ tx'[c] = tx[c] /\ Mark(c)' = Mark(c)
  BY DEF Tick, Mark
<1>7. overlaps' = overlaps
  BY DEF Tick
<1> QED
  BY <1>4, <1>5, <1>6, <1>7, GrantQuiet

LEMMA GrantExchange ==
  ASSUME TypeOK, GrantInv, NEW c \in Call, Exchanged(c)
  PROVE  GrantInv'
<1>1. PICK table : /\ NewPair(c, table)
                   /\ tx[c] \in Row
                   /\ table \subseteq t_oauth_refresh_token
                   /\ pc[c] = "refresh" =>
                        \A r \in table : r.token # tx[c].token
  BY DEF Exchanged, ExchangeCode, ExchangeRefresh, Without, TypeOK
<1> PICK row : row = NewRefresh(c, table)
  OBVIOUS
<1>2. /\ row.grant = tx[c].grant
      /\ t_oauth_refresh_token' = table \cup {row}
      /\ \A r \in table \cup HeldByOthers(c) : r.token # row.token
  BY <1>1, PairRows
<1>3. /\ pc[c] \in {"code", "refresh"} /\ pc[c] \in Taken
      /\ Mark(c) = <<pc[c], tx[c].token>>
      /\ Finish(c)
      /\ overlaps' = overlaps
      /\ t_oauth_auth_session' = t_oauth_auth_session
      /\ t_oauth_auth_code' \subseteq t_oauth_auth_code
      /\ pc[c] = "code" => \A r \in t_oauth_auth_code' : r.token # tx[c].token
  BY DEF Exchanged, ExchangeCode, ExchangeRefresh, Without, Source, Taken, Mark
<1>4. \A p \in Chain' : \/ p = <<"refresh", row>>
                        \/ /\ p \in Chain /\ Tag(p) # Mark(c)
                           /\ Tag(p) # <<"refresh", row.token>>
  BY <1>1, <1>2, <1>3 DEF Chain, Tag
<1>5. \A d \in Call : (d # c /\ pc[d] \in Taken) => tx[d].token # row.token
  BY <1>2 DEF HeldByOthers, Taken
<1>6. /\ row.grant = tx[c].grant
      /\ pc[c] \in Taken /\ Finish(c) /\ overlaps' = overlaps
  BY <1>2, <1>3
<1> QED
  BY <1>4, <1>5, <1>6, GrantConsumes

LEMMA GrantIssueCode ==
  ASSUME TypeOK, GrantInv, NEW c \in Call, IssueCode(c)
  PROVE  GrantInv'
<1> DEFINE row == Issue(tx[c], NewToken(t_oauth_auth_code, Held), CodeExpires)
<1>1. /\ row.grant = tx[c].grant
      /\ \A r \in t_oauth_auth_code \cup Held : r.token # row.token
  <2>1. /\ NewToken(t_oauth_auth_code, Held) \in Token
        /\ \A r \in t_oauth_auth_code \cup Held :
              r.token # NewToken(t_oauth_auth_code, Held)
    BY NewTokenFresh DEF IssueCode
  <2>2. tx[c] \in Row /\ CodeExpires \in Int
    BY ExpiryAssumption DEF IssueCode, TypeOK
  <2> QED
    BY <2>1, <2>2, IssueType
<1>2. t_oauth_auth_code' = t_oauth_auth_code \cup {row}
  BY DEF IssueCode
<1> HIDE DEF row
<1>3. /\ pc[c] \in Taken
      /\ Finish(c)
      /\ overlaps' = overlaps
      /\ Mark(c) = <<"session", tx[c].token>>
      /\ t_oauth_auth_session' \subseteq t_oauth_auth_session
      /\ \A r \in t_oauth_auth_session' : r.token # tx[c].token
      /\ t_oauth_refresh_token' = t_oauth_refresh_token
  BY DEF IssueCode, Without, Source, Taken, Mark
<1>4. \A p \in Chain' : \/ p = <<"code", row>>
                        \/ /\ p \in Chain /\ Tag(p) # Mark(c)
                           /\ Tag(p) # <<"code", row.token>>
  BY <1>1, <1>2, <1>3 DEF Chain, Tag
<1>5. \A d \in Call : (d # c /\ pc[d] \in Taken) => tx[d].token # row.token
  BY <1>1 DEF Held, Taken
<1> QED
  BY <1>1, <1>3, <1>4, <1>5, GrantConsumes

(* A restart puts the rows in the place of the requests that held them.    *)
LEMMA GrantRestart ==
  ASSUME TypeOK, GrantInv, Restart
  PROVE  GrantInv'
<1>1. /\ Chain' = Chain /\ overlaps' = overlaps
      /\ \A c \in Call : pc'[c] \notin Taken
  BY DEF Restart, tables, Chain, Taken
<1>2. RowsOnce' /\ TakersMatch'
  BY <1>1 DEF GrantInv, RowsOnce, TakersMatch
<1>3. ASSUME NEW g \in Token
      PROVE  IsFiniteSet(Stake(g)') /\ Cardinality(Stake(g)') <= 1 + overlaps'[g]
  <2>1. /\ IsFiniteSet(Tags(g)) /\ Cardinality(Tags(g)) <= Cardinality(Stake(g))
        /\ IsFiniteSet(Stake(g)) /\ Cardinality(Stake(g)) <= 1 + overlaps[g]
    BY TagsFew DEF GrantInv, StakesFew
  <2>2. Stake(g)' \in SUBSET Tags(g)
    BY <1>1 DEF Stake, Free, Takers, Tags, Worth
  <2>3. IsFiniteSet(Stake(g)') /\ Cardinality(Stake(g)') <= Cardinality(Tags(g))
    BY <2>1, <2>2, FS_Subset
  <2>4. /\ Cardinality(Stake(g)') \in Nat /\ Cardinality(Tags(g)) \in Nat
        /\ Cardinality(Stake(g)) \in Nat /\ overlaps[g] \in Nat
    BY <2>1, <2>3, FS_CardinalityType DEF TypeOK
  <2> QED
    BY <1>1, <2>1, <2>3, <2>4
<1>4. StakesFew'
  BY <1>3 DEF StakesFew
<1> QED
  BY <1>2, <1>4 DEF GrantInv

LEMMA GrantStep ==
  ASSUME TypeOK, GrantInv, [Next]_vars
  PROVE  GrantInv'
<1>1. ASSUME NEW client \in Client, Authorize(client)
      PROVE  GrantInv'
  BY <1>1, GrantAuthorize
<1>2. ASSUME NEW c \in Call, PinLoad(c) \/ CodeLoad(c) \/ RefreshLoad(c)
      PROVE  GrantInv'
  <2>1. Source("pin") = "session" /\ Source("code") = "code"
        /\ Source("refresh") = "refresh"
    BY DEF Source
  <2> QED
    BY <1>2, <2>1, GrantLoads, ChainRows DEF PinLoad, CodeLoad, RefreshLoad
<1>3. ASSUME NEW c \in Call, IssueCode(c) \/ Exchanged(c)
      PROVE  GrantInv'
  BY <1>3, GrantIssueCode, GrantExchange
<1>4. ASSUME Chain' \subseteq Chain, overlaps' = overlaps,
             \A c \in Call :
                /\ pc'[c] \in Taken <=> pc[c] \in Taken
                /\ pc'[c] \in Taken => Mark(c)' = Mark(c) /\ tx'[c] = tx[c]
      PROVE  GrantInv'
  <2>1. RowsOnce'
    BY <1>4 DEF GrantInv, RowsOnce
  <2> QED
    BY <1>4, <2>1, GrantQuiet
<1>5. ASSUME NEW c \in Call, AccessLoad(c) \/ RefreshRevokeLoad(c)
      PROVE  GrantInv'
  <2>1. PICK r \in Live(t_oauth_access_token) \cup Live(t_oauth_refresh_token),
                 next \in {"revokeAccess", "revokeRefresh"} :
           /\ pc[c] = "idle" /\ pc' = [pc EXCEPT ![c] = next]
           /\ tx' = [tx EXCEPT ![c] = Known(r)]
           /\ ~ Shared(r, next) => overlaps' = overlaps
           /\ UNCHANGED tables
    <3>1. CASE AccessLoad(c)
      <4>1. PICK r \in Live(t_oauth_access_token) :
               /\ tx' = [tx EXCEPT ![c] = Known(r)]
               /\ ~ Shared(r, "revokeAccess") => overlaps' = overlaps
        BY <3>1 DEF AccessLoad, Load
      <4>2. /\ pc[c] = "idle" /\ pc' = [pc EXCEPT ![c] = "revokeAccess"]
            /\ UNCHANGED tables
        BY <3>1 DEF AccessLoad, Load
      <4> QED
        BY <4>1, <4>2
    <3>2. CASE RefreshRevokeLoad(c)
      <4>1. PICK r \in Live(t_oauth_refresh_token) :
               /\ tx' = [tx EXCEPT ![c] = Known(r)]
               /\ ~ Shared(r, "revokeRefresh") => overlaps' = overlaps
        BY <3>2 DEF RefreshRevokeLoad, Load
      <4>2. /\ pc[c] = "idle" /\ pc' = [pc EXCEPT ![c] = "revokeRefresh"]
            /\ UNCHANGED tables
        BY <3>2 DEF RefreshRevokeLoad, Load
      <4> QED
        BY <4>1, <4>2
    <3> QED
      BY <1>5, <3>1, <3>2
  <2>2. ~ Shared(r, next)
    BY DEF Shared, Source, Taken
  <2>3. Chain' \subseteq Chain
    BY <2>1 DEF tables, Chain
  <2>4. \A d \in Call :
           /\ pc'[d] \in Taken <=> pc[d] \in Taken
           /\ pc'[d] \in Taken => Mark(d)' = Mark(d) /\ tx'[d] = tx[d]
    BY <2>1 DEF Taken, Source, Mark, TypeOK
  <2> QED
    BY <1>4, <2>1, <2>2, <2>3, <2>4
<1>6. ASSUME NEW c \in Call, PinRight(c)
      PROVE  GrantInv'
  <2>1. Chain' \subseteq Chain /\ overlaps' = overlaps
    BY <1>6 DEF PinRight, tables, Chain
  <2>2. \A d \in Call :
           /\ pc'[d] \in Taken <=> pc[d] \in Taken
           /\ pc'[d] \in Taken => Mark(d)' = Mark(d) /\ tx'[d] = tx[d]
    BY <1>6 DEF PinRight, Taken, Source, Mark, TypeOK
  <2> QED
    BY <1>4, <2>1, <2>2
<1>7. ASSUME NEW c \in Call, \/ Deny(c) \/ PinWrong(c) \/ PinFails(c)
                             \/ RevokeAccess(c) \/ RevokeRefresh(c) \/ Drop(c)
      PROVE  GrantInv'
  <2>1. Finish(c) /\ Chain' \subseteq Chain /\ overlaps' = overlaps
    BY <1>7 DEF Deny, PinWrong, PinFails, RevokeAccess, RevokeRefresh, Drop,
                Without, OfOthers, tables, Chain
  <2>2. CASE pc[c] \in Taken
    BY <2>1, <2>2, GrantLeaves
  <2>3. CASE pc[c] \notin Taken
    BY <1>4, <2>1, <2>3, FinishTakers
  <2> QED
    BY <2>2, <2>3
<1>8. CASE Tick
  BY <1>8, GrantTick
<1>9. CASE \/ \E client \in Client : RegisterClient(client)
           \/ Cleanup \/ UNCHANGED vars
  <2>1. Chain' \subseteq Chain /\ UNCHANGED <<pc, tx, overlaps>>
    BY <1>9 DEF RegisterClient, Cleanup, Clean, vars, tables, Chain
  <2> QED
    BY <1>4, <2>1 DEF Mark
<1>10. CASE Restart
  BY <1>10, GrantRestart
<1> QED
  BY <1>1, <1>2, <1>3, <1>5, <1>6, <1>7, <1>8, <1>9, <1>10
  DEF Next, Post, Exchange, Revoke, Exchanged

(* A consent is worth one session, code or refresh token, and one more at  *)
(* most for each time a request loaded one of them while another that was  *)
(* to consume it was under way: exchange_authorization_code and the other  *)
(* exchanges multiply a grant in no other way.                             *)
THEOREM MultiplyByOverlap == Spec => []GrantsMultiplyByOverlap
<1>1. Init => GrantInv
  <2> SUFFICES ASSUME Init PROVE GrantInv
    OBVIOUS
  <2>1. Chain = {} /\ \A c \in Call : pc[c] \notin Taken
    BY DEF Init, Chain, Taken
  <2>2. \A g \in Token : Stake(g) = {} /\ overlaps[g] = 0
    BY <2>1 DEF Init, Stake, Free, Tags, Worth, Takers
  <2> QED
    BY <2>1, <2>2, FS_EmptySet DEF GrantInv, RowsOnce, TakersMatch, StakesFew
<1>2. TypeOK /\ GrantInv /\ [Next]_vars => GrantInv'
  BY GrantStep
<1>3. TypeOK /\ GrantInv => GrantsMultiplyByOverlap
  BY WorthFew DEF GrantsMultiplyByOverlap
<1> QED
  BY <1>1, <1>2, <1>3, TypeCorrect, PTL DEF Spec
=============================================================================
