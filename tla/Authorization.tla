---------------------------- MODULE Authorization ----------------------------
(***************************************************************************)
(* lisanima's OAuth server: auth/provider.py and auth/pin.py over the      *)
(* tables of repositories/oauth_repo.py.  An authorization session becomes *)
(* a code when the owner enters the PIN, a code becomes an access token    *)
(* and a refresh token, a refresh token becomes a new pair.  Each of these *)
(* loads its row in one transaction and consumes it in a later one; other  *)
(* requests, the clock and a restart come in between.                      *)
(*                                                                         *)
(* expires_at is kept as left, the seconds until it, cut at Gone: a row is *)
(* loaded while left > 0 and cleaned up when left < 0.  Redirect URIs,     *)
(* PKCE values, scopes and resources are data no statement branches on.    *)
(* A row also carries its grant, the session all of it came from; no       *)
(* statement reads it.                                                     *)
(***************************************************************************)
EXTENDS Lockout, FiniteSets

CONSTANTS
    Call,           \* concurrent HTTP requests
    Client,         \* OAuth clients
    Token,          \* session ids, codes and tokens
    SessionExpires, CodeExpires, AccessExpires, RefreshExpires,
    MaxOverlap      \* bound: overlaps of a grant

ASSUME ExpiryAssumption ==
    /\ {SessionExpires, CodeExpires, AccessExpires, RefreshExpires} \subseteq Nat \ {0}
    /\ AccessExpires <= RefreshExpires
    /\ MaxOverlap \in Nat

VARIABLES
    m_oauth_client,         \* registered clients
    t_oauth_auth_session,
    t_oauth_auth_code,
    t_oauth_access_token,
    t_oauth_refresh_token,  \* sets of rows
    pc, tx,                 \* per request: what it does next, the row it loaded
    overlaps                \* history, per grant: times a request loaded a row
                            \* that another one was about to consume

tables == <<t_oauth_auth_session, t_oauth_auth_code, t_oauth_access_token,
            t_oauth_refresh_token>>
vars == <<lockoutVars, m_oauth_client, tables, pc, tx, overlaps>>

Gone == -1
Row == [token : Token, grant : Token, client : Client, left : Int]
Nothing == [token |-> "none"]

TypeOK ==
    /\ LockoutType
    /\ m_oauth_client \subseteq Client
    /\ t_oauth_auth_session \subseteq Row
    /\ t_oauth_auth_code \subseteq Row
    /\ t_oauth_access_token \subseteq Row
    /\ t_oauth_refresh_token \subseteq Row
    /\ pc \in [Call -> {"idle", "pin", "issue", "code", "refresh",
                        "revokeAccess", "revokeRefresh"}]
    /\ tx \in [Call -> Row \cup {Nothing}]
    /\ \A c \in Call : pc[c] # "idle" => tx[c] \in Row
    /\ overlaps \in [Token -> Nat]

Init ==
    /\ LockoutInit
    /\ m_oauth_client = {}
    /\ t_oauth_auth_session = {}
    /\ t_oauth_auth_code = {}
    /\ t_oauth_access_token = {}
    /\ t_oauth_refresh_token = {}
    /\ pc = [c \in Call |-> "idle"]
    /\ tx = [c \in Call |-> Nothing]
    /\ overlaps = [g \in Token |-> 0]

Stored == t_oauth_auth_session \cup t_oauth_auth_code
          \cup t_oauth_access_token \cup t_oauth_refresh_token
Held == {tx[c] : c \in {d \in Call : pc[d] # "idle"}}
HeldByOthers(c) == {tx[d] : d \in {e \in Call \ {c} : pc[e] # "idle"}}

(* secrets.token_urlsafe: a value that is not in the table and that no     *)
(* request holds.  Statements look a value up in one table only, so values *)
(* of different tables need not differ; and an exchange may take the value *)
(* of the row it consumes if it is the last one to hold it.                *)
Fresh(table, held) == Token \ {r.token : r \in table \cup held}
NewToken(table, held) == CHOOSE t \in Fresh(table, held) : TRUE

Issue(r, token, expires) == [r EXCEPT !.token = token, !.left = expires]

Without(table, token) == {r \in table : r.token # token}
OfOthers(table, client) == {r \in table : r.client # client}

(***************************************************************************)
(* Loading.  loadAuthSession, loadAuthCode, loadRefreshToken and           *)
(* loadAccessToken find a row whose time is not over (expires_at > NOW()); *)
(* anything else is answered at once and changes nothing.                  *)
(***************************************************************************)
Live(table) == {r \in table : r.left > 0}

(* The rows a request is about to consume, and the table they are of.      *)
Taken == {"pin", "issue", "code", "refresh"}
Source(phase) == IF phase \in {"pin", "issue"} THEN "session" ELSE phase

Shared(r, next) == \E d \in Call : /\ pc[d] \in Taken
                                   /\ Source(pc[d]) = Source(next)
                                   /\ tx[d].token = r.token

(* Bug: the loaded row is reduced to its token. *)
LoadTokenOnly(c, table, next) ==
    /\ pc[c] = "idle"
    /\ \E r \in Live(table) : tx' = [tx EXCEPT ![c] = [token |-> r.token]]
    /\ pc' = [pc EXCEPT ![c] = next]
    /\ UNCHANGED <<lockoutVars, m_oauth_client, tables, overlaps>>

(* What a request keeps of the row: its time is not looked at again.       *)
Known(r) == [r EXCEPT !.left = 0]

Load(c, table, next) ==
    /\ pc[c] = "idle"
    /\ \E r \in Live(table) :
          /\ tx' = [tx EXCEPT ![c] = Known(r)]
          /\ IF Shared(r, next)
               THEN /\ overlaps[r.grant] < MaxOverlap
                    /\ overlaps' = [overlaps EXCEPT ![r.grant] = @ + 1]
               ELSE UNCHANGED overlaps
    /\ pc' = [pc EXCEPT ![c] = next]
    /\ UNCHANGED <<lockoutVars, m_oauth_client, tables>>

Finish(c) == /\ pc' = [pc EXCEPT ![c] = "idle"]
             /\ tx' = [tx EXCEPT ![c] = Nothing]

(* A rejected request, a failed statement, a lost connection. *)
Drop(c) == /\ pc[c] # "idle"
           /\ Finish(c)
           /\ UNCHANGED <<lockoutVars, m_oauth_client, tables, overlaps>>

(***************************************************************************)
(* Clients and authorization sessions.                                     *)
(***************************************************************************)
RegisterClient(client) ==
    /\ client \notin m_oauth_client
    /\ m_oauth_client' = m_oauth_client \cup {client}
    /\ UNCHANGED <<lockoutVars, tables, pc, tx, overlaps>>

Authorize(client) ==
    /\ client \in m_oauth_client
    /\ LET unused == Fresh(t_oauth_auth_session, Held)
                     \ {r.grant : r \in Stored \cup Held}
           t == CHOOSE u \in unused : TRUE
       IN  /\ unused # {}
           /\ t_oauth_auth_session' = t_oauth_auth_session \cup
                 {[token |-> t, grant |-> t, client |-> client,
                   left |-> SessionExpires]}
           /\ overlaps' = [overlaps EXCEPT ![t] = 0]
    /\ UNCHANGED <<lockoutVars, m_oauth_client, t_oauth_auth_code,
                   t_oauth_access_token, t_oauth_refresh_token, pc, tx>>

(***************************************************************************)
(* POST /auth/pin.                                                         *)
(***************************************************************************)
PinLoad(c) == Load(c, t_oauth_auth_session, "pin")

Deny(c) ==
    /\ pc[c] = "pin"
    /\ t_oauth_auth_session' = Without(t_oauth_auth_session, tx[c].token)
    /\ Finish(c)
    /\ UNCHANGED <<lockoutVars, m_oauth_client, t_oauth_auth_code,
                   t_oauth_access_token, t_oauth_refresh_token, overlaps>>

PinWrong(c) == /\ pc[c] = "pin"
               /\ WrongPin
               /\ Finish(c)
               /\ UNCHANGED <<m_oauth_client, tables, overlaps>>

(* Verification raises: no PIN is configured, or bcrypt refuses the value. *)
PinFails(c) == /\ pc[c] = "pin"
               /\ NoPin
               /\ Finish(c)
               /\ UNCHANGED <<m_oauth_client, tables, overlaps>>

(* The right PIN during a lockout is answered like a wrong one: Drop. *)
PinRight(c) == /\ pc[c] = "pin"
               /\ RightPin
               /\ pc' = [pc EXCEPT ![c] = "issue"]
               /\ UNCHANGED <<m_oauth_client, tables, tx, overlaps>>

(* Bug: the session is left in place. *)
IssueCodeKeepSession(c) ==
    /\ pc[c] = "issue"
    /\ Fresh(t_oauth_auth_code, Held) # {}
    /\ t_oauth_auth_code' = t_oauth_auth_code
                             \cup {Issue(tx[c], NewToken(t_oauth_auth_code, Held), CodeExpires)}
    /\ Finish(c)
    /\ UNCHANGED <<lockoutVars, m_oauth_client, t_oauth_auth_session,
                   t_oauth_access_token, t_oauth_refresh_token, overlaps>>

(* One transaction: saveAuthCode, deleteAuthSession. *)
IssueCode(c) ==
    /\ pc[c] = "issue"
    /\ Fresh(t_oauth_auth_code, Held) # {}
    /\ t_oauth_auth_code' = t_oauth_auth_code
                             \cup {Issue(tx[c], NewToken(t_oauth_auth_code, Held), CodeExpires)}
    /\ t_oauth_auth_session' = Without(t_oauth_auth_session, tx[c].token)
    /\ Finish(c)
    /\ UNCHANGED <<lockoutVars, m_oauth_client, t_oauth_access_token,
                   t_oauth_refresh_token, overlaps>>

(***************************************************************************)
(* The token endpoint.  Each exchange is one transaction: the delete, the  *)
(* new access token, the new refresh token.                                *)
(***************************************************************************)
CodeLoad(c) == Load(c, t_oauth_auth_code, "code")
RefreshLoad(c) == Load(c, t_oauth_refresh_token, "refresh")

(* Bug: the two lifetimes are swapped. *)
NewPairSwapped(c, refreshTokens) ==
    /\ Fresh(t_oauth_access_token, HeldByOthers(c)) # {}
    /\ Fresh(refreshTokens, HeldByOthers(c)) # {}
    /\ t_oauth_access_token' = t_oauth_access_token \cup
          {Issue(tx[c], NewToken(t_oauth_access_token, HeldByOthers(c)), RefreshExpires)}
    /\ t_oauth_refresh_token' = refreshTokens \cup
          {Issue(tx[c], NewToken(refreshTokens, HeldByOthers(c)), AccessExpires)}

NewPair(c, refreshTokens) ==
    /\ Fresh(t_oauth_access_token, HeldByOthers(c)) # {}
    /\ Fresh(refreshTokens, HeldByOthers(c)) # {}
    /\ t_oauth_access_token' = t_oauth_access_token \cup
          {Issue(tx[c], NewToken(t_oauth_access_token, HeldByOthers(c)), AccessExpires)}
    /\ t_oauth_refresh_token' = refreshTokens \cup
          {Issue(tx[c], NewToken(refreshTokens, HeldByOthers(c)), RefreshExpires)}

ExchangeCode(c) ==
    /\ pc[c] = "code"
    /\ t_oauth_auth_code' = Without(t_oauth_auth_code, tx[c].token)
    /\ NewPair(c, t_oauth_refresh_token)
    /\ Finish(c)
    /\ UNCHANGED <<lockoutVars, m_oauth_client, t_oauth_auth_session, overlaps>>

ExchangeRefresh(c) ==
    /\ pc[c] = "refresh"
    /\ NewPair(c, Without(t_oauth_refresh_token, tx[c].token))
    /\ Finish(c)
    /\ UNCHANGED <<lockoutVars, m_oauth_client, t_oauth_auth_session,
                   t_oauth_auth_code, overlaps>>

(***************************************************************************)
(* Revocation: the token itself and every token of the other kind the      *)
(* client has.                                                             *)
(***************************************************************************)
AccessLoad(c) == Load(c, t_oauth_access_token, "revokeAccess")
RefreshRevokeLoad(c) == Load(c, t_oauth_refresh_token, "revokeRefresh")

RevokeAccess(c) ==
    /\ pc[c] = "revokeAccess"
    /\ t_oauth_access_token' = Without(t_oauth_access_token, tx[c].token)
    /\ t_oauth_refresh_token' = OfOthers(t_oauth_refresh_token, tx[c].client)
    /\ Finish(c)
    /\ UNCHANGED <<lockoutVars, m_oauth_client, t_oauth_auth_session,
                   t_oauth_auth_code, overlaps>>

RevokeRefresh(c) ==
    /\ pc[c] = "revokeRefresh"
    /\ t_oauth_refresh_token' = Without(t_oauth_refresh_token, tx[c].token)
    /\ t_oauth_access_token' = OfOthers(t_oauth_access_token, tx[c].client)
    /\ Finish(c)
    /\ UNCHANGED <<lockoutVars, m_oauth_client, t_oauth_auth_session,
                   t_oauth_auth_code, overlaps>>

(***************************************************************************)
(* cleanupExpiredTokens (the program never calls it; the owner runs its    *)
(* statements), the clock, and a restart of the process.                   *)
(***************************************************************************)
Clean(table) == {r \in table : r.left >= 0}

Cleanup == /\ t_oauth_auth_session' = Clean(t_oauth_auth_session)
           /\ t_oauth_auth_code' = Clean(t_oauth_auth_code)
           /\ t_oauth_access_token' = Clean(t_oauth_access_token)
           /\ t_oauth_refresh_token' = Clean(t_oauth_refresh_token)
           /\ UNCHANGED <<lockoutVars, m_oauth_client, pc, tx, overlaps>>

Age(table) == {[r EXCEPT !.left = IF @ > Gone THEN @ - 1 ELSE Gone] : r \in table}

Tick == /\ LockoutTick
        /\ t_oauth_auth_session' = Age(t_oauth_auth_session)
        /\ t_oauth_auth_code' = Age(t_oauth_auth_code)
        /\ t_oauth_access_token' = Age(t_oauth_access_token)
        /\ t_oauth_refresh_token' = Age(t_oauth_refresh_token)
        /\ UNCHANGED <<m_oauth_client, pc, tx, overlaps>>

Restart == /\ failure_count' = 0
           /\ lockout' = NoLockout
           /\ pc' = [c \in Call |-> "idle"]
           /\ tx' = [c \in Call |-> Nothing]
           /\ UNCHANGED <<m_oauth_client, tables, overlaps>>

-----------------------------------------------------------------------------
Post(c) == \/ PinLoad(c) \/ Deny(c) \/ PinWrong(c) \/ PinFails(c)
           \/ PinRight(c) \/ IssueCode(c)

Exchange(c) == CodeLoad(c) \/ ExchangeCode(c)
               \/ RefreshLoad(c) \/ ExchangeRefresh(c)

Revoke(c) == AccessLoad(c) \/ RevokeAccess(c)
             \/ RefreshRevokeLoad(c) \/ RevokeRefresh(c)

Next == \/ \E client \in Client : RegisterClient(client) \/ Authorize(client)
        \/ \E c \in Call : Post(c) \/ Exchange(c) \/ Revoke(c) \/ Drop(c)
        \/ Cleanup \/ Tick \/ Restart

Spec == Init /\ [][Next]_vars

(* The clock goes on; nothing else has to happen. *)
FairSpec == Spec /\ WF_vars(Tick)

(***************************************************************************)
(* Properties.                                                             *)
(***************************************************************************)

(* The counter and the deadline agree: whatever requests, clock and resets *)
(* do in between, the counter never passes MaxFailures (the page shows     *)
(* MaxFailures - count as what remains), and it stands there exactly while *)
(* a lockout is set.                                                       *)
LockoutExact ==
    /\ failure_count <= MaxFailures
    /\ failure_count = MaxFailures <=> lockout # NoLockout

(* A lockout ends by itself, however many requests arrive during it; it is *)
(* not started again before it is over.                                    *)
LockoutEnds == LockedOut ~> ~ LockedOut

(* Renewal outlives access: a live access token has, in its grant, a       *)
(* refresh token that lives at least as long, from the moment it is issued *)
(* and through rotations, exchanges under way, expiry and cleanup.  Only   *)
(* the revocation of an access token of the client takes it away.          *)
Renewable(a) == \E r \in t_oauth_refresh_token :
                   r.grant = a.grant /\ r.left >= a.left

Revoking(client) == \E c \in Call : pc[c] = "revokeAccess" /\ pc'[c] = "idle"
                                    /\ tx[c].client = client

RenewalOutlivesAccess ==
    [][\A a \in t_oauth_access_token' :
         (a.left > 0 /\ ~ Renewable(a)')
            => \E b \in t_oauth_access_token :
                  /\ b.token = a.token
                  /\ ~ Renewable(b) \/ Revoking(b.client)]_vars

(* One consent is worth one session, or one code, or one refresh token,    *)
(* whatever expires, fails or is cleaned up in between, and no more than   *)
(* one more for each time that a request loaded one of them while another  *)
(* that was to consume it was under way: the DELETE of the second one      *)
(* finds no row, and the code does not look whether it did.                *)
Chain == ({"session"} \X t_oauth_auth_session)
         \cup ({"code"} \X t_oauth_auth_code)
         \cup ({"refresh"} \X t_oauth_refresh_token)

Worth(g) == {p \in Chain : p[2].grant = g}

GrantsMultiplyByOverlap ==
    \A g \in Token : Cardinality(Worth(g)) <= 1 + overlaps[g]
=============================================================================
