# lisanima in TLA+

lisanima is the long-term memory of a language-model persona: an MCP server in
Python (`src/src/lisanima/`) over a PostgreSQL schema (`src/sql/`).  Its MCP
tools store messages, forget and edit them, group them into topics, tag them,
search them, and keep a versioned rule book.  Over HTTP it is also its own
OAuth server, with a PIN page.  This directory holds TLA+ modules for it, TLC
runs that check them on small instances, and TLAPS proofs.

## 1. Inventory

The process is one asyncio event loop.  In stdio mode one tool call runs at a
time; in HTTP mode calls interleave at every `await`.  All lasting state is in
PostgreSQL, at READ COMMITTED, reached through one connection pool; a tool call
is one transaction on one connection, committed when the pool context exits and
rolled back by any exception (`interface/_error_handlers.py` turns it into an
answer).  `statement_timeout` bounds every statement.

| Component | State | Operations | What is hard | What makes it correct |
|---|---|---|---|---|
| Memory commands (`interface/remember.py`, `forget.py`, `edit.py`, `message_repo`, `session_repo`, `role_repo`) | `t_sessions`, `t_messages`, `m_role`, `t_message_roles` | remember, with optional compaction of older messages, topic and roles; forget; edit | checks and insert are separate statements; two calls create the same session or role; a failure at any statement | one session per date; a message appears with all its links or not at all; sources stored, older, compacted once; a forgotten message stays as it was |
| Topics (`interface/topics.py`, `topic_repo`) | `t_topics`, `t_message_topics` | create, close, reopen, update (link, unlink), list | two updates insert and delete the same link rows | no dangling link; no endless wait |
| Rule book rules (`interface/rulebook.py`, `rulebook_repo`) | `m_rulebooks`, view `v_active_rulebooks` | set, retire, get, list; the owner's psql session | read and write are separate statements; two sets of the same path; the owner locks a rule in between | history without holes; nothing overwritten; one persona per path; constitutional rules stay |
| Connection pool and lifespan (`db.py`, `server.py`) | `db_pool._pool`, the psycopg pools | open, close, get_connection; session start and end | `close()` suspends with the shut pool in the field; every HTTP session opens the shared pool again; waiters at `max_size` | no waiter on a shut pool; no pool lost; requests are served again after a close |
| Authorization (`auth/provider.py`, `oauth_repo`) | `m_oauth_client`, `t_oauth_auth_session`, `_auth_code`, `_access_token`, `_refresh_token` | register, authorize, exchange code, exchange refresh token, load token, revoke, cleanup | a row is loaded in one transaction and consumed in another, with a clock running | what is loaded is not expired; a consumed row is never loaded again; tokens come in pairs; a consent does not multiply |
| Sign-in (`auth/pin.py`) | `_failure_count`, `_lockout_until`, in memory | GET form, POST (deny, wrong PIN, right PIN) | the counter, the deadline and the clock at the boundary; session used twice | a lockout ends, and lasts as long as it says |
| Tags (`interface/organize.py`, `tag_repo`) | `t_tags`, `t_message_tags` | organize: find messages, add and remove tags | messages looked for in an earlier statement; row locks in the caller's order | only stored messages tagged; calls return |
| Recall (`interface/recall.py`, `searchMessages`, `getHotMessages`, `stats_repo`) | none (read only) | search by pages, hot, statistics | several SELECTs without a snapshot; OFFSET paging over a list that changes and that is not totally ordered; `total` comes from another statement; statistics from four | what is missed or counted twice is bounded by what changed meanwhile and by ties |
| Protocols (`rulebook` with `sub_action`, `protocol_repo`) | `m_rulebook_protocol_detail` | set of a step, get, list | none: one UPSERT of one row | a step is what was set last |
| Migration (`sql/cre_func_migration_*`, `cre_proc_migration_*`, `migrations/003`) | the schema, its rows and sequences | drop order, evacuate, transfer | order of foreign keys, cycles, tables set aside while others refer to them; a failing table, a repeated or partial call, in or out of a transaction; `setval` survives a rollback | children before parents; no row lost or doubled; the numbering goes on |
| SQL executor (`utils/sql_executor.py`) | none | one statement at a time, committed or rolled back | the migration without a transaction around it | as for the migration |
| Rule book codec (`utils/rulebook_codec.py`) | files | export, import | text conversion | round trip |
| Audit (`scripts/audit.sh`) | none | report | | |

The components meet in the database (remember writes rows that topic_manage and
organize link), in `db_pool` (every tool call, every OAuth and PIN request) and
through the session: `lifespan` opens the pool before the first tool call of a
session and closes it after the last.  PIN and OAuth requests run outside any
session and share the pool nonetheless.

`PROJECT.json` lists the hazards, each at its line, with the properties that
cover it.

## 2. Plan

| Order | Module | What it is | State |
|---|---|---|---|
| 1 | `MemoryStore` | the memory tables and remember, forget, edit, topic_manage, statement by statement | done |
| 2 | `Memory` | what the memory promises, one step per call; `MemoryStore` implements it | done |
| 3 | `MemoryStoreProofs` | type correctness and the safety invariants of `MemoryStore` | done |
| 4 | `Rulebook`, `RulebookProofs` | the versioned rule table | done |
| 5 | `DbPool`, `DbPoolProofs` | the connection pool, the lifespan, requests | done |
| 6 | `Lockout`, `Authorization`, `AuthorizationProofs` | PIN page and OAuth tables; `Authorization` composes `Lockout` | done |
| 7 | `Organize`, `OrganizeProofs` | the tag tables and organize, statement by statement, with row locks taken in the callers' order and deadlocks | done |
| 8 | `DropOrder`, `DropOrderProofs` | the drop order (Kahn's algorithm) against what "children before parents" and "cycle" mean | done |
| 9 | `Migration`, `MigrationProofs` | the owner's console: evacuate, new DDL, transfer, the 003 script, with failures and repeats; composes `DropOrder` | done |
| 10 | `Recall`, `RecallProofs` | a reader between the calls of others, which are steps of `Memory` | done |
| 11 | `MemoryServer` and proofs | the transport; `MemoryStore` implements `Memory`; stdio compacts soundly; `RetagsAll` for one call after the other; what a deadlock takes; when the lock of a rule holds | done |
| 12 | proofs | an abstract history of rules that `Rulebook` implements; an abstract life of grants for `Authorization` | open |

Protocols, the codec and the audit script are left out for the reasons in
section 6.

## 3. Modules and code

### Memory.tla, MemoryStore.tla and MemoryServer.tla

The variables of `MemoryStore` are the tables by their names.  `seq` holds the
identity sequences, which are drawn before the commit and never given back.
`pc[c]` is the next statement of call `c`, `req[c]` its parameters, and `tx[c]`
the rows its transaction has written; the commit moves them to the tables at
once, `Abort` drops them.  A READ COMMITTED statement sees the tables and its
own `tx[c]`, so a model in which statements read the table variables is exact.
Statements that would wait for another transaction's row have the wait as a
guard (`SessionLocked`, `RolesLocked`, `LinksLocked`).  A statement that writes
several rows takes them one by one, in any order, since the code passes on the
order of the caller; `tx[c].rows` and `tx[c].names` say how far it is.  `Blocked`
is the wait and `DeadlockDetected` the abort of one call of a cycle.

| Action | Code |
|---|---|
| `Remember`, `CheckLive`, `CheckTopic`, `CheckOverlap` | `remember` and the three queries of `validateCompactSource` |
| `FindSession`, `InsertSession` | `findOrCreateSession`: SELECT, then INSERT ... ON CONFLICT DO UPDATE |
| `InsertMessage`, `LinkTopic` | `saveMessage`; `getTopicById` and `linkMessageTopics` |
| `InsertRole` (a name at a time), `LinkRoles` | the INSERT of `findOrCreateRoles`; its SELECT and `linkMessageRoles` |
| `CommitMessage` | end of the transaction |
| `Forget`, `Edit`, `CloseTopic`, `ReopenTopic` | one UPDATE each: one action |
| `CreateTopic` | INSERT and links; a wrong id is a foreign key violation that still uses up an identity |
| `UpdateTopic`, `FindTopic` | `_handleUpdate` and the SELECT of `updateTopic` |
| `LinkMessage` (a row at a time), `LinksChecked` | `linkMessageTopics` and its foreign keys |
| `UnlinkMessage` (a row at a time), `CommitUpdate` | `unlinkMessageTopics`, end of the transaction |

An update that also sets a name or emotions locks the topic's row first and so
waits for other such updates; names and emotions are left out, and the lock with
them, which only adds interleavings.  `LinkTopic` does not wait for an update
that is just inserting the same link row: that update would have to name the id
of a message that is not committed, and its foreign key then fails.

`Memory` has no sessions, transactions or link tables: `Save`, `Forget`, `Edit`,
`Open`, `Toggle`, `Relink` change a function from ids to memories in one step.
`ActsAtomically` is `Abstract!Spec` under the mapping `Memories` (for each
committed message `MemoryOf`, its row with its links) and `TopicStates`.

`MemoryServer` adds the transport `main()` starts the server with, a variable
`serial` chosen once: either the client waits for each answer before it calls
again (stdio), or calls overlap (HTTP).  `MCMemoryStore` gives each its own
bounds, `SerialBounds` and `OverlapBounds`, so that one run answers the
questions of both.
`MCMemoryLive` keeps every statement and the fairness and restricts
only which calls arrive (`Few`), so that liveness can be checked.

### Rulebook.tla

`rules` is `m_rulebooks` as a function from path to version to row.  `SetRead`
and `RetireRead` are the SELECT of the newest version with its checks,
`SetInsert` is the INSERT that may wait for, or be refused by, the unique key,
`SetCommit` and `RetireCommit` the writes that become visible.  `OwnerLock` is
the psql statement of `docs/04_schema.md` that makes a rule constitutional.

### DbPool.tla

`field` is `db_pool._pool`; pools are numbered as they are created and `open`
holds those not closed.  `SessionStart` and `SessionEnd` are the lifespan before
and after its `yield`; `CloseFinish` is what `close()` does after its `await`;
`ToolCall` and `RouteRequest` are `get_connection` in and outside a session.
The psycopg pool is external: it lends up to `MaxSize` connections, fails its
waiting clients when it is closed (`FailWaiters`) and times them out.  A tool
call keeps its session alive, a route does not.

`NoLostPool` fails in HTTP mode, where the second session's `open()` drops the
first one's pool.  `OneUser` says when it does not: sessions one after the
other, and routes only while one lasts.  `LostByOverlapOnly` is the implication.

### Lockout.tla and Authorization.tla

`Lockout` is the counter and the deadline of `pin.py`; `_state_lock` covers the
check, the comparison and the update and nothing inside suspends, so a POST with
a wrong PIN is one action.  `Authorization` extends it with the five OAuth
tables.  `expires_at` is kept as the time left (`left`), cut off one step after
it is over, which is all the statements can tell apart (`> NOW()` when a row is
loaded, `< NOW()` when rows are cleaned up).  `Load` is the first transaction of
a request and `tx[c]` what it keeps of the row (`Known`: its time is not looked
at again); `Deny`, `IssueCode`, `ExchangeCode`, `ExchangeRefresh`,
`RevokeAccess`, `RevokeRefresh` are the second.  An exchange is one transaction:
a statement of it that fails undoes it, which is `Drop`, as is a request FastMCP
ends in between; that its answer is lost is that the client never uses the pair.
`PinFails` is a POST whose verification raises, without a configured hash for
instance (`pin.py:57`): the counter of a lockout that is over is reset all the
same.  `Restart` forgets the requests and the lockout and keeps the tables.

A row carries its `grant`, the session it came from; no statement reads it, the
properties do.  `overlaps` is history too: how often a request loaded a session,
code or refresh token of the grant that another request had loaded and not yet
consumed.  The DELETE that consumes a row does not say whether it found it, so
each of the two goes on and stores its own code or tokens, though
`provider.py:171` and `docs/07_oauth.md:196` call a code used once.
`GrantsMultiplyByOverlap` says that this is the only way and that each overlap
is worth one row at most.

A new value differs from those in its table and in the hands of requests
(`Fresh`).  Statements look a value up in one table only, so values may repeat
across tables, and a value may come back once its row and whoever held it are
gone: both let two tokens be enough.

### Organize.tla

The tag tables, and `t_messages` reduced to what organize sees of a message;
`Remember` and `Forget` are the rest of the program.  `Normal` is
`normalizeTagName`, `Lower` the weaker `lower().strip()` of the search.  A
request holds the ids, the searched tags, the tags to add and to remove; `more`
stands for every other search condition and the limit, and lets the search
return any part of what matches.

| Action | Code |
|---|---|
| `Organize` | entry of `organize`, after `_validateParams` |
| `FindIds`, `Search` | the SELECT of given ids (all or `NOT_FOUND`); `searchMessages` |
| `InsertTag` (a name at a time), `SelectTags` | the INSERT and the SELECT of `findOrCreateTags` |
| `LinkTag`, `BeginUnlink`, `UnlinkTag` | `linkMessageTagsBatch`, `unlinkMessageTagsBatch`, a row at a time |
| `Commit`, `Answer` | end of the transaction; the dictionary returned |

`conn.transaction()` inside the pool context is a savepoint: an exception in it
leaves both, so `Abort` is one step.  Locks, `Blocked` and `DeadlockDetected`
are as in `MemoryStore`.  `UnlinkTag` also takes a link that another call deleted
and put back after the DELETE began, which only opposed calls do.

### Recall.tla

The state of others is `memory` and `topics` of `Memory`, and their calls are
the steps of `Memory` (`Store == INSTANCE Memory`), which `MemoryStore`
implements: at READ COMMITTED a SELECT sees committed calls, whole.  `made` is
`created_at`, the start of the storing transaction; calls commit in any order,
so a new memory may be older than those already there.  Nothing makes it unique
(`sql/cre_tbl_t_messages.sql:21` is `DEFAULT NOW()`, and the rows of one
transaction, such as a file of the import of `docs/90_markdown_migration.md`,
share it), so any number of memories may have the same time.

| Definition | Code |
|---|---|
| `Conditions`, `Found`, `Before` and `Orders`, `Page` | WHERE, HAVING, ORDER BY, LIMIT and OFFSET of `searchMessages` |
| `Count`, `Fetch`, `Decorate` | the COUNT with its early return, the SELECT of the page, `_getMessageRolesBatch` |
| `Search`, `NextPage`, `Leave` | the client: it asks for a first page, for the one behind a full page, and goes |
| `Hot` | `mode="hot"`; the score mixes emotions and age, so any `limit` live memories may be the first |
| `Summary`, `TopicStats`, `RoleStats`, `Usage` | `mode="stats"`: `getMessageStats`, `getTopicStats`, `getRoleStats` |

ORDER BY ends in `created_at` (`message_repo.py:249`, `:252`), so `Before` is no
total order.  `Orders` holds every list it allows, and each `Fetch` chooses one
anew: equal memories may stand in another order on the next page, so a memory
nobody touched may stand on no page, and another on two.

`unseen`, `lost`, `tied`, `late` and `saved` are history: the memories wanted
from the start and not shown yet, how often a wanted one left or moved, how
often an unseen one was among equals that the start of a page cut in two
(`Split`), how many came since the last COUNT, how many were
stored since the summary.  The two properties on pages bound what is missed by
these numbers: where no page cuts equals, `tied` is 0 and only changes count.
A content is one number, the rank its similarity and emotions give it.

One remark: HAVING compares `COUNT(DISTINCT r.name)` with the length of the
caller's list, so a list that names a role twice finds nothing.  `NoRepeat`
leaves such searches out of the two properties on pages.

### DropOrder.tla and Migration.tla

`DropOrder` is `migration_get_drop_order`: `Call` reads `pg_constraint` and
computes the degrees, `Take` moves one queued table to `sorted`, `Return`
answers or raises.  The queue is filled from unordered sets, so any queued table
may be next.

`Migration` is the owner's console.  `db` is what its next statement works on,
`saved` what is committed; they differ inside a transaction (`tx`) or a running
statement (`call`).  A table of the mapping has an old incarnation (`at`, `old`:
live, `_work` or dropped) and a new one (`made`, `rows`); `views` are the old
tables a view reads, `moved` the tables transfer has reported.  `ByOldName` and
`ByNewName` say which incarnation a name means.

| Action | Code |
|---|---|
| `Begin`, `Commit`, `Rollback`, `Disconnect`, `StatementFails` | the console and the server; `Undo` takes everything back but `setval` |
| `Evacuate`, `Ordered`, `EvacuateTable`, `SkipMissing`, `WorkTaken` | `migration_evacuate`: the order, then for each table its views and its name |
| `CreateTable` | the new DDL, by hand, parents first (external) |
| `Transfer`, `Ordered`, `TransferTable`, `TransferRefused` | `migration_transfer`: the reversed order, then for each table INSERT ... SELECT and `setval` |
| `Refused`, `Finish` | the exception of the drop order; the end of either procedure |
| `UnpackRows`, `UnpackSequence` | the two statements of `migrations/003_messages_emotion_unpack.sql` |
| `ServiceInsert` | the program, when it runs on a schema that is all old or all new |
| `DropWork` | the owner drops the `_work` tables at the end (external) |

Restrictions: a row is its id and is copied whole, columns and their mappings
are data, and the id column is among those both incarnations have, so transfer
never passes over a table for want of a common column (`transfer.sql:220`); the
runbook's BEGIN comes before the evacuation; new tables have no views; after
`DropWork` there is no second migration.

Two remarks.  `003:71` computes `setval(seq, 0)` for an empty table, which
PostgreSQL refuses; `migration_transfer` handles that case.  `sql_executor`
commits only what is not a SELECT, so a function with side effects called by
`SELECT` is reported as done and rolled back; the migration uses `CALL`.

## 4. Runs

Every run that passes explores its instance completely.

| Run | Instance | Shows |
|---|---|---|
| `memory_http` | two calls, 2 dates, 2 contents, one role, id lists `{}`, `{1}`, `{2}`, `{1,2}`; in stdio mode 3 remembers and 2 topics, in HTTP mode 2 remembers and one topic | under any interleaving and failure sessions, links, sources and forgotten messages are sound; one call at a time, what is compacted is live, of one topic and in no other compaction. Three messages are the least for two compactions of one source, two topics the least for sources that disagree, two calls meet at every lock |
| `memory_live` | two calls, 2 dates, 2 remembers, one topic, 2 roles; compactions of 1, links of `{1,2}` (`MCMemoryLive`) | `ActsAtomically` and, under statement fairness, `CallsReturn`: two links or two role names are what calls may take in opposite orders; two dates, since on one date the session's row keeps the remembers apart |
| `memory_race` | two calls, 3 remembers | violated, see below |
| `rulebook_http` | two calls, one path, 3 versions, 2 texts, 2 personas | the history has no hole, one persona, only grows; a retired path has no active rule unless one was set meanwhile; calls return. Two personas and a path not seeded let both calls create it |
| `rulebook_lock_race` | one call and the owner | violated, see below |
| `pool_http` | two sessions, two tool calls, one route, 1 connection, 3 pools | waiters are on open pools and are answered, service recovers, no pool is lost without overlap. Three pools let an older, a closing and a new one exist together |
| `pool_open_twice` | one session, one route | violated, see below |
| `authorization_http` | two requests, one client, two tokens, 2 failures, 2 seconds of lockout, lifetimes 1, 1, 1, 2, one overlap of a grant | the lockout is exact and ends; access stays renewable; a consent is worth one row, and one more for an overlap. Two requests can hold one row and both use it, and the bound is reached: with 1 in place of `1 + overlaps[g]` TLC finds two requests that load one code, both exchange it, and leave two refresh tokens. Two tokens let a token be reused after its row is gone and two grants exist; the lifetimes reach "live", "over" and "to be cleaned up" |
| `organize_http` | two calls, one message, two tags written four ways, 20 requests | answers are true unless calls are opposed, retagging empties its search in stdio mode, calls return. One message with two tags has two names to create and two link rows, enough for both deadlocks |
| `recall_http` | 3 memories, one topic, 2 contents, 2 filters, pages of 2, `min_occurrences` 1, 2 moments, one change of each kind during a walk | pages miss no more than left, moved or were split from their equals, `total` no more than came besides, statistics count no more than the summary and what was stored. Three memories in pages of two let a change before, on and behind the page move what follows, with a full page and one that is short or empty; two moments for three memories let two or all of them be equal, and others differ. Ties are needed in the bound: with `lost` alone TLC finds three memories of one moment, read two at a time, of which the second page repeats one and no page has another, though nobody changed anything. One filter joins a topic with a role, the other ranks by similarity |
| `migration_console` | 3 tables, 2 foreign keys, one row id, every schema, mapping and renaming | the service finds what it stored, numbering goes on, parents are filled first, nothing reads a `_work` table, the order is right. Two keys among three tables are a chain, a fork, a join, a circle, a doubled key, or a table referring to itself; the mapping may leave any of them out. One id tells an empty table from a filled one, and a next value that is free from one that is taken |
| `drop_order_doubled` | 2 tables, 2 foreign keys | violated, see below |

Bounds: `MaxRemember` and `MaxTopic` bound the calls that create rows,
`MaxVersion` the versions of a path, `MaxPool` the pools between two restarts,
`MaxId` the rows of a table, `MaxChange` what changes under one walk (and what is
stored under one statistics call), `MaxOverlap` the overlaps of a grant; all are
in guards or definitions and all are arbitrary in the proofs.  `SerialBounds` and
`OverlapBounds` belong to `MCMemoryStore` alone, `Few` to `MCMemoryLive`.  Deadlock is checked in every
run.  Symmetry (`MC*` modules) is used only in runs without liveness.  `TypeOK`
is checked in one run of each module.

### Disagreements

- `memory_race`: `message_repo.py:544` calls the overlap check the prevention of
  double compaction.  Check and insert are two statements at READ COMMITTED and
  nothing locks the sources, so two calls both pass the check and both commit.
  `SerialCompactionSuffices`, proved, is the condition under which the check
  does what it says; `StdioCompactsOnce` and `SerialCompactsOnce`, that a single
  call and the stdio server meet it.
- `rulebook_lock_race`: `docs/04_schema.md:448` says set and retire carry
  `WHERE is_editable = TRUE`.  The writes carry no such condition: a set that has
  read the rule before the owner locks it stores an editable version after it.
  `LocksHoldIfOwnerWaits`, proved, says that nothing else breaks the lock.
- `pool_open_twice`: `docs/09_transaction.md:254` says `open()` does nothing when
  the pool is initialised.  It always creates one and drops the old one, open.
- `drop_order_doubled`: `cre_func_migration_get_drop_order.sql:10` and `:130`
  keep the exception for circular references.  Each constraint raises the degree
  of its child (`:87`), but a child is in the list of its parent once (`:92-96`),
  so its degree stays above 0 when it has two keys to one parent.  No schema of
  the program has such a table today.  `OrderRight` says the rest holds.

A remark without a run: `docs/09_transaction.md:96` calls the search and the tag
change of organize indivisible.  They are one transaction, but at READ COMMITTED
two overlapping calls see each other's commits between their statements;
`AppliedUnlessOpposed` says what still holds.

### Fairness

- `MemoryStore`, `Organize`, `Rulebook`: strong fairness of each call's
  statements.  PostgreSQL queues lock waiters, and each call has a connection of
  its own.  Nothing obliges a call to arrive or to fail.
- `MemoryStore`, `Organize`: weak fairness of `DeadlockDetected`, since
  PostgreSQL aborts one of the transactions that wait in a circle.  Without it
  `CallsReturn` is violated; `statement_timeout`, which would break the circle
  too, is not relied on.
- `DbPool`: weak fairness of `CloseFinish` (`close()` has a timeout) and
  `Release` (`statement_timeout` ends transactions), strong fairness of `Grant`
  (psycopg serves its queue in order).  Sessions need not start or end.
- `Authorization`: the clock goes on.  No request has to arrive.
- `Recall`, `Migration`: none.  A reader waits for nobody, and nothing obliges
  the owner to finish a migration; their properties are about safety.

## 5. Proofs

All theorems hold for every value of the constants under the modules' named
assumptions: `BoundsAssumption` (bounds are numbers, id lists hold numbers),
`RulebookAssumption` (`MaxVersion >= 1`), `PoolAssumption` (a pool has a
connection, finite disjoint sets of requests), `LockoutAssumption` and
`ExpiryAssumption` (limits and lifetimes are positive, access tokens do not
outlive refresh tokens, as `oauth_repo.py:16-17` has it), `OrganizeAssumption`
(`Normal` maps names to tags or the blank name, requests are well formed and
search for a finite list of names),
`FiniteSchema` (finitely many tables and foreign keys), `IdBound`
(`MaxId >= 1`), `RecallAssumption` (page sizes are positive, ranks and moments
are numbers, filters are what `_validateParams` lets through).

| Module | Theorems | Argument |
|---|---|---|
| `MemoryStoreProofs` | `TypeCorrect`, `WellFounded`, `OneSession`, `Referential`, `Persistence`, `AllOrNothing`, `SerialSuffices`, `StdioCompactsOnce`, `SerialCompactsOnce`, `SerialCompactsSound`, `ImplementsMemory`, `DeadlockTakesTwo` | none of the invariants is inductive alone, they depend on what calls hold. `IInv` adds: the sources a call has checked stay stored (`SourcesStored`); the id it has drawn is its own and newer than them (`IdDrawn`, `MessageIds`); its session is stored or in its hands and of its date (`SessionFound`), and no two calls hold a session of one date (`SessionIds`, from the lock); what it will link exists (`LinksReady`, `RolesReady`). `SerialSuffices` carries `StillFree`: the sources of a call past its check are free as long as no other such call shares them. `SerialInv` is for stdio: one call is busy, so what `validateCompactSource` found still holds (`SourcesSound`). For the refinement and the deadlocks see below |
| `RulebookProofs` | `TypeCorrect`, `Contiguous`, `OnePersona`, `AppendsOnly`, `RetiresRule`, `LocksHoldIfOwnerWaits` | `Pending`: below the version a set is about to insert every version is stored, with its persona; an inserted key is free in the table and no other call has inserted it. `RetirePending`: the version a retire has read is there. `RetiresRule` is about steps: the version marked is the newest still, or a set came in between. `LockApart`: no set is under way for a constitutional rule, if the owner does not lock a path (`OwnerWaits`) for which one is |
| `DbPoolProofs` | `TypeCorrect`, `ShutIsTransient`, `WaitersServed`, `OverlapLoses` | the two invariants are inductive with the types; `OverlapLoses` carries, under `OneUser`, that the field is set just while a lifespan lasts and a closing lifespan has shut every pool (`FieldFollowsLife`), so `open()` never drops one |
| `AuthorizationProofs` | `TypeCorrect`, `LockoutCounts`, `RenewalLasts`, `MultiplyByOverlap` | `RenewalLasts` needs that tokens name one grant (`OneRowPerToken`), a held token still means the grant it meant when it was loaded (`HeldMatch`), access tokens are bounded by their lifetime (`AccessBound`) and a grant has one client (`GrantClient`). For `MultiplyByOverlap`, which nothing about the callers is assumed for, counting rows is not inductive: a request goes on with a row that is deleted, and two with one. `Stake` counts the rows of a grant no request is about to consume and the requests that are about to consume one (`StakesFew`): a load replaces a row by a request, unless another holds it already, which is an overlap; consuming replaces a request by a row; everything else only takes away. The rows are no more than what is at stake. It needs that a value names one row of a table (`RowsOnce`) and that a request knows the grant of its row (`TakersMatch`) |
| `OrganizeProofs` | `TypeCorrect`, `TrueAnswers`, `EmptiesItsSearch`, `DeadlockTakesTwo` | a link is only written to a tag that is stored or the call's own (`TagsFirst`). `Promise`: from the SELECT of the tags on, every link to add is stored, written or ahead; from the start of the DELETE on, every stored link to remove is deleted or ahead. Another call's commit breaks the promise only when it is opposed. `EmptiesItsSearch` adds that links belong to stored messages (`OnlyStored`) and that whatever a retagging call could still find when it searched is among its targets (`Caught`); a name that both searches and is removed is not blank, by counting, so its tag is in what the DELETE removes |
| `DropOrderProofs` | `TypeCorrect`, `OrderIsSafe`, `RefusalIsRight` | a table's degree is at least the number of its parents not sorted yet, whatever the multiplicities (`DegreeBound`), so a queued table has its parents sorted (`QueueReady`) and every sorted one comes after them (`ParentsBefore`). For the refusal, `CycleInv`: with single keys the degree is exact, so a table left over has a parent left over, and what is left is a cycle |
| `MigrationProofs` | `MigrationTypes`, `RowsSurvive`, `NumbersOn`, `WorkStaysUnread`, `FillsParentsFirst`, `CallsOrderSafely` | `Good` holds of both databases, `db` and `saved`, so whichever `Undo` returns to is sound; its core is `RowsKept`: a table moved has the stored rows in its new incarnation, one not moved has them all in its old one. `SavedBehind`: what is committed is never ahead of what is worked on, so `setval` by a rolled back transfer stays above the rows (`Numbered`). `Sorting`, `Evacuating` and `Transferring` carry the order through a call: the invariants of `DropOrder` hold of the embedded sort, a table left to evacuate comes before its parents, one left to transfer after them |
| `RecallProofs` | `TypeCorrect`, `PagesMissFew`, `TotalMissesFew`, `RolesMatch`, `StatsBounded` | with ties a memory has no place of its own, it may be anywhere among its equals. `Reach(m)` is how far down its equals go, `Within(r)` the unseen memories all of whose equals are in the first r places. `FewWithin`: with `offset` places read, `Within(r)` is at most `lost + tied` and the `r - offset` places not read. A page takes from it what it shows, what it cuts is in `tied`, and a change in which n memories leave or move brings at most n up. Nothing is behind a short page, and a place the COUNT did not see came since (`late`). Nothing is assumed of creation times. `StatsInv`: the live memories are at most those of the summary and those stored since |

**`MemoryStore` implements `Memory`** (`ImplementsMemory`).  `Init` maps to
`Init`, and each step to one step of `Memory` or to a stutter: `CommitMessage`
to `Save`, `CommitUpdate` to `Relink`, `Forget`, `Edit`, `CreateTopic`,
`CloseTopic` and `ReopenTopic` to the action of that name or to `Open` and
`Toggle`; every other statement writes private rows only (`Stutters`).  `IInv`
is not enough, since `Memory` bounds its ids: `RefineInv` adds that a drawn id
belongs to a remember that has started (`IdsInBounds`, by counting), that topics
are those created (`TopicsInBounds`) and that an update writes links of its own
topic (`OwnTopic`).  `Recall` takes `Memory` for its environment, and this is
what allows it to.

**Deadlocks** (`DeadlockTakesTwo` in `MemoryStoreProofs` and `OrganizeProofs`).
Each call takes what it locks in the order of its statements: session, topic
link, roles; or links, then links to delete; or tags, then links.  `LocksHeld`
is what it holds at each statement.  So a circle of waiting calls closes only
over rows that one statement takes in the caller's order (or an update's INSERT
and DELETE together), and takes two calls with two names, or two rows, each.
This is why two names and two rows are in the instances that check
`CallsReturn`.

Proved without a run of their own: `ShutOnlyWhileClosing`
of `DbPool`, `ShownRolesMatch` of `Recall`,
`SerialCompactionSuffices` of `MemoryStore`, `DeadlocksNeedTwo` of both modules
with deadlocks, `ConstitutionStays` under `OwnerWaits`; and
`SafeOrder` and `RefusesCycles` for `DropOrder` alone, which `migration_console`
checks together, embedded, as `OrderRight`.

Only model-checked: the liveness properties (`CallsReturn` in three modules,
`ServiceRecovers`, `WaitersAnswered`, `LockoutEnds`), which the prover does not
reach.

## 6. What is not modelled

- Protocols: set is one UPSERT of one row by its primary key in a transaction of
  its own, get and list are one SELECT.  There is no second statement, actor or
  piece of state to relate.
- The rule file codec: it converts text, and nothing in the program or its
  scripts calls it.  The audit script: a report.
- Of recall: the conditions on columns no command changes (speaker, project,
  date, source), the `created_at` window, `exclude_tags`, the tag statistics,
  the texts of dates and of `compact`.  The tags conditions are in `Organize`.
- `get` and `list` of rules and topics, GET of the PIN page, `get_client` and the
  bearer check: one SELECT each, they change nothing.
- `endSession`, the batch role link and the single-message tag functions:
  nothing in the program calls them.  `cleanupExpiredTokens` is not called
  either, but its statements are the owner's and are modelled (`Cleanup`).
- The scripts `migrations/002`, `004` and `005`: plain DDL.
- Validation of parameters: requests that are refused before they touch the
  database change nothing; the request sets hold what passes.  Texts, names,
  emotions, URIs, scopes and PKCE values are data no statement branches on.
