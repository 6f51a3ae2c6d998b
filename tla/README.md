# A verification development for python-cognito-auth

TLA+ modules that model the session and account logic of this service, TLC
configurations that check them on small instances, and TLAPS proofs of their
main properties for all values of the constants. Paths below are relative to
the repository; `app/` stands for `src/app/`.

## 1. The system

A FastAPI service. Users sign in through Amazon Cognito; the service keeps a
row per user in PostgreSQL and a record per session in Redis. It runs in one or
more asyncio workers that share nothing but the stores. There is no background
job: everything that happens, happens inside a request.

| component | state it keeps | operations |
|---|---|---|
| `TokenService` (`app/services/token_service.py`) | Redis `token:{sha256}` -> payload with TTL; Redis set `sessions:{user_id}` of hashes | `store_token` (with `_enforce_session_limit`), `validate_token`, `revoke_token` |
| `AuthService` (`app/services/auth_service.py`) | none | `authenticate`: Cognito, users table, JWT, `store_token` |
| `UserService` (`app/services/user_service.py`), `UserRepository` (`app/repositories/user_repository.py`) | `users` table | find by email or id, create, update OAuth columns, update, soft delete, list |
| `CognitoService` (`app/services/cognito_service.py`) | Cognito's own: enabled or disabled account | exchange code, user info, `admin_disable_user` |
| guard (`app/core/dependencies.py`) | none | `get_current_user`: JWT, then Redis, then users table; `require_role` |
| routes (`app/routers/`) | none | `/auth`, `/auth/login`, `/auth/validate`, `/auth/logout`, `/users`, `/users/{id}` |
| health endpoint (`app/routers/health.py`) | none | a probe of PostgreSQL, then one of Redis, each with a timeout of 5 s |
| Redis client (`app/core/redis.py`) | one client per worker, connecting when first used | opened and closed by the lifespan |
| database (`app/core/database.py`) | pool of 10 + 20 connections, a session per request | a connection is checked out by the first statement of a transaction, returned by its end |
| settings, schemas, error handlers, migrations | none at run time | |

How they interact. A login exchanges its code, reads the row of the address
that Cognito reports (or inserts one), commits the OAuth columns, signs a JWT
and stores it: the session limit is enforced first (`SMEMBERS`, a `GET` per
hash, `SREM` of stale ones, `DEL` and `SREM` of the oldest), then `SET` with a
TTL, then `SADD`. Every other request passes the guard: the JWT is decoded, its
record must be in Redis, its user's row must not be deleted. Logout is `DEL` and
`SREM`. A deletion marks the row (uncommitted), disables the account in
Cognito, and commits; it does not touch Redis.

What is hard. Each `await` lets other requests in, and no sequence of Redis
commands is a transaction. Checks of PostgreSQL rows take no lock, so what they
saw may be gone at the `UPDATE`. A reply may be lost after its command was
applied. A command may fail between the two that belong together. Redis may
restart empty (`docker-compose.yml` gives it no named volume). Cognito and
PostgreSQL are two stores that one request changes in turn, and Redis and
PostgreSQL two that the guard asks in turn. A request keeps its connection, and
after an `UPDATE` the lock of a row, while it waits for Redis or Cognito, and
neither the Redis client nor a lock wait has a timeout. The repository's tests mock both stores and run one request at a time, so none of this is
tested.

What makes each component correct:

- sessions: a live session is listed in its user's set, or no later login can
  count it; a logout is final; an eviction takes only what the limit demands,
  the oldest, and only of the same user; the limit is overshot by no more than
  the logins that run side by side, and the next login makes up for it; a record
  does not die before its JWT;
- accounts: a deletion is never undone by a write that started earlier; no
  update loses another's; only an admin changes what only an admin may; a
  deleted user's account is disabled and cannot sign in again, not even through
  another account with the same address; row locks and unique keys are never
  waited for in a circle;
- the guard: nobody passes whose session and whose row were not both valid at
  some moment since the request arrived; no session is without a row;
- the worker: whoever waits for a connection, a lock or a store gets on once the
  stores answer; the health endpoint answers even when they do not, and says of
  them only what it saw;
- all: every request ends.

The full list of hazards, each with its line and the properties about it, is
`hazards` in `PROJECT.json`.

## 2. Modules

| module | what it is |
|---|---|
| `TokenService` | Redis, the JWT, logins from the JWT on, the guard's Redis half, logout |
| `MCTokenService` | symmetry sets for TLC |
| `TokenServiceProofs` | theorems about `TokenService`: types, tracking, logout, lifetime, isolation |
| `TokenServiceCounting` | theorems about what a login counts and evicts |
| `TokenServiceBound` | the theorems that bound a user's session set and the commands of a request |
| `Sessions` | abstract specification: which sessions are live, and what may begin or end one |
| `TokenServiceSessions`, `MCTokenServiceSessions` | `TokenService` implements `Sessions` |
| `TokenServiceSessionsProofs` | the proof of it |
| `Accounts` | the users table, Cognito's enabled flag, logins up to the token, update, delete |
| `AccountsProofs` | theorems about `Accounts` |
| `Directory` | abstract specification: who may sign in, what a request may change and when |
| `AccountsDirectory` | `Accounts` implements `Directory` |
| `AccountsDirectoryProofs` | the proof of it |
| `MCAccounts` | addresses, bodies of PATCH requests and symmetry for TLC |
| `SessionGuard`, `MCSessionGuard` | whole requests: composes `Accounts` with `Sessions` |
| `SessionGuardProofs` | theorems about `SessionGuard` |
| `Worker`, `MCWorker` | one process: connections, locks, silent stores, health, lifespan |
| `WorkerProofs` | theorems about `Worker` |

`TokenService` --implements--> `Sessions` --used by--> `SessionGuard` --extends-->
`Accounts` --implements--> `Directory`. `Worker` stands beside them: it has what
requests wait for, and none of the data.

### TokenService

One action is one Redis command of one request (or a local step that the code
takes without `await`). The state:

| variable | code |
|---|---|
| `tokens` | `token:{hash}`; a record is `created_at` and the second its TTL ends |
| `sessions` | `sessions:{user_id}` |
| `req` | the locals of the requests in flight: `todo` what is left of `all_hashes`, `active` of `active_sessions`, `victims` of `sessions_to_evict`, `cursor` the hash of the current iteration |
| `now` | the clock in whole seconds, the resolution of `exp` and of `EX` |
| `issued`, `granted`, `loggedOut` | history: tokens in order of issue, logins answered 200, logouts answered 200 |

The claims stand for the token and for its hash: HS256 is deterministic and
the claims are `sub`, `email` and `exp` in whole seconds, so two logins of one
user in one second produce one string. This is what makes two of the
runs interesting; properties that are about a session of its own exclude such
pairs with `Reissued`.

`created_at`, an ISO string in microseconds, is the number of the login in
order of issue: it is only compared.

| action | code (`token_service.py` unless named) |
|---|---|
| `IssueToken` | `auth_service.py` 66-77, up to the first `await` of `store_token` |
| `ReadSessions` | `SMEMBERS`, 103 |
| `ReadPayload`, `MissPayload` | `GET` in the loop, 111: found, not found |
| `DropStale` | `SREM` of the stale hash, 115 |
| `EnforceLimit` | loop over; sort and slice, 122-125 |
| `EvictToken`, `UnlistVictim` | `DEL` 129, `SREM` 130 |
| `SetToken`, `TrackToken` | `SET` with `EX` 71, `SADD` 72; the login is answered |
| `Present`, `Lookup` | `dependencies.py` 65-91: the JWT is accepted; `GET`, 155 |
| `RevokeDelete`, `RevokeUnlist` | `revoke_token`, 191 and 192 |
| `Fail` | a command that never arrives (503), a worker that dies |
| `Expire`, `Tick` | TTL and time |
| `RedisRestart` | Redis restarts empty |

The TTL is counted from the `SET`, `exp` from the signing before it: a record may
outlive its token by as long as the login took (the token is refused by then),
never the other way round.

Each command's reply may be lost (`Answer`): the command is applied and the
request answers 503. The client is built by `from_url` without a retry policy,
so nothing is sent twice.

### Sessions and TokenServiceSessions

`Sessions` is what the rest of the service relies on: `live`, the tokens with a
record, and one step each for what begins or ends a session.

| action | what it promises | code |
|---|---|---|
| `Issue`, `Open`, `Grant`, `GiveUp` | a login signs one token, writes its record once, is answered after that, or breaks off | `authenticate` 66-83, `store_token` |
| `Evict` | a login ends a session of its own user only, and only when `MaxSessions` of that user's sessions have been live since it began | `_enforce_session_limit` |
| `Close` | a logout ends the session of the token it presented | `revoke_token` |
| `Expire` | no session expires before the last second of its JWT | the TTL |
| `Restart` | Redis comes back empty | `docker-compose.yml` |

That `Evict` is justified by sessions *seen since the login began*, not by those
live at the `DEL`, is the most the code can keep: it counts records read one
after the other, and the `DEL` comes later still. `seen` records them.

`TokenServiceSessions` adds `seen` to `TokenService` as a history variable and
maps the rest: `live` is the set of hashes with a record, `pending` the logins of
requests before their `SET`, `opened` those between `SET` and `SADD`. The sets
`sessions:{user_id}`, and with them every `SREM` and `SADD`, are hidden.

### Accounts

One action is one SQL statement, one Cognito call or the end of a transaction,
under READ COMMITTED: an `UPDATE` waits for the row's lock, an `INSERT` for an
uncommitted one with the same unique key. `db` holds the committed rows (role,
two profile columns that stand for the four, deleted or not), `lock` who has
updated a row and not committed, `disabled` the accounts disabled in Cognito,
`req` the locals of the requests: whose credentials, which row, `is_admin`, and
the dirty columns. A PATCH may name any subset of the columns but the status,
the role together with the profile or none at all (`Changes`); the constant
`Bodies` is the set of bodies that are sent, any subset of `Changes`. Values that
the row has already do not become dirty; `asked` is history and keeps the body.

| action | code |
|---|---|
| `StartLogin` | code exchange and user info, for an enabled account |
| `FindByEmail`, `NoUserFound` | `get_by_email`, active rows, address in any letter case |
| `CreateUser`, `CreateConflict` | `INSERT`, or its unique violation (500) |
| `StartUpdate` | the guard's read of the actor, and `update_user`'s checks |
| `StartDelete` | the guard and `require_role("admin")` |
| `FindById` | the target's row, 404 if missing or deleted; SQLAlchemy keeps the loaded values of the actor's own row |
| `Write` | the flush: an `UPDATE` of the dirty columns |
| `DisableAccount` | `admin_disable_user`, with the row locked |
| `Commit` | `COMMIT`; a login goes on to its token |
| `StoreToken` | the token is stored and the login answered |
| `Abort` | any failure; the session closes and rolls back |

A commit applies only the dirty columns to what is committed then, as
PostgreSQL does. `email` cannot be changed (403 for everybody), `id` and
`cognito_sub` never are, so the account names its row.

### Directory and AccountsDirectory

`Directory` is what the users table promises to the requests: an order is judged
by the rows as they are when it is placed, and carried out later, in one step.
`db` and `disabled` are those of `Accounts`; `order` is what each request has been
accepted for: a change of several columns, with `asked` the whole of it and
`values` what is left to be written. Statements, row locks and unique keys are
hidden.

| action | what it promises | code |
|---|---|---|
| `SignIn` | a login starts for an account that is not disabled; the rows deleted now are barred to it | code exchange and user info |
| `Recognise` | its token is for a row with its address that is not barred | `authenticate` 42-64, up to the commit |
| `Register` | or for a row that it adds, where none has its keys | `_create_new_user`, and the commit |
| `Place` | a change of any columns is ordered by an active admin, or of profile columns by a user for the own row | the guard, `update_user`'s checks, `require_role` |
| `Find` | the row is active; of the order only values that the row has at this moment may be left out (`Left`) | `get_by_id`, the dirty columns |
| `Disable` | an account is disabled for a deletion, which may still break off | `admin_disable_user` |
| `Apply` | all that is left of the order is carried out in one step, and no other column; a deletion after `Disable` | the commit |
| `Drop` | a request ends at any moment | answers, failures |

`Find` and `Apply` are two steps because the code promises no more: the row may
change, or be deleted, between the check and the commit (`Accounts_latechange`).
An order is judged when it is placed and not again: that its author is demoted
before the commit is accepted, as the code accepts it (a hazard without a
property). What an order may not do is reach the table in two steps, without a
value that the row did not have when it was looked at, or with a column that it
does not name.
`AccountsDirectory` maps the local state of a request to its order (`OrderOf`).

### SessionGuard

A whole request against both stores. It extends `Accounts`, whose actions are the
statements on rows, and has the variables of `Sessions` for the store of
sessions. `guard` is where a request is in the guard and whose token it presents,
`mine` the login whose token it is storing, `witness` history: since the request
arrived its session and its user have both been valid at one moment.

| action | code |
|---|---|
| `Arrive` | `dependencies.py` 65-84: the token is there and decodes |
| `FindSession` | `validate_token`, 90; 401 without a record |
| `FindUser`, `RejectUser` | `get_by_id`, 100: missing or deleted is 401; else the route runs, a `PATCH` or `DELETE` with the role just read, or one that changes no row |
| `Logout`, `Leave` | the route of logout; a route that changes nothing, or a failure |
| `BeginLogin`, `RowStep` | the statements of logins, updates and deletions (`Accounts`) |
| `IssueJwt` | `_issue_jwt`, after the commit of the row |
| `EvictSession`, `OpenSession`, `AnswerLogin` | `store_token` (`Sessions`), and the answer |
| `Break` | a failure anywhere |
| `Environment` | TTL, time, a restart of Redis |

### Worker

One process and what its requests wait for. A route is a script, the sequence of
what it awaits: `redis`, `cognito`, `select`, `write`, `commit`, and the two
probes. A first login (`signup`: role, `INSERT`, refresh, `UPDATE`) is a script
beside the login of a known user, a PATCH that changes no value (`unchanged`,
without a write) one beside the PATCH that does. `Routes` gives each request the
routes it may take. `taken` holds the requests with a connection, `row` the owner of one
row's lock (all writes meet in one row, the worst case), `silent` the stores that
accept commands and answer none.

| action | code |
|---|---|
| `Arrive` | `get_db`, `get_redis`: a session without connection, the lifespan's client |
| `Checkout`, `PoolTimeout` | the pool, `database.py` 37-48 |
| `Select`, `Write`, `Commit` | the statements of the services and repositories |
| `CallRedis`, `CallCognito` | `TokenService`, `CognitoService` |
| `Close` | the end of `get_db`: rollback, the connection goes back, on every path |
| `ProbeSucceeds`, `ProbeFails` | `health.py` 39-58, with `wait_for`; a cancelled probe discards its connection, after a refused one the session may keep it until `Close` (`KeepsOrLoses`) |
| `Tick` | time, counted only for probes, and only while all of them wait |
| `StoreChanges`, `LockElsewhere`, `UnlockElsewhere` | stores fall silent and answer again; other workers' transactions |
| `StartUp`, `ShutDown`, `Crash` | the lifespan, and a process that dies |

## 3. Runs

The `MC` modules only give constants their values: symmetry, addresses, bodies, routes. Symmetry permutes
requests (and users where both are alike) and is used in runs without liveness.

| run | instance | shows |
|---|---|---|
| `TokenService_limit2` | 1 user, 2 requests, limit 2, 3 logins, lifetime 2 s, 3 seconds | types; sessions tracked, logouts final, records outlive tokens, evictions justified, oldest first, room for one more; the loops of a request only get shorter; 424,829 states |
| `TokenService_users` | 2 users, 2 requests, limit 1, 3 logins, lifetime 1 s, 3 seconds | users isolated; overshoot bounded |
| `TokenServiceSessions` | 1 user, 2 requests, limit 2, 3 logins, lifetime 1 s, 2 seconds, fairness; 235,528 states | `TokenService` implements `Sessions`; every request ends |
| `Accounts_columns` | an admin, a user, 2 requests, two values of a profile column, PATCHes of no column, one, and two with the role; 803,768 states | types; no lost update, deletions permanent, changes authorised; `Accounts` implements `Directory` |
| `Accounts_shared` | 3 accounts, two with one address, 2 requests, a PATCH of both profile columns, fairness; 69,702 states | `Accounts` implements `Directory`; deleted users are disabled and stay out; nobody waits for a waiter; every request ends |
| `SessionGuard` | an admin, a user with two Cognito accounts of one address, 2 requests, limit 1, 2 logins, lifetime 1 s, 2 seconds; 3.2 million states | types; who passes the guard was valid at one moment; sessions have rows; a session begins only for a user not deleted when the login began |
| `Worker` | 3 requests (a first login; a deletion; a PATCH, one without effect, or health), a pool of 2, fairness; 69,004 states | types, pool and locks; whoever is waited for by a request that is waited for waits for nobody; health honest; health answers; every request ends once the stores answer |

Five runs end in a counterexample, each for a sentence of the documents or of a
docstring that the code does not keep (`findings` in `PROJECT.json`):

| run | sentence | what happens |
|---|---|---|
| `TokenService_logout` | other sessions keep working after a logout (spec 004, line 62) | two logins in one second share one token; one logout ends both |
| `TokenService_untracked` | active hashes are tracked in the set (`token_service.py` 27-28) | a logout of the first login does its `DEL`, a second login that got the same token its `SET` and `SADD`, and then the logout its `SREM`: both logins are answered, the session is live and in no set |
| `Accounts_latelogin` | after deletion the user cannot log in (spec 005, line 113) | a login that read the row before the deletion's commit gets its token |
| `Accounts_latechange` | updating or deleting a deleted user returns 404 (spec 005, lines 98 and 112) | the check is a read without lock; the `UPDATE` does not repeat it |
| `Worker_health` | the health endpoint responds within 5 seconds (spec 001, line 75) | the probes run one after the other, 5 s each: up to 10 |

Bounds, all constants: `MaxLogins` and `MaxTime` stop logins and the clock,
`Requests` is how many requests overlap. Two requests are enough for each
interleaving hazard: every one is about what a second request does between two
awaits of the first. Three logins at a limit of two give a full set, an eviction, a
survivor and a newcomer; at a limit of one, an overshoot that a third login has
to deal with. Three seconds with a lifetime of two give reissued tokens, stale
hashes and records that expire in the middle of a login. Three accounts, one
the admin, give two owners of one address and somebody to delete them, and in
`Directory` an `Alike` and a `Rivals` that are more than the account itself. The
bodies of `Accounts_columns` have columns that only an admin may change beside
one that anybody may, values of a new row and others, and two that share no
column, so that half an order, or a column carried over from another request's
row, would show. In
`TokenServiceSessions` a limit of two makes `seen` tell justified evictions from
hasty ones, and a lifetime of one second lets records expire under a login. In
`SessionGuard` two requests are the one in the guard and the one that logs it out,
evicts it or deletes its user; two logins at a limit of one give that eviction; two
accounts with one address let somebody sign in whose address has a deleted row. In
`Worker` a pool of two and three requests give two links of waiting: one request
waits for a connection of another, which waits for the lock of the third, or of a
foreign transaction. One request takes a connection and may never want the row;
the two others are the ways to meet in it, an `INSERT` and an `UPDATE`, one of them
with a Cognito call under the lock and one with a second connection after its
`COMMIT`. The other routes hold nothing while they wait that these do not hold
while they wait for the same; `Worker_health` has all of them. `ProbeTimeout` is one unit
of time, since the two probes have the same timeout and nothing else is timed.
Deadlock is checked in the `TokenService`, `SessionGuard` and `Worker` runs; in
the `Accounts` runs it is not, because once every account is deleted and disabled
nobody can do anything.

Fairness. `TokenService!FairSpec` has weak fairness on the next command of
each request: Redis answers, or the connection breaks and the request ends. It
asks nothing of the clock, of new requests or of failures. The client sets no
`socket_timeout`, so a Redis that accepts and never answers is outside of this
assumption; `Worker` is about that one. `TokenServiceSessions!HFairSpec` is the
same. `Accounts!FairSpec` has strong fairness on a request's next
statement: PostgreSQL grants a released lock to its waiters in turn, so a
request that could take its lock again and again takes it. That lock waits, with
a Cognito call inside, form no circle is not assumed: `NobodyWaitsForAWaiter` is
checked and proved. `Worker!FairSpec`
has strong fairness on a request's next step (the event loop, the pool and
PostgreSQL serve their waiters in turn) and on the clock, and weak fairness on
the end of other workers' transactions; `PoolTimeout` is under no fairness, so that
nothing rests on it. `HealthAnswers` asks nothing of the stores; `RequestsEnd` has
the premise that each store, from some moment on, answers.

## 4. Proofs

`TokenServiceProofs` proves, for any set of users, any finite set of requests,
any positive limit and lifetime and any bounds:

- `TypeCorrect`: `TypeOK` (inductive by itself);
- `GrantedTracked`: `GrantedTokensTracked`;
- `LogoutFinal`: `LogoutEndsSession`;
- `RecordLifetime`: `RecordOutlivesToken`;
- `Isolation`: the action property `UsersIsolated`.

The last four follow from one inductive invariant, `IInv`, because each alone
says too little about requests in the middle of their commands. A `SREM` is
harmless only if the hash is dead (`UnlistsDead`); it stays dead only if nobody
but its own login can write it, and that login has not been granted
(`LoginsApart`); a login can `SET` a record before `SADD` without leaving an
untracked session only because its token was never in a set nor in a local of
another request before (`UnknownUntilStored`, from `KnownIssued`);
`ExpiriesAhead` says that no token expires later than a lifetime from now, so
that a TTL counted from now reaches it. Steps that issue, grant and store
nothing and take only dead hashes off the sets share one lemma,
`QuietStepInv`; `IssueToken`, `SetToken`, `TrackToken`, `Present` and the
environment have their own. Each action has a `...Moves` lemma first that says
what it does to its request's locals.

`TokenServiceCounting` proves what `_enforce_session_limit` counts:
`EvictionsJustified` (`EvictionJustified`), `RoomMade` (`RoomForOneMore`) and
`OldestFirst` (the action property `EvictsOldestFirst`). All three follow from
`CInv`, which adds to `IInv` one formula for each login, `CountOK`. While a login
counts and evicts, each session is counted once (`CountedOnce`); was live when the
set was read and has the age it has now (`CountedTruly`), because nobody rewrites
the record of a session that somebody else knows (`HeldRecords`); and every hash in
the set is still to be read, counted, about to be unlisted, or was added by another
login since (`NoneForgotten`). Before the choice, what is still to be read was live
when the set was read or is dead (`ToCount`); after it, victims and kept sessions
are apart, the victims the older ones, and fewer than `MaxSessions` are kept
(`Chosen`). Counting sessions is counting hashes (`CountedByHash`, `HashesCounted`),
of which a user has finitely many because they differ in `exp` (`TokensOfUser`).
A login that does nothing keeps its formula (`CountStays`): others take hashes off
the set, or add them to it and to the login's `added`.

`TokenServiceBound` proves `SetBounded` (`SessionSetBounded`). The size of the set
says nothing about its next size; the order in which the logins under way have read
it does. `HasBound` says that there is such an order, `before`, and a set `K` of the
logins that read before the last reader that has added its hash: the set and `K`
together are within the bound, and a login that is not in `K` has seen added, since
it read the set, at most as many hashes as there are other requests, less those
that read before it and are still to add. When such a login adds, its `before`
becomes `K`. The three lemmas `BoundFewer`, `BoundReader` and `BoundAdder` are about
sets alone; the steps of the code are reduced to them.

The same module proves `LoopsDescend` (`WorkDescends`): each step of a request makes
its `Work` smaller, and no step of another request makes it larger. `Work` at the
`SMEMBERS` is a number made of the limit and of how many requests there are, because
`SetBounded` says how many hashes the command may return; after it the lists `todo`
and `victims` only get shorter. The victims are among the counted sessions, which
pay for the eviction loop in advance.

`AccountsProofs` proves, for any accounts with any addresses (shared, or equal
but for letter case), any admins, profile values and requests, and any set of PATCH
bodies:

- `TypeCorrect`: `TypeOK`, above all that a row stays a whole row whatever
  columns the UPDATEs name;
- `DeletedDisabled`: `DeletedIsDisabled`;
- `NoReturn`: `NoLoginAfterDeletion`;
- `DeletionStays`, `AskedOnly`, `Authorised`: the action properties
  `DeletionIsPermanent`, `OnlyAskedColumnsChange`, `ChangesAreAuthorised`.

Here not even `TypeOK` is inductive alone: a commit yields a row only if the row
that it updates is there. `IInv` adds, for each request, which steps belong to
its kind (`Shaped`), what it may write (`Allowed`: a login nothing, a deletion
only the deleted status, a caller without the role only profile columns of the
own row, each with the value asked for), that
its row exists unless it inserts it (`Found`), that a deletion about to commit
has disabled the account (`DisabledFirst`), and that a login is not about a row
deleted before it started (`Fresh`). `InsertsApart`, the unique constraints,
makes the insert of a pending row meet no committed one, so that a commit never
replaces a row (`CommitRows`). `Commit` is the only action that changes `db`;
what it leaves of a row's status is a lemma of its own (`CommitStatus`), and all
actions but `Commit` and `CreateUser` share `QuietStepInv`. The row locks are
needed for none of this: safety rests on UPDATEs that name only dirty columns
and on the unique keys.

`WaitsEnd` (`NobodyWaitsForAWaiter`) is about the locks. A request waits for the
lock of the row that it is to update, or for an uncommitted row with the keys of
the one it is to insert. `LInv` adds to `IInv` that a lock is held by a request
past its `UPDATE` and for its own row (`LocksOfWriters`). The case that this leaves
is a login with an inserted row whose `UPDATE` of that row would wait
(`InserterNeverWaits`): a lock on a row that is not committed can only be its own.

`AccountsDirectoryProofs` proves `DirectoryImplemented`: `Spec => ImplementsDirectory`,
for the same constants. Each action has its `...Implements` lemma, which maps it to
one step of `Directory` or to none. `DInv` adds to `IInv` that the local state says
what the order says (`Faithful`): a login works on a row with its own address, adds
none but its own, and a deletion keeps the column it is about. An order names any
columns; that dropping the values which the row has leaves an order that
`Directory` allows is `LeftOver`, used by the two reads that do so
(`StartUpdateImplements`, `FindByIdImplements`). The steps that need the invariant
are the commits. A commit of an insert is `Register` because
`InsertsApart` keeps rivals away; one of an update is `Apply` because the row
was found, still is there (`Found`), and, for a deletion, has its account disabled
(`DisabledFirst`).

`SessionGuardProofs` proves, for any accounts, admins and requests, any limit
and lifetime and any bounds:

- `GuardImplementsAccounts`: every behaviour of `SessionGuard` is one of
  `Accounts`. Steps of the guard, of Redis and of the clock are stutters there, the
  others are its actions; so the theorems of `AccountsProofs` hold behind the guard;
- `GuardTypeCorrect`: `GTypeOK`;
- `PassingIsJustified`: `PassedWhileValid`;
- `LiveHaveRows`: `SessionsHaveRows`;
- `BeginForUsers`: the action property `SessionsBeginForUsers`;
- `GuardImplementsSessions`: every behaviour is one of `Sessions`, so nothing that a
  request does between the two stores asks more of the session store than what
  `TokenService` is proved to implement;
- `GuardImplementsDirectory`: every behaviour is one of `Directory`, by
  `GuardImplementsAccounts` and `DirectoryImplemented`.

The invariant `GInv` adds to `IInv` of `Accounts` what relates the two stores. The
heart is `Seen`: a request that has found its session and not yet its row either
has its witness already, or its user is not active now. It holds because the row
of a live session exists (`SessionsHaveRows`), because a row once deleted stays
deleted (`DeletionIsPermanent`, from `AccountsProofs`), and because `FindSession`
and `FindUser` are each watched: if the user was active when the session was
found, that was the moment; if not, no later read finds the row active. For
`SessionsHaveRows` each token that was ever signed names a committed row
(`TokensHaveRows`): a login that signs has committed its row (`Stored`), and rows
are never removed. `SessionsBeginForUsers` needs besides that the token a login is
about to store names the row it committed (`OwnTokens`), which no failure between
the two stores may upset.

`TokenServiceSessionsProofs` proves `Refinement`: `TokenServiceSessions` implements
`Sessions` (`ImplementsSessions`), for any users, requests, limit, lifetime and
bounds. `HInv` adds two parts to `IInv` of `TokenServiceProofs`. `SeenOK` says what
the history variable means: a pending login has seen every live session of its
user, and nothing of others. `CountsOK` follows the counting: while a login reads
payloads, what it has counted are sessions it has seen, each once, and none that
it still has to read; once it has chosen victims it has seen as many sessions as
the limit. The step between the two is `CountsChosen`: the counted sessions map
one to one into the seen ones (`CountedSeen`), which are finitely many because the
tokens of one user differ in `exp` (`TokensOfUser`). The seen set only grows while
the login is pending, so the fact survives until the `DEL`. Then each action has
its `...Maps` lemma: a command with its reply is a step of `Sessions` or a stutter,
a lost reply in between is `GiveUp`, and that `Evict` and `Close` hit the right
session comes from `KnownIssued` and `PresentedGranted`.

The assumptions used are the named ones at the head of the modules; TLC
evaluates them in every run.

`WorkerProofs` proves, for any requests, routes, pool limit and time for a probe:

- `WorkerTypeCorrect` (`TypeOK`): the pool's limit, no connection for a request
  that has ended, no lock without a connection, the bounds on the probes' time;
- `HealthIsHonest` (`HealthHonest`).

Its `IInv` is `PoolOK` (the pool, and no lock in the hands of a health request),
and of each request `Good` and `Watching`. `HealthHonest` alone is not inductive: a
step must know that a request is inside its script (`Placed`), that a probe in
flight has used no more than its time (`Aged`), what the answer found so far stands
for (`Honest`), and that a health request in flight has seen the present state of
the stores and of the pool (`Watching`). The last is what makes a cancelled probe
count: it waited, so something was silent or the pool was empty, so it has been
seen. Since a step of one request is watched by all others, `ObservedGood` says
what that does to a local state, and `StepInv` reduces each action to what it does
to the request that moves.

`ShortWaits` (`WaitsAreShort`) excludes deadlock in the process: a request waits for
a connection that others keep, or for the row's lock. No script writes twice
(`OneWrite`), and the owner of the lock has done its write (`Past`, `OwnerPast`), so
it never wants the lock again; and it has a connection as long as it owns the
lock (`PoolOK`), so it never waits for one. Whoever keeps a connection waits at
most for the owner, and the owner for nobody.

Only model-checked: `RequestsComplete` of `TokenServiceSessions`, `RequestsComplete` of
`Accounts`, `HealthAnswers` and `RequestsEnd`. They are liveness under fairness, and
fairness is about ENABLED, which this prover does not handle. What they rest on is
proved: the loops over hashes get shorter with each command (`LoopsDescend`), and
no wait is part of a circle (`WaitsEnd`, `ShortWaits`). Induction over data, out of
reach as well, was not needed: no definition is recursive.

## 5. Not modelled

- What GET routes answer, pagination and `list_users`: no state changes (their
  statements are in `Worker`); count and page are two statements without `ORDER
  BY`, listed as a hazard.
- Formats (E.164, URLs), answer schemas, error texts and exact statuses, CORS,
  settings, logging, migrations. Every failure ends its request; that
  `BotoCoreError` is not turned into the documented 502, or that a pool timeout is
  answered in plain text, is not visible in the models.
- The pool's `pool_pre_ping`, and `pool_size` as distinct from `max_overflow`:
  `Limit` is their sum. A cancelled probe of PostgreSQL closes its connection at
  once; `asyncpg` may take up to two more seconds for it.
- A crash of PostgreSQL, beyond failing statements; it drops locks, as `Close`
  does.
- Redis restarts from an older snapshot, which would bring back revoked tokens.
- Specification 004, line 54, says that PostgreSQL is not queried during
  validation. The code does query it (`dependencies.py` 100), and `SessionGuard`
  does as the code.

## 6. Plan

Done, in this order:

1. `TokenService`, its runs; `TokenServiceProofs`: types, the inductive
   invariant, the safety invariants that do not count.
2. `Accounts`, its runs; `AccountsProofs`: types, deletions, columns, authorisation.
3. `Sessions` and the refinement; `SessionGuard`, which builds on both, and
   `SessionGuardProofs`.
4. `Worker`: pool, locks, silent stores, health, lifespan.
5. `TokenServiceSessionsProofs`: the refinement; `TokenServiceCounting` and
   `TokenServiceBound`: the invariants that count.
6. `WorkerProofs`: the invariants of `Worker`.
7. `Directory` and `AccountsDirectoryProofs`: what the users table promises, and
   that `Accounts`, and with it `SessionGuard`, keeps it.
8. What liveness rests on: waits without circles, loops that get shorter; sessions
   that begin only for users not deleted.

Left:

9. One measure for the steps of a whole request of `SessionGuard`, through the guard,
   the statements and the session store.
10. Pure operators for the update policy's format checks and the error mapping, if
   a property about them is found that a unit test would not reach.
