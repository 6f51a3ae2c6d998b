--------------------------------- MODULE Worker ---------------------------------
(***************************************************************************)
(* One worker process and what its requests wait for: a connection of the  *)
(* pool, the lock of a row, Redis, PostgreSQL and Cognito; the health      *)
(* endpoint, which must answer when the others cannot; and the lifespan    *)
(* around them.  What the requests read and write is left to the other     *)
(* modules: here a route is the sequence of what it waits for.             *)
(***************************************************************************)
EXTENDS Naturals, Sequences, FiniteSets

CONSTANTS
  Requests,      \* request tasks that may be in flight at the same time
  Routes,        \* for each request, the routes that it may take
  Limit,         \* pool_size + max_overflow
  ProbeTimeout,  \* _DB_PROBE_TIMEOUT_SECONDS, in units of time
  NoOne,         \* nobody holds the lock
  Elsewhere      \* a transaction of another worker holds it

(* What each route waits for, in order.  "redis" is one call of            *)
(* TokenService; "write" the INSERT of a first login, which waits for the  *)
(* unique keys, or the UPDATE that flush or commit emits, all of them of   *)
(* one row, which is the worst case; "select" any statement that waits for *)
(* no other transaction, as the UPDATE of a row just inserted.  A PATCH    *)
(* of values that the row has already writes nothing; an empty one spares  *)
(* the SELECT before COMMIT, too.                                          *)
Guard == <<"redis", "select">>
Login == <<"cognito", "cognito", "select", "write", "commit", "select", "redis">>
Signup == <<"cognito", "cognito", "select", "select", "write", "select", "select",
            "commit", "select", "redis">>
Logout == Guard \o <<"redis">>
ListUsers == Guard \o <<"select", "select">>
GetUser == Guard \o <<"select">>
UpdateUser == Guard \o <<"select", "write", "select", "commit">>
UpdateNothing == Guard \o <<"select", "select", "commit">>
DeleteUser == Guard \o <<"select", "write", "select", "cognito", "commit">>
Health == <<"probe database", "probe redis">>

Script ==
  [login |-> Login, signup |-> Signup, validate |-> Guard, logout |-> Logout,
   list |-> ListUsers, get |-> GetUser, update |-> UpdateUser,
   unchanged |-> UpdateNothing, delete |-> DeleteUser, health |-> Health]

ASSUME RoutesAssumption == Routes \in [Requests -> SUBSET DOMAIN Script]
ASSUME LimitAssumption == Limit \in Nat \ {0}
ASSUME ProbeTimeoutAssumption == ProbeTimeout \in Nat \ {0}
ASSUME OwnersAssumption == {NoOne, Elsewhere} \cap Requests = {} /\ NoOne # Elsewhere

Statements == {"select", "write", "commit", "probe database"}
Stores == {"redis", "postgres"}

(* Local state of a request: its place in the script, or that its answer   *)
(* is decided and its session about to be closed.  ok: what the answer is, *)
(* or for health what it is so far.  age and since count the time since a  *)
(* health request arrived and until its current probe began.  History, for *)
(* health: reached, the stores that were not silent at some moment, and    *)
(* hindered: at some moment a store was silent, refused a command, or all  *)
(* connections were taken by other requests.                               *)
Times == 0 .. 2 * ProbeTimeout
Request == [route : DOMAIN Script \cup {"none"}, at : 0 .. 10,
            phase : {"idle", "run", "close"}, ok : BOOLEAN,
            age : Times, since : Times,
            reached : SUBSET Stores, hindered : BOOLEAN]
Idle == [route |-> "none", at |-> 0, phase |-> "idle", ok |-> TRUE,
         age |-> 0, since |-> 0, reached |-> {}, hindered |-> FALSE]

VARIABLES
  running,  \* the process is between init_redis and close_redis
  silent,   \* stores that accept commands and do not answer
  taken,    \* requests whose session has a connection
  row,      \* the owner of the row's lock
  req       \* local state of the requests

vars == <<running, silent, taken, row, req>>

Init ==
  /\ running = FALSE
  /\ silent = {}
  /\ taken = {}
  /\ row = NoOne
  /\ req = [r \in Requests |-> Idle]

-----------------------------------------------------------------------------
(* Helper state functions. *)

Busy(r) == req[r].phase # "idle"
Doing(r, op) == req[r].phase = "run" /\ Script[req[r].route][req[r].at] = op
Probing(r) == req[r].phase = "run" /\ req[r].route = "health"
AnswersTo(s) == s \notin silent

(* All connections are taken by other requests. *)
NoneFree(r) == Cardinality(taken \ {r}) >= Limit

(* A statement can be executed. *)
Reaches(r, op) == Doing(r, op) /\ r \in taken /\ AnswersTo("postgres")

(* A probe waits: for a connection, or for a store that is silent. *)
Waiting(r) ==
  \/ /\ Doing(r, "probe database")
     /\ IF r \in taken THEN ~AnswersTo("postgres") ELSE NoneFree(r)
  \/ Doing(r, "probe redis") /\ ~AnswersTo("redis")

TimedOut(r) == Waiting(r) /\ req[r].age - req[r].since >= ProbeTimeout

(* The request turns to what is next in its script, or has its answer. *)
After(q, good) ==
  LET last == q.at = Len(Script[q.route])
  IN [q EXCEPT !.ok = @ /\ good, !.since = q.age,
               !.at = IF last THEN 0 ELSE @ + 1,
               !.phase = IF last THEN "close" ELSE @]

Failed(q) == [q EXCEPT !.phase = "close", !.at = 0, !.ok = FALSE]

(* Every step is watched by the health requests that run after it: q is    *)
(* what the step has made of their local state.                            *)
Observed(r, q) ==
  IF q.phase = "run" /\ q.route = "health"
  THEN [q EXCEPT !.reached = @ \cup (Stores \ silent'),
                 !.hindered = \/ @ \/ silent' # {}
                              \/ Cardinality(taken' \ {r}) >= Limit]
  ELSE q

(* The step makes q of the local state of r. *)
Becomes(r, q) ==
  req' = [p \in Requests |-> Observed(p, IF p = r THEN q ELSE req[p])]

Unlocked(r) == IF row = r THEN NoOne ELSE row

(* A probe of the database that fails: a connection whose statement was    *)
(* cancelled is discarded; after a refusal the session may keep it.        *)
KeepsOrLoses(r) ==
  \/ Doing(r, "probe database") /\ taken' = taken \ {r}
  \/ ~(Doing(r, "probe database") /\ TimedOut(r)) /\ UNCHANGED taken

-----------------------------------------------------------------------------
(* Faulty variants of definitions below, none of them part of Spec. *)

(* An exception leaves the session open. *)
CloseUnlessFailed(r) ==
  /\ req[r].phase = "close"
  /\ r \in taken => AnswersTo("postgres")
  /\ taken' = IF req[r].ok THEN taken \ {r} ELSE taken
  /\ row' = Unlocked(r)
  /\ UNCHANGED <<running, silent>>
  /\ Becomes(r, Idle)

(* COMMIT is sent on a connection of its own, and the lock stays. *)
CommitLate(r) ==
  /\ Reaches(r, "commit")
  /\ taken' = taken \ {r}
  /\ UNCHANGED <<running, silent, row>>
  /\ Becomes(r, After(req[r], TRUE)) \/ Becomes(r, Failed(req[r]))

(* The except clause logs and no more. *)
LogProbeFailure(r) ==
  /\ \/ Reaches(r, "probe database")
     \/ Doing(r, "probe redis") /\ AnswersTo("redis")
     \/ TimedOut(r)
  /\ KeepsOrLoses(r)
  /\ UNCHANGED <<running, silent, row>>
  /\ Becomes(r, [After(req[r], FALSE) EXCEPT !.ok = TRUE])

(* No wait_for around the probes. *)
ProbeFailsUntimed(r) ==
  /\ \/ Reaches(r, "probe database")
     \/ Doing(r, "probe redis") /\ AnswersTo("redis")
  /\ KeepsOrLoses(r)
  /\ UNCHANGED <<running, silent, row>>
  /\ Becomes(r, After(req[r], FALSE))

-----------------------------------------------------------------------------
(* A request, step by step. *)

(* The dependencies are resolved: a session without a connection, the      *)
(* Redis client that init_redis made.                                      *)
Arrive(r, route) ==
  /\ running /\ ~Busy(r)
  /\ UNCHANGED <<running, silent, taken, row>>
  /\ Becomes(r, [Idle EXCEPT !.route = route, !.at = 1, !.phase = "run"])

(* The first statement of a transaction takes a connection off the pool. *)
Checkout(r) ==
  /\ \E op \in Statements : Doing(r, op)
  /\ r \notin taken /\ ~NoneFree(r)
  /\ taken' = taken \cup {r}
  /\ UNCHANGED <<running, silent, row>>
  /\ Becomes(r, req[r])

(* PoolTimeout: the pool's own, after which the request answers 500. *)
PoolTimeout(r) ==
  /\ \E op \in Statements \ {"probe database"} : Doing(r, op)
  /\ r \notin taken /\ NoneFree(r)
  /\ UNCHANGED <<running, silent, taken, row>>
  /\ Becomes(r, Failed(req[r]))

(* A statement that waits for no lock is executed, or fails, or what it    *)
(* found makes the guard or the service refuse the request.                *)
Select(r) ==
  /\ Reaches(r, "select")
  /\ UNCHANGED <<running, silent, taken, row>>
  /\ Becomes(r, After(req[r], TRUE)) \/ Becomes(r, Failed(req[r]))

(* INSERT or UPDATE waits for the row's lock and takes it, or fails. *)
Write(r) ==
  /\ Reaches(r, "write")
  /\ row = NoOne
  /\ UNCHANGED <<running, silent, taken>>
  /\ \/ row' = r /\ Becomes(r, After(req[r], TRUE))
     \/ UNCHANGED row /\ Becomes(r, Failed(req[r]))

(* COMMIT, or the rollback when it fails, releases the lock and puts the   *)
(* connection back into the pool.                                          *)
Commit(r) ==
  /\ Reaches(r, "commit")
  /\ row' = Unlocked(r)
  /\ taken' = taken \ {r}
  /\ UNCHANGED <<running, silent>>
  /\ Becomes(r, After(req[r], TRUE)) \/ Becomes(r, Failed(req[r]))

(* A call of TokenService: it answers; or 503 when Redis is out of reach,  *)
(* 401 from the guard when there is no session.                            *)
CallRedis(r) ==
  /\ Doing(r, "redis") /\ AnswersTo("redis")
  /\ UNCHANGED <<running, silent, taken, row>>
  /\ Becomes(r, After(req[r], TRUE)) \/ Becomes(r, Failed(req[r]))

(* A call of CognitoService: it answers, refuses, or times out. *)
CallCognito(r) ==
  /\ Doing(r, "cognito")
  /\ UNCHANGED <<running, silent, taken, row>>
  /\ Becomes(r, After(req[r], TRUE)) \/ Becomes(r, Failed(req[r]))

(* The response has been sent, or an exception has left the route: the     *)
(* session ends.  What was not committed is rolled back, the connection    *)
(* goes back to the pool.                                                  *)
Close(r) ==
  /\ req[r].phase = "close"
  /\ r \in taken => AnswersTo("postgres")
  /\ taken' = taken \ {r}
  /\ row' = Unlocked(r)
  /\ UNCHANGED <<running, silent>>
  /\ Becomes(r, Idle)

-----------------------------------------------------------------------------
(* health_check. *)

ProbeSucceeds(r) ==
  /\ \/ Reaches(r, "probe database")
     \/ Doing(r, "probe redis") /\ AnswersTo("redis")
  /\ UNCHANGED <<running, silent, taken, row>>
  /\ Becomes(r, After(req[r], TRUE))

(* The store refuses the probe, or wait_for cancels it: the answer will be *)
(* 503.                                                                    *)
ProbeFails(r) ==
  /\ \/ Reaches(r, "probe database")
     \/ Doing(r, "probe redis") /\ AnswersTo("redis")
     \/ TimedOut(r)
  /\ KeepsOrLoses(r)
  /\ UNCHANGED <<running, silent, row>>
  /\ Becomes(r, [After(req[r], FALSE) EXCEPT !.hindered = @ \/ ~TimedOut(r)])

-----------------------------------------------------------------------------
(* The environment. *)

(* Time passes only while every probe in flight waits. *)
Tick ==
  /\ \E r \in Requests : Probing(r)
  /\ \A r \in Requests : Probing(r) => Waiting(r) /\ ~TimedOut(r)
  /\ req' = [r \in Requests |-> IF Probing(r) THEN [req[r] EXCEPT !.age = @ + 1]
                                              ELSE req[r]]
  /\ UNCHANGED <<running, silent, taken, row>>

(* A store falls silent, or answers again. *)
StoreChanges ==
  /\ \E s \in Stores : silent' \in {silent \cup {s}, silent \ {s}} \ {silent}
  /\ UNCHANGED <<running, taken, row>>
  /\ req' = [r \in Requests |-> Observed(r, req[r])]

(* Another worker writes the row, and ends its transaction. *)
LockElsewhere ==
  /\ row = NoOne
  /\ row' = Elsewhere
  /\ UNCHANGED <<running, silent, taken, req>>

UnlockElsewhere ==
  /\ row = Elsewhere
  /\ row' = NoOne
  /\ UNCHANGED <<running, silent, taken, req>>

(* The lifespan: init_redis makes the client, which connects later; the    *)
(* server lets the requests in flight end before close_redis.              *)
StartUp ==
  /\ ~running
  /\ running' = TRUE
  /\ UNCHANGED <<silent, taken, row, req>>

ShutDown ==
  /\ running /\ \A r \in Requests : ~Busy(r)
  /\ running' = FALSE
  /\ UNCHANGED <<silent, taken, row, req>>

(* The process dies, and its connections with it. *)
Crash ==
  /\ running
  /\ running' = FALSE
  /\ taken' = {}
  /\ row' = IF row = Elsewhere THEN row ELSE NoOne
  /\ req' = [r \in Requests |-> Idle]
  /\ UNCHANGED silent

-----------------------------------------------------------------------------
(* What a request in flight does next; the pool's timeout is not counted   *)
(* on.                                                                     *)
Step(r) ==
  \/ Checkout(r)
  \/ Select(r)
  \/ Write(r)
  \/ Commit(r)
  \/ CallRedis(r)
  \/ CallCognito(r)
  \/ ProbeSucceeds(r)
  \/ ProbeFails(r)
  \/ Close(r)

Next ==
  \/ \E r \in Requests : \/ \E route \in Routes[r] : Arrive(r, route)
                         \/ Step(r)
                         \/ PoolTimeout(r)
  \/ Tick
  \/ StoreChanges \/ LockElsewhere \/ UnlockElsewhere
  \/ StartUp \/ ShutDown \/ Crash

Spec == Init /\ [][Next]_vars

(* A task that could go on again and again goes on: the event loop runs    *)
(* it, the pool and PostgreSQL serve their waiters in turn, the clock runs *)
(* while the probes wait, and transactions of other workers end.           *)
FairSpec ==
  /\ Spec
  /\ \A r \in Requests : SF_vars(Step(r))
  /\ SF_vars(Tick)
  /\ WF_vars(UnlockElsewhere)

-----------------------------------------------------------------------------
(* Invariants. *)

(* Every variable has its type.  At most Limit connections are taken, none *)
(* by a request that has ended, and the row is locked only through one.    *)
TypeOK ==
  /\ running \in BOOLEAN
  /\ silent \subseteq Stores
  /\ taken \subseteq {r \in Requests : Busy(r)} /\ Cardinality(taken) <= Limit
  /\ row \in taken \cup {NoOne, Elsewhere}
  /\ req \in [Requests -> Request]

(* "Responds with HTTP 200 when both the database and Redis are reachable  *)
(* and HTTP 503 if either is unreachable" (health.py:27), as far as it     *)
(* goes: 200 means that neither was silent throughout the request, 503     *)
(* that one was silent for a moment or refused its probe, or that other    *)
(* requests had all connections.                                           *)
HealthHonest ==
  \A r \in Requests :
    req[r].route = "health" /\ req[r].phase = "close" =>
      /\ req[r].ok => req[r].reached = Stores
      /\ ~req[r].ok => req[r].hindered

(* q has what r waits for: a connection, when none is left for r, or the   *)
(* lock of the row.                                                        *)
WaitsFor(r, q) ==
  \/ /\ \E op \in Statements : Doing(r, op)
     /\ r \notin taken /\ NoneFree(r) /\ q \in taken
  \/ Doing(r, "write") /\ r \in taken /\ row = q

(* Connections and row locks are waited for together, and a login takes a  *)
(* second connection after its COMMIT; still, two links on everybody waits *)
(* for a request that waits for no other: no request wants a connection    *)
(* while it owns the lock, and none wants the lock twice.                  *)
WaitsAreShort ==
  \A r, q, p, o \in Requests : WaitsFor(r, q) /\ WaitsFor(q, p) => ~WaitsFor(p, o)

-----------------------------------------------------------------------------
(* Liveness, under FairSpec. *)

(* The health endpoint answers although a store is silent for ever or      *)
(* other requests keep every connection (health.py:39 and :48).            *)
HealthAnswers == \A r \in Requests : Probing(r) ~> ~Probing(r)

(* However long a store was silent: once both answer again every request  *)
(* ends, without the help of the pool's timeout.  Requests keep            *)
(* connections and row locks during their calls of Redis and Cognito, and  *)
(* a login takes a second connection after its COMMIT, but nobody waits    *)
(* for a connection while holding what the owner of one waits for.         *)
RequestsEnd ==
  (\A s \in Stores : <>[]AnswersTo(s)) =>
    \A r \in Requests : Busy(r) ~> ~Busy(r)

-----------------------------------------------------------------------------
(* What the documents say and the code does not do. *)

(* "The endpoint responds within 5 seconds (including DB check timeout)"   *)
(* (001-project-scaffolding/functional-spec.md:75).                        *)
HealthWithinTimeout ==
  \A r \in Requests : req[r].route = "health" => req[r].age <= ProbeTimeout
=============================================================================
