----------------------------- MODULE TokenService -----------------------------
(***************************************************************************)
(* Application sessions in Redis: TokenService (store_token,               *)
(* _enforce_session_limit, validate_token, revoke_token) together with the *)
(* JWT that AuthService issues and the parts of the routes that call it.   *)
(*                                                                         *)
(* Every action between two awaits of the code is one action here, so one  *)
(* action is one Redis command.  Requests are the asyncio tasks serving    *)
(* HTTP requests, of one worker or of several: the code shares nothing     *)
(* between them but Redis.                                                 *)
(***************************************************************************)
EXTENDS Naturals, Sequences, FiniteSets

CONSTANTS
  Users,        \* user ids, the JWT's "sub"
  Requests,     \* request tasks that may be in flight at the same time
  MaxSessions,  \* REDIS_MAX_SESSIONS
  ExpiresIn,    \* Cognito's expires_in, in seconds
  MaxTime,      \* bound: the clock stops at this second
  MaxLogins,    \* bound: number of logins that reach store_token
  NoToken       \* "no hash in hand"

(* REDIS_MAX_SESSIONS is an unvalidated int; a value below 1 leaves the    *)
(* code evicting everything, as 1 does, and is not considered.             *)
ASSUME MaxSessionsAssumption == MaxSessions \in Nat \ {0}
ASSUME ExpiresInAssumption == ExpiresIn \in Nat \ {0}
ASSUME BoundsAssumption == MaxTime \in Nat /\ MaxLogins \in Nat
ASSUME FiniteRequests == IsFiniteSet(Requests)

-----------------------------------------------------------------------------
(* Data. *)

(* The claims of a JWT.  HS256 is deterministic and the claims are sub,    *)
(* email and exp in whole seconds (no jti, no iat), so two logins of one   *)
(* user in one second get the same string and the same SHA-256 hash: the   *)
(* claims stand for the token and for its hash.                            *)
Token == [sub : Users, exp : ExpiresIn .. (MaxTime + ExpiresIn)]

ASSUME NoTokenAssumption == NoToken \notin Token

(* Value of a "token:{hash}" key.  created_at is a microsecond stamp: the  *)
(* login's number in order of issue stands for it.  expires_at is the      *)
(* second in which the TTL runs out.                                       *)
Record == [created_at : 0 .. MaxLogins, expires_at : 0 .. (MaxTime + ExpiresIn)]
Absent == [created_at |-> 0, expires_at |-> 0]

(* An element of the list active_sessions. *)
Session == [hash : Token, created_at : 0 .. MaxLogins]

Pcs == {"idle", "smembers", "scan", "drop", "evict", "unlist", "sadd",
        "lookup", "delete", "srem"}

(* The local variables of a request: login is the number of the login it   *)
(* performs or whose token it presents, todo what is left of all_hashes,   *)
(* active what is kept of active_sessions, victims what is left of         *)
(* sessions_to_evict, cursor the hash of the current iteration.  added and *)
(* alive are history: the hashes of the user that other requests added     *)
(* since this one read the set, and the listed hashes that were live when  *)
(* it read the set.                                                        *)
Request == [pc : Pcs, login : 0 .. MaxLogins, todo : SUBSET Token,
            active : SUBSET Session, victims : SUBSET Session,
            cursor : Token \cup {NoToken},
            added : SUBSET Token, alive : SUBSET Token]

Idle == [pc |-> "idle", login |-> 0, todo |-> {}, active |-> {},
         victims |-> {}, cursor |-> NoToken, added |-> {}, alive |-> {}]

VARIABLES
  now,        \* the clock, in whole seconds
  tokens,     \* Redis: "token:{hash}"
  sessions,   \* Redis: "sessions:{user_id}"
  req,        \* local state of the requests
  issued,     \* history: the token of each login, in order of issue
  granted,    \* history: logins answered 200, whose device holds the token
  loggedOut   \* history: logins whose logout was answered 200

redis == <<tokens, sessions>>
history == <<issued, granted, loggedOut>>
vars == <<now, tokens, sessions, req, issued, granted, loggedOut>>

Init ==
  /\ now = 0
  /\ tokens = [t \in Token |-> Absent]
  /\ sessions = [u \in Users |-> {}]
  /\ req = [r \in Requests |-> Idle]
  /\ issued = <<>>
  /\ granted = {}
  /\ loggedOut = {}

-----------------------------------------------------------------------------
(* Helper state functions. *)

Live(t) == tokens[t] # Absent
Tok(r) == issued[req[r].login]
User(r) == Tok(r).sub

(* python-jose rejects a token when exp is less than the current second. *)
JwtValid(t) == now <= t.exp

(* Two logins got the same token. *)
Reissued(t) ==
  \E m, n \in 1 .. Len(issued) : m # n /\ issued[m] = t /\ issued[n] = t

(* A login that has read the session set and not yet added its own hash. *)
Storing(r) == req[r].pc \in {"scan", "drop", "evict", "unlist", "sadd"}

(* A Redis command was applied; its reply moves the request on, or is lost *)
(* and the request answers 503 (a connection error, or the worker dies).   *)
Answer(r, next) == \E q \in {next, Idle} : req' = [req EXCEPT ![r] = q]

-----------------------------------------------------------------------------
(* Faulty variants of definitions below, none of them part of Spec: each   *)
(* is a plausible bug that one of the properties rules out.                *)

JwtWithoutLifetime(u) == [sub |-> u, exp |-> now]

ReadSharedSessions(r) ==
  /\ req[r].pc = "smembers"
  /\ LET listed == UNION {sessions[u] : u \in Users}
     IN Answer(r, [req[r] EXCEPT !.pc = "scan", !.todo = listed,
                                 !.alive = {h \in listed : Live(h)}])
  /\ UNCHANGED <<now, redis, history>>

CountStale(r, h) ==
  /\ req[r].pc = "scan" /\ h \in req[r].todo /\ ~Live(h)
  /\ LET s == [hash |-> h, created_at |-> 0]
     IN Answer(r, [req[r] EXCEPT !.todo = @ \ {h}, !.active = @ \cup {s}])
  /\ UNCHANGED <<now, redis, history>>

EvictCountOffByOne(n) == IF n >= MaxSessions THEN n - MaxSessions ELSE 0

EvictCountHasty(n) == IF n + 1 >= MaxSessions THEN n - MaxSessions + 2 ELSE 0

NewestOf(active) ==
  {V \in SUBSET active :
     /\ Cardinality(V) = IF Cardinality(active) >= MaxSessions
                         THEN Cardinality(active) - MaxSessions + 1 ELSE 0
     /\ \A v \in V, w \in active \ V : v.created_at >= w.created_at}

EvictWithoutDelete(r) ==
  /\ req[r].pc = "evict"
  /\ \E v \in req[r].victims :
       Answer(r, [req[r] EXCEPT !.pc = "unlist", !.cursor = v.hash,
                                !.victims = @ \ {v}])
  /\ UNCHANGED <<now, redis, history>>

EvictSameVictim(r) ==
  /\ req[r].pc = "evict"
  /\ \E v \in req[r].victims :
       /\ tokens' = [tokens EXCEPT ![v.hash] = Absent]
       /\ Answer(r, [req[r] EXCEPT !.pc = "unlist", !.cursor = v.hash])
  /\ UNCHANGED <<now, sessions, history>>

KeepVictimListed(r) ==
  /\ req[r].pc = "unlist"
  /\ Answer(r, [req[r] EXCEPT !.pc = "evict", !.cursor = NoToken])
  /\ UNCHANGED <<now, redis, history>>

SetTokenShortTtl(r) ==
  /\ req[r].pc = "evict" /\ req[r].victims = {}
  /\ tokens' = [tokens EXCEPT ![Tok(r)] =
                  [created_at |-> req[r].login,
                   expires_at |-> now + ExpiresIn - 1]]
  /\ Answer(r, [req[r] EXCEPT !.pc = "sadd", !.alive = {}])
  /\ UNCHANGED <<now, sessions, history>>

RevokeWithoutDelete(r) ==
  /\ req[r].pc = "delete"
  /\ Answer(r, [req[r] EXCEPT !.pc = "srem"])
  /\ UNCHANGED <<now, redis, history>>

-----------------------------------------------------------------------------
(* Login: AuthService.authenticate from _issue_jwt on, and store_token. *)

(* Up to the first await of _enforce_session_limit nothing suspends, so    *)
(* exp and created_at are computed in one step.                            *)
Jwt(u) == [sub |-> u, exp |-> now + ExpiresIn]

IssueToken(r, u) ==
  /\ req[r].pc = "idle"
  /\ Len(issued) < MaxLogins
  /\ issued' = Append(issued, Jwt(u))
  /\ req' = [req EXCEPT ![r] = [Idle EXCEPT !.pc = "smembers",
                                            !.login = Len(issued) + 1]]
  /\ UNCHANGED <<now, redis, granted, loggedOut>>

(* SMEMBERS sessions:{user_id}. *)
ReadSessions(r) ==
  /\ req[r].pc = "smembers"
  /\ LET listed == sessions[User(r)]
     IN Answer(r, [req[r] EXCEPT !.pc = "scan", !.todo = listed,
                                 !.alive = {h \in listed : Live(h)}])
  /\ UNCHANGED <<now, redis, history>>

(* GET token:{hash} in the loop over all_hashes, in no particular order:   *)
(* the payload is there, the session is active.                            *)
ReadPayload(r, h) ==
  /\ req[r].pc = "scan" /\ h \in req[r].todo /\ Live(h)
  /\ LET s == [hash |-> h, created_at |-> tokens[h].created_at]
     IN Answer(r, [req[r] EXCEPT !.todo = @ \ {h}, !.active = @ \cup {s}])
  /\ UNCHANGED <<now, redis, history>>

(* The same GET finds nothing: the hash is stale. *)
MissPayload(r, h) ==
  /\ req[r].pc = "scan" /\ h \in req[r].todo /\ ~Live(h)
  /\ Answer(r, [req[r] EXCEPT !.pc = "drop", !.todo = @ \ {h}, !.cursor = h])
  /\ UNCHANGED <<now, redis, history>>

(* SREM of the stale hash. *)
DropStale(r) ==
  /\ req[r].pc = "drop"
  /\ sessions' = [sessions EXCEPT ![User(r)] = @ \ {req[r].cursor}]
  /\ Answer(r, [req[r] EXCEPT !.pc = "scan", !.cursor = NoToken])
  /\ UNCHANGED <<now, tokens, history>>

(* How many of n active sessions must go to make room for one more. *)
EvictCount(n) == IF n >= MaxSessions THEN n - MaxSessions + 1 ELSE 0

(* The sets that active_sessions[:evict_count] may be once sorted by age. *)
OldestOf(active) ==
  {V \in SUBSET active :
     /\ Cardinality(V) = EvictCount(Cardinality(active))
     /\ \A v \in V, w \in active \ V : v.created_at <= w.created_at}

(* The loop is over; sort and slice, a local step. *)
EnforceLimit(r) ==
  /\ req[r].pc = "scan" /\ req[r].todo = {}
  /\ \E V \in OldestOf(req[r].active) :
       req' = [req EXCEPT ![r].pc = "evict", ![r].victims = V,
                          ![r].active = @ \ V]
  /\ UNCHANGED <<now, redis, history>>

(* DEL token:{hash} of the next victim, oldest first. *)
EvictToken(r) ==
  /\ req[r].pc = "evict"
  /\ \E v \in req[r].victims :
       /\ \A w \in req[r].victims : v.created_at <= w.created_at
       /\ tokens' = [tokens EXCEPT ![v.hash] = Absent]
       /\ Answer(r, [req[r] EXCEPT !.pc = "unlist", !.cursor = v.hash,
                                   !.victims = @ \ {v}])
  /\ UNCHANGED <<now, sessions, history>>

(* SREM of the hash just deleted. *)
UnlistVictim(r) ==
  /\ req[r].pc = "unlist"
  /\ sessions' = [sessions EXCEPT ![User(r)] = @ \ {req[r].cursor}]
  /\ Answer(r, [req[r] EXCEPT !.pc = "evict", !.cursor = NoToken])
  /\ UNCHANGED <<now, tokens, history>>

(* SET token:{hash} payload EX ttl_seconds. *)
SetToken(r) ==
  /\ req[r].pc = "evict" /\ req[r].victims = {}
  /\ tokens' = [tokens EXCEPT ![Tok(r)] =
                  [created_at |-> req[r].login, expires_at |-> now + ExpiresIn]]
  /\ Answer(r, [req[r] EXCEPT !.pc = "sadd", !.alive = {}])
  /\ UNCHANGED <<now, sessions, history>>

(* SADD sessions:{user_id}; the login is answered 200 unless the reply to  *)
(* this command, or the response itself, is lost.                          *)
TrackToken(r) ==
  /\ req[r].pc = "sadd"
  /\ sessions' = [sessions EXCEPT ![User(r)] = @ \cup {Tok(r)}]
  /\ granted' \in {granted, granted \cup {req[r].login}}
  /\ req' = [q \in Requests |->
               IF q = r THEN Idle
               ELSE IF Storing(q) /\ User(q) = User(r)
                    THEN [req[q] EXCEPT !.added = @ \cup {Tok(r)}]
                    ELSE req[q]]
  /\ UNCHANGED <<now, tokens, issued, loggedOut>>

-----------------------------------------------------------------------------
(* Authenticated requests: get_current_user up to validate_token, and      *)
(* logout.                                                                 *)

(* A device presents the token of its login; jwt.decode accepts it. *)
Present(r, n) ==
  /\ req[r].pc = "idle"
  /\ n \in granted /\ JwtValid(issued[n])
  /\ req' = [req EXCEPT ![r] = [Idle EXCEPT !.pc = "lookup", !.login = n]]
  /\ UNCHANGED <<now, redis, history>>

(* GET token:{hash}.  Missing: 401.  Found: the request goes on, to logout *)
(* or to a route that leaves the session alone (or PostgreSQL's half of    *)
(* the guard rejects it).                                                  *)
Lookup(r) ==
  /\ req[r].pc = "lookup"
  /\ IF Live(Tok(r)) THEN Answer(r, [req[r] EXCEPT !.pc = "delete"])
                     ELSE req' = [req EXCEPT ![r] = Idle]
  /\ UNCHANGED <<now, redis, history>>

(* revoke_token: DEL token:{hash}. *)
RevokeDelete(r) ==
  /\ req[r].pc = "delete"
  /\ tokens' = [tokens EXCEPT ![Tok(r)] = Absent]
  /\ Answer(r, [req[r] EXCEPT !.pc = "srem"])
  /\ UNCHANGED <<now, sessions, history>>

(* revoke_token: SREM sessions:{user_id}; logout is answered 200. *)
RevokeUnlist(r) ==
  /\ req[r].pc = "srem"
  /\ sessions' = [sessions EXCEPT ![User(r)] = @ \ {Tok(r)}]
  /\ req' = [req EXCEPT ![r] = Idle]
  /\ loggedOut' \in {loggedOut, loggedOut \cup {req[r].login}}
  /\ UNCHANGED <<now, tokens, issued, granted>>

-----------------------------------------------------------------------------
(* The environment. *)

(* The command never reaches Redis (503), or the worker dies before it. *)
Fail(r) ==
  /\ req[r].pc # "idle"
  /\ req' = [req EXCEPT ![r] = Idle]
  /\ UNCHANGED <<now, redis, history>>

(* Redis drops a key somewhere in the second in which its TTL runs out. *)
Expire(t) ==
  /\ Live(t) /\ tokens[t].expires_at = now
  /\ tokens' = [tokens EXCEPT ![t] = Absent]
  /\ UNCHANGED <<now, sessions, req, history>>

(* The next second begins; no key due in the last one is left. *)
Tick ==
  /\ now < MaxTime
  /\ \A t \in Token : Live(t) => tokens[t].expires_at > now
  /\ now' = now + 1
  /\ UNCHANGED <<redis, req, history>>

(* Redis restarts empty (docker-compose.yml gives it no named volume).  A  *)
(* restart from an older snapshot, which would bring deleted keys back, is *)
(* not modelled.                                                           *)
RedisRestart ==
  /\ tokens' = [t \in Token |-> Absent]
  /\ sessions' = [u \in Users |-> {}]
  /\ UNCHANGED <<now, req, history>>

-----------------------------------------------------------------------------
(* The next awaited command of a request in flight. *)
Step(r) ==
  \/ ReadSessions(r)
  \/ \E h \in req[r].todo : ReadPayload(r, h) \/ MissPayload(r, h)
  \/ DropStale(r)
  \/ EnforceLimit(r)
  \/ EvictToken(r)
  \/ UnlistVictim(r)
  \/ SetToken(r)
  \/ TrackToken(r)
  \/ Lookup(r)
  \/ RevokeDelete(r)
  \/ RevokeUnlist(r)

Next ==
  \/ \E r \in Requests :
       \/ \E u \in Users : IssueToken(r, u)
       \/ \E n \in granted : Present(r, n)
       \/ Step(r)
       \/ Fail(r)
  \/ \E t \in Token : Expire(t)
  \/ Tick
  \/ RedisRestart

Spec == Init /\ [][Next]_vars

(* Redis answers, or the connection breaks: a command in flight ends. *)
FairSpec == Spec /\ \A r \in Requests : WF_vars(Step(r))

-----------------------------------------------------------------------------
(* Invariants. *)

(* Every variable has its type; what a request does is about a login that  *)
(* took place.                                                             *)
TypeOK ==
  /\ now \in 0 .. MaxTime
  /\ tokens \in [Token -> Record]
  /\ sessions \in [Users -> SUBSET Token]
  /\ req \in [Requests -> Request]
  /\ issued \in Seq(Token) /\ Len(issued) <= MaxLogins
  /\ granted \subseteq 1 .. Len(issued)
  /\ loggedOut \subseteq 1 .. Len(issued)
  /\ \A r \in Requests : req[r].pc # "idle" => req[r].login \in 1 .. Len(issued)

(* A session whose device was given the token and whose record is live is  *)
(* listed in its user's set, whatever logins, evictions, logouts and lost  *)
(* connections run at the same time: otherwise no later login could evict  *)
(* it.  (Class comment of TokenService; store_token writes in two steps.)  *)
GrantedTokensTracked ==
  \A n \in granted :
    LET t == issued[n]
    IN Live(t) /\ ~Reissued(t) => t \in sessions[t.sub]

(* After a logout was answered 200 the record is gone for good: no login   *)
(* or eviction in flight writes it back.  (revoke_token's comment.)        *)
LogoutEndsSession ==
  \A n \in loggedOut : Live(issued[n]) => Reissued(issued[n])

(* TTL never drops a record before the last second of its JWT: the record  *)
(* is written after exp was computed, however late.                        *)
RecordOutlivesToken ==
  \A t \in Token : Live(t) => tokens[t].expires_at >= t.exp

(* A login evicts only what the limit requires: when it read the set, as   *)
(* many listed sessions were live as it evicts and keeps, MaxSessions - 1  *)
(* of them kept.  Stale hashes do not count (token_service.py:113).        *)
EvictionJustified ==
  \A r \in Requests :
    /\ req[r].pc = "evict" /\ req[r].victims # {}
    /\ \A s \in req[r].active \cup req[r].victims : ~Reissued(s.hash)
    => Cardinality(req[r].alive) >= MaxSessions - 1 + Cardinality(req[r].victims)

(* "Next login will clean up": when a login is about to add its own hash,  *)
(* all that the set holds beyond MaxSessions - 1 hashes was added by other *)
(* logins since it read the set.                                           *)
RoomForOneMore ==
  \A r \in Requests :
    req[r].pc = "sadd" =>
      Cardinality(sessions[User(r)] \ req[r].added) < MaxSessions

(* "Could briefly exceed": the overshoot of the limit is at most one       *)
(* session per login that can run beside another one.                      *)
SessionSetBounded ==
  \A u \in Users :
    Cardinality(sessions[u]) <= MaxSessions + Cardinality(Requests) - 1

-----------------------------------------------------------------------------
(* Action properties. *)

(* An eviction that ends a live session leaves no older live session of    *)
(* the user behind, except one added since the login read the set.         *)
EvictsOldestFirst ==
  [][\A r \in Requests, t, h \in Token :
       /\ req[r].pc = "evict" /\ req'[r] # req[r]
       /\ Live(t) /\ ~Live(t)' /\ ~Reissued(t)
       /\ Live(h) /\ ~Reissued(h)
       /\ h \in sessions[User(r)] \ req[r].added
       => tokens[t].created_at <= tokens[h].created_at]_vars

(* At most as many steps as this are left of a request: SMEMBERS and what  *)
(* it may list, a GET, a DEL and an SREM for each hash, SET and SADD, and  *)
(* the sort; or the commands of a logout.                                  *)
Work(q) ==
  CASE q.pc = "smembers" -> 3 * (MaxSessions + Cardinality(Requests) - 1) + 4
    [] q.pc = "scan" -> 3 * Cardinality(q.todo) + 2 * Cardinality(q.active) + 3
    [] q.pc = "drop" -> 3 * Cardinality(q.todo) + 2 * Cardinality(q.active) + 4
    [] q.pc = "evict" -> 2 * Cardinality(q.victims) + 2
    [] q.pc = "unlist" -> 2 * Cardinality(q.victims) + 3
    [] q.pc = "sadd" -> 1
    [] q.pc = "lookup" -> 3
    [] q.pc = "delete" -> 2
    [] q.pc = "srem" -> 1
    [] q.pc = "idle" -> 0

(* The loops over all_hashes and sessions_to_evict come to an end, and     *)
(* soon: whatever other requests do to the set and the records, a request  *)
(* needs no more commands than its Work, which the limit bounds, and       *)
(* nobody adds to it.                                                      *)
WorkDescends ==
  [][\A r \in Requests :
       req[r].pc # "idle" =>
         \/ Work(req'[r]) < Work(req[r])
         \/ [req'[r] EXCEPT !.added = {}] = [req[r] EXCEPT !.added = {}]]_vars

(* A request of one user never ends or unlists a session of another. *)
UsersIsolated ==
  [][\A r \in Requests, t \in Token :
       req[r].pc # "idle" /\ req'[r] # req[r] /\ t.sub # User(r) =>
         /\ tokens'[t] = tokens[t]
         /\ t \in sessions[t.sub] => t \in sessions'[t.sub]]_vars

-----------------------------------------------------------------------------
(* Liveness, under FairSpec. *)

(* Every request in flight ends: the loops over all_hashes and             *)
(* sessions_to_evict terminate whatever other requests do to the keys.     *)
RequestsComplete ==
  \A r \in Requests : req[r].pc # "idle" ~> req[r].pc = "idle"

-----------------------------------------------------------------------------
(* What the documents say and the code does not do. *)

(* "Other active sessions for the same user continue to work" after a      *)
(* logout (004-redis-token-storage/functional-spec.md:62).                 *)
LogoutKeepsOtherSessions ==
  [][\A r \in Requests, n \in granted :
       /\ req[r].pc = "delete" /\ req'[r] # req[r] /\ n # req[r].login
       /\ Live(issued[n])
       => Live(issued[n])']_vars

(* "Each user's active session hashes are tracked in a Redis Set under     *)
(* sessions:{user_id}" (token_service.py:28).  Between SET and SADD of a   *)
(* login there is no saying: judged when every login that signed the token *)
(* has been answered with it.                                              *)
ActiveSessionsTracked ==
  \A n \in granted :
    /\ Live(issued[n])
    /\ \A m \in 1 .. Len(issued) : issued[m] = issued[n] => m \in granted
    => issued[n] \in sessions[issued[n].sub]
=============================================================================
