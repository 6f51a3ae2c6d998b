------------------------------ MODULE SessionGuard ------------------------------
(***************************************************************************)
(* A whole request: the guard get_current_user, which asks Redis and then  *)
(* PostgreSQL, in front of the routes, and the login, which writes to      *)
(* PostgreSQL and then to Redis.  Composes Accounts, for the rows, with    *)
(* Sessions, which TokenService implements, for the sessions.              *)
(***************************************************************************)
EXTENDS Accounts, Sequences

CONSTANTS
  MaxSessions,  \* REDIS_MAX_SESSIONS
  ExpiresIn,    \* Cognito's expires_in, in seconds
  MaxTime,      \* bound: the clock stops at this second
  MaxLogins     \* bound: number of logins that issue a token

ASSUME SessionConstants ==
  MaxSessions \in Nat \ {0} /\ ExpiresIn \in Nat \ {0} /\ MaxTime \in Nat /\ MaxLogins \in Nat

VARIABLES
  now, issued, pending, opened, granted, live, seen,  \* of Sessions
  guard,    \* where each request is in the guard, and whose token it presents
  mine,     \* the login whose token a request is about to store, or 0
  witness   \* history: since the request arrived, its session and its user
            \* have been valid at one moment

S == INSTANCE Sessions WITH Users <- Subs

Passage == [pc : {"out", "redis", "row", "route"}, login : 0 .. MaxLogins]
Out == [pc |-> "out", login |-> 0]

sessions == <<now, issued, pending, opened, granted, live, seen>>
gvars == <<vars, sessions, guard, mine, witness>>

GInit ==
  /\ Init
  /\ S!Init
  /\ guard = [r \in Requests |-> Out]
  /\ mine = [r \in Requests |-> 0]
  /\ witness = [r \in Requests |-> FALSE]

-----------------------------------------------------------------------------
(* Helper state functions. *)

Free(r) == req[r].pc = "idle" /\ guard[r].pc = "out"

(* The user whom the presented token names. *)
Actor(r) == issued[guard[r].login].sub

(* The session of the presented token is live and its user active. *)
Valid(r) ==
  /\ guard[r].pc # "out"
  /\ issued[guard[r].login] \in live
  /\ Active(Actor(r))

(* Every step is watched by the requests that are in the guard after it. *)
Observe ==
  witness' = [r \in Requests |->
                CASE guard'[r].pc \in {"redis", "row"} -> witness[r] \/ Valid(r)'
                  [] guard'[r].pc = "route" -> witness[r]
                  [] OTHER -> FALSE]

(* A request whose route has ended leaves. *)
Leaving(r) ==
  guard' = [guard EXCEPT ![r] = IF req'[r].pc = "idle" THEN Out ELSE @]

-----------------------------------------------------------------------------
(* Faulty variants of definitions below, none of them part of GSpec. *)

AdmittedIfExists(r) == Exists(Actor(r))

IssueBeforeCommit(r) ==
  /\ req[r].pc = "commit" /\ req[r].kind = "login" /\ mine[r] = 0
  /\ S!Issue(req[r].target)
  /\ mine' = [mine EXCEPT ![r] = Len(issued) + 1]
  /\ UNCHANGED <<vars, guard>>

AnswerAndKeep(r) ==
  /\ S!Grant(mine[r])
  /\ StoreToken(r)
  /\ UNCHANGED <<guard, mine>>

-----------------------------------------------------------------------------
(* get_current_user. *)

(* A device presents the token of its login; jwt.decode accepts it. *)
Arrive(r, n) ==
  /\ Free(r)
  /\ n \in granted /\ now <= issued[n].exp
  /\ guard' = [guard EXCEPT ![r] = [pc |-> "redis", login |-> n]]
  /\ UNCHANGED <<vars, sessions, mine>>

(* validate_token; 401 when there is no record. *)
FindSession(r) ==
  /\ guard[r].pc = "redis"
  /\ guard' = [guard EXCEPT ![r] = IF issued[@.login] \in live
                                   THEN [@ EXCEPT !.pc = "row"] ELSE Out]
  /\ UNCHANGED <<vars, sessions, mine>>

(* get_by_id with the deleted rows; 401 when the row is missing or deleted.*)
Admitted(r) == Active(Actor(r))

RejectUser(r) ==
  /\ guard[r].pc = "row" /\ ~Admitted(r)
  /\ guard' = [guard EXCEPT ![r] = Out]
  /\ UNCHANGED <<vars, sessions, mine>>

(* The row is active: the route runs, as a PATCH or a DELETE that is       *)
(* allowed to the role just read, or as one that changes no row.           *)
FindUser(r) ==
  /\ guard[r].pc = "row" /\ Admitted(r)
  /\ guard' = [guard EXCEPT ![r].pc = "route"]
  /\ \/ \E t \in Subs : \/ \E c \in Bodies : StartUpdate(r, Actor(r), t, c)
                        \/ StartDelete(r, Actor(r), t)
     \/ UNCHANGED vars
  /\ UNCHANGED <<sessions, mine>>

(* The route logout; nothing happens when the session has ended meanwhile. *)
Logout(r) ==
  /\ guard[r].pc = "route" /\ req[r].pc = "idle"
  /\ S!Close(guard[r].login)
  /\ guard' = [guard EXCEPT ![r] = Out]
  /\ UNCHANGED <<vars, mine>>

(* A route that changes nothing answers (validate, GET, 403, a logout that *)
(* came late), or the request fails in the guard.                          *)
Leave(r) ==
  /\ guard[r].pc # "out" /\ req[r].pc = "idle"
  /\ guard' = [guard EXCEPT ![r] = Out]
  /\ UNCHANGED <<vars, sessions, mine>>

-----------------------------------------------------------------------------
(* Statements on rows, of all routes; the sessions are left alone. *)

BeginLogin(r, s) ==
  /\ Free(r)
  /\ StartLogin(r, s)
  /\ UNCHANGED <<sessions, guard, mine>>

RowStep(r) ==
  /\ req[r].pc # "store"
  /\ Step(r)
  /\ Leaving(r)
  /\ UNCHANGED <<sessions, mine>>

-----------------------------------------------------------------------------
(* The end of a login: the JWT and store_token. *)

(* The row is committed; the JWT is signed for it. *)
IssueJwt(r) ==
  /\ req[r].pc = "store" /\ mine[r] = 0
  /\ S!Issue(req[r].target)
  /\ mine' = [mine EXCEPT ![r] = Len(issued) + 1]
  /\ UNCHANGED <<vars, guard>>

(* A command of store_token was applied; the login goes on or breaks off.  *)
GoesOn(r) ==
  \/ mine[r] \in pending' \cup opened' /\ UNCHANGED <<vars, mine>>
  \/ /\ mine[r] \notin pending' \cup opened'
     /\ Abort(r)
     /\ mine' = [mine EXCEPT ![r] = 0]

EvictSession(r) ==
  /\ \E t \in live : S!Evict(mine[r], t)
  /\ GoesOn(r)
  /\ UNCHANGED guard

OpenSession(r) ==
  /\ S!Open(mine[r])
  /\ GoesOn(r)
  /\ UNCHANGED guard

(* The login is answered. *)
AnswerLogin(r) ==
  /\ S!Grant(mine[r])
  /\ StoreToken(r)
  /\ mine' = [mine EXCEPT ![r] = 0]
  /\ UNCHANGED guard

(* A request that is past the guard, or a login, fails. *)
Break(r) ==
  /\ Abort(r)
  /\ IF mine[r] = 0 THEN UNCHANGED sessions ELSE S!GiveUp(mine[r])
  /\ mine' = [mine EXCEPT ![r] = 0]
  /\ guard' = [guard EXCEPT ![r] = Out]

-----------------------------------------------------------------------------
(* Redis and the clock. *)
Environment ==
  /\ (\E t \in live : S!Expire(t)) \/ S!Tick \/ S!Restart
  /\ UNCHANGED <<vars, guard, mine>>

Guarded(r) ==
  \/ \E n \in granted : Arrive(r, n)
  \/ FindSession(r)
  \/ RejectUser(r)
  \/ FindUser(r)
  \/ Logout(r)
  \/ Leave(r)

LoggingIn(r) ==
  \/ \E s \in Subs : BeginLogin(r, s)
  \/ IssueJwt(r)
  \/ EvictSession(r)
  \/ OpenSession(r)
  \/ AnswerLogin(r)

GNext ==
  /\ \/ \E r \in Requests : Guarded(r) \/ LoggingIn(r) \/ RowStep(r) \/ Break(r)
     \/ Environment
  /\ Observe

GSpec == GInit /\ [][GNext]_gvars

-----------------------------------------------------------------------------
(* Invariants. *)

(* Every variable has its type; a login that is about to store a token     *)
(* has committed its row.                                                  *)
GTypeOK ==
  /\ guard \in [Requests -> Passage]
  /\ mine \in [Requests -> 0 .. MaxLogins]
  /\ witness \in [Requests -> BOOLEAN]
  /\ \A r \in Requests : guard[r].pc # "out" => guard[r].login \in granted
  /\ \A r \in Requests : mine[r] # 0 =>
       req[r].pc = "store" /\ mine[r] \in pending \cup opened

(* The guard reads two stores one after the other, and either may change   *)
(* in between.  Yet a request that it lets pass had, at one moment since   *)
(* it arrived, a live session and an active user: no route serves a user   *)
(* whose deletion was committed, or a session that was ended, before the   *)
(* request arrived (get_current_user).                                     *)
PassedWhileValid ==
  \A r \in Requests : guard[r].pc = "route" => witness[r]

(* A session names a user whose row is committed, although the two are     *)
(* written to different stores and either write may fail                   *)
(* (AuthService.authenticate: commit, then _issue_jwt and store_token).    *)
SessionsHaveRows == \A t \in live : Exists(t.sub)

-----------------------------------------------------------------------------
(* Action properties. *)

(* A session begins only for a user who was not deleted when the login     *)
(* began, although the row was read, and committed, long before the record *)
(* is written and nothing looks at it again (AuthService.authenticate).    *)
SessionsBeginForUsers ==
  [][\A t \in live' \ live :
       \E r \in Requests : /\ mine[r] # 0 /\ issued[mine[r]] = t
                          /\ t.sub \notin req[r].gone]_gvars
=============================================================================
