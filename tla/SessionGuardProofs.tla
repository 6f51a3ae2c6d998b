---------------------------- MODULE SessionGuardProofs ----------------------------
(***************************************************************************)
(* Proofs about SessionGuard, for all values of its constants.  What they  *)
(* need to know of the rows comes from AccountsProofs.                     *)
(***************************************************************************)
EXTENDS SessionGuard, AccountsDirectoryProofs

USE SessionConstants

-----------------------------------------------------------------------------
(* Rows: no step takes an existing or a deleted one back. *)

LEMMA RowsPersist == IInv /\ [Next]_vars => RowsStay
<1> SUFFICES ASSUME IInv, [Next]_vars PROVE RowsStay
  OBVIOUS
<1>1. disabled \subseteq disabled'
  BY DEF Next, Step, vars, StartLogin, StartUpdate, StartDelete, FindByEmail,
         NoUserFound, CreateUser, CreateConflict, FindById, Write, DisableAccount,
         StoreToken, Abort, Commit
<1>2. CASE db' = db
  BY <1>1, <1>2 DEF RowsStay, Deleted, Exists
<1>3. CASE \E r \in Requests : Commit(r)
  BY <1>1, <1>3, CommitStatus DEF RowsStay
<1>4. QED
  BY <1>2, <1>3, OnlyCommitWrites

(* A login comes to its token by a commit of its row. *)
LEMMA StoreFromCommit ==
  ASSUME IInv, [Next]_vars, NEW r \in Requests, req'[r].pc = "store"
  PROVE  \/ req'[r] = req[r]
         \/ Commit(r) /\ req'[r].target = req[r].target
<1>1. TypeOK
  BY DEF IInv
<1>2. CASE UNCHANGED vars
  BY <1>2 DEF vars
<1>3. ASSUME NEW q \in Requests,
             (\E s \in Subs : StartLogin(q, s)) \/ FindByEmail(q) \/ NoUserFound(q)
      PROVE  req'[r] = req[r]
  BY <1>1, <1>3, StartLoginMoves, FindByEmailMoves, NoUserFoundMoves
  DEF Others, Fields, Changed
<1>4. ASSUME NEW q \in Requests, NEW a \in Subs, NEW t \in Subs, NEW c \in Bodies,
             StartUpdate(q, a, t, c)
      PROVE  req'[r] = req[r]
  BY <1>1, <1>4, StartUpdateMoves DEF Others, Fields
<1>5. ASSUME NEW q \in Requests, NEW a \in Subs, NEW t \in Subs, StartDelete(q, a, t)
      PROVE  req'[r] = req[r]
  BY <1>1, <1>5, StartDeleteMoves DEF Others, Fields
<1>6. ASSUME NEW q \in Requests, CreateUser(q) \/ Write(q) \/ DisableAccount(q)
      PROVE  req'[r] = req[r]
  BY <1>1, <1>6, CreateUserMoves, WriteMoves, DisableAccountMoves, IdleType
  DEF Others, Fields, Changed
<1>7. ASSUME NEW q \in Requests, FindById(q) PROVE req'[r] = req[r]
  BY <1>1, <1>7, FindByIdMoves, IdleType DEF Others, Fields, Changed
<1>8. ASSUME NEW q \in Requests, CreateConflict(q) \/ StoreToken(q) \/ Abort(q)
      PROVE  req'[r] = req[r]
  BY <1>1, <1>8, EndMoves, IdleType DEF Others
<1>9. ASSUME NEW q \in Requests, Commit(q)
      PROVE  req'[r] = req[r] \/ (Commit(r) /\ req'[r].target = req[r].target)
  BY <1>1, <1>9, CommitMoves, IdleType DEF Others, Fields, Changed
<1>10. QED
  BY <1>2, <1>3, <1>4, <1>5, <1>6, <1>7, <1>8, <1>9 DEF Next, Step

(* The row of a login that has committed it is there. *)
Stored == \A r \in Requests : req[r].pc = "store" => Exists(req[r].target)

LEMMA StoredStays == IInv /\ Stored /\ [Next]_vars => Stored'
<1> SUFFICES ASSUME IInv, Stored, [Next]_vars, NEW r \in Requests, req'[r].pc = "store"
             PROVE  Exists(req[r].target)'
  BY DEF Stored
<1>1. RowsStay
  BY RowsPersist
<1>2. CASE req'[r] = req[r]
  <2>1. Exists(req[r].target) /\ req[r].target \in Subs
    BY <1>2 DEF Stored, IInv, Known, Shaped
  <2>2. QED
    BY <1>1, <1>2, <2>1 DEF RowsStay
<1>3. CASE Commit(r) /\ req'[r].target = req[r].target
  <2>1. db'[req[r].target] \in Row
    BY <1>3, CommitRows, RowType
  <2>2. QED
    BY <1>3, <2>1, NoRowAssumption DEF Exists
<1>4. QED
  BY <1>2, <1>3, StoreFromCommit

LEMMA OthersStay ==
  ASSUME TypeOK, NEW r \in Requests,
         \/ \E s \in Subs : StartLogin(r, s)
         \/ \E a, t \in Subs : \/ \E c \in Bodies : StartUpdate(r, a, t, c)
                               \/ StartDelete(r, a, t)
         \/ Step(r)
         \/ Abort(r)
  PROVE  Others(r)
<1>1. CASE (\E s \in Subs : StartLogin(r, s)) \/ FindByEmail(r) \/ NoUserFound(r)
  BY <1>1, StartLoginMoves, FindByEmailMoves, NoUserFoundMoves
<1>2. CASE \E a, t \in Subs : \/ \E c \in Bodies : StartUpdate(r, a, t, c)
                              \/ StartDelete(r, a, t)
  BY <1>2, StartUpdateMoves, StartDeleteMoves
<1>3. CASE CreateUser(r) \/ Write(r) \/ DisableAccount(r) \/ FindById(r) \/ Commit(r)
  BY <1>3, CreateUserMoves, WriteMoves, DisableAccountMoves, FindByIdMoves, CommitMoves
<1>4. CASE CreateConflict(r) \/ StoreToken(r) \/ Abort(r)
  BY <1>4, EndMoves
<1>5. QED
  BY <1>1, <1>2, <1>3, <1>4 DEF Step

-----------------------------------------------------------------------------
(* Sessions. *)

Logins == 1 .. Len(issued)

Claims == [sub : Subs, exp : Nat]

SessionsOK ==
  /\ now \in Nat
  /\ issued \in Seq(Claims)
  /\ Len(issued) <= MaxLogins
  /\ pending \subseteq Logins /\ opened \subseteq Logins /\ granted \subseteq Logins
  /\ live \subseteq {issued[n] : n \in Logins}

LEMMA TokenType ==
  ASSUME SessionsOK, NEW n \in Logins
  PROVE  issued[n].sub \in Subs
<1>1. issued \in Seq(Claims) /\ n \in 1 .. Len(issued)
  BY DEF SessionsOK, Logins
<1>2. issued[n] \in Claims
  BY <1>1
<1>3. QED
  BY <1>2 DEF Claims

(* A step that issues nothing and brings only issued tokens to life. *)
LEMMA SessionStep ==
  ASSUME SessionsOK, issued' = issued, now' \in Nat,
         pending' \subseteq Logins, opened' \subseteq Logins, granted' \subseteq Logins,
         live' \subseteq {issued[n] : n \in Logins}
  PROVE  SessionsOK'
BY DEF SessionsOK, Logins

LEMMA IssueStep ==
  ASSUME SessionsOK, NEW u \in Subs, S!Issue(u)
  PROVE  /\ SessionsOK'
         /\ Logins' = Logins \cup {Len(issued) + 1}
         /\ Len(issued) + 1 \in (1 .. MaxLogins) \ Logins
         /\ \A n \in Logins : issued'[n] = issued[n]
         /\ issued'[Len(issued) + 1].sub = u
         /\ pending' = pending \cup {Len(issued) + 1}
         /\ opened' = opened /\ granted' = granted /\ live' = live
<1> DEFINE k == Len(issued) + 1
           token == [sub |-> u, exp |-> now + ExpiresIn]
<1>1. /\ token \in Claims /\ token.sub = u
      /\ issued' = Append(issued, token) /\ Len(issued) < MaxLogins
      /\ pending' = pending \cup {k}
      /\ now' = now /\ opened' = opened /\ granted' = granted /\ live' = live
  BY DEF S!Issue, SessionsOK, Claims
<1> HIDE DEF token
<1>2. /\ issued' \in Seq(Claims) /\ Len(issued') = k
      /\ \A n \in Logins : issued'[n] = issued[n]
      /\ issued'[k] = token
  BY <1>1 DEF SessionsOK, Logins
<1>3. Len(issued) \in Nat /\ Logins' = Logins \cup {k}
  BY <1>2 DEF SessionsOK, Logins
<1>4. live' \subseteq {issued'[n] : n \in Logins'}
  BY <1>1, <1>2, <1>3 DEF SessionsOK
<1>5. Len(issued') <= MaxLogins /\ k \in (1 .. MaxLogins) \ Logins
  BY <1>1, <1>2, <1>3 DEF Logins
<1>6. /\ now' \in Nat
      /\ pending' \subseteq Logins' /\ opened' \subseteq Logins' /\ granted' \subseteq Logins'
  BY <1>1, <1>3 DEF SessionsOK
<1>7. SessionsOK'
  BY <1>2, <1>4, <1>5, <1>6 DEF SessionsOK
<1>8. QED
  BY <1>1, <1>2, <1>3, <1>5, <1>7

-----------------------------------------------------------------------------
(* The inductive invariant. *)

(* The requests in the guard hold tokens that were granted. *)
GuardOK ==
  /\ guard \in [Requests -> Passage]
  /\ \A r \in Requests : guard[r].pc # "out" => guard[r].login \in granted

(* A login about to store its token is alone with it. *)
MineOK ==
  /\ mine \in [Requests -> 0 .. MaxLogins]
  /\ \A r \in Requests : mine[r] # 0 =>
       /\ req[r].pc = "store" /\ mine[r] \in pending \cup opened
       /\ \A q \in Requests \ {r} : mine[q] # mine[r]

TokensHaveRows == \A n \in Logins : Exists(issued[n].sub)

(* Between the two reads of the guard: the session was live when Redis was *)
(* asked, so unless the user was deleted then, both were valid.            *)
Seen(r) == guard[r].pc = "row" => witness[r] \/ Deleted(Actor(r))

GInv ==
  /\ IInv /\ Stored
  /\ SessionsOK
  /\ GuardOK
  /\ MineOK
  /\ TokensHaveRows
  /\ witness \in [Requests -> BOOLEAN]
  /\ \A r \in Requests : Seen(r)
  /\ PassedWhileValid

LEMMA GInitInv == GInit => GInv
<1> SUFFICES ASSUME GInit PROVE GInv
  OBVIOUS
<1>1. IInv
  BY InitInv DEF GInit
<1>2. Stored
  BY IdleType DEF GInit, Init, Stored
<1>3. /\ now = 0 /\ issued = <<>> /\ pending = {} /\ opened = {} /\ granted = {}
      /\ live = {} /\ Len(issued) = 0
  BY DEF GInit, S!Init
<1>4. SessionsOK /\ TokensHaveRows
  BY <1>3 DEF SessionsOK, Logins, TokensHaveRows
<1>5. GuardOK /\ MineOK
  BY DEF GInit, GuardOK, MineOK, Passage, Out
<1>6. /\ witness \in [Requests -> BOOLEAN]
      /\ \A r \in Requests : Seen(r)
      /\ PassedWhileValid
  BY DEF GInit, Seen, PassedWhileValid, Out
<1>7. QED
  BY <1>1, <1>2, <1>4, <1>5, <1>6 DEF GInv

(* Logins other than r's are left alone. *)
LEMMA MineStep ==
  ASSUME GInv, NEW r \in Requests, NEW n \in 0 .. MaxLogins,
         mine' = [mine EXCEPT ![r] = n],
         \A q \in Requests \ {r} : req'[q] = req[q],
         \A k \in pending \cup opened : k # mine[r] => k \in pending' \cup opened',
         n # 0 => /\ req'[r].pc = "store" /\ n \in pending' \cup opened'
                  /\ n = mine[r] \/ n \notin pending \cup opened
  PROVE  MineOK'
<1>1. mine' \in [Requests -> 0 .. MaxLogins]
  BY DEF GInv, MineOK
<1>2. \A q \in Requests : mine'[q] = IF q = r THEN n ELSE mine[q]
  BY DEF GInv, MineOK
<1>3. ASSUME NEW q \in Requests, q # r, mine'[q] # 0
      PROVE  /\ req'[q].pc = "store" /\ mine'[q] \in pending' \cup opened'
             /\ \A p \in Requests \ {q} : mine'[p] # mine'[q]
  BY <1>2, <1>3 DEF GInv, MineOK
<1>4. ASSUME mine'[r] # 0
      PROVE  /\ req'[r].pc = "store" /\ mine'[r] \in pending' \cup opened'
             /\ \A p \in Requests \ {r} : mine'[p] # mine'[r]
  BY <1>2, <1>4 DEF GInv, MineOK
<1>5. QED
  BY <1>1, <1>3, <1>4 DEF MineOK

-----------------------------------------------------------------------------
(* Steps. *)

LEMMA ActorKnown ==
  ASSUME GInv, NEW r \in Requests, guard[r].pc # "out"
  PROVE  guard[r].login \in Logins /\ Actor(r) \in Subs /\ Exists(Actor(r))
<1>1. guard[r].login \in Logins
  BY DEF GInv, GuardOK, SessionsOK
<1>2. issued[guard[r].login].sub \in Subs
  BY <1>1, TokenType DEF GInv
<1>3. QED
  BY <1>1, <1>2 DEF Actor, GInv, TokensHaveRows

LEMMA GuardStepsAccounts == GInv /\ GNext => [Next]_vars
<1> SUFFICES ASSUME GInv, GNext PROVE [Next]_vars
  OBVIOUS
<1>1. ASSUME NEW r \in Requests, FindUser(r) PROVE [Next]_vars
  <2>1. CASE UNCHANGED vars
    BY <2>1
  <2>2. CASE ~ UNCHANGED vars
    <3>1. \E t \in Subs : \/ \E c \in Bodies : StartUpdate(r, Actor(r), t, c)
                          \/ StartDelete(r, Actor(r), t)
      BY <1>1, <2>2 DEF FindUser
    <3>2. Actor(r) \in Subs
      BY <1>1, ActorKnown DEF FindUser
    <3>3. QED
      BY <3>1, <3>2 DEF Next
  <2>3. QED
    BY <2>1, <2>2
<1>2. ASSUME NEW r \in Requests, Guarded(r), ~FindUser(r) PROVE UNCHANGED vars
  BY <1>2 DEF Guarded, Arrive, FindSession, RejectUser, Logout, Leave
<1>3. ASSUME NEW r \in Requests, GoesOn(r) PROVE [Next]_vars
  BY <1>3 DEF GoesOn, Next
<1>4. ASSUME NEW r \in Requests, LoggingIn(r) PROVE [Next]_vars
  BY <1>3, <1>4
  DEF LoggingIn, BeginLogin, IssueJwt, EvictSession, OpenSession, AnswerLogin, Next, Step
<1>5. ASSUME NEW r \in Requests, RowStep(r) \/ Break(r) PROVE [Next]_vars
  BY <1>5 DEF RowStep, Break, Next
<1>6. CASE Environment
  BY <1>6 DEF Environment
<1>7. QED
  BY <1>1, <1>2, <1>4, <1>5, <1>6 DEF GNext

LEMMA Observed ==
  ASSUME Observe, NEW r \in Requests, guard'[r] \in Passage, witness[r] \in BOOLEAN
  PROVE  /\ guard'[r].pc \in {"redis", "row"} =>
              (witness'[r] <=> (witness[r] \/ Valid(r)'))
         /\ guard'[r].pc = "route" => (witness'[r] <=> witness[r])
         /\ witness'[r] \in BOOLEAN
<1>1. witness'[r] = CASE guard'[r].pc \in {"redis", "row"} -> witness[r] \/ Valid(r)'
                      [] guard'[r].pc = "route" -> witness[r]
                      [] OTHER -> FALSE
  BY DEF Observe
<1>2. Valid(r)' \in BOOLEAN
  BY DEF Valid
<1>3. CASE guard'[r].pc \in {"redis", "row"}
  <2>1. witness'[r] = (witness[r] \/ Valid(r)')
    BY <1>1, <1>3
  <2>2. QED
    BY <1>3, <2>1
<1>4. CASE guard'[r].pc = "route"
  <2>1. witness'[r] = witness[r]
    BY <1>1, <1>4
  <2>2. QED
    BY <1>4, <2>1
<1>5. CASE guard'[r].pc \notin {"redis", "row", "route"}
  <2>1. witness'[r] = FALSE
    BY <1>1, <1>5
  <2>2. QED
    BY <1>5, <2>1
<1>6. QED
  BY <1>3, <1>4, <1>5

(* r asks Redis, and the session is live. *)
AsksRedis(r) ==
  /\ guard[r].pc = "redis" /\ guard'[r].login = guard[r].login
  /\ issued[guard[r].login] \in live'

(* r reads its user's row, which is active. *)
ReadsRow(r) ==
  /\ guard[r].pc = "row" /\ guard'[r].login = guard[r].login
  /\ Active(Actor(r))

LEMMA AnyStep ==
  ASSUME GInv, [Next]_vars, Observe, SessionsOK', GuardOK', MineOK', TokensHaveRows',
         \A n \in Logins : issued'[n] = issued[n],
         \A r \in Requests : guard'[r].pc = "row" => guard'[r] = guard[r] \/ AsksRedis(r),
         \A r \in Requests : guard'[r].pc = "route" => guard'[r] = guard[r] \/ ReadsRow(r)
  PROVE  GInv'
<1>1. IInv' /\ Stored' /\ RowsStay
  BY NextInv, StoredStays, RowsPersist DEF GInv
<1>2. witness' \in [Requests -> BOOLEAN]
  <2>1. witness' = [r \in Requests |-> witness'[r]]
    BY DEF Observe
  <2>2. \A r \in Requests : witness'[r] \in BOOLEAN
    BY Observed DEF GInv, GuardOK
  <2>3. QED
    BY <2>1, <2>2
<1>3. ASSUME NEW r \in Requests, guard[r].pc # "out"
      PROVE  /\ guard[r].login \in Logins /\ Actor(r) \in Subs
             /\ Exists(Actor(r)) /\ issued'[guard[r].login] = issued[guard[r].login]
  BY <1>3, ActorKnown
<1>4. ASSUME NEW r \in Requests, guard'[r].pc = "row" PROVE Seen(r)'
  <2>1. CASE guard'[r] = guard[r]
    <3>1. Actor(r)' = Actor(r) /\ Actor(r) \in Subs
      BY <1>3, <1>4, <2>1 DEF Actor
    <3>2. CASE witness[r]
      BY <1>4, <3>2, Observed DEF GInv, GuardOK, Seen
    <3>3. CASE Deleted(Actor(r))
      <4>1. Deleted(Actor(r))'
        BY <1>1, <3>1, <3>3 DEF RowsStay
      <4>2. QED
        BY <4>1 DEF Seen
    <3>4. QED
      BY <1>4, <2>1, <3>2, <3>3 DEF GInv, Seen
  <2>2. CASE AsksRedis(r)
    <3>1. Actor(r)' = Actor(r) /\ Actor(r) \in Subs /\ Exists(Actor(r))'
      BY <1>1, <1>3, <2>2 DEF Actor, AsksRedis, RowsStay
    <3>2. issued'[guard'[r].login] \in live'
      BY <1>3, <2>2 DEF AsksRedis
    <3>3. CASE Active(Actor(r))'
      <4>1. Valid(r)'
        BY <1>4, <3>2, <3>3 DEF Valid
      <4>2. witness'[r]
        BY <1>4, <4>1, Observed DEF GInv, GuardOK
      <4>3. QED
        BY <4>2 DEF Seen
    <3>4. CASE ~Active(Actor(r))'
      <4>1. db'[Actor(r)] \in Row /\ db'[Actor(r)].status # "active"
        BY <1>1, <3>1, <3>4 DEF IInv, TypeOK, Exists, Active
      <4>2. Deleted(Actor(r))'
        BY <3>1, <4>1 DEF Deleted, Row, Statuses
      <4>3. QED
        BY <4>2 DEF Seen
    <3>5. QED
      BY <3>3, <3>4
  <2>3. QED
    BY <1>4, <2>1, <2>2
<1>5. ASSUME NEW r \in Requests, guard'[r].pc = "route" PROVE witness'[r]
  <2>1. CASE guard'[r] = guard[r]
    BY <1>5, <2>1, Observed DEF GInv, GuardOK, PassedWhileValid
  <2>2. CASE ReadsRow(r)
    <3>1. ~Deleted(Actor(r))
      BY <2>2 DEF ReadsRow, Active, Deleted
    <3>2. witness[r]
      BY <2>2, <3>1 DEF GInv, Seen, ReadsRow
    <3>3. QED
      BY <1>5, <3>2, Observed DEF GInv, GuardOK
  <2>3. QED
    BY <1>5, <2>1, <2>2
<1>6. QED
  BY <1>1, <1>2, <1>4, <1>5 DEF GInv, Seen, PassedWhileValid

(* A step that issues no token. *)
LEMMA PlainStep ==
  ASSUME GInv, [Next]_vars, Observe, SessionsOK', GuardOK', MineOK', issued' = issued,
         \A r \in Requests : guard'[r].pc = "row" => guard'[r] = guard[r] \/ AsksRedis(r),
         \A r \in Requests : guard'[r].pc = "route" => guard'[r] = guard[r] \/ ReadsRow(r)
  PROVE  GInv'
<1>1. RowsStay
  BY RowsPersist DEF GInv
<1>2. TokensHaveRows'
  BY <1>1, TokenType DEF GInv, TokensHaveRows, Logins, RowsStay
<1>3. QED
  BY <1>2, AnyStep

(* The guard's state of one request changes, or of none. *)
LEMMA GuardStep ==
  ASSUME GInv, NEW r \in Requests, NEW next \in Passage,
         guard' = [guard EXCEPT ![r] = next],
         granted \subseteq granted',
         next.pc # "out" => next.login \in granted'
  PROVE  /\ GuardOK'
         /\ \A q \in Requests \ {r} : guard'[q] = guard[q]
         /\ guard'[r] = next
BY DEF GInv, GuardOK

LEMMA GuardSame ==
  ASSUME GInv, guard' = guard, granted \subseteq granted'
  PROVE  GuardOK'
BY DEF GInv, GuardOK

LEMMA MineSame ==
  ASSUME GInv, mine' = mine, UNCHANGED <<pending, opened>>,
         \A q \in Requests : mine[q] # 0 => req'[q] = req[q]
  PROVE  MineOK'
BY DEF GInv, MineOK

LEMMA MineEnds ==
  ASSUME GInv, NEW r \in Requests, mine' = [mine EXCEPT ![r] = 0], Others(r),
         \A k \in pending \cup opened : k # mine[r] => k \in pending' \cup opened'
  PROVE  MineOK'
<1>1. 0 \in 0 .. MaxLogins
  OBVIOUS
<1>2. \A q \in Requests \ {r} : req'[q] = req[q]
  BY DEF Others
<1>3. QED
  BY <1>1, <1>2, MineStep

LEMMA OutType == Out \in Passage /\ Out.pc = "out"
BY SessionConstants DEF Out, Passage

LEMMA SessionsSame ==
  ASSUME GInv, UNCHANGED sessions
  PROVE  /\ SessionsOK' /\ issued' = issued /\ granted' = granted /\ live' = live
         /\ UNCHANGED <<pending, opened>>
BY DEF GInv, sessions, SessionsOK, Logins

-----------------------------------------------------------------------------
(* The steps of a request in the guard. *)

LEMMA GuardedInv ==
  ASSUME GInv, [Next]_vars, Observe, NEW r \in Requests, Guarded(r)
  PROVE  GInv'
<1>1. guard[r] \in Passage /\ SessionsOK /\ TypeOK
  BY DEF GInv, GuardOK, IInv
<1>2. ASSUME NEW n \in granted, Arrive(r, n) PROVE GInv'
  <2> DEFINE next == [pc |-> "redis", login |-> n]
  <2>1. /\ guard' = [guard EXCEPT ![r] = next]
        /\ UNCHANGED sessions /\ mine' = mine /\ req' = req
    BY <1>2 DEF Arrive, vars
  <2>2. next \in Passage /\ next.pc = "redis" /\ next.login = n
    BY <1>1 DEF Passage, SessionsOK, Logins
  <2> HIDE DEF next
  <2>3. /\ GuardOK'
        /\ \A q \in Requests \ {r} : guard'[q] = guard[q]
        /\ guard'[r].pc = "redis"
    BY <2>1, <2>2, SessionsSame, GuardStep
  <2>4. MineOK'
    BY <2>1, SessionsSame, MineSame
  <2>5. QED
    BY <2>1, <2>3, <2>4, SessionsSame, PlainStep
<1>3. CASE FindSession(r)
  <2> DEFINE next == IF issued[guard[r].login] \in live
                     THEN [guard[r] EXCEPT !.pc = "row"] ELSE Out
  <2>1. /\ guard[r].pc = "redis"
        /\ guard' = [guard EXCEPT ![r] = next]
        /\ UNCHANGED sessions /\ mine' = mine /\ req' = req
    BY <1>1, <1>3 DEF FindSession, vars, GInv, GuardOK
  <2>2. /\ next \in Passage
        /\ next.pc # "out" => next.login \in granted
        /\ next.pc = "row" => /\ next.login = guard[r].login
                              /\ issued[guard[r].login] \in live
        /\ next.pc # "route"
    BY <1>1, <2>1, OutType DEF Passage, GInv, GuardOK
  <2> HIDE DEF next
  <2>3. /\ GuardOK'
        /\ \A q \in Requests \ {r} : guard'[q] = guard[q]
        /\ guard'[r] = next
    BY <2>1, <2>2, SessionsSame, GuardStep
  <2>4. MineOK'
    BY <2>1, SessionsSame, MineSame
  <2>5. \A q \in Requests : guard'[q].pc = "row" => guard'[q] = guard[q] \/ AsksRedis(q)
    BY <2>1, <2>2, <2>3, SessionsSame DEF AsksRedis
  <2>6. QED
    BY <2>1, <2>2, <2>3, <2>4, <2>5, SessionsSame, PlainStep
<1>4. CASE RejectUser(r) \/ Leave(r)
  <2>1. /\ guard' = [guard EXCEPT ![r] = Out]
        /\ UNCHANGED sessions /\ mine' = mine /\ req' = req
    BY <1>4 DEF RejectUser, Leave, vars
  <2>2. /\ GuardOK'
        /\ \A q \in Requests \ {r} : guard'[q] = guard[q]
        /\ guard'[r].pc = "out"
    BY <2>1, SessionsSame, GuardStep, OutType
  <2>3. MineOK'
    BY <2>1, SessionsSame, MineSame
  <2>4. QED
    BY <2>1, <2>2, <2>3, SessionsSame, PlainStep
<1>5. CASE FindUser(r)
  <2> DEFINE next == [guard[r] EXCEPT !.pc = "route"]
  <2>1. /\ guard[r].pc = "row" /\ Active(Actor(r))
        /\ guard' = [guard EXCEPT ![r] = next]
        /\ UNCHANGED sessions /\ mine' = mine
    BY <1>1, <1>5 DEF FindUser, Admitted, GInv, GuardOK
  <2>2. /\ next \in Passage /\ next.login \in granted /\ next.login = guard[r].login
        /\ next.pc = "route"
    BY <1>1, <2>1 DEF Passage, GInv, GuardOK
  <2> HIDE DEF next
  <2>3. /\ GuardOK'
        /\ \A q \in Requests \ {r} : guard'[q] = guard[q]
        /\ guard'[r] = next
    BY <2>1, <2>2, SessionsSame, GuardStep
  <2>4. \A q \in Requests : mine[q] # 0 => req'[q] = req[q]
    <3>1. CASE UNCHANGED vars
      BY <3>1 DEF vars
    <3>2. CASE ~ UNCHANGED vars
      <4>1. PICK t \in Subs : \/ \E c \in Bodies : StartUpdate(r, Actor(r), t, c)
                              \/ StartDelete(r, Actor(r), t)
        BY <1>5, <3>2 DEF FindUser
      <4>2. req[r].pc = "idle" /\ mine[r] = 0
        BY <4>1 DEF StartUpdate, StartDelete, GInv, MineOK
      <4>3. Actor(r) \in Subs
        BY <2>1, ActorKnown
      <4>4. Others(r)
        BY <1>1, <4>1, <4>3, OthersStay
      <4>5. QED
        BY <4>2, <4>4 DEF Others
    <3>3. QED
      BY <3>1, <3>2
  <2>5. MineOK'
    BY <2>1, <2>4, SessionsSame, MineSame
  <2>6. \A q \in Requests : guard'[q].pc = "route" => guard'[q] = guard[q] \/ ReadsRow(q)
    BY <2>1, <2>2, <2>3 DEF ReadsRow
  <2>7. QED
    BY <2>1, <2>2, <2>3, <2>5, <2>6, SessionsSame, PlainStep
<1>6. CASE Logout(r)
  <2>1. /\ guard' = [guard EXCEPT ![r] = Out]
        /\ S!Close(guard[r].login) /\ mine' = mine /\ req' = req
    BY <1>6 DEF Logout, vars
  <2>2. /\ issued' = issued /\ now' = now /\ live' \subseteq live
        /\ granted' = granted /\ UNCHANGED <<pending, opened>>
    BY <2>1 DEF S!Close
  <2>3. SessionsOK'
    BY <1>1, <2>2, SessionStep DEF SessionsOK
  <2>4. /\ GuardOK'
        /\ \A q \in Requests \ {r} : guard'[q] = guard[q]
        /\ guard'[r].pc = "out"
    BY <2>1, <2>2, GuardStep, OutType
  <2>5. MineOK'
    BY <2>1, <2>2, MineSame
  <2>6. QED
    BY <2>2, <2>3, <2>4, <2>5, PlainStep
<1>7. QED
  BY <1>2, <1>3, <1>4, <1>5, <1>6 DEF Guarded

-----------------------------------------------------------------------------
(* The steps of logins and of the routes on rows. *)

LEMMA RowsInv ==
  ASSUME GInv, [Next]_vars, Observe, NEW r \in Requests,
         (\E s \in Subs : BeginLogin(r, s)) \/ RowStep(r)
  PROVE  GInv'
<1>1. GuardOK /\ MineOK /\ TypeOK
  BY DEF GInv, IInv
<1>2. UNCHANGED sessions /\ mine' = mine
  BY DEF BeginLogin, RowStep
<1>3. (\E s \in Subs : StartLogin(r, s)) \/ Step(r)
  BY DEF BeginLogin, RowStep
<1>4. req[r].pc # "store"
  BY DEF BeginLogin, Free, RowStep
<1>5. Others(r)
  BY <1>1, <1>3, OthersStay
<1>6. MineOK'
  <2>1. \A q \in Requests : mine[q] # 0 => req'[q] = req[q]
    BY <1>1, <1>4, <1>5 DEF MineOK, Others
  <2>2. QED
    BY <1>2, <2>1, SessionsSame, MineSame
<1>7. GuardOK' /\ \A q \in Requests : guard'[q] = guard[q] \/ guard'[q].pc = "out"
  <2>1. CASE guard' = guard
    BY <1>2, <2>1, SessionsSame, GuardSame
  <2>2. CASE guard' = [guard EXCEPT ![r] = Out]
    BY <1>2, <2>2, SessionsSame, GuardStep, OutType
  <2>3. QED
    BY <1>1, <2>1, <2>2 DEF BeginLogin, RowStep, Leaving, GuardOK
<1>8. QED
  BY <1>2, <1>6, <1>7, SessionsSame, PlainStep

LEMMA IssueJwtInv ==
  ASSUME GInv, [Next]_vars, Observe, NEW r \in Requests, IssueJwt(r)
  PROVE  GInv'
<1> DEFINE t == req[r].target
           k == Len(issued) + 1
<1>1. /\ req[r].pc = "store" /\ mine[r] = 0 /\ S!Issue(t)
      /\ mine' = [mine EXCEPT ![r] = k]
      /\ req' = req /\ db' = db /\ guard' = guard
  BY DEF IssueJwt, vars
<1>2. t \in Subs /\ Exists(t) /\ SessionsOK
  BY <1>1 DEF GInv, IInv, Known, Shaped, Stored
<1>3. /\ SessionsOK'
      /\ Logins' = Logins \cup {k}
      /\ k \in (1 .. MaxLogins) \ Logins
      /\ \A n \in Logins : issued'[n] = issued[n]
      /\ issued'[k].sub = t
      /\ pending' = pending \cup {k}
      /\ opened' = opened /\ granted' = granted /\ live' = live
  BY <1>1, <1>2, IssueStep
<1> HIDE DEF k
<1>4. MineOK'
  <2>1. k \in 0 .. MaxLogins /\ k \notin pending \cup opened /\ k \in pending' \cup opened'
    BY <1>2, <1>3 DEF SessionsOK
  <2>2. /\ \A q \in Requests \ {r} : req'[q] = req[q]
        /\ req'[r].pc = "store"
        /\ \A n \in pending \cup opened : n # mine[r] => n \in pending' \cup opened'
    BY <1>1, <1>3
  <2>3. QED
    BY <1>1, <2>1, <2>2, MineStep
<1>5. TokensHaveRows'
  BY <1>1, <1>2, <1>3 DEF GInv, TokensHaveRows, Exists
<1>6. GuardOK'
  BY <1>1, <1>3, GuardSame
<1>7. QED
  BY <1>1, <1>3, <1>4, <1>5, <1>6, AnyStep

(* A command of store_token. *)
LEMMA CommandInv ==
  ASSUME GInv, [Next]_vars, Observe, NEW r \in Requests,
         mine[r] \in pending \cup opened, GoesOn(r), guard' = guard,
         SessionsOK', issued' = issued, granted' = granted,
         \A k \in pending \cup opened : k # mine[r] => k \in pending' \cup opened'
  PROVE  GInv'
<1>1. mine \in [Requests -> 0 .. MaxLogins] /\ mine[r] \in Logins /\ TypeOK
  BY DEF GInv, MineOK, SessionsOK, IInv
<1>2. MineOK'
  <2>1. CASE mine[r] \in pending' \cup opened' /\ UNCHANGED <<vars, mine>>
    <3>1. mine' = [mine EXCEPT ![r] = mine[r]] /\ req' = req
      BY <1>1, <2>1 DEF vars
    <3>2. req[r].pc = "store"
      BY <1>1 DEF GInv, MineOK, Logins
    <3>3. QED
      BY <1>1, <2>1, <3>1, <3>2, MineStep
  <2>2. CASE Abort(r) /\ mine' = [mine EXCEPT ![r] = 0]
    <3>1. Others(r)
      BY <1>1, <2>2, EndMoves
    <3>2. QED
      BY <2>2, <3>1, MineEnds
  <2>3. QED
    BY <2>1, <2>2 DEF GoesOn
<1>3. GuardOK'
  BY GuardSame
<1>4. QED
  BY <1>2, <1>3, PlainStep

LEMMA StoreTokenInv ==
  ASSUME GInv, [Next]_vars, Observe, NEW r \in Requests,
         EvictSession(r) \/ OpenSession(r)
  PROVE  GInv'
<1>1. SessionsOK /\ GoesOn(r) /\ guard' = guard
  BY DEF EvictSession, OpenSession, GInv
<1>2. CASE EvictSession(r)
  <2>1. PICK t \in live : S!Evict(mine[r], t)
    BY <1>2 DEF EvictSession
  <2>2. /\ mine[r] \in pending /\ live' \subseteq live
        /\ pending' = pending \/ pending' = pending \ {mine[r]}
        /\ now' = now /\ issued' = issued /\ opened' = opened /\ granted' = granted
    BY <2>1 DEF S!Evict
  <2>3. SessionsOK'
    BY <1>1, <2>2, SessionStep DEF SessionsOK
  <2>4. QED
    BY <1>1, <2>2, <2>3, CommandInv
<1>3. CASE OpenSession(r)
  <2>1. /\ mine[r] \in pending /\ live' = live \cup {issued[mine[r]]}
        /\ pending' = pending \ {mine[r]}
        /\ opened' = opened \/ opened' = opened \cup {mine[r]}
        /\ now' = now /\ issued' = issued /\ granted' = granted
    BY <1>3 DEF OpenSession, S!Open
  <2>2. SessionsOK'
    BY <1>1, <2>1, SessionStep DEF SessionsOK
  <2>3. QED
    BY <1>1, <2>1, <2>2, CommandInv
<1>4. QED
  BY <1>2, <1>3

LEMMA AnswerLoginInv ==
  ASSUME GInv, [Next]_vars, Observe, NEW r \in Requests, AnswerLogin(r)
  PROVE  GInv'
<1>1. /\ mine[r] \in opened
      /\ opened' = opened \ {mine[r]} /\ granted' = granted \cup {mine[r]}
      /\ now' = now /\ issued' = issued /\ pending' = pending /\ live' = live
      /\ StoreToken(r) /\ mine' = [mine EXCEPT ![r] = 0] /\ guard' = guard
  BY DEF AnswerLogin, S!Grant
<1>2. Others(r)
  BY <1>1, EndMoves DEF GInv, IInv
<1>3. SessionsOK'
  BY <1>1, SessionStep DEF GInv, SessionsOK
<1>4. MineOK'
  BY <1>1, <1>2, MineEnds
<1>5. GuardOK'
  BY <1>1, GuardSame
<1>6. QED
  BY <1>1, <1>3, <1>4, <1>5, PlainStep

LEMMA BreakInv ==
  ASSUME GInv, [Next]_vars, Observe, NEW r \in Requests, Break(r)
  PROVE  GInv'
<1>1. Abort(r) /\ mine' = [mine EXCEPT ![r] = 0] /\ guard' = [guard EXCEPT ![r] = Out]
  BY DEF Break
<1>2. Others(r)
  BY <1>1, EndMoves DEF GInv, IInv
<1>3. /\ now' = now /\ issued' = issued /\ granted' = granted /\ live' = live
      /\ pending' \subseteq pending /\ opened' \subseteq opened
      /\ \A k \in pending \cup opened : k # mine[r] => k \in pending' \cup opened'
  <2>1. CASE UNCHANGED sessions
    BY <2>1 DEF sessions
  <2>2. CASE S!GiveUp(mine[r])
    BY <2>2 DEF S!GiveUp
  <2>3. QED
    BY <2>1, <2>2 DEF Break
<1>4. SessionsOK'
  BY <1>3, SessionStep DEF GInv, SessionsOK
<1>5. MineOK'
  BY <1>1, <1>2, <1>3, MineEnds
<1>6. GuardOK' /\ \A q \in Requests : guard'[q] = guard[q] \/ guard'[q].pc = "out"
  BY <1>1, <1>3, GuardStep, OutType
<1>7. QED
  BY <1>3, <1>4, <1>5, <1>6, PlainStep

LEMMA EnvironmentInv ==
  ASSUME GInv, [Next]_vars, Observe, Environment
  PROVE  GInv'
<1>1. req' = req /\ guard' = guard /\ mine' = mine
  BY DEF Environment, vars
<1>2. /\ now' \in Nat /\ issued' = issued /\ granted' = granted /\ live' \subseteq live
      /\ UNCHANGED <<pending, opened>>
  BY DEF Environment, S!Expire, S!Tick, S!Restart, GInv, SessionsOK
<1>3. SessionsOK'
  BY <1>2, SessionStep DEF GInv, SessionsOK
<1>4. MineOK' /\ GuardOK'
  BY <1>1, <1>2, MineSame, GuardSame
<1>5. QED
  BY <1>1, <1>2, <1>3, <1>4, PlainStep

LEMMA GNextInv == GInv /\ [GNext]_gvars => GInv'
<1> SUFFICES ASSUME GInv, [GNext]_gvars PROVE GInv'
  OBVIOUS
<1>1. CASE GNext
  <2>1. [Next]_vars /\ Observe
    BY <1>1, GuardStepsAccounts DEF GNext
  <2>2. QED
    BY <1>1, <2>1, GuardedInv, RowsInv, IssueJwtInv, StoreTokenInv, AnswerLoginInv,
       BreakInv, EnvironmentInv
    DEF GNext, LoggingIn
<1>2. CASE UNCHANGED gvars
  <2>1. /\ UNCHANGED vars /\ issued' = issued /\ guard' = guard /\ mine' = mine
        /\ witness' = witness /\ live' = live /\ UNCHANGED <<pending, opened>>
        /\ granted' = granted /\ now' = now
    BY <1>2 DEF gvars, sessions
  <2>2. IInv' /\ Stored'
    BY <2>1, NextInv, StoredStays DEF GInv
  <2>3. SessionsOK' /\ GuardOK' /\ MineOK' /\ TokensHaveRows'
    BY <2>1 DEF GInv, SessionsOK, Logins, GuardOK, MineOK, TokensHaveRows, Exists, vars
  <2>4. (\A r \in Requests : Seen(r)') /\ PassedWhileValid' /\ witness' \in [Requests -> BOOLEAN]
    BY <2>1 DEF GInv, Seen, Actor, Deleted, Exists, PassedWhileValid, vars
  <2>5. QED
    BY <2>2, <2>3, <2>4 DEF GInv
<1>3. QED
  BY <1>1, <1>2

LEMMA GInductive == GSpec => []GInv
  BY GInitInv, GNextInv, PTL DEF GSpec

-----------------------------------------------------------------------------
(* Theorems. *)

(* Every request in the guard presents a token that was granted, and every *)
(* login that stores a token has its row committed and is at work on it.   *)
THEOREM GuardTypeCorrect == GSpec => []GTypeOK
<1>1. GInv => GTypeOK
  BY DEF GInv, GuardOK, MineOK, GTypeOK
<1>2. QED
  BY <1>1, GInductive, PTL

(* Who passes the guard was valid in both stores at one moment: the        *)
(* session was live when Redis was asked, its user's row exists, and had   *)
(* it been deleted then it would be still when PostgreSQL is asked.        *)
THEOREM PassingIsJustified == GSpec => []PassedWhileValid
<1>1. GInv => PassedWhileValid
  BY DEF GInv
<1>2. QED
  BY <1>1, GInductive, PTL

(* The login commits its row before it signs a token for it, and no row is *)
(* ever taken away.                                                        *)
THEOREM LiveHaveRows == GSpec => []SessionsHaveRows
<1>1. GInv => SessionsHaveRows
  BY DEF GInv, SessionsOK, TokensHaveRows, SessionsHaveRows
<1>2. QED
  BY <1>1, GInductive, PTL

(* The rows of the composed system behave as Accounts says. *)
THEOREM GuardImplementsAccounts == GSpec => Spec
<1>1. GInit => Init
  BY DEF GInit
<1>2. GInv /\ [GNext]_gvars => [Next]_vars
  BY GuardStepsAccounts DEF gvars
<1>3. QED
  BY <1>1, <1>2, GInductive, PTL DEF GSpec, Spec

(* So what Directory promises about the users table holds behind the guard *)
(* too: the guard's reads of two stores, the tokens and their failures     *)
(* come between an order and its execution without changing either.        *)
THEOREM GuardImplementsDirectory == GSpec => ImplementsDirectory
BY GuardImplementsAccounts, DirectoryImplemented

-----------------------------------------------------------------------------
(* Whose session a login opens. *)

LEMMA IssuedStays ==
  ASSUME GInv, [GNext]_gvars
  PROVE  \A n \in Logins : issued'[n] = issued[n]
<1>1. ASSUME NEW r \in Requests, IssueJwt(r)
      PROVE  \A n \in Logins : issued'[n] = issued[n]
  <2>1. req[r].target \in Subs /\ SessionsOK /\ S!Issue(req[r].target)
    BY <1>1 DEF IssueJwt, GInv, IInv, Known, Shaped
  <2>2. QED
    BY <2>1, IssueStep
<1>2. ASSUME NEW r \in Requests, Guarded(r) \/ RowStep(r) PROVE issued' = issued
  BY <1>2 DEF Guarded, Arrive, FindSession, RejectUser, FindUser, Logout, Leave,
              RowStep, sessions, S!Close
<1>3. ASSUME NEW r \in Requests, LoggingIn(r), ~IssueJwt(r) PROVE issued' = issued
  BY <1>3 DEF LoggingIn, BeginLogin, EvictSession, OpenSession, AnswerLogin,
              sessions, S!Evict, S!Open, S!Grant
<1>4. ASSUME NEW r \in Requests, Break(r) PROVE issued' = issued
  BY <1>4 DEF Break, sessions, S!GiveUp
<1>5. CASE Environment
  BY <1>5 DEF Environment, S!Expire, S!Tick, S!Restart
<1>6. CASE UNCHANGED gvars
  BY <1>6 DEF gvars, sessions
<1>7. QED
  BY <1>1, <1>2, <1>3, <1>4, <1>5, <1>6 DEF GNext

(* A request comes to a login's token only by issuing it. *)
LEMMA MineMoves ==
  ASSUME GInv, [GNext]_gvars, NEW r \in Requests, mine'[r] # 0
  PROVE  mine'[r] = mine[r] \/ IssueJwt(r)
<1>1. mine \in [Requests -> 0 .. MaxLogins]
  BY DEF GInv, MineOK
<1>2. ASSUME NEW q \in Requests, Guarded(q) \/ RowStep(q) PROVE mine' = mine
  BY <1>2 DEF Guarded, Arrive, FindSession, RejectUser, FindUser, Logout, Leave, RowStep
<1>3. ASSUME NEW q \in Requests, GoesOn(q) \/ AnswerLogin(q) \/ Break(q)
      PROVE  mine' = mine \/ mine' = [mine EXCEPT ![q] = 0]
  BY <1>3 DEF GoesOn, AnswerLogin, Break
<1>4. ASSUME NEW q \in Requests, IssueJwt(q)
      PROVE  mine' = [mine EXCEPT ![q] = Len(issued) + 1]
  BY <1>4 DEF IssueJwt
<1>5. CASE Environment \/ UNCHANGED gvars
  BY <1>5 DEF Environment, gvars
<1>6. ASSUME NEW q \in Requests, NEW s \in Subs, BeginLogin(q, s) PROVE mine' = mine
  BY <1>6 DEF BeginLogin
<1>7. QED
  BY <1>1, <1>2, <1>3, <1>4, <1>5, <1>6 DEF GNext, LoggingIn, EvictSession, OpenSession

LEMMA OnlyOpenBegins ==
  ASSUME [GNext]_gvars, NEW t \in live' \ live
  PROVE  \E r \in Requests : OpenSession(r) /\ mine[r] \in pending /\ t = issued[mine[r]]
<1>1. ASSUME NEW r \in Requests, Guarded(r) \/ RowStep(r) PROVE live' \subseteq live
  BY <1>1 DEF Guarded, Arrive, FindSession, RejectUser, FindUser, Logout, Leave,
              RowStep, sessions, S!Close
<1>2. ASSUME NEW r \in Requests, LoggingIn(r), ~OpenSession(r) PROVE live' \subseteq live
  BY <1>2 DEF LoggingIn, BeginLogin, IssueJwt, EvictSession, AnswerLogin,
              sessions, S!Issue, S!Evict, S!Grant
<1>3. ASSUME NEW r \in Requests, Break(r) PROVE live' \subseteq live
  BY <1>3 DEF Break, sessions, S!GiveUp
<1>4. CASE Environment
  BY <1>4 DEF Environment, S!Expire, S!Tick, S!Restart
<1>5. CASE UNCHANGED gvars
  BY <1>5 DEF gvars, sessions
<1>6. ASSUME NEW r \in Requests, OpenSession(r)
      PROVE  mine[r] \in pending /\ live' = live \cup {issued[mine[r]]}
  BY <1>6 DEF OpenSession, S!Open
<1>7. QED
  BY <1>1, <1>2, <1>3, <1>4, <1>5, <1>6 DEF GNext

(* The token that a login is about to store names the row it committed. *)
OwnTokens == \A r \in Requests : mine[r] # 0 => issued[mine[r]].sub = req[r].target

LEMMA OwnTokensStay == GInv /\ OwnTokens /\ [GNext]_gvars => OwnTokens'
<1> SUFFICES ASSUME GInv, OwnTokens, [GNext]_gvars, NEW r \in Requests, mine'[r] # 0
             PROVE  issued'[mine'[r]].sub = req'[r].target
  BY DEF OwnTokens
<1>1. CASE IssueJwt(r)
  <2>1. /\ req[r].target \in Subs /\ SessionsOK /\ S!Issue(req[r].target)
        /\ req' = req /\ mine \in [Requests -> 0 .. MaxLogins]
        /\ mine' = [mine EXCEPT ![r] = Len(issued) + 1]
    BY <1>1 DEF IssueJwt, vars, GInv, MineOK, IInv, Known, Shaped
  <2>2. mine'[r] = Len(issued) + 1
    BY <2>1
  <2>3. QED
    BY <2>1, <2>2, IssueStep
<1>2. CASE mine'[r] = mine[r]
  <2>1. mine[r] \in Logins /\ req[r].pc = "store"
    BY <1>2 DEF GInv, MineOK, SessionsOK
  <2>2. GInv' /\ [Next]_vars
    BY GNextInv, GuardStepsAccounts DEF gvars
  <2>3. req'[r].pc = "store"
    BY <2>2 DEF GInv, MineOK
  <2>4. req'[r] = req[r]
    BY <2>1, <2>2, <2>3, StoreFromCommit DEF GInv, Commit
  <2>5. QED
    BY <1>2, <2>1, <2>4, IssuedStays DEF OwnTokens
<1>3. QED
  BY <1>1, <1>2, MineMoves

LEMMA OwnTokensAlways == GSpec => []OwnTokens
<1>1. GInit => OwnTokens
  BY DEF GInit, OwnTokens
<1>2. QED
  BY <1>1, OwnTokensStay, GInductive, PTL DEF GSpec

(* A session is begun by a login, for the row that it committed and that   *)
(* it had not found deleted: neither the commit nor the failures and       *)
(* retries between the two stores exchange the row or the token.           *)
THEOREM BeginForUsers == GSpec => SessionsBeginForUsers
<1> DEFINE A == \A t \in live' \ live :
                  \E r \in Requests : /\ mine[r] # 0 /\ issued[mine[r]] = t
                                     /\ t.sub \notin req[r].gone
<1>1. GInv /\ OwnTokens /\ [GNext]_gvars => [A]_gvars
  <2>1. SUFFICES ASSUME GInv, OwnTokens, [GNext]_gvars, NEW t \in live' \ live
                 PROVE  \E r \in Requests : /\ mine[r] # 0 /\ issued[mine[r]] = t
                                           /\ t.sub \notin req[r].gone
    OBVIOUS
  <2>2. PICK r \in Requests : mine[r] \in pending /\ t = issued[mine[r]]
    BY <2>1, OnlyOpenBegins
  <2>3. mine[r] # 0
    BY <2>1, <2>2 DEF GInv, SessionsOK, Logins
  <2>4. req[r].pc = "store" /\ t.sub = req[r].target
    BY <2>1, <2>2, <2>3 DEF GInv, MineOK, OwnTokens
  <2>5. req[r].target \notin req[r].gone
    BY <2>1, <2>4 DEF GInv, IInv, Known, Shaped, Fresh
  <2>6. QED
    BY <2>2, <2>3, <2>4, <2>5
<1>2. QED
  BY <1>1, OwnTokensAlways, GInductive, PTL DEF GSpec, SessionsBeginForUsers

-----------------------------------------------------------------------------
(* The sessions of the composed system. *)

LEMMA GuardStepsSessions == GInv /\ [GNext]_gvars => [S!Next]_(S!vars)
<1> SUFFICES ASSUME GInv, [GNext]_gvars PROVE S!Next \/ UNCHANGED sessions
  BY DEF sessions, S!vars
<1>1. ASSUME NEW r \in Requests, Guarded(r) PROVE S!Next \/ UNCHANGED sessions
  <2>1. CASE Logout(r)
    BY <2>1 DEF Logout, S!Next, S!Close
  <2>2. CASE ~Logout(r)
    BY <1>1, <2>2 DEF Guarded, Arrive, FindSession, RejectUser, FindUser, Leave
  <2>3. QED
    BY <2>1, <2>2
<1>2. ASSUME NEW r \in Requests, LoggingIn(r) PROVE S!Next \/ UNCHANGED sessions
  <2>1. CASE IssueJwt(r)
    BY <2>1 DEF IssueJwt, GInv, IInv, Known, Shaped, S!Next
  <2>2. CASE EvictSession(r)
    BY <2>2 DEF EvictSession, S!Next, S!Evict
  <2>3. CASE OpenSession(r)
    BY <2>3 DEF OpenSession, S!Next, S!Open
  <2>4. CASE AnswerLogin(r)
    BY <2>4 DEF AnswerLogin, S!Next, S!Grant
  <2>5. CASE \E s \in Subs : BeginLogin(r, s)
    BY <2>5 DEF BeginLogin
  <2>6. QED
    BY <1>2, <2>1, <2>2, <2>3, <2>4, <2>5 DEF LoggingIn
<1>3. ASSUME NEW r \in Requests, RowStep(r) \/ Break(r)
      PROVE  S!Next \/ UNCHANGED sessions
  BY <1>3 DEF RowStep, Break, S!Next, S!GiveUp
<1>4. CASE Environment
  BY <1>4 DEF Environment, S!Next
<1>5. CASE UNCHANGED gvars
  BY <1>5 DEF gvars
<1>6. QED
  BY <1>1, <1>2, <1>3, <1>4, <1>5 DEF GNext

(* The sessions of the composed system behave as Sessions says: the guard, *)
(* the routes and the logins use the session store only through what it    *)
(* promises, and what TokenService implements is what they need.           *)
THEOREM GuardImplementsSessions == GSpec => S!Spec
<1>1. GInit => S!Init
  BY DEF GInit
<1>2. QED
  BY <1>1, GuardStepsSessions, GInductive, PTL DEF GSpec, S!Spec
=============================================================================
