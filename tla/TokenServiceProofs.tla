-------------------------- MODULE TokenServiceProofs --------------------------
(***************************************************************************)
(* Proofs about TokenService, for all values of its constants.  First what *)
(* each step does to the request that takes it, then types, then the       *)
(* inductive invariant and the properties that follow from it.             *)
(***************************************************************************)
EXTENDS TokenService, TLAPS

USE MaxSessionsAssumption, ExpiresInAssumption, BoundsAssumption,
    NoTokenAssumption

-----------------------------------------------------------------------------
(* What a step does to the local state of the requests. *)

LEMMA IdleType == Idle \in Request
  BY DEF Idle, Request, Pcs

LEMMA IdleLocals == Idle.pc = "idle" /\ \A t \in Token : t # Idle.cursor
  BY DEF Idle

LEMMA AbsentType == Absent \in Record
  BY DEF Absent, Record

(* A request that has just begun holds no hash. *)
Begun(r, pc, n) ==
  /\ req'[r].pc = pc /\ req'[r].login = n
  /\ req'[r].todo = {} /\ req'[r].active = {} /\ req'[r].victims = {}
  /\ req'[r].cursor = NoToken /\ req'[r].added = {} /\ req'[r].alive = {}

LEMMA TokType ==
  ASSUME TypeOK, NEW r \in Requests, req[r].pc # "idle"
  PROVE  /\ req[r] \in Request
         /\ req[r].login \in 1 .. Len(issued)
         /\ Tok(r) \in Token
         /\ User(r) \in Users
<1>1. req[r] \in Request /\ req[r].login \in 1 .. Len(issued)
  BY DEF TypeOK
<1>2. issued[req[r].login] \in Token
  BY <1>1 DEF TypeOK
<1>3. QED
  BY <1>1, <1>2 DEF Tok, User, Token

(* r moves on to a state of its login, or ends; the others stay. *)
Moves(r) ==
  /\ req' \in [Requests -> Request]
  /\ \A q \in Requests \ {r} : req'[q] = req[q]
  /\ req'[r] = Idle \/ req'[r].login = req[r].login

(* q is a local state of r's login with these values. *)
Locals(q, r, pc, todo, active, victims, cursor, alive) ==
  /\ q.pc = pc /\ q.todo = todo /\ q.active = active /\ q.victims = victims
  /\ q.cursor = cursor /\ q.alive = alive
  /\ q.login = req[r].login /\ q.added = req[r].added

LEMMA AnswerMoves ==
  ASSUME TypeOK, NEW r \in Requests, NEW next \in Request,
         next.login = req[r].login, Answer(r, next)
  PROVE  Moves(r) /\ req'[r] \in {next, Idle}
  BY IdleType DEF Answer, TypeOK, Moves

LEMMA MovesType ==
  ASSUME TypeOK, NEW r \in Requests, req[r].pc # "idle", Moves(r), issued' = issued
  PROVE  /\ req' \in [Requests -> Request]
         /\ \A q \in Requests : req'[q].pc # "idle" => req'[q].login \in 1 .. Len(issued')
  BY DEF TypeOK, Moves, Idle

LEMMA ReadSessionsMoves ==
  ASSUME TypeOK, NEW r \in Requests, ReadSessions(r)
  PROVE  /\ Moves(r)
         /\ \/ req'[r] = Idle
            \/ Locals(req'[r], r, "scan", sessions[User(r)], req[r].active,
                      req[r].victims, req[r].cursor, {h \in sessions[User(r)] : Live(h)})
<1> DEFINE next == [req[r] EXCEPT !.pc = "scan",
                                  !.todo = sessions[User(r)],
                                  !.alive = {h \in sessions[User(r)] : Live(h)}]
<1>1. req[r] \in Request /\ User(r) \in Users
  BY TokType DEF ReadSessions
<1>2. /\ next \in Request
      /\ Locals(next, r, "scan", sessions[User(r)], req[r].active,
                req[r].victims, req[r].cursor, {h \in sessions[User(r)] : Live(h)})
  BY <1>1 DEF TypeOK, Request, Pcs, Locals
<1>3. Answer(r, next)
  BY DEF ReadSessions
<1> HIDE DEF next
<1>4. Moves(r) /\ req'[r] \in {next, Idle}
  BY <1>2, <1>3, AnswerMoves DEF Locals
<1>5. QED
  BY <1>2, <1>4

LEMMA ReadPayloadMoves ==
  ASSUME TypeOK, NEW r \in Requests, NEW h \in req[r].todo, ReadPayload(r, h)
  PROVE  /\ Moves(r)
         /\ \/ req'[r] = Idle
            \/ Locals(req'[r], r, "scan", req[r].todo \ {h}, req[r].active \cup {[hash |-> h, created_at |-> tokens[h].created_at]},
                      req[r].victims, req[r].cursor, req[r].alive)
<1> DEFINE next == [req[r] EXCEPT !.todo = @ \ {h},
                                  !.active = @ \cup {[hash |-> h, created_at |-> tokens[h].created_at]}]
<1>1. /\ req[r] \in Request /\ h \in Token
      /\ [hash |-> h, created_at |-> tokens[h].created_at] \in Session
  BY TokType DEF ReadPayload, TypeOK, Request, Session, Record
<1>2. /\ next \in Request
      /\ Locals(next, r, "scan", req[r].todo \ {h}, req[r].active \cup {[hash |-> h, created_at |-> tokens[h].created_at]},
                req[r].victims, req[r].cursor, req[r].alive)
  BY <1>1 DEF ReadPayload, Request, Pcs, Locals
<1>3. Answer(r, next)
  BY DEF ReadPayload
<1> HIDE DEF next
<1>4. Moves(r) /\ req'[r] \in {next, Idle}
  BY <1>2, <1>3, AnswerMoves DEF Locals
<1>5. QED
  BY <1>2, <1>4

LEMMA MissPayloadMoves ==
  ASSUME TypeOK, NEW r \in Requests, NEW h \in req[r].todo, MissPayload(r, h)
  PROVE  /\ Moves(r)
         /\ \/ req'[r] = Idle
            \/ Locals(req'[r], r, "drop", req[r].todo \ {h}, req[r].active,
                      req[r].victims, h, req[r].alive)
<1> DEFINE next == [req[r] EXCEPT !.pc = "drop",
                                  !.todo = @ \ {h},
                                  !.cursor = h]
<1>1. /\ req[r] \in Request /\ h \in Token
  BY TokType DEF MissPayload, TypeOK, Request, Session, Record
<1>2. /\ next \in Request
      /\ Locals(next, r, "drop", req[r].todo \ {h}, req[r].active,
                req[r].victims, h, req[r].alive)
  BY <1>1 DEF MissPayload, Request, Pcs, Locals
<1>3. Answer(r, next)
  BY DEF MissPayload
<1> HIDE DEF next
<1>4. Moves(r) /\ req'[r] \in {next, Idle}
  BY <1>2, <1>3, AnswerMoves DEF Locals
<1>5. QED
  BY <1>2, <1>4

LEMMA DropStaleMoves ==
  ASSUME TypeOK, NEW r \in Requests, DropStale(r)
  PROVE  /\ Moves(r)
         /\ \/ req'[r] = Idle
            \/ Locals(req'[r], r, "scan", req[r].todo, req[r].active,
                      req[r].victims, NoToken, req[r].alive)
<1> DEFINE next == [req[r] EXCEPT !.pc = "scan",
                                  !.cursor = NoToken]
<1>1. req[r] \in Request /\ User(r) \in Users
  BY TokType DEF DropStale
<1>2. /\ next \in Request
      /\ Locals(next, r, "scan", req[r].todo, req[r].active,
                req[r].victims, NoToken, req[r].alive)
  BY <1>1 DEF TypeOK, Request, Pcs, Locals
<1>3. Answer(r, next)
  BY DEF DropStale
<1> HIDE DEF next
<1>4. Moves(r) /\ req'[r] \in {next, Idle}
  BY <1>2, <1>3, AnswerMoves DEF Locals
<1>5. QED
  BY <1>2, <1>4

LEMMA UnlistVictimMoves ==
  ASSUME TypeOK, NEW r \in Requests, UnlistVictim(r)
  PROVE  /\ Moves(r)
         /\ \/ req'[r] = Idle
            \/ Locals(req'[r], r, "evict", req[r].todo, req[r].active,
                      req[r].victims, NoToken, req[r].alive)
<1> DEFINE next == [req[r] EXCEPT !.pc = "evict",
                                  !.cursor = NoToken]
<1>1. req[r] \in Request /\ User(r) \in Users
  BY TokType DEF UnlistVictim
<1>2. /\ next \in Request
      /\ Locals(next, r, "evict", req[r].todo, req[r].active,
                req[r].victims, NoToken, req[r].alive)
  BY <1>1 DEF TypeOK, Request, Pcs, Locals
<1>3. Answer(r, next)
  BY DEF UnlistVictim
<1> HIDE DEF next
<1>4. Moves(r) /\ req'[r] \in {next, Idle}
  BY <1>2, <1>3, AnswerMoves DEF Locals
<1>5. QED
  BY <1>2, <1>4

LEMMA SetTokenMoves ==
  ASSUME TypeOK, NEW r \in Requests, SetToken(r)
  PROVE  /\ Moves(r)
         /\ \/ req'[r] = Idle
            \/ Locals(req'[r], r, "sadd", req[r].todo, req[r].active,
                      req[r].victims, req[r].cursor, {})
<1> DEFINE next == [req[r] EXCEPT !.pc = "sadd",
                                  !.alive = {}]
<1>1. req[r] \in Request /\ User(r) \in Users
  BY TokType DEF SetToken
<1>2. /\ next \in Request
      /\ Locals(next, r, "sadd", req[r].todo, req[r].active,
                req[r].victims, req[r].cursor, {})
  BY <1>1 DEF TypeOK, Request, Pcs, Locals
<1>3. Answer(r, next)
  BY DEF SetToken
<1> HIDE DEF next
<1>4. Moves(r) /\ req'[r] \in {next, Idle}
  BY <1>2, <1>3, AnswerMoves DEF Locals
<1>5. QED
  BY <1>2, <1>4

LEMMA RevokeDeleteMoves ==
  ASSUME TypeOK, NEW r \in Requests, RevokeDelete(r)
  PROVE  /\ Moves(r)
         /\ \/ req'[r] = Idle
            \/ Locals(req'[r], r, "srem", req[r].todo, req[r].active,
                      req[r].victims, req[r].cursor, req[r].alive)
<1> DEFINE next == [req[r] EXCEPT !.pc = "srem"]
<1>1. req[r] \in Request /\ User(r) \in Users
  BY TokType DEF RevokeDelete
<1>2. /\ next \in Request
      /\ Locals(next, r, "srem", req[r].todo, req[r].active,
                req[r].victims, req[r].cursor, req[r].alive)
  BY <1>1 DEF TypeOK, Request, Pcs, Locals
<1>3. Answer(r, next)
  BY DEF RevokeDelete
<1> HIDE DEF next
<1>4. Moves(r) /\ req'[r] \in {next, Idle}
  BY <1>2, <1>3, AnswerMoves DEF Locals
<1>5. QED
  BY <1>2, <1>4

LEMMA EnforceLimitMoves ==
  ASSUME TypeOK, NEW r \in Requests, EnforceLimit(r)
  PROVE  /\ Moves(r)
         /\ \E V \in OldestOf(req[r].active) :
              Locals(req'[r], r, "evict", req[r].todo, req[r].active \ V,
                     V, req[r].cursor, req[r].alive)
<1>1. PICK V \in OldestOf(req[r].active) :
        req' = [req EXCEPT ![r].pc = "evict", ![r].victims = V,
                           ![r].active = @ \ V]
  BY DEF EnforceLimit
<1> DEFINE next == [req[r] EXCEPT !.pc = "evict", !.victims = V, !.active = @ \ V]
<1>2. req[r] \in Request /\ V \subseteq req[r].active
  BY TokType DEF EnforceLimit, OldestOf
<1>3. /\ next \in Request
      /\ Locals(next, r, "evict", req[r].todo, req[r].active \ V,
                V, req[r].cursor, req[r].alive)
  BY <1>2 DEF Request, Pcs, Locals
<1>4. req' = [req EXCEPT ![r] = next]
  BY <1>1 DEF TypeOK
<1> HIDE DEF next
<1>5. Moves(r) /\ req'[r] = next
  BY <1>3, <1>4 DEF Moves, TypeOK, Locals
<1>6. QED
  BY <1>1, <1>3, <1>5

LEMMA EvictTokenMoves ==
  ASSUME TypeOK, NEW r \in Requests, EvictToken(r)
  PROVE  /\ Moves(r)
         /\ \E v \in req[r].victims :
              /\ \A w \in req[r].victims : v.created_at <= w.created_at
              /\ v.hash \in Token
              /\ tokens' = [tokens EXCEPT ![v.hash] = Absent]
              /\ \/ req'[r] = Idle
                 \/ Locals(req'[r], r, "unlist", req[r].todo, req[r].active,
                           req[r].victims \ {v}, v.hash, req[r].alive)
<1>1. PICK v \in req[r].victims :
        /\ \A w \in req[r].victims : v.created_at <= w.created_at
        /\ tokens' = [tokens EXCEPT ![v.hash] = Absent]
        /\ Answer(r, [req[r] EXCEPT !.pc = "unlist", !.cursor = v.hash,
                                    !.victims = @ \ {v}])
  BY DEF EvictToken
<1> DEFINE next == [req[r] EXCEPT !.pc = "unlist", !.cursor = v.hash,
                                  !.victims = @ \ {v}]
<1>2. req[r] \in Request /\ v.hash \in Token
  BY TokType DEF EvictToken, Request, Session
<1>3. /\ next \in Request
      /\ Locals(next, r, "unlist", req[r].todo, req[r].active,
                req[r].victims \ {v}, v.hash, req[r].alive)
  BY <1>2 DEF Request, Pcs, Locals
<1>4. Answer(r, next)
  BY <1>1
<1> HIDE DEF next
<1>5. Moves(r) /\ req'[r] \in {next, Idle}
  BY <1>3, <1>4, AnswerMoves DEF Locals
<1>6. QED
  BY <1>1, <1>2, <1>3, <1>5

LEMMA LookupMoves ==
  ASSUME TypeOK, NEW r \in Requests, Lookup(r)
  PROVE  /\ Moves(r)
         /\ \/ req'[r] = Idle
            \/ Locals(req'[r], r, "delete", req[r].todo, req[r].active,
                      req[r].victims, req[r].cursor, req[r].alive)
<1> DEFINE next == [req[r] EXCEPT !.pc = "delete"]
<1>1. req[r] \in Request
  BY TokType DEF Lookup
<1>2. /\ next \in Request
      /\ Locals(next, r, "delete", req[r].todo, req[r].active,
                req[r].victims, req[r].cursor, req[r].alive)
  BY <1>1 DEF Request, Pcs, Locals
<1>3. Answer(r, next) \/ req' = [req EXCEPT ![r] = Idle]
  BY DEF Lookup
<1> HIDE DEF next
<1>4. Moves(r) /\ req'[r] \in {next, Idle}
  BY <1>2, <1>3, AnswerMoves, IdleType DEF Moves, TypeOK, Locals
<1>5. QED
  BY <1>2, <1>4

LEMMA RevokeUnlistMoves ==
  ASSUME TypeOK, NEW r \in Requests, RevokeUnlist(r)
  PROVE  Moves(r) /\ req'[r] = Idle
  BY IdleType DEF RevokeUnlist, Moves, TypeOK

LEMMA FailMoves ==
  ASSUME TypeOK, NEW r \in Requests, Fail(r)
  PROVE  Moves(r) /\ req'[r] = Idle
  BY IdleType DEF Fail, Moves, TypeOK

LEMMA IssueTokenStarts ==
  ASSUME TypeOK, NEW r \in Requests, NEW u \in Users, IssueToken(r, u)
  PROVE  /\ Jwt(u) \in Token
         /\ issued' = Append(issued, Jwt(u))
         /\ issued' \in Seq(Token) /\ Len(issued') = Len(issued) + 1
         /\ Len(issued) \in Nat /\ Len(issued') <= MaxLogins
         /\ req' \in [Requests -> Request]
         /\ \A q \in Requests \ {r} : req'[q] = req[q]
         /\ Begun(r, "smembers", Len(issued'))
<1>1. Jwt(u) \in Token
  BY DEF TypeOK, Jwt, Token
<1>2. /\ issued' \in Seq(Token) /\ Len(issued') = Len(issued) + 1
      /\ Len(issued) \in Nat /\ Len(issued') <= MaxLogins
  BY <1>1 DEF IssueToken, TypeOK
<1>3. Len(issued') \in 0 .. MaxLogins
  BY <1>2
<1>4. [Idle EXCEPT !.pc = "smembers", !.login = Len(issued')] \in Request
  BY <1>3, IdleType DEF Request, Pcs
<1>5. req' = [req EXCEPT ![r] = [Idle EXCEPT !.pc = "smembers",
                                             !.login = Len(issued')]]
  BY <1>2 DEF IssueToken
<1>6. Begun(r, "smembers", Len(issued'))
  BY <1>5 DEF Begun, Idle, TypeOK
<1>7. QED
  BY <1>1, <1>2, <1>4, <1>5, <1>6 DEF IssueToken, TypeOK

LEMMA PresentStarts ==
  ASSUME TypeOK, NEW r \in Requests, NEW n \in granted, Present(r, n)
  PROVE  /\ req' \in [Requests -> Request]
         /\ \A q \in Requests \ {r} : req'[q] = req[q]
         /\ Begun(r, "lookup", n)
<1>1. n \in 0 .. MaxLogins
  BY DEF TypeOK
<1>2. [Idle EXCEPT !.pc = "lookup", !.login = n] \in Request
  BY <1>1, IdleType DEF Request, Pcs
<1>3. Begun(r, "lookup", n)
  BY DEF Present, Begun, Idle, TypeOK
<1>4. QED
  BY <1>2, <1>3 DEF Present, TypeOK

LEMMA TrackTokenMoves ==
  ASSUME TypeOK, NEW r \in Requests, TrackToken(r)
  PROVE  /\ req' \in [Requests -> Request]
         /\ req'[r] = Idle
         /\ \A q \in Requests \ {r} :
              \/ req'[q] = req[q]
              \/ /\ Storing(q) /\ User(q) = User(r)
                 /\ req'[q] = [req[q] EXCEPT !.added = @ \cup {Tok(r)}]
<1>1. ASSUME NEW q \in Requests
      PROVE  [req[q] EXCEPT !.added = @ \cup {Tok(r)}] \in Request
  <2>1. req[q] \in Request /\ Tok(r) \in Token
    BY TokType DEF TrackToken, TypeOK
  <2>2. QED
    BY <2>1 DEF Request
<1>2. QED
  BY <1>1, IdleType DEF TrackToken, TypeOK

-----------------------------------------------------------------------------
(* Types. *)

LEMMA InitType == Init => TypeOK
  BY IdleType DEF Init, TypeOK, Record, Absent, Idle

LEMMA NextType == TypeOK /\ [Next]_vars => TypeOK'
<1> SUFFICES ASSUME TypeOK, [Next]_vars PROVE TypeOK'
  OBVIOUS
<1>1. ASSUME NEW r \in Requests, NEW u \in Users, IssueToken(r, u) PROVE TypeOK'
  <2>1. \A q \in Requests : req'[q].pc # "idle" =>
          req'[q].login \in 1 .. Len(issued')
    BY <1>1, IssueTokenStarts DEF TypeOK, Begun
  <2>2. QED
    <3>1. granted \subseteq 1 .. Len(issued') /\ loggedOut \subseteq 1 .. Len(issued')
      BY <1>1, IssueTokenStarts DEF TypeOK
    <3>2. QED
      BY <1>1, <2>1, <3>1, IssueTokenStarts DEF IssueToken, TypeOK, redis
<1>2. ASSUME NEW r \in Requests, ReadSessions(r) PROVE TypeOK'
  BY <1>2, ReadSessionsMoves, MovesType DEF ReadSessions, TypeOK, redis, history
<1>3. ASSUME NEW r \in Requests, NEW h \in req[r].todo, ReadPayload(r, h) PROVE TypeOK'
  BY <1>3, ReadPayloadMoves, MovesType DEF ReadPayload, TypeOK, redis, history
<1>4. ASSUME NEW r \in Requests, NEW h \in req[r].todo, MissPayload(r, h) PROVE TypeOK'
  BY <1>4, MissPayloadMoves, MovesType DEF MissPayload, TypeOK, redis, history
<1>5. ASSUME NEW r \in Requests, DropStale(r) PROVE TypeOK'
  BY <1>5, DropStaleMoves, MovesType, TokType DEF DropStale, TypeOK, history
<1>6. ASSUME NEW r \in Requests, EnforceLimit(r) PROVE TypeOK'
  BY <1>6, EnforceLimitMoves, MovesType DEF EnforceLimit, TypeOK, redis, history
<1>7. ASSUME NEW r \in Requests, EvictToken(r) PROVE TypeOK'
  <2>1. PICK v \in req[r].victims : tokens' = [tokens EXCEPT ![v.hash] = Absent]
    BY <1>7, EvictTokenMoves
  <2>2. tokens' \in [Token -> Record]
    BY <2>1, AbsentType DEF TypeOK
  <2>3. QED
    BY <1>7, <2>2, EvictTokenMoves, MovesType DEF EvictToken, TypeOK, history
<1>8. ASSUME NEW r \in Requests, UnlistVictim(r) PROVE TypeOK'
  BY <1>8, UnlistVictimMoves, MovesType, TokType DEF UnlistVictim, TypeOK, history
<1>9. ASSUME NEW r \in Requests, SetToken(r) PROVE TypeOK'
  <2>1. /\ req[r].login \in 0 .. MaxLogins
        /\ now + ExpiresIn \in 0 .. (MaxTime + ExpiresIn)
    BY <1>9, TokType DEF SetToken, Request, TypeOK
  <2>2. tokens' \in [Token -> Record]
    BY <1>9, <2>1 DEF SetToken, Record, TypeOK
  <2>3. QED
    BY <1>9, <2>2, SetTokenMoves, MovesType DEF SetToken, TypeOK, history
<1>10. ASSUME NEW r \in Requests, TrackToken(r) PROVE TypeOK'
  <2>1. \A q \in Requests : req'[q].pc # "idle" =>
          req[q].pc # "idle" /\ req'[q].login = req[q].login
    <3>1. ASSUME NEW q \in Requests
          PROVE  LET next == [req[q] EXCEPT !.added = @ \cup {Tok(r)}]
                 IN  next.login = req[q].login /\ next.pc = req[q].pc
      BY DEF TypeOK, Request
    <3>2. SUFFICES ASSUME NEW q \in Requests, req'[q].pc # "idle"
                   PROVE  req[q].pc # "idle" /\ req'[q].login = req[q].login
      OBVIOUS
    <3>3. q \in Requests \ {r}
      BY <1>10, <3>2, TrackTokenMoves DEF Idle
    <3>4. \/ req'[q] = req[q]
          \/ req'[q] = [req[q] EXCEPT !.added = @ \cup {Tok(r)}]
      BY <1>10, <3>3, TrackTokenMoves
    <3>5. QED
      BY <3>1, <3>2, <3>4
  <2>2. sessions' \in [Users -> SUBSET Token]
    BY <1>10, TokType DEF TrackToken, TypeOK
  <2>3. granted' \subseteq 1 .. Len(issued')
    BY <1>10, TokType DEF TrackToken, TypeOK
  <2>4. QED
    BY <1>10, <2>1, <2>2, <2>3, TrackTokenMoves DEF TrackToken, TypeOK
<1>11. ASSUME NEW r \in Requests, NEW n \in granted, Present(r, n) PROVE TypeOK'
  <2>1. \A q \in Requests : req'[q].pc # "idle" =>
          req'[q].login \in 1 .. Len(issued)
    BY <1>11, PresentStarts DEF TypeOK, Begun
  <2>2. QED
    BY <1>11, <2>1, PresentStarts DEF Present, TypeOK, redis, history
<1>12. ASSUME NEW r \in Requests, Lookup(r) PROVE TypeOK'
  BY <1>12, LookupMoves, MovesType DEF Lookup, TypeOK, redis, history
<1>13. ASSUME NEW r \in Requests, RevokeDelete(r) PROVE TypeOK'
  <2>1. tokens' \in [Token -> Record]
    BY <1>13, AbsentType DEF RevokeDelete, TypeOK
  <2>2. QED
    BY <1>13, <2>1, RevokeDeleteMoves, MovesType DEF RevokeDelete, TypeOK, history
<1>14. ASSUME NEW r \in Requests, RevokeUnlist(r) PROVE TypeOK'
  <2>1. /\ sessions' \in [Users -> SUBSET Token]
        /\ loggedOut' \subseteq 1 .. Len(issued)
    BY <1>14, TokType DEF RevokeUnlist, TypeOK
  <2>2. QED
    BY <1>14, <2>1, RevokeUnlistMoves, MovesType DEF RevokeUnlist, TypeOK
<1>15. ASSUME NEW r \in Requests, Fail(r) PROVE TypeOK'
  BY <1>15, FailMoves, MovesType DEF Fail, TypeOK, redis, history
<1>16. ASSUME NEW t \in Token, Expire(t) PROVE TypeOK'
  BY <1>16 DEF Expire, TypeOK, history, Absent, Record
<1>17. CASE Tick
  BY <1>17 DEF Tick, TypeOK, redis, history
<1>18. CASE RedisRestart
  BY <1>18 DEF RedisRestart, TypeOK, history, Absent, Record
<1>19. CASE UNCHANGED vars
  BY <1>19 DEF vars, TypeOK
<1>20. QED
  BY <1>1, <1>2, <1>3, <1>4, <1>5, <1>6, <1>7, <1>8, <1>9, <1>10, <1>11,
     <1>12, <1>13, <1>14, <1>15, <1>16, <1>17, <1>18, <1>19 DEF Next, Step

(* Every variable has its type in every reachable state: what the code     *)
(* writes to Redis and keeps in its locals stays within what the model     *)
(* says of them (store_token, _enforce_session_limit, revoke_token).       *)
THEOREM TypeCorrect == Spec => []TypeOK
  BY InitType, NextType, PTL DEF Spec

-----------------------------------------------------------------------------
(* The inductive invariant. *)

LoggingIn(r) == req[r].pc \in {"smembers", "scan", "drop", "evict", "unlist", "sadd"}
Presenting(r) == req[r].pc \in {"lookup", "delete", "srem"}

WasIssued(t) == \E n \in 1 .. Len(issued) : issued[n] = t

(* Hashes that a request has in a local variable. *)
Holds(r, t) ==
  \/ t \in req[r].todo \/ t = req[r].cursor
  \/ \E s \in req[r].active \cup req[r].victims : s.hash = t

(* A request that has ended forgets its locals. *)
IdleForgets == \A r \in Requests : req[r].pc = "idle" => req[r] = Idle

(* A login is performed by one request, and not granted while it is. *)
LoginsApart ==
  \A r \in Requests : LoggingIn(r) =>
    /\ req[r].login \notin granted
    /\ \A q \in Requests \ {r} : LoggingIn(q) => req[q].login # req[r].login

(* Only granted tokens are presented. *)
PresentedGranted ==
  /\ loggedOut \subseteq granted
  /\ \A r \in Requests : Presenting(r) => req[r].login \in granted

(* What Redis and the requests know was issued, and is where it belongs. *)
KnownIssued ==
  \A t \in Token :
    /\ Live(t) => WasIssued(t)
    /\ \A u \in Users : t \in sessions[u] => WasIssued(t) /\ t.sub = u
    /\ \A r \in Requests : Holds(r, t) => WasIssued(t) /\ t.sub = User(r)

(* Nobody can list, count or evict a token before its login has stored it. *)
UnknownUntilStored ==
  \A r \in Requests : LoggingIn(r) /\ ~Reissued(Tok(r)) =>
    /\ \A u \in Users : Tok(r) \notin sessions[u]
    /\ \A q \in Requests : ~Holds(q, Tok(r))

(* The hash of which a request is about to take off the set is dead. *)
UnlistsDead(r) ==
  /\ req[r].pc \in {"drop", "unlist"} =>
       /\ req[r].cursor \in Token
       /\ ~Live(req[r].cursor) \/ Reissued(req[r].cursor)
  /\ req[r].pc = "srem" => ~Live(Tok(r)) \/ Reissued(Tok(r))

ExpiriesAhead == \A n \in 1 .. Len(issued) : issued[n].exp <= now + ExpiresIn

IInv ==
  /\ TypeOK
  /\ IdleForgets
  /\ LoginsApart
  /\ PresentedGranted
  /\ KnownIssued
  /\ UnknownUntilStored
  /\ \A r \in Requests : UnlistsDead(r)
  /\ ExpiriesAhead
  /\ RecordOutlivesToken
  /\ GrantedTokensTracked
  /\ LogoutEndsSession

LEMMA InitInv == Init => IInv
<1> SUFFICES ASSUME Init PROVE IInv
  OBVIOUS
<1>1. TypeOK
  BY InitType
<1>2. \A t \in Token : ~Live(t)
  BY DEF Init, Live
<1>3. \A r \in Requests : req[r] = Idle
  BY DEF Init
<1>4. \A r \in Requests, t \in Token : ~Holds(r, t)
  BY <1>3 DEF Holds, Idle
<1>5. Len(issued) = 0 /\ \A u \in Users : sessions[u] = {}
  BY DEF Init
<1>6. KnownIssued
  BY <1>2, <1>4, <1>5 DEF KnownIssued
<1>7. LoginsApart /\ PresentedGranted /\ UnknownUntilStored /\ IdleForgets
      /\ \A r \in Requests : UnlistsDead(r)
  BY <1>3 DEF Init, LoginsApart, PresentedGranted, UnknownUntilStored,
              IdleForgets, UnlistsDead, LoggingIn, Presenting, Idle
<1>8. ExpiriesAhead /\ RecordOutlivesToken /\ GrantedTokensTracked /\ LogoutEndsSession
  BY <1>2, <1>5 DEF Init, ExpiriesAhead, RecordOutlivesToken,
                    GrantedTokensTracked, LogoutEndsSession
<1>9. QED
  BY <1>1, <1>6, <1>7, <1>8 DEF IInv

(* Most steps issue and grant nothing, store nothing, and take off the     *)
(* sets only what is dead.                                                 *)
QuietLocals(r) ==
  /\ req[r].pc # "idle" /\ Moves(r)
  /\ req'[r].pc = "idle" => req'[r] = Idle
  /\ LoggingIn(r)' => LoggingIn(r)
  /\ Presenting(r)' => Presenting(r)

QuietRedis(r) ==
  /\ UNCHANGED <<now, issued, granted>>
  /\ \A n \in loggedOut' \ loggedOut :
       n \in granted /\ (Live(issued[n]) => Reissued(issued[n]))
  /\ \A t \in Token : tokens'[t] \in {tokens[t], Absent}
  /\ \A u \in Users : sessions'[u] \subseteq sessions[u]
  /\ \A u \in Users : \A t \in sessions[u] :
       t \in sessions'[u] \/ ~Live(t)' \/ Reissued(t)

QuietStep(r) ==
  /\ QuietLocals(r)
  /\ QuietRedis(r)
  /\ \A t \in Token : Holds(r, t)' => Holds(r, t) \/ t \in sessions[User(r)]
  /\ UnlistsDead(r)'

LEMMA NothingWritten ==
  ASSUME NEW r \in Requests, UNCHANGED <<now, tokens, sessions, issued, granted, loggedOut>>
  PROVE  QuietRedis(r)
  BY DEF QuietRedis

LEMMA QuietStepInv ==
  ASSUME IInv, TypeOK', NEW r \in Requests, QuietStep(r)
  PROVE  IInv'
<1> USE DEF QuietStep, QuietLocals, QuietRedis
<1>1. /\ \A t : Reissued(t)' <=> Reissued(t)
      /\ \A t : WasIssued(t)' <=> WasIssued(t)
  BY DEF Reissued, WasIssued
<1>2. \A t \in Token : Live(t)' => Live(t)
  BY DEF Live
<1>3. \A q \in Requests \ {r} : req'[q] = req[q] /\ Tok(q)' = Tok(q) /\ User(q)' = User(q)
  BY DEF Moves, Tok, User
<1>4. \A q \in Requests \ {r} : \A t \in Token : Holds(q, t)' <=> Holds(q, t)
  BY <1>3 DEF Holds
<1>5. req'[r] # Idle => req'[r].login = req[r].login /\ Tok(r)' = Tok(r) /\ User(r)' = User(r)
  BY DEF Moves, Tok, User
<1>6. \A t \in Token : Holds(r, t)' => req'[r] # Idle
  BY DEF Holds, Idle
<1>7. User(r) \in Users /\ Tok(r) \in Token
  BY TokType DEF IInv
<1>8. IdleForgets'
  BY <1>3 DEF IInv, IdleForgets
<1>9. LoginsApart'
  BY <1>3, <1>5 DEF IInv, LoginsApart, LoggingIn, Idle
<1>10. PresentedGranted'
  BY <1>3, <1>5 DEF IInv, PresentedGranted, Presenting, Idle
<1>11. KnownIssued'
  <2>1. ASSUME NEW t \in Token
        PROVE  (Live(t) => WasIssued(t))'
    BY <1>1, <1>2 DEF IInv, KnownIssued
  <2>2. ASSUME NEW t \in Token, NEW u \in Users, t \in sessions'[u]
        PROVE  WasIssued(t)' /\ t.sub = u
    BY <1>1, <2>2 DEF IInv, KnownIssued
  <2>3. ASSUME NEW t \in Token, NEW q \in Requests, Holds(q, t)'
        PROVE  WasIssued(t)' /\ t.sub = User(q)'
    <3>1. CASE q = r
      BY <1>1, <1>5, <1>6, <1>7, <2>3, <3>1 DEF IInv, KnownIssued
    <3>2. CASE q # r
      BY <1>1, <1>3, <1>4, <2>3, <3>2 DEF IInv, KnownIssued
    <3>3. QED
      BY <3>1, <3>2
  <2>4. QED
    BY <2>1, <2>2, <2>3 DEF KnownIssued
<1>12. UnknownUntilStored'
  <2> SUFFICES ASSUME NEW q \in Requests, LoggingIn(q)', ~Reissued(Tok(q))'
               PROVE  /\ \A u \in Users : Tok(q)' \notin sessions'[u]
                      /\ \A p \in Requests : ~Holds(p, Tok(q))'
    BY DEF UnknownUntilStored
  <2>1. LoggingIn(q) /\ Tok(q)' = Tok(q)
    BY <1>3, <1>5 DEF LoggingIn, Idle
  <2>2. Tok(q) \in Token
    BY <2>1, TokType DEF IInv, LoggingIn
  <2>3. ~Reissued(Tok(q))
    BY <1>1, <2>1 DEF Reissued
  <2>4. /\ \A u \in Users : Tok(q) \notin sessions[u]
        /\ \A p \in Requests : ~Holds(p, Tok(q))
    BY <2>1, <2>3 DEF IInv, UnknownUntilStored
  <2>5. \A p \in Requests : ~(Holds(p, Tok(q))')
    <3>1. \A p \in Requests : \A t \in Token : Holds(p, t)' => Holds(p, t) \/ t \in sessions[User(r)]
      BY <1>4
    <3>2. QED
      BY <3>1, <2>1, <2>2, <2>4, <1>7 DEF Holds
  <2>6. QED
    BY <2>1, <2>4, <2>5
<1>13. \A q \in Requests : UnlistsDead(q)'
  <2> SUFFICES ASSUME NEW q \in Requests, q # r PROVE UnlistsDead(q)'
    OBVIOUS
  <2>1. UnlistsDead(q)
    BY DEF IInv
  <2>2. req[q].pc = "srem" => Tok(q) \in Token
    BY TokType DEF IInv
  <2>3. QED
    BY <1>1, <1>2, <1>3, <2>1, <2>2 DEF UnlistsDead
<1>14. ExpiriesAhead'
  BY DEF IInv, ExpiriesAhead
<1>15. RecordOutlivesToken'
  BY <1>2 DEF IInv, RecordOutlivesToken, Live
<1>16. GrantedTokensTracked'
  <2> SUFFICES ASSUME NEW n \in granted, Live(issued[n])', ~Reissued(issued[n])'
               PROVE  issued[n] \in sessions'[issued[n].sub]
    BY DEF GrantedTokensTracked
  <2>1. issued[n] \in Token /\ issued[n].sub \in Users
    <3>1. issued[n] \in Token
      BY DEF IInv, TypeOK
    <3>2. QED
      BY <3>1 DEF Token
  <2>2. Live(issued[n]) /\ ~Reissued(issued[n])
    BY <1>1, <1>2, <2>1 DEF Live, Reissued
  <2>3. issued[n] \in sessions[issued[n].sub]
    BY <2>2 DEF IInv, GrantedTokensTracked
  <2>4. QED
    BY <2>1, <2>2, <2>3 DEF Live
<1>17. LogoutEndsSession'
  <2>1. \A n \in loggedOut' : issued[n] \in Token
    BY DEF IInv, TypeOK
  <2>2. QED
    BY <1>1, <1>2, <2>1 DEF IInv, LogoutEndsSession, Live, Reissued
<1>18. QED
  BY <1>8, <1>9, <1>10, <1>11, <1>12, <1>13, <1>14, <1>15, <1>16, <1>17 DEF IInv

LEMMA ReadSessionsInv ==
  ASSUME IInv, TypeOK', NEW r \in Requests, ReadSessions(r)
  PROVE  IInv'
<1>1. QuietLocals(r)
  BY IdleLocals, ReadSessionsMoves
  DEF IInv, ReadSessions, QuietLocals, LoggingIn, Presenting, Locals
<1>2. QuietRedis(r)
  BY NothingWritten DEF ReadSessions, redis, history
<1>3. \A t \in Token : Holds(r, t)' => Holds(r, t) \/ t \in sessions[User(r)]
  BY ReadSessionsMoves DEF IInv, Holds, Idle, Locals
<1>4. UnlistsDead(r)'
  BY ReadSessionsMoves DEF IInv, UnlistsDead, Idle, Locals
<1>5. QED
  BY <1>1, <1>2, <1>3, <1>4, QuietStepInv DEF QuietStep

LEMMA ReadPayloadInv ==
  ASSUME IInv, TypeOK', NEW r \in Requests, NEW h \in req[r].todo, ReadPayload(r, h)
  PROVE  IInv'
<1>1. QuietLocals(r)
  BY IdleLocals, ReadPayloadMoves
  DEF IInv, ReadPayload, QuietLocals, LoggingIn, Presenting, Locals
<1>2. QuietRedis(r)
  BY NothingWritten DEF ReadPayload, redis, history
<1>3. \A t \in Token : Holds(r, t)' => Holds(r, t)
  BY ReadPayloadMoves DEF IInv, Holds, Idle, Locals
<1>4. UnlistsDead(r)'
  BY ReadPayloadMoves DEF IInv, UnlistsDead, Idle, Locals
<1>5. QED
  BY <1>1, <1>2, <1>3, <1>4, QuietStepInv DEF QuietStep

LEMMA MissPayloadInv ==
  ASSUME IInv, TypeOK', NEW r \in Requests, NEW h \in req[r].todo, MissPayload(r, h)
  PROVE  IInv'
<1>1. QuietLocals(r)
  BY IdleLocals, MissPayloadMoves
  DEF IInv, MissPayload, QuietLocals, LoggingIn, Presenting, Locals
<1>2. QuietRedis(r)
  BY NothingWritten DEF MissPayload, redis, history
<1>3. \A t \in Token : Holds(r, t)' => Holds(r, t)
  BY MissPayloadMoves DEF IInv, Holds, Idle, Locals
<1>4. UnlistsDead(r)'
  <2>1. h \in Token /\ ~Live(h)'
    BY TokType DEF IInv, MissPayload, Request, Live, redis
  <2>2. QED
    BY <2>1, MissPayloadMoves DEF IInv, UnlistsDead, Idle, Locals
<1>5. QED
  BY <1>1, <1>2, <1>3, <1>4, QuietStepInv DEF QuietStep

(* A request takes off its user's set only a hash that is dead. *)
LEMMA UnlistsOnlyDead ==
  ASSUME IInv, NEW r \in Requests, req[r].pc \in {"drop", "unlist"},
         sessions' = [sessions EXCEPT ![User(r)] = @ \ {req[r].cursor}],
         UNCHANGED <<now, tokens, issued, granted, loggedOut>>
  PROVE  QuietRedis(r)
<1>1. UnlistsDead(r) /\ sessions \in [Users -> SUBSET Token]
  BY DEF IInv, TypeOK
<1>2. \A u \in Users : sessions'[u] \subseteq sessions[u]
  BY <1>1
<1>3. ASSUME NEW u \in Users, NEW t \in sessions[u]
      PROVE  t \in sessions'[u] \/ ~Live(t)' \/ Reissued(t)
  BY <1>1 DEF UnlistsDead, Live
<1>4. QED
  BY <1>2, <1>3 DEF QuietRedis

LEMMA DropStaleInv ==
  ASSUME IInv, TypeOK', NEW r \in Requests, DropStale(r)
  PROVE  IInv'
<1>1. QuietLocals(r)
  BY IdleLocals, DropStaleMoves
  DEF IInv, DropStale, QuietLocals, LoggingIn, Presenting, Locals
<1>2. QuietRedis(r)
  BY UnlistsOnlyDead DEF DropStale, history
<1>3. \A t \in Token : Holds(r, t)' => Holds(r, t)
  BY DropStaleMoves DEF IInv, Holds, Idle, Locals
<1>4. UnlistsDead(r)'
  BY DropStaleMoves DEF IInv, UnlistsDead, Idle, Locals
<1>5. QED
  BY <1>1, <1>2, <1>3, <1>4, QuietStepInv DEF QuietStep

LEMMA UnlistVictimInv ==
  ASSUME IInv, TypeOK', NEW r \in Requests, UnlistVictim(r)
  PROVE  IInv'
<1>1. QuietLocals(r)
  BY IdleLocals, UnlistVictimMoves
  DEF IInv, UnlistVictim, QuietLocals, LoggingIn, Presenting, Locals
<1>2. QuietRedis(r)
  BY UnlistsOnlyDead DEF UnlistVictim, history
<1>3. \A t \in Token : Holds(r, t)' => Holds(r, t)
  BY UnlistVictimMoves DEF IInv, Holds, Idle, Locals
<1>4. UnlistsDead(r)'
  BY UnlistVictimMoves DEF IInv, UnlistsDead, Idle, Locals
<1>5. QED
  BY <1>1, <1>2, <1>3, <1>4, QuietStepInv DEF QuietStep

LEMMA EnforceLimitInv ==
  ASSUME IInv, TypeOK', NEW r \in Requests, EnforceLimit(r)
  PROVE  IInv'
<1>1. PICK V \in OldestOf(req[r].active) :
        Locals(req'[r], r, "evict", req[r].todo, req[r].active \ V,
               V, req[r].cursor, req[r].alive)
  BY EnforceLimitMoves DEF IInv
<1>2. V \subseteq req[r].active
  BY DEF OldestOf
<1>3. QuietLocals(r)
  BY <1>1, EnforceLimitMoves
  DEF IInv, EnforceLimit, QuietLocals, LoggingIn, Presenting, Locals
<1>4. QuietRedis(r)
  BY NothingWritten DEF EnforceLimit, redis, history
<1>5. \A t \in Token : Holds(r, t)' => Holds(r, t)
  BY <1>1, <1>2 DEF Holds, Locals
<1>6. UnlistsDead(r)'
  BY <1>1 DEF UnlistsDead, Locals
<1>7. QED
  BY <1>3, <1>4, <1>5, <1>6, QuietStepInv DEF QuietStep

(* A DEL is quiet. *)
LEMMA DeleteQuiet ==
  ASSUME IInv, NEW r \in Requests, NEW h \in Token,
         tokens' = [tokens EXCEPT ![h] = Absent],
         UNCHANGED <<now, sessions, issued, granted, loggedOut>>
  PROVE  QuietRedis(r) /\ ~Live(h)'
  BY DEF IInv, TypeOK, QuietRedis, Live

LEMMA EvictTokenInv ==
  ASSUME IInv, TypeOK', NEW r \in Requests, EvictToken(r)
  PROVE  IInv'
<1>1. PICK v \in req[r].victims :
        /\ v.hash \in Token
        /\ tokens' = [tokens EXCEPT ![v.hash] = Absent]
        /\ \/ req'[r] = Idle
           \/ Locals(req'[r], r, "unlist", req[r].todo, req[r].active,
                     req[r].victims \ {v}, v.hash, req[r].alive)
  BY EvictTokenMoves DEF IInv
<1>2. QuietLocals(r)
  BY IdleLocals, <1>1, EvictTokenMoves
  DEF IInv, EvictToken, QuietLocals, LoggingIn, Presenting, Locals
<1>3. QuietRedis(r) /\ ~Live(v.hash)'
  BY <1>1, DeleteQuiet DEF EvictToken, history
<1>4. \A t \in Token : Holds(r, t)' => Holds(r, t)
  BY <1>1 DEF Holds, Idle, Locals
<1>5. UnlistsDead(r)'
  BY <1>1, <1>3 DEF UnlistsDead, Idle, Locals
<1>6. QED
  BY <1>2, <1>3, <1>4, <1>5, QuietStepInv DEF QuietStep

LEMMA LookupInv ==
  ASSUME IInv, TypeOK', NEW r \in Requests, Lookup(r)
  PROVE  IInv'
<1>1. QuietLocals(r)
  BY IdleLocals, LookupMoves
  DEF IInv, Lookup, QuietLocals, LoggingIn, Presenting, Locals
<1>2. QuietRedis(r)
  BY NothingWritten DEF Lookup, redis, history
<1>3. \A t \in Token : Holds(r, t)' => Holds(r, t)
  BY LookupMoves DEF IInv, Holds, Idle, Locals
<1>4. UnlistsDead(r)'
  BY LookupMoves DEF IInv, UnlistsDead, Idle, Locals
<1>5. QED
  BY <1>1, <1>2, <1>3, <1>4, QuietStepInv DEF QuietStep

LEMMA RevokeDeleteInv ==
  ASSUME IInv, TypeOK', NEW r \in Requests, RevokeDelete(r)
  PROVE  IInv'
<1>1. QuietLocals(r)
  BY IdleLocals, RevokeDeleteMoves
  DEF IInv, RevokeDelete, QuietLocals, LoggingIn, Presenting, Locals
<1>2. QuietRedis(r) /\ (req'[r] # Idle => ~Live(Tok(r))')
  <2>1. Tok(r) \in Token
    BY TokType DEF IInv, RevokeDelete
  <2>2. QuietRedis(r) /\ tokens'[Tok(r)] = Absent
    BY <2>1, DeleteQuiet DEF RevokeDelete, history, Live
  <2>3. req'[r] # Idle => Tok(r)' = Tok(r)
    BY RevokeDeleteMoves DEF IInv, RevokeDelete, Tok, Moves, history
  <2>4. QED
    BY <2>2, <2>3 DEF Live
<1>3. \A t \in Token : Holds(r, t)' => Holds(r, t)
  BY RevokeDeleteMoves DEF IInv, Holds, Idle, Locals
<1>4. UnlistsDead(r)'
  BY <1>2, RevokeDeleteMoves DEF IInv, UnlistsDead, Idle, Locals
<1>5. QED
  BY <1>1, <1>2, <1>3, <1>4, QuietStepInv DEF QuietStep

LEMMA FailInv ==
  ASSUME IInv, TypeOK', NEW r \in Requests, Fail(r)
  PROVE  IInv'
<1>1. QuietLocals(r)
  BY IdleLocals, FailMoves DEF IInv, Fail, QuietLocals, LoggingIn, Presenting
<1>2. QuietRedis(r)
  BY NothingWritten DEF Fail, redis, history
<1>3. \A t \in Token : Holds(r, t)' => Holds(r, t)
  BY FailMoves DEF IInv, Holds, Idle
<1>4. UnlistsDead(r)'
  BY FailMoves DEF IInv, UnlistsDead, Idle
<1>5. QED
  BY <1>1, <1>2, <1>3, <1>4, QuietStepInv DEF QuietStep

LEMMA RevokeUnlistInv ==
  ASSUME IInv, TypeOK', NEW r \in Requests, RevokeUnlist(r)
  PROVE  IInv'
<1>1. QuietLocals(r)
  BY IdleLocals, RevokeUnlistMoves
  DEF IInv, RevokeUnlist, QuietLocals, LoggingIn, Presenting
<1>2. QuietRedis(r)
  <2>1. /\ ~Live(Tok(r)) \/ Reissued(Tok(r))
        /\ req[r].login \in granted
        /\ sessions \in [Users -> SUBSET Token]
    BY DEF IInv, RevokeUnlist, UnlistsDead, PresentedGranted, Presenting, TypeOK
  <2>2. \A n \in loggedOut' \ loggedOut :
          n \in granted /\ (Live(issued[n]) => Reissued(issued[n]))
    BY <2>1 DEF RevokeUnlist, Tok
  <2>3. \A u \in Users : sessions'[u] \subseteq sessions[u]
    BY <2>1 DEF RevokeUnlist
  <2>4. ASSUME NEW u \in Users, NEW t \in sessions[u]
        PROVE  t \in sessions'[u] \/ ~Live(t)' \/ Reissued(t)
    BY <2>1 DEF RevokeUnlist, Live
  <2>5. QED
    BY <2>2, <2>3, <2>4 DEF RevokeUnlist, QuietRedis
<1>3. \A t \in Token : Holds(r, t)' => Holds(r, t)
  BY RevokeUnlistMoves DEF IInv, Holds, Idle
<1>4. UnlistsDead(r)'
  BY RevokeUnlistMoves DEF IInv, UnlistsDead, Idle
<1>5. QED
  BY <1>1, <1>2, <1>3, <1>4, QuietStepInv DEF QuietStep

-----------------------------------------------------------------------------
(* The steps that are not quiet. *)

(* A granted login with the token of a login in flight is another login. *)
LEMMA GrantedTwin ==
  ASSUME IInv, NEW r \in Requests, LoggingIn(r),
         NEW n \in granted, issued[n] = Tok(r)
  PROVE  Reissued(Tok(r))
<1>1. /\ n \in 1 .. Len(issued) /\ req[r].login \in 1 .. Len(issued)
      /\ n # req[r].login
  BY TokType DEF IInv, LoginsApart, LoggingIn, TypeOK
<1>2. QED
  BY <1>1 DEF Reissued, Tok

LEMMA SetTokenInv ==
  ASSUME IInv, TypeOK', NEW r \in Requests, SetToken(r)
  PROVE  IInv'
<1> DEFINE t == Tok(r)
<1>1. /\ t \in Token /\ LoggingIn(r) /\ req[r].pc # "idle"
      /\ issued[req[r].login] = t /\ req[r].login \in 1 .. Len(issued)
  BY TokType DEF IInv, SetToken, LoggingIn, Tok
<1>2. /\ \A h \in Token \ {t} : tokens'[h] = tokens[h]
      /\ tokens'[t].expires_at = now + ExpiresIn
  BY <1>1 DEF SetToken, IInv, TypeOK
<1>3. /\ \A h \in Token : Live(h)' => Live(h) \/ h = t
      /\ UNCHANGED <<now, sessions, issued, granted, loggedOut>>
  BY <1>2 DEF SetToken, Live, history
<1>4. /\ \A h : Reissued(h)' <=> Reissued(h)
      /\ \A h : WasIssued(h)' <=> WasIssued(h)
  BY <1>3 DEF Reissued, WasIssued
<1>5. /\ Moves(r)
      /\ \A q \in Requests \ {r} : req'[q] = req[q] /\ Tok(q)' = Tok(q) /\ User(q)' = User(q)
  BY <1>3, SetTokenMoves DEF IInv, Moves, Tok, User
<1>6. req'[r] # Idle => /\ req'[r].pc = "sadd" /\ req'[r].login = req[r].login
                        /\ Tok(r)' = Tok(r) /\ User(r)' = User(r)
  BY <1>3, SetTokenMoves DEF IInv, Locals, Tok, User
<1>7. \A q \in Requests : \A h \in Token : Holds(q, h)' => Holds(q, h) /\ User(q)' = User(q)
  <2>1. \A h \in Token : Holds(r, h)' => Holds(r, h) /\ req'[r] # Idle
    BY SetTokenMoves DEF IInv, Holds, Locals, Idle
  <2>2. QED
    BY <1>5, <1>6, <2>1 DEF Holds
<1>8. IdleForgets'
  BY <1>5, <1>6 DEF IInv, IdleForgets
<1>9. LoginsApart'
  BY <1>1, <1>3, <1>5, <1>6, IdleLocals DEF IInv, LoginsApart, LoggingIn
<1>10. PresentedGranted'
  BY <1>1, <1>3, <1>5, <1>6, IdleLocals DEF IInv, PresentedGranted, Presenting, LoggingIn
<1>11. KnownIssued'
  <2>1. ASSUME NEW h \in Token PROVE (Live(h) => WasIssued(h))'
    BY <1>1, <1>3, <1>4 DEF IInv, KnownIssued, WasIssued
  <2>2. ASSUME NEW h \in Token, NEW u \in Users, h \in sessions'[u]
        PROVE  WasIssued(h)' /\ h.sub = u
    BY <1>3, <1>4, <2>2 DEF IInv, KnownIssued
  <2>3. ASSUME NEW h \in Token, NEW q \in Requests, Holds(q, h)'
        PROVE  WasIssued(h)' /\ h.sub = User(q)'
    BY <1>4, <1>7, <2>3 DEF IInv, KnownIssued
  <2>4. QED
    BY <2>1, <2>2, <2>3 DEF KnownIssued
<1>12. UnknownUntilStored'
  <2> SUFFICES ASSUME NEW q \in Requests, LoggingIn(q)', ~Reissued(Tok(q))'
               PROVE  /\ \A u \in Users : Tok(q)' \notin sessions'[u]
                      /\ \A p \in Requests : ~Holds(p, Tok(q))'
    BY DEF UnknownUntilStored
  <2>1. LoggingIn(q) /\ Tok(q)' = Tok(q)
    BY <1>1, <1>5, <1>6, IdleLocals DEF LoggingIn
  <2>2. Tok(q) \in Token
    BY <2>1, TokType DEF IInv, LoggingIn
  <2>3. ~Reissued(Tok(q))
    BY <1>3, <2>1 DEF Reissued
  <2>4. /\ \A u \in Users : Tok(q) \notin sessions[u]
        /\ \A p \in Requests : ~Holds(p, Tok(q))
    BY <2>1, <2>3 DEF IInv, UnknownUntilStored
  <2>5. \A p \in Requests : ~(Holds(p, Tok(q))')
    BY <1>7, <2>1, <2>2, <2>4 DEF Holds
  <2>6. QED
    BY <1>3, <2>1, <2>4, <2>5
<1>13. ASSUME NEW q \in Requests PROVE UnlistsDead(q)'
  <2>1. CASE q = r
    BY <1>6, <2>1, IdleLocals DEF UnlistsDead
  <2>2. CASE q # r
    <3>1. UnlistsDead(q) /\ req'[q] = req[q] /\ Tok(q)' = Tok(q)
      BY <1>5, <2>2 DEF IInv
    <3>2. ASSUME req[q].pc \in {"drop", "unlist"}
          PROVE  ~Live(req[q].cursor)' \/ Reissued(req[q].cursor)
      <4>1. CASE req[q].cursor = t
        BY <1>1, <4>1 DEF IInv, UnknownUntilStored, Holds
      <4>2. CASE req[q].cursor # t
        BY <1>3, <3>1, <3>2, <4>2 DEF UnlistsDead, Live
      <4>3. QED
        BY <4>1, <4>2
    <3>3. ASSUME req[q].pc = "srem"
          PROVE  ~Live(Tok(q))' \/ Reissued(Tok(q))
      <4>1. Tok(q) \in Token /\ req[q].login \in granted
        BY <3>3, TokType DEF IInv, PresentedGranted, Presenting
      <4>2. CASE Tok(q) = t
        BY <1>1, <4>1, <4>2, GrantedTwin DEF Tok
      <4>3. CASE Tok(q) # t
        BY <1>3, <3>1, <3>3, <4>1, <4>3 DEF UnlistsDead, Live
      <4>4. QED
        BY <4>2, <4>3
    <3>4. QED
      BY <1>4, <3>1, <3>2, <3>3 DEF UnlistsDead, Live
  <2>3. QED
    BY <2>1, <2>2
<1>14. ExpiriesAhead'
  BY <1>3 DEF IInv, ExpiriesAhead
<1>15. RecordOutlivesToken'
  <2>1. t.exp <= now + ExpiresIn
    BY <1>1 DEF IInv, ExpiriesAhead
  <2>2. QED
    BY <1>2, <1>3, <2>1 DEF IInv, RecordOutlivesToken, Live
<1>16. ASSUME NEW n \in granted
       PROVE  /\ issued[n] \in Token
              /\ Live(issued[n])' => Live(issued[n]) \/ Reissued(issued[n])
  <2>1. issued[n] \in Token
    BY DEF IInv, TypeOK
  <2>2. issued[n] = t => Reissued(issued[n])
    BY <1>1, GrantedTwin
  <2>3. QED
    BY <1>3, <2>1, <2>2 DEF Live
<1>17. GrantedTokensTracked'
  BY <1>3, <1>4, <1>16 DEF IInv, GrantedTokensTracked, Live, Reissued
<1>18. LogoutEndsSession'
  BY <1>3, <1>4, <1>16 DEF IInv, LogoutEndsSession, PresentedGranted, Live, Reissued
<1>19. QED
  BY <1>8, <1>9, <1>10, <1>11, <1>12, <1>13, <1>14, <1>15, <1>17, <1>18 DEF IInv

LEMMA TrackTokenInv ==
  ASSUME IInv, TypeOK', NEW r \in Requests, TrackToken(r)
  PROVE  IInv'
<1> DEFINE t == Tok(r)
<1>1. /\ t \in Token /\ t.sub = User(r) /\ LoggingIn(r)
      /\ issued[req[r].login] = t /\ req[r].login \in 1 .. Len(issued)
  BY TokType DEF IInv, TrackToken, LoggingIn, Tok, User
<1>2. /\ UNCHANGED <<now, tokens, issued, loggedOut>>
      /\ granted \subseteq granted' /\ granted' \subseteq granted \cup {req[r].login}
      /\ \A u \in Users : sessions'[u] = IF u = User(r) THEN sessions[u] \cup {t}
                                                       ELSE sessions[u]
  BY DEF TrackToken, IInv, TypeOK
<1>3. /\ \A h : Reissued(h)' <=> Reissued(h)
      /\ \A h : WasIssued(h)' <=> WasIssued(h)
      /\ \A h : Live(h)' <=> Live(h)
  BY <1>2 DEF Reissued, WasIssued, Live
<1>4. \A q \in Requests \ {r} :
        /\ req'[q].pc = req[q].pc /\ req'[q].login = req[q].login
        /\ req'[q].cursor = req[q].cursor /\ req'[q].todo = req[q].todo
        /\ req'[q].active = req[q].active /\ req'[q].victims = req[q].victims
        /\ req[q].pc = "idle" => req'[q] = req[q]
  <2> SUFFICES ASSUME NEW q \in Requests \ {r},
                      Storing(q), req'[q] = [req[q] EXCEPT !.added = @ \cup {Tok(r)}]
               PROVE  /\ req'[q].pc = req[q].pc /\ req'[q].login = req[q].login
                      /\ req'[q].cursor = req[q].cursor /\ req'[q].todo = req[q].todo
                      /\ req'[q].active = req[q].active /\ req'[q].victims = req[q].victims
                      /\ req[q].pc # "idle"
    BY TrackTokenMoves DEF IInv
  <2>1. req[q] \in Request
    BY DEF IInv, TypeOK
  <2>2. QED
    BY <2>1 DEF Request, Storing
<1>5. req'[r] = Idle
  BY TrackTokenMoves DEF IInv
<1>6. \A q \in Requests \ {r} : Tok(q)' = Tok(q) /\ User(q)' = User(q)
  BY <1>2, <1>4 DEF Tok, User
<1>7. \A q \in Requests : \A h \in Token : Holds(q, h)' => q # r /\ Holds(q, h)
  BY <1>4, <1>5 DEF Holds, Idle
<1>8. IdleForgets'
  BY <1>4, <1>5 DEF IInv, IdleForgets
<1>9. LoginsApart'
  BY <1>1, <1>2, <1>4, <1>5, IdleLocals DEF IInv, LoginsApart, LoggingIn
<1>10. PresentedGranted'
  BY <1>2, <1>4, <1>5, IdleLocals DEF IInv, PresentedGranted, Presenting
<1>11. KnownIssued'
  <2>1. ASSUME NEW h \in Token PROVE (Live(h) => WasIssued(h))'
    BY <1>3 DEF IInv, KnownIssued
  <2>2. ASSUME NEW h \in Token, NEW u \in Users, h \in sessions'[u]
        PROVE  WasIssued(h)' /\ h.sub = u
    <3>1. WasIssued(t)
      BY <1>1 DEF WasIssued
    <3>2. CASE h \in sessions[u]
      BY <1>3, <3>2 DEF IInv, KnownIssued
    <3>3. CASE h = t /\ u = User(r)
      BY <1>1, <1>3, <3>1, <3>3
    <3>4. QED
      BY <1>2, <2>2, <3>2, <3>3
  <2>3. ASSUME NEW h \in Token, NEW q \in Requests, Holds(q, h)'
        PROVE  WasIssued(h)' /\ h.sub = User(q)'
    BY <1>3, <1>6, <1>7, <2>3 DEF IInv, KnownIssued
  <2>4. QED
    BY <2>1, <2>2, <2>3 DEF KnownIssued
<1>12. UnknownUntilStored'
  <2> SUFFICES ASSUME NEW q \in Requests, LoggingIn(q)', ~Reissued(Tok(q))'
               PROVE  /\ \A u \in Users : Tok(q)' \notin sessions'[u]
                      /\ \A p \in Requests : ~Holds(p, Tok(q))'
    BY DEF UnknownUntilStored
  <2>1. q # r /\ LoggingIn(q) /\ Tok(q)' = Tok(q)
    BY <1>4, <1>5, <1>6, IdleLocals DEF LoggingIn
  <2>2. Tok(q) \in Token /\ req[q].login \in 1 .. Len(issued)
    BY <2>1, TokType DEF IInv, LoggingIn
  <2>3. ~Reissued(Tok(q))
    BY <1>2, <2>1 DEF Reissued
  <2>4. Tok(q) # t
    BY <1>1, <2>1, <2>2, <2>3 DEF IInv, LoginsApart, Reissued, Tok
  <2>5. /\ \A u \in Users : Tok(q) \notin sessions[u]
        /\ \A p \in Requests : ~Holds(p, Tok(q))
    BY <2>1, <2>3 DEF IInv, UnknownUntilStored
  <2>6. \A p \in Requests : ~(Holds(p, Tok(q))')
    BY <1>7, <2>1, <2>2, <2>5 DEF Holds
  <2>7. QED
    BY <1>2, <2>1, <2>4, <2>5, <2>6
<1>13. \A q \in Requests : UnlistsDead(q)'
  <2>1. UnlistsDead(r)'
    BY <1>5, IdleLocals DEF UnlistsDead
  <2>2. ASSUME NEW q \in Requests \ {r} PROVE UnlistsDead(q)'
    BY <1>3, <1>4, <1>6 DEF IInv, UnlistsDead
  <2>3. QED
    BY <2>1, <2>2
<1>14. ExpiriesAhead' /\ RecordOutlivesToken' /\ LogoutEndsSession'
  BY <1>2, <1>3 DEF IInv, ExpiriesAhead, RecordOutlivesToken, LogoutEndsSession, Live,
                    Reissued
<1>15. GrantedTokensTracked'
  <2> SUFFICES ASSUME NEW n \in granted', Live(issued[n]), ~Reissued(issued[n])
               PROVE  issued[n] \in sessions'[issued[n].sub]
    BY <1>2 DEF GrantedTokensTracked, Live, Reissued
  <2>1. issued[n] \in Token /\ issued[n].sub \in Users
    <3>1. n \in 1 .. Len(issued)
      BY <1>2 DEF IInv, TypeOK
    <3>2. issued[n] \in Token
      BY <3>1 DEF IInv, TypeOK
    <3>3. QED
      BY <3>2 DEF Token
  <2>2. CASE n = req[r].login
    BY <1>1, <1>2, <2>1, <2>2
  <2>3. CASE n \in granted
    BY <1>2, <2>1, <2>3 DEF IInv, GrantedTokensTracked
  <2>4. QED
    BY <1>2, <2>2, <2>3
<1>16. QED
  BY <1>8, <1>9, <1>10, <1>11, <1>12, <1>13, <1>14, <1>15 DEF IInv

LEMMA IssueTokenInv ==
  ASSUME IInv, TypeOK', NEW r \in Requests, NEW u \in Users, IssueToken(r, u)
  PROVE  IInv'
<1> DEFINE n == Len(issued) + 1
<1>1. PICK t \in Token : t = Jwt(u)
  BY IssueTokenStarts DEF IInv
<1>2. /\ n \in Nat \ {0} /\ Len(issued') = n /\ issued'[n] = t /\ Len(issued) \in Nat
      /\ \A m \in 1 .. Len(issued) : m \in 1 .. n /\ m # n /\ issued'[m] = issued[m]
      /\ 1 .. n = (1 .. Len(issued)) \cup {n}
  <2>1. /\ issued \in Seq(Token) /\ Len(issued) \in Nat
        /\ issued' = Append(issued, t) /\ Len(issued') = n
    BY <1>1, IssueTokenStarts DEF IInv, TypeOK
  <2>2. /\ issued'[n] = t
        /\ \A m \in 1 .. Len(issued) : issued'[m] = issued[m]
    BY <2>1
  <2>3. QED
    BY <2>1, <2>2
<1>3. /\ Begun(r, "smembers", n)
      /\ \A q \in Requests \ {r} : req'[q] = req[q]
      /\ UNCHANGED <<now, tokens, sessions, granted, loggedOut>>
  BY <1>2, IssueTokenStarts DEF IInv, IssueToken, redis
<1>4. /\ \A h : WasIssued(h) => WasIssued(h)'
      /\ \A h : Reissued(h) => Reissued(h)'
      /\ WasIssued(t) => Reissued(t)'
  <2>1. ASSUME NEW h, WasIssued(h) PROVE WasIssued(h)'
    BY <1>2, <2>1 DEF WasIssued
  <2>2. ASSUME NEW h, Reissued(h) PROVE Reissued(h)'
    BY <1>2, <2>2 DEF Reissued
  <2>3. ASSUME WasIssued(t) PROVE Reissued(t)'
    <3>1. PICK m \in 1 .. Len(issued) : issued[m] = t
      BY <2>3 DEF WasIssued
    <3>2. /\ m \in 1 .. Len(issued') /\ n \in 1 .. Len(issued')
          /\ m # n /\ issued'[m] = t /\ issued'[n] = t
      BY <1>2, <3>1
    <3>3. QED
      BY <3>2 DEF Reissued
  <2>4. QED
    BY <2>1, <2>2, <2>3
<1>5. \A q \in Requests \ {r} : req[q].pc # "idle" =>
        /\ req[q].login \in 1 .. Len(issued)
        /\ Tok(q)' = Tok(q) /\ User(q)' = User(q)
  BY <1>2, <1>3 DEF IInv, TypeOK, Tok, User
<1>6. \A q \in Requests : \A h \in Token :
        Holds(q, h)' => q # r /\ Holds(q, h) /\ User(q)' = User(q)
  <2>1. \A h \in Token : ~(Holds(r, h)')
    BY <1>3 DEF Holds, Begun
  <2>2. \A q \in Requests \ {r} : \A h \in Token : Holds(q, h)' => Holds(q, h)
    BY <1>3 DEF Holds
  <2>3. \A q \in Requests : \A h \in Token : Holds(q, h) => req[q].pc # "idle"
    BY DEF IInv, IdleForgets, Holds, Idle
  <2>4. QED
    BY <1>5, <2>1, <2>2, <2>3
<1>7. IdleForgets'
  BY <1>3 DEF IInv, IdleForgets, Begun
<1>8. LoginsApart'
  <2>1. n \notin granted
    BY <1>2 DEF IInv, TypeOK
  <2>2. \A q \in Requests \ {r} : LoggingIn(q) => req[q].login # n
    BY <1>2, <1>5 DEF LoggingIn
  <2>3. QED
    BY <1>3, <2>1, <2>2 DEF IInv, LoginsApart, LoggingIn, Begun
<1>9. PresentedGranted'
  BY <1>3 DEF IInv, PresentedGranted, Presenting, Begun
<1>10. KnownIssued'
  BY <1>3, <1>4, <1>6 DEF IInv, KnownIssued, Live
<1>11. UnknownUntilStored'
  <2> SUFFICES ASSUME NEW q \in Requests, LoggingIn(q)', ~Reissued(Tok(q))'
               PROVE  /\ \A v \in Users : Tok(q)' \notin sessions[v]
                      /\ \A p \in Requests : ~Holds(p, Tok(q))'
    BY <1>3 DEF UnknownUntilStored
  <2>1. CASE q = r
    <3>1. Tok(q)' = t
      BY <1>2, <1>3, <2>1 DEF Tok, Begun
    <3>2. ~WasIssued(t)
      BY <1>4, <3>1 DEF Reissued
    <3>3. /\ \A v \in Users : t \notin sessions[v]
          /\ \A p \in Requests : ~Holds(p, t)
      BY <3>2 DEF IInv, KnownIssued
    <3>4. \A p \in Requests : ~(Holds(p, t)')
      BY <1>6, <3>3
    <3>5. QED
      BY <3>1, <3>3, <3>4 DEF Holds
  <2>2. CASE q # r
    <3>1. LoggingIn(q) /\ Tok(q)' = Tok(q)
      BY <1>3, <1>5, <2>2 DEF LoggingIn
    <3>2. Tok(q) \in Token
      BY <3>1, TokType DEF IInv, LoggingIn
    <3>3. ~Reissued(Tok(q))
      <4>1. PICK h \in Token : h = Tok(q)
        BY <3>2
      <4>2. ~(Reissued(h)')
        BY <3>1, <4>1 DEF Reissued
      <4>3. QED
        BY <1>4, <4>1, <4>2
    <3>4. /\ \A v \in Users : Tok(q) \notin sessions[v]
          /\ \A p \in Requests : ~Holds(p, Tok(q))
      BY <3>1, <3>3 DEF IInv, UnknownUntilStored
    <3>5. \A p \in Requests : ~(Holds(p, Tok(q))')
      BY <1>6, <3>1, <3>2, <3>4 DEF Holds
    <3>6. QED
      BY <3>1, <3>4, <3>5
  <2>3. QED
    BY <2>1, <2>2
<1>12. ASSUME NEW q \in Requests PROVE UnlistsDead(q)'
  <2>1. CASE q = r
    BY <1>3, <2>1 DEF UnlistsDead, Begun
  <2>2. CASE q # r
    <3>1. UnlistsDead(q) /\ req'[q] = req[q]
      BY <1>3, <2>2 DEF IInv
    <3>2. ASSUME req[q].pc = "srem"
          PROVE  Live(Tok(q))' => Reissued(Tok(q))'
      <4>1. PICK h \in Token : h = Tok(q)
        BY <3>2, TokType DEF IInv
      <4>2. Tok(q)' = h
        BY <1>5, <2>2, <3>2, <4>1
      <4>3. ~Live(h) \/ Reissued(h)
        BY <3>1, <3>2, <4>1 DEF UnlistsDead
      <4>4. Live(h)' => Reissued(h)'
        BY <1>3, <1>4, <4>3 DEF Live
      <4>5. QED
        BY <4>2, <4>4 DEF Live, Reissued
    <3>3. ASSUME req[q].pc \in {"drop", "unlist"}
          PROVE  /\ req[q].cursor \in Token
                 /\ Live(req[q].cursor)' => Reissued(req[q].cursor)'
      <4>1. PICK h \in Token : h = req[q].cursor
        BY <3>1, <3>3 DEF UnlistsDead
      <4>2. ~Live(h) \/ Reissued(h)
        BY <3>1, <3>3, <4>1 DEF UnlistsDead
      <4>3. Live(h)' => Reissued(h)'
        BY <1>3, <1>4, <4>2 DEF Live
      <4>4. QED
        BY <3>1, <4>1, <4>3 DEF Live, Reissued
    <3>4. QED
      BY <3>1, <3>2, <3>3 DEF UnlistsDead
  <2>3. QED
    BY <2>1, <2>2
<1>13. ExpiriesAhead'
  <2>1. t.exp = now + ExpiresIn /\ now + ExpiresIn \in Nat
    BY <1>1 DEF Jwt, IInv, TypeOK
  <2>2. QED
    BY <1>2, <1>3, <2>1 DEF IInv, ExpiriesAhead
<1>14. RecordOutlivesToken'
  BY <1>3 DEF IInv, RecordOutlivesToken, Live
<1>15. ASSUME NEW m \in granted
       PROVE  /\ issued'[m] = issued[m] /\ issued[m] \in Token
              /\ Live(issued[m])' <=> Live(issued[m])
              /\ Reissued(issued[m]) => Reissued(issued[m])'
  <2>1. issued'[m] = issued[m] /\ issued[m] \in Token
    BY <1>2 DEF IInv, TypeOK
  <2>2. PICK h \in Token : h = issued[m]
    BY <2>1
  <2>3. /\ Live(h)' <=> Live(h)
        /\ Reissued(h) => Reissued(h)'
    BY <1>3, <1>4 DEF Live
  <2>4. QED
    BY <2>1, <2>2, <2>3 DEF Live, Reissued
<1>16. GrantedTokensTracked'
  BY <1>3, <1>15 DEF IInv, GrantedTokensTracked
<1>17. LogoutEndsSession'
  BY <1>3, <1>15 DEF IInv, LogoutEndsSession, PresentedGranted
<1>18. QED
  BY <1>7, <1>8, <1>9, <1>10, <1>11, <1>12, <1>13, <1>14, <1>16, <1>17 DEF IInv

LEMMA PresentInv ==
  ASSUME IInv, TypeOK', NEW r \in Requests, NEW n \in granted, Present(r, n)
  PROVE  IInv'
<1>1. /\ Begun(r, "lookup", n)
      /\ \A q \in Requests \ {r} : req'[q] = req[q]
      /\ UNCHANGED <<now, tokens, sessions, issued, granted, loggedOut>>
  BY PresentStarts DEF IInv, Present, redis, history
<1>2. /\ \A h : Reissued(h)' <=> Reissued(h)
      /\ \A h : WasIssued(h)' <=> WasIssued(h)
      /\ \A h : Live(h)' <=> Live(h)
  BY <1>1 DEF Reissued, WasIssued, Live
<1>3. \A q \in Requests \ {r} : Tok(q)' = Tok(q) /\ User(q)' = User(q)
  BY <1>1 DEF Tok, User
<1>4. \A q \in Requests : \A h \in Token : Holds(q, h)' => q # r /\ Holds(q, h)
  BY <1>1 DEF Holds, Begun
<1>5. IdleForgets'
  BY <1>1 DEF IInv, IdleForgets, Begun
<1>6. LoginsApart' /\ PresentedGranted'
  BY <1>1 DEF IInv, LoginsApart, PresentedGranted, LoggingIn, Presenting, Begun
<1>7. KnownIssued'
  BY <1>1, <1>2, <1>3, <1>4 DEF IInv, KnownIssued
<1>8. UnknownUntilStored'
  <2> SUFFICES ASSUME NEW q \in Requests, LoggingIn(q)', ~Reissued(Tok(q))'
               PROVE  /\ \A v \in Users : Tok(q)' \notin sessions[v]
                      /\ \A p \in Requests : ~Holds(p, Tok(q))'
    BY <1>1 DEF UnknownUntilStored
  <2>1. LoggingIn(q) /\ Tok(q)' = Tok(q)
    BY <1>1, <1>3 DEF LoggingIn, Begun
  <2>2. Tok(q) \in Token
    BY <2>1, TokType DEF IInv, LoggingIn
  <2>3. ~Reissued(Tok(q))
    BY <1>1, <2>1 DEF Reissued
  <2>4. /\ \A v \in Users : Tok(q) \notin sessions[v]
        /\ \A p \in Requests : ~Holds(p, Tok(q))
    BY <2>1, <2>3 DEF IInv, UnknownUntilStored
  <2>5. \A p \in Requests : ~(Holds(p, Tok(q))')
    BY <1>4, <2>1, <2>2, <2>4 DEF Holds
  <2>6. QED
    BY <2>1, <2>4, <2>5
<1>9. \A q \in Requests : UnlistsDead(q)'
  BY <1>1, <1>2, <1>3 DEF IInv, UnlistsDead, Begun
<1>10. /\ ExpiriesAhead' /\ RecordOutlivesToken'
       /\ GrantedTokensTracked' /\ LogoutEndsSession'
  BY <1>1 DEF IInv, ExpiriesAhead, RecordOutlivesToken, GrantedTokensTracked,
              LogoutEndsSession, Live, Reissued
<1>11. QED
  BY <1>5, <1>6, <1>7, <1>8, <1>9, <1>10 DEF IInv

(* Time and Redis alone: records only disappear, and a hash leaves a set   *)
(* only when all records are gone.                                         *)
LEMMA EnvironmentInv ==
  ASSUME IInv, TypeOK', UNCHANGED <<req, issued, granted, loggedOut>>,
         now <= now', \A t \in Token : tokens'[t] \in {tokens[t], Absent},
         \/ sessions' = sessions
         \/ /\ \A u \in Users : sessions'[u] = {}
            /\ \A t \in Token : tokens'[t] = Absent
  PROVE  IInv'
<1>1. /\ \A t : Reissued(t)' <=> Reissued(t)
      /\ \A t : WasIssued(t)' <=> WasIssued(t)
      /\ \A q \in Requests : Tok(q)' = Tok(q) /\ User(q)' = User(q)
      /\ \A q \in Requests : \A t : Holds(q, t)' <=> Holds(q, t)
  BY DEF Reissued, WasIssued, Tok, User, Holds
<1>2. /\ \A t \in Token : Live(t)' => Live(t)
      /\ \A u \in Users : sessions'[u] \subseteq sessions[u]
  BY DEF Live
<1>3. IdleForgets' /\ LoginsApart' /\ PresentedGranted'
  BY DEF IInv, IdleForgets, LoginsApart, PresentedGranted, LoggingIn, Presenting
<1>4. KnownIssued'
  BY <1>1, <1>2 DEF IInv, KnownIssued
<1>5. UnknownUntilStored'
  <2> SUFFICES ASSUME NEW q \in Requests, LoggingIn(q)', ~Reissued(Tok(q))'
               PROVE  /\ \A v \in Users : Tok(q)' \notin sessions'[v]
                      /\ \A p \in Requests : ~Holds(p, Tok(q))'
    BY DEF UnknownUntilStored
  <2>1. LoggingIn(q) /\ Tok(q)' = Tok(q) /\ ~Reissued(Tok(q))
    BY <1>1 DEF LoggingIn, Reissued
  <2>2. /\ \A v \in Users : Tok(q) \notin sessions[v]
        /\ \A p \in Requests : ~Holds(p, Tok(q))
    BY <2>1 DEF IInv, UnknownUntilStored
  <2>3. QED
    BY <1>2, <2>1, <2>2 DEF Holds
<1>6. ASSUME NEW q \in Requests PROVE UnlistsDead(q)'
  <2>1. UnlistsDead(q) /\ (req[q].pc = "srem" => Tok(q) \in Token)
    BY TokType DEF IInv
  <2>2. QED
    BY <1>1, <1>2, <2>1 DEF UnlistsDead, Live, Reissued
<1>7. ExpiriesAhead'
  <2>1. ASSUME NEW n \in 1 .. Len(issued) PROVE issued[n].exp <= now' + ExpiresIn
    <3>1. issued[n].exp <= now + ExpiresIn /\ issued[n] \in Token
      BY DEF IInv, ExpiriesAhead, TypeOK
    <3>2. issued[n].exp \in Nat /\ now \in Nat /\ now' \in Nat
      BY <3>1 DEF IInv, TypeOK, Token
    <3>3. QED
      BY <3>1, <3>2
  <2>2. QED
    BY <2>1 DEF ExpiriesAhead
<1>8. RecordOutlivesToken'
  BY DEF IInv, RecordOutlivesToken, Live
<1>9. ASSUME NEW n \in granted
      PROVE  issued[n] \in Token /\ issued[n].sub \in Users
  <2>1. issued[n] \in Token
    BY DEF IInv, TypeOK
  <2>2. QED
    BY <2>1 DEF Token
<1>10. GrantedTokensTracked'
  BY <1>2, <1>9 DEF IInv, GrantedTokensTracked, Live, Reissued
<1>11. LogoutEndsSession'
  BY <1>2, <1>9 DEF IInv, LogoutEndsSession, PresentedGranted, Live, Reissued
<1>12. QED
  BY <1>3, <1>4, <1>5, <1>6, <1>7, <1>8, <1>10, <1>11 DEF IInv

LEMMA NextInv == IInv /\ [Next]_vars => IInv'
<1> SUFFICES ASSUME IInv, [Next]_vars PROVE IInv'
  OBVIOUS
<1>1. TypeOK'
  BY NextType DEF IInv
<1>2. ASSUME NEW r \in Requests,
             \/ \E u \in Users : IssueToken(r, u)
             \/ \E n \in granted : Present(r, n)
             \/ Step(r)
             \/ Fail(r)
      PROVE  IInv'
  BY <1>1, <1>2, IssueTokenInv, PresentInv, ReadSessionsInv, ReadPayloadInv,
     MissPayloadInv, DropStaleInv, EnforceLimitInv, EvictTokenInv,
     UnlistVictimInv, SetTokenInv, TrackTokenInv, LookupInv, RevokeDeleteInv,
     RevokeUnlistInv, FailInv DEF Step
<1>3. now \in Nat /\ tokens \in [Token -> Record]
  BY DEF IInv, TypeOK
<1>4. ASSUME NEW t \in Token, Expire(t) PROVE IInv'
  BY <1>1, <1>3, <1>4, EnvironmentInv DEF Expire, history
<1>5. CASE Tick
  BY <1>1, <1>3, <1>5, EnvironmentInv DEF Tick, redis, history
<1>6. CASE RedisRestart
  BY <1>1, <1>3, <1>6, EnvironmentInv DEF RedisRestart, history
<1>7. CASE UNCHANGED vars
  BY <1>1, <1>3, <1>7, EnvironmentInv DEF vars
<1>8. QED
  BY <1>2, <1>4, <1>5, <1>6, <1>7 DEF Next

LEMMA Inductive == Spec => []IInv
  BY InitInv, NextInv, PTL DEF Spec

-----------------------------------------------------------------------------
(* What follows from the invariant. *)

(* Whatever logins, evictions, logouts, lost replies, expiries and Redis   *)
(* restarts interleave, a granted session with a live record is in its     *)
(* user's set (store_token's SET then SADD, every SREM of the service).    *)
THEOREM GrantedTracked == Spec => []GrantedTokensTracked
<1>1. IInv => GrantedTokensTracked
  BY DEF IInv
<1>2. QED
  BY <1>1, Inductive, PTL

(* No step brings back the record of a session whose logout was answered   *)
(* 200 (revoke_token), however late a concurrent login's writes are.       *)
THEOREM LogoutFinal == Spec => []LogoutEndsSession
<1>1. IInv => LogoutEndsSession
  BY DEF IInv
<1>2. QED
  BY <1>1, Inductive, PTL

(* However long a login waits between computing exp and its SET, the       *)
(* record's TTL reaches the JWT's last second (store_token's ttl_seconds). *)
THEOREM RecordLifetime == Spec => []RecordOutlivesToken
<1>1. IInv => RecordOutlivesToken
  BY DEF IInv
<1>2. QED
  BY <1>1, Inductive, PTL

(* A request of one user never ends or unlists a session of another: the   *)
(* hashes that it deletes come from its own user's set, whoever wrote      *)
(* them there (_enforce_session_limit, revoke_token).                      *)
THEOREM Isolation == Spec => UsersIsolated
<1> DEFINE A == \A r \in Requests, t \in Token :
       req[r].pc # "idle" /\ req'[r] # req[r] /\ t.sub # User(r) =>
         /\ tokens'[t] = tokens[t]
         /\ t \in sessions[t.sub] => t \in sessions'[t.sub]
<1>1. IInv /\ [Next]_vars => [A]_vars
  <2> SUFFICES ASSUME IInv, Next, NEW r \in Requests, NEW t \in Token,
                      req[r].pc # "idle", req'[r] # req[r], t.sub # User(r)
               PROVE  /\ tokens'[t] = tokens[t]
                      /\ t \in sessions[t.sub] => t \in sessions'[t.sub]
    OBVIOUS
  <2>1. /\ tokens \in [Token -> Record] /\ sessions \in [Users -> SUBSET Token]
        /\ t.sub \in Users /\ Tok(r).sub = User(r)
    BY DEF IInv, TypeOK, Token, User
  <2>2. PICK q \in Requests :
          \/ \E u \in Users : IssueToken(q, u)
          \/ \E n \in granted : Present(q, n)
          \/ Step(q)
          \/ Fail(q)
    BY DEF Next, Expire, Tick, RedisRestart
  <2>3. Moves(q) => q = r
    BY DEF Moves
  <2>4. CASE UNCHANGED redis
    BY <2>4 DEF redis
  <2>5. CASE DropStale(q) \/ UnlistVictim(q)
    BY <2>1, <2>3, <2>5, DropStaleMoves, UnlistVictimMoves
    DEF IInv, DropStale, UnlistVictim
  <2>6. CASE EvictToken(q)
    <3>1. q = r /\ sessions' = sessions
      BY <2>3, <2>6, EvictTokenMoves DEF IInv, EvictToken
    <3>2. PICK v \in req[r].victims :
            v.hash \in Token /\ tokens' = [tokens EXCEPT ![v.hash] = Absent]
      BY <2>6, <3>1, EvictTokenMoves DEF IInv
    <3>3. v.hash.sub = User(r)
      BY <3>2 DEF IInv, KnownIssued, Holds
    <3>4. QED
      BY <2>1, <3>1, <3>2, <3>3
  <2>7. CASE SetToken(q) \/ RevokeDelete(q)
    <3>1. q = r /\ sessions' = sessions
      BY <2>3, <2>7, SetTokenMoves, RevokeDeleteMoves DEF IInv, SetToken, RevokeDelete
    <3>2. t # Tok(r)
      BY <2>1
    <3>3. QED
      BY <2>1, <2>7, <3>1, <3>2 DEF SetToken, RevokeDelete
  <2>8. CASE TrackToken(q)
    BY <2>1, <2>8 DEF TrackToken
  <2>9. CASE RevokeUnlist(q)
    BY <2>1, <2>3, <2>9, RevokeUnlistMoves DEF IInv, RevokeUnlist
  <2>10. QED
    BY <2>2, <2>4, <2>5, <2>6, <2>7, <2>8, <2>9
    DEF Step, IssueToken, Present, ReadSessions, ReadPayload, MissPayload,
        EnforceLimit, Lookup, Fail
<1>2. QED
  BY <1>1, Inductive, PTL DEF Spec, UsersIsolated

=============================================================================
