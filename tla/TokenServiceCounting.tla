------------------------- MODULE TokenServiceCounting -------------------------
(***************************************************************************)
(* Proofs about the counting of _enforce_session_limit: that a login       *)
(* evicts no more than the limit asks for, the oldest first, and leaves    *)
(* room for its own session.                                               *)
(***************************************************************************)
EXTENDS TokenServiceProofs, FiniteSetTheorems

USE MaxSessionsAssumption, ExpiresInAssumption, BoundsAssumption

-----------------------------------------------------------------------------
(* Finite sets of tokens. *)

(* The tokens of one user differ in exp, so there are finitely many. *)
LEMMA TokensOfUser ==
  ASSUME NEW u, NEW T \in SUBSET Token, \A t \in T : t.sub = u
  PROVE  IsFiniteSet(T)
<1> DEFINE exps == ExpiresIn .. (MaxTime + ExpiresIn)
           f == [t \in T |-> t.exp]
<1>1. IsFiniteSet(exps)
  BY FS_Interval
<1>2. f \in [T -> exps] /\ \A t, w \in T : f[t] = f[w] => t = w
  BY DEF Token
<1>3. f \in Injection(T, exps)
  BY <1>2 DEF Injection, IsInjective
<1>4. QED
  BY <1>1, <1>3, FS_Injection

(* Sessions with different hashes are at most as many as the hashes. *)
LEMMA CountedByHash ==
  ASSUME NEW A, NEW T, IsFiniteSet(T),
         \A s \in A : s.hash \in T /\ \A w \in A : s.hash = w.hash => s = w
  PROVE  /\ IsFiniteSet(A)
         /\ Cardinality(A) \in Nat /\ Cardinality(T) \in Nat
         /\ Cardinality(A) <= Cardinality(T)
<1> DEFINE f == [s \in A |-> s.hash]
<1>1. f \in [A -> T] /\ \A s, w \in A : f[s] = f[w] => s = w
  OBVIOUS
<1>2. f \in Injection(A, T)
  BY <1>1 DEF Injection, IsInjective
<1> HIDE DEF f
<1>3. IsFiniteSet(A) /\ Cardinality(A) <= Cardinality(T)
  BY <1>2, FS_Injection
<1>4. QED
  BY <1>3, FS_CardinalityType

(* And the hashes of a set of sessions are at most as many as these. *)
LEMMA HashesCounted ==
  ASSUME NEW A, IsFiniteSet(A), NEW T, \A t \in T : \E s \in A : s.hash = t
  PROVE  Cardinality(T) \in Nat /\ Cardinality(T) <= Cardinality(A)
<1> DEFINE f == [t \in T |-> CHOOSE s \in A : s.hash = t]
<1>1. \A t \in T : f[t] \in A /\ f[t].hash = t
  OBVIOUS
<1>2. f \in [T -> A]
  BY <1>1
<1> HIDE DEF f
<1>3. f \in Injection(T, A)
  BY <1>1, <1>2 DEF Injection, IsInjective
<1>4. IsFiniteSet(T) /\ Cardinality(T) <= Cardinality(A)
  BY <1>3, FS_Injection
<1>5. QED
  BY <1>4, FS_CardinalityType

-----------------------------------------------------------------------------
(* What a step leaves of the other requests. *)

(* A login's place and what it has read and chosen are unchanged. *)
SameCounts(r) ==
  /\ req'[r].pc = req[r].pc /\ req'[r].login = req[r].login
  /\ req'[r].todo = req[r].todo /\ req'[r].active = req[r].active
  /\ req'[r].victims = req[r].victims /\ req'[r].cursor = req[r].cursor
  /\ req'[r].alive = req[r].alive

RequestStep(r) ==
  \/ \E u \in Users : IssueToken(r, u)
  \/ \E n \in granted : Present(r, n)
  \/ Step(r)
  \/ Fail(r)

LEMMA OthersSame ==
  ASSUME TypeOK, NEW r \in Requests, RequestStep(r)
  PROVE  \A q \in Requests \ {r} : SameCounts(q)
<1>1. CASE TrackToken(r)
  <2>1. \A q \in Requests \ {r} :
          req'[q] = req[q] \/ req'[q] = [req[q] EXCEPT !.added = @ \cup {Tok(r)}]
    BY <1>1, TrackTokenMoves
  <2>2. \A q \in Requests : req[q] \in Request
    BY DEF TypeOK
  <2>3. QED
    BY <2>1, <2>2 DEF SameCounts, Request
<1>2. CASE ~TrackToken(r)
  <2>1. \A q \in Requests \ {r} : req'[q] = req[q]
    BY <1>2, IssueTokenStarts, PresentStarts, ReadSessionsMoves, ReadPayloadMoves,
       MissPayloadMoves, DropStaleMoves, EnforceLimitMoves, EvictTokenMoves,
       UnlistVictimMoves, SetTokenMoves, LookupMoves, RevokeDeleteMoves,
       RevokeUnlistMoves, FailMoves DEF RequestStep, Step, Moves
  <2>2. QED
    BY <2>1 DEF SameCounts
<1>3. QED
  BY <1>1, <1>2

(* No step takes back a token. *)
LEMMA IssuedStays ==
  ASSUME TypeOK, [Next]_vars
  PROVE  /\ \A n \in 1 .. Len(issued) : issued'[n] = issued[n]
         /\ \A t : Reissued(t) => Reissued(t)'
<1>1. issued \in Seq(Token) /\ Len(issued) \in Nat
  BY DEF TypeOK
<1>2. ASSUME NEW r \in Requests, NEW u \in Users, IssueToken(r, u)
      PROVE  /\ \A n \in 1 .. Len(issued) : issued'[n] = issued[n]
             /\ Len(issued') = Len(issued) + 1
  BY <1>1, <1>2, IssueTokenStarts
<1>3. issued' = issued \/ \E r \in Requests, u \in Users : IssueToken(r, u)
  BY DEF Next, Step, vars, Present, ReadSessions, ReadPayload, MissPayload, DropStale,
         EnforceLimit, EvictToken, UnlistVictim, SetToken, TrackToken, Lookup,
         RevokeDelete, RevokeUnlist, Fail, Expire, Tick, RedisRestart, history
<1>4. /\ \A n \in 1 .. Len(issued) : issued'[n] = issued[n]
      /\ Len(issued') = Len(issued) \/ Len(issued') = Len(issued) + 1
  BY <1>2, <1>3
<1>5. ASSUME NEW t, Reissued(t) PROVE Reissued(t)'
  <2>1. PICK m, n \in 1 .. Len(issued) : m # n /\ issued[m] = t /\ issued[n] = t
    BY <1>5 DEF Reissued
  <2>2. m \in 1 .. Len(issued') /\ n \in 1 .. Len(issued')
    BY <1>1, <1>4
  <2>3. QED
    BY <1>4, <2>1, <2>2 DEF Reissued
<1>6. QED
  BY <1>4, <1>5

(* No record of a session that somebody has listed or counted is written   *)
(* anew, unless its token was issued twice.                                *)
LEMMA HeldRecords ==
  ASSUME IInv, [Next]_vars, NEW t \in Token, ~Reissued(t)
  PROVE  \/ tokens'[t] \in {tokens[t], Absent}
         \/ /\ \A u \in Users : t \notin sessions[u]
            /\ \A r \in Requests : ~Holds(r, t)
<1>1. tokens \in [Token -> Record] /\ TypeOK
  BY DEF IInv, TypeOK
<1>2. ASSUME NEW r \in Requests, SetToken(r)
      PROVE  \/ tokens'[t] = tokens[t]
             \/ t = Tok(r) /\ LoggingIn(r)
  BY <1>1, <1>2 DEF SetToken, LoggingIn
<1>3. ASSUME NEW r \in Requests, RevokeDelete(r)
      PROVE  tokens'[t] \in {tokens[t], Absent}
  BY <1>1, <1>3 DEF RevokeDelete
<1>4. ASSUME NEW r \in Requests, EvictToken(r)
      PROVE  tokens'[t] \in {tokens[t], Absent}
  BY <1>1, <1>4 DEF EvictToken
<1>5. CASE \E r \in Requests : SetToken(r)
  BY <1>2, <1>5 DEF IInv, UnknownUntilStored
<1>6. CASE ~ \E r \in Requests : SetToken(r)
  BY <1>1, <1>3, <1>4, <1>6
  DEF Next, Step, vars, redis, IssueToken, Present, ReadSessions, ReadPayload, MissPayload,
      DropStale, EnforceLimit, UnlistVictim, TrackToken, Lookup, RevokeUnlist, Fail,
      Expire, Tick, RedisRestart
<1>7. QED
  BY <1>5, <1>6

-----------------------------------------------------------------------------
(* The invariant of the counting. *)

Counting(r) == req[r].pc \in {"scan", "drop"}
Evicting(r) == req[r].pc \in {"evict", "unlist"}

(* The sessions that a login has counted, until they are evicted. *)
Counted(r) == req[r].active \cup req[r].victims
Hashes(A) == {s.hash : s \in A}

(* The hash that is about to be taken off the set. *)
Leaving(r) == IF req[r].pc \in {"drop", "unlist"} THEN {req[r].cursor} ELSE {}

(* Each session is counted once, ... *)
CountedOnce(r) ==
  \A s, w \in Counted(r) : s.hash = w.hash => s = w

(* ... was live when the set was read, with the age it has now, unless its *)
(* token was issued twice, ...                                             *)
CountedTruly(r) ==
  \A s \in Counted(r) : ~Reissued(s.hash) =>
    /\ s.hash \in req[r].alive
    /\ Live(s.hash) => tokens[s.hash].created_at = s.created_at

(* ... and nothing that the set holds is forgotten. *)
NoneForgotten(r) ==
  sessions[User(r)] \ req[r].added
    \subseteq req[r].todo \cup Hashes(Counted(r)) \cup Leaving(r)

(* What is still to be read is dead, if it was when the set was read. *)
ToCount(r) ==
  /\ req[r].victims = {}
  /\ \A s \in req[r].active : s.hash \notin req[r].todo
  /\ \A t \in req[r].todo : t \in req[r].alive \/ ~Live(t) \/ Reissued(t)

(* The victims are the oldest, and as many as must go. *)
Chosen(r) ==
  /\ req[r].todo = {}
  /\ req[r].active \cap req[r].victims = {}
  /\ IF req[r].victims = {} THEN Cardinality(req[r].active) < MaxSessions
                            ELSE Cardinality(req[r].active) = MaxSessions - 1
  /\ \A v \in req[r].victims, w \in req[r].active : v.created_at <= w.created_at

CountOK(r) ==
  /\ req[r].pc = "smembers" => req[r].active = {} /\ req[r].victims = {}
  /\ Counting(r) \/ Evicting(r) =>
       /\ \A t \in req[r].alive : t.sub = User(r)
       /\ CountedOnce(r)
       /\ CountedTruly(r)
       /\ NoneForgotten(r)
  /\ Counting(r) => ToCount(r)
  /\ Evicting(r) => Chosen(r)
  /\ req[r].pc = "sadd" =>
       Cardinality(sessions[User(r)] \ req[r].added) < MaxSessions

CInv == IInv /\ \A r \in Requests : CountOK(r)

LEMMA CInitInv == Init => CInv
  BY InitInv DEF Init, Idle, CInv, CountOK, Counting, Evicting

(* The hashes in the locals of a login are its user's. *)
LEMMA CountedHeld ==
  ASSUME IInv, NEW r \in Requests
  PROVE  /\ \A s \in Counted(r) : s.hash \in Token /\ Holds(r, s.hash) /\ s.hash.sub = User(r)
         /\ \A t \in req[r].todo : t \in Token /\ Holds(r, t) /\ t.sub = User(r)
<1>1. req[r] \in Request
  BY DEF IInv, TypeOK
<1>2. \A s \in Counted(r) : s.hash \in Token /\ Holds(r, s.hash)
  BY <1>1 DEF Counted, Request, Session, Holds
<1>3. \A t \in req[r].todo : t \in Token /\ Holds(r, t)
  BY <1>1 DEF Request, Holds
<1>4. QED
  BY <1>2, <1>3 DEF IInv, KnownIssued

LEMMA ListedFinite ==
  ASSUME IInv, NEW u \in Users
  PROVE  IsFiniteSet(sessions[u])
<1>1. sessions[u] \in SUBSET Token /\ \A t \in sessions[u] : t.sub = u
  BY DEF IInv, TypeOK, KnownIssued
<1>2. QED
  BY <1>1, TokensOfUser

LEMMA FewerListed ==
  ASSUME IInv, NEW u \in Users, NEW added, NEW T \in SUBSET (sessions[u] \ added)
  PROVE  /\ Cardinality(T) \in Nat /\ Cardinality(sessions[u] \ added) \in Nat
         /\ Cardinality(T) <= Cardinality(sessions[u] \ added)
<1>1. IsFiniteSet(sessions[u] \ added)
  BY ListedFinite, FS_Subset
<1>2. IsFiniteSet(T) /\ Cardinality(T) <= Cardinality(sessions[u] \ added)
  BY <1>1, FS_Subset
<1>3. QED
  BY <1>1, <1>2, FS_CardinalityType

(* The same user, and records that only go. *)
LEMMA UserStays ==
  ASSUME IInv, [Next]_vars, NEW r \in Requests, req[r].pc # "idle",
         req'[r].login = req[r].login
  PROVE  User(r)' = User(r) /\ Tok(r)' = Tok(r) /\ User(r) \in Users
<1>1. req[r].login \in 1 .. Len(issued) /\ User(r) \in Users
  BY TokType DEF IInv
<1>2. issued'[req[r].login] = issued[req[r].login]
  BY <1>1, IssuedStays DEF IInv
<1>3. QED
  BY <1>1, <1>2 DEF User, Tok

LEMMA HeldStays ==
  ASSUME IInv, [Next]_vars, NEW r \in Requests, NEW t \in Token, Holds(r, t),
         ~Reissued(t)', Live(t)'
  PROVE  ~Reissued(t) /\ Live(t) /\ tokens'[t] = tokens[t]
<1>1. ~Reissued(t)
  BY IssuedStays DEF IInv
<1>2. tokens'[t] \in {tokens[t], Absent}
  BY <1>1, HeldRecords
<1>3. QED
  BY <1>1, <1>2 DEF Live

(* Counted sessions stay well counted while the login goes on. *)
LEMMA TrulyStays ==
  ASSUME IInv, [Next]_vars, NEW r \in Requests, CountedTruly(r),
         NEW s \in Counted(r), req'[r].alive = req[r].alive, ~Reissued(s.hash)'
  PROVE  /\ s.hash \in req'[r].alive
         /\ Live(s.hash)' => tokens'[s.hash].created_at = s.created_at
<1>1. s.hash \in Token /\ Holds(r, s.hash)
  BY CountedHeld
<1>2. ~Reissued(s.hash)
  BY IssuedStays DEF IInv
<1>3. QED
  BY <1>1, <1>2, HeldStays DEF CountedTruly

LEMMA ToCountStays ==
  ASSUME IInv, [Next]_vars, NEW r \in Requests, ToCount(r), req'[r].alive = req[r].alive,
         NEW t \in req[r].todo
  PROVE  t \in req'[r].alive \/ ~Live(t)' \/ Reissued(t)'
<1>1. t \in Token /\ Holds(r, t)
  BY CountedHeld
<1>2. t \in req[r].alive \/ ~Live(t) \/ Reissued(t)
  BY DEF ToCount
<1>3. QED
  BY <1>1, <1>2, HeldStays

(* A login that does nothing: others may take hashes off the set, and what *)
(* they add they add to its history as well.                               *)
LEMMA CountStays ==
  ASSUME IInv, [Next]_vars, NEW r \in Requests, CountOK(r), SameCounts(r),
         Storing(r) => sessions'[User(r)] \ req'[r].added \subseteq sessions[User(r)] \ req[r].added
  PROVE  CountOK(r)'
<1>1. Counted(r)' = Counted(r)
  BY DEF SameCounts, Counted
<1>2. CASE Counting(r) \/ Evicting(r)
  <2>1. User(r)' = User(r)
    BY <1>2, UserStays DEF SameCounts, Counting, Evicting
  <2>2. \A t \in req'[r].alive : t.sub = User(r)'
    BY <1>2, <2>1 DEF SameCounts, CountOK
  <2>3. CountedOnce(r)'
    BY <1>1, <1>2 DEF CountOK, CountedOnce
  <2>4. CountedTruly(r)'
    BY <1>1, <1>2, TrulyStays DEF CountOK, CountedTruly, SameCounts
  <2>5. NoneForgotten(r)'
    BY <1>1, <1>2, <2>1 DEF CountOK, NoneForgotten, Leaving, SameCounts, Storing, Counting,
                            Evicting, Hashes
  <2>6. Counting(r) => ToCount(r)'
    BY <1>2, ToCountStays DEF CountOK, ToCount, SameCounts
  <2>7. Evicting(r) => Chosen(r)'
    BY <1>2 DEF CountOK, Chosen, SameCounts
  <2>8. QED
    BY <1>2, <2>2, <2>3, <2>4, <2>5, <2>6, <2>7 DEF CountOK, SameCounts, Counting, Evicting
<1>3. CASE req[r].pc = "sadd"
  <2>1. User(r)' = User(r) /\ User(r) \in Users
    BY <1>3, UserStays DEF SameCounts
  <2>2. /\ Cardinality(sessions'[User(r)] \ req'[r].added) \in Nat
        /\ Cardinality(sessions[User(r)] \ req[r].added) \in Nat
        /\ Cardinality(sessions'[User(r)] \ req'[r].added)
             <= Cardinality(sessions[User(r)] \ req[r].added)
    BY <1>3, <2>1, FewerListed DEF Storing
  <2>3. Cardinality(sessions[User(r)] \ req[r].added) < MaxSessions
    BY <1>3 DEF CountOK
  <2>4. Cardinality(sessions'[User(r)'] \ req'[r].added) < MaxSessions
    BY <2>1, <2>2, <2>3
  <2>5. QED
    BY <1>3, <2>4 DEF CountOK, SameCounts, Counting, Evicting
<1>4. CASE req[r].pc \notin {"scan", "drop", "evict", "unlist", "sadd"}
  BY <1>4 DEF CountOK, SameCounts, Counting, Evicting
<1>5. QED
  BY <1>2, <1>3, <1>4 DEF Counting, Evicting

-----------------------------------------------------------------------------
(* The login's own steps. *)

LEMMA ReadSessionsCount ==
  ASSUME IInv, [Next]_vars, NEW r \in Requests, CountOK(r), ReadSessions(r)
  PROVE  CountOK(r)'
<1>1. /\ req[r].pc = "smembers" /\ req[r].active = {} /\ req[r].victims = {}
      /\ UNCHANGED <<tokens, sessions>>
  BY DEF CountOK, ReadSessions, redis
<1>2. CASE req'[r] = Idle
  BY <1>2 DEF CountOK, Counting, Evicting, Idle
<1>3. CASE Locals(req'[r], r, "scan", sessions[User(r)], req[r].active, req[r].victims,
                  req[r].cursor, {h \in sessions[User(r)] : Live(h)})
  <2>1. /\ req'[r].pc = "scan" /\ req'[r].login = req[r].login /\ Counted(r)' = {}
        /\ req'[r].active = {} /\ req'[r].victims = {} /\ req'[r].todo = sessions[User(r)]
        /\ req'[r].alive = {h \in sessions[User(r)] : Live(h)}
    BY <1>1, <1>3 DEF Locals, Counted
  <2>2. User(r)' = User(r) /\ User(r) \in Users
    BY <1>1, <2>1, UserStays
  <2>3. \A t \in req'[r].alive : t.sub = User(r)'
    BY <2>1, <2>2 DEF IInv, KnownIssued, TypeOK
  <2>4. CountedOnce(r)' /\ CountedTruly(r)'
    BY <2>1 DEF CountedOnce, CountedTruly
  <2>5. NoneForgotten(r)'
    BY <1>1, <2>1, <2>2 DEF NoneForgotten
  <2>6. ToCount(r)'
    BY <1>1, <2>1 DEF ToCount, Live
  <2>7. QED
    BY <2>1, <2>3, <2>4, <2>5, <2>6 DEF CountOK, Evicting
<1>4. QED
  BY <1>2, <1>3, ReadSessionsMoves DEF IInv

LEMMA ReadPayloadCount ==
  ASSUME IInv, [Next]_vars, NEW r \in Requests, CountOK(r),
         NEW h \in req[r].todo, ReadPayload(r, h)
  PROVE  CountOK(r)'
<1> DEFINE s == [hash |-> h, created_at |-> tokens[h].created_at]
<1>1. req[r].pc = "scan" /\ Live(h) /\ UNCHANGED <<tokens, sessions>>
  BY DEF ReadPayload, redis
<1>2. CASE req'[r] = Idle
  BY <1>2 DEF CountOK, Counting, Evicting, Idle
<1>3. CASE Locals(req'[r], r, "scan", req[r].todo \ {h}, req[r].active \cup {s},
                  req[r].victims, req[r].cursor, req[r].alive)
  <2>1. s.hash = h /\ s.created_at = tokens[h].created_at
    OBVIOUS
  <2> HIDE DEF s
  <2>2. /\ CountedOnce(r) /\ CountedTruly(r) /\ NoneForgotten(r) /\ ToCount(r)
        /\ \A t \in req[r].alive : t.sub = User(r)
        /\ req[r].victims = {}
    BY <1>1 DEF CountOK, Counting, ToCount
  <2>3. /\ req'[r].pc = "scan" /\ req'[r].login = req[r].login
        /\ req'[r].todo = req[r].todo \ {h} /\ req'[r].active = req[r].active \cup {s}
        /\ req'[r].victims = {} /\ req'[r].alive = req[r].alive /\ req'[r].added = req[r].added
    BY <1>3, <2>2 DEF Locals
  <2>4. Counted(r)' = Counted(r) \cup {s} /\ Counted(r) = req[r].active
    BY <2>2, <2>3 DEF Counted
  <2>5. User(r)' = User(r)
    BY <1>1, <2>3, UserStays
  <2>6. CountedOnce(r)'
    BY <2>1, <2>2, <2>4 DEF CountedOnce, ToCount
  <2>7. CountedTruly(r)'
    <3>1. ASSUME NEW w \in Counted(r)', ~Reissued(w.hash)'
          PROVE  /\ w.hash \in req'[r].alive
                 /\ Live(w.hash)' => tokens'[w.hash].created_at = w.created_at
      <4>1. CASE w = s
        <5>1. ~Reissued(h)
          BY <2>1, <3>1, <4>1, IssuedStays DEF IInv
        <5>2. h \in req[r].alive
          BY <1>1, <2>2, <5>1 DEF ToCount
        <5>3. QED
          BY <1>1, <2>1, <2>3, <4>1, <5>2
      <4>2. CASE w # s
        BY <2>2, <2>3, <2>4, <3>1, <4>2, TrulyStays
      <4>3. QED
        BY <4>1, <4>2
    <3>2. QED
      BY <3>1 DEF CountedTruly
  <2>8. NoneForgotten(r)'
    <3>1. h \in Hashes(Counted(r))' /\ Hashes(Counted(r)) \subseteq Hashes(Counted(r))'
      BY <2>1, <2>4 DEF Hashes
    <3>2. Leaving(r) = {}
      BY <1>1 DEF Leaving
    <3>3. QED
      BY <1>1, <2>2, <2>3, <2>5, <3>1, <3>2 DEF NoneForgotten
  <2>9. ToCount(r)'
    BY <2>1, <2>2, <2>3, ToCountStays DEF ToCount
  <2>10. QED
    BY <2>2, <2>3, <2>5, <2>6, <2>7, <2>8, <2>9 DEF CountOK, Evicting
<1>4. QED
  BY <1>2, <1>3, ReadPayloadMoves DEF IInv

(* A stale hash leaves what is to be read, and then the set. *)
LEMMA StaleCount ==
  ASSUME IInv, [Next]_vars, NEW r \in Requests, CountOK(r),
         (\E h \in req[r].todo : MissPayload(r, h)) \/ DropStale(r)
  PROVE  CountOK(r)'
<1>1. Counting(r) /\ TypeOK
  BY DEF MissPayload, DropStale, Counting, IInv
<1>2. /\ CountedOnce(r) /\ CountedTruly(r) /\ NoneForgotten(r) /\ ToCount(r)
      /\ \A t \in req[r].alive : t.sub = User(r)
  BY <1>1 DEF CountOK
<1>3. CASE req'[r] = Idle
  BY <1>3 DEF CountOK, Counting, Evicting, Idle
<1>4. CASE req'[r] # Idle
  <2>1. /\ Counting(r)' /\ req'[r].login = req[r].login
        /\ req'[r].active = req[r].active /\ req'[r].victims = req[r].victims
        /\ req'[r].alive = req[r].alive /\ req'[r].added = req[r].added
        /\ req'[r].todo \subseteq req[r].todo
    BY <1>1, <1>4, MissPayloadMoves, DropStaleMoves DEF Locals, Counting
  <2>2. User(r)' = User(r) /\ User(r) \in Users
    BY <1>1, <2>1, UserStays DEF Counting
  <2>3. Counted(r)' = Counted(r)
    BY <2>1 DEF Counted
  <2>4. CountedOnce(r)' /\ CountedTruly(r)'
    BY <1>2, <2>1, <2>3, TrulyStays DEF CountedOnce, CountedTruly
  <2>5. NoneForgotten(r)'
    <3>1. ASSUME NEW h \in req[r].todo, MissPayload(r, h) PROVE NoneForgotten(r)'
      <4>1. /\ req'[r].todo = req[r].todo \ {h} /\ Leaving(r)' = {h} /\ Leaving(r) = {}
            /\ UNCHANGED sessions
        BY <1>1, <1>4, <3>1, MissPayloadMoves DEF Locals, Leaving, MissPayload, redis
      <4>2. QED
        BY <1>2, <2>1, <2>2, <2>3, <4>1 DEF NoneForgotten, Hashes
    <3>2. CASE DropStale(r)
      <4>1. /\ req'[r].todo = req[r].todo /\ Leaving(r)' = {} /\ Leaving(r) = {req[r].cursor}
        BY <1>1, <1>4, <3>2, DropStaleMoves DEF Locals, Leaving, DropStale
      <4>2. sessions'[User(r)] = sessions[User(r)] \ {req[r].cursor}
        BY <1>1, <2>2, <3>2 DEF DropStale, TypeOK
      <4>3. QED
        BY <1>2, <2>1, <2>2, <2>3, <4>1, <4>2 DEF NoneForgotten, Hashes
    <3>3. QED
      BY <3>1, <3>2
  <2>6. ToCount(r)'
    BY <1>2, <2>1, ToCountStays DEF ToCount
  <2>7. QED
    BY <1>2, <2>1, <2>2, <2>4, <2>5, <2>6 DEF CountOK, Counting, Evicting
<1>5. QED
  BY <1>3, <1>4

(* There are finitely many, since each has its own hash. *)
LEMMA CountedFinite ==
  ASSUME IInv, NEW r \in Requests, CountedOnce(r)
  PROVE  IsFiniteSet(Counted(r))
<1>1. /\ Hashes(Counted(r)) \in SUBSET Token
      /\ \A t \in Hashes(Counted(r)) : t.sub = User(r)
  BY CountedHeld DEF Hashes
<1>2. IsFiniteSet(Hashes(Counted(r)))
  BY <1>1, TokensOfUser
<1>3. \A s \in Counted(r) : s.hash \in Hashes(Counted(r))
  BY DEF Hashes
<1>4. QED
  BY <1>2, <1>3, CountedByHash DEF CountedOnce

(* What the slice leaves. *)
LEMMA Sliced ==
  ASSUME NEW A, IsFiniteSet(A), NEW V \in OldestOf(A)
  PROVE  /\ V \subseteq A /\ IsFiniteSet(V)
         /\ \A v \in V, w \in A \ V : v.created_at <= w.created_at
         /\ IF V = {} THEN Cardinality(A \ V) < MaxSessions
                      ELSE Cardinality(A \ V) = MaxSessions - 1
<1>1. /\ V \subseteq A /\ Cardinality(V) = EvictCount(Cardinality(A))
      /\ \A v \in V, w \in A \ V : v.created_at <= w.created_at
  BY DEF OldestOf
<1>2. IsFiniteSet(V) /\ A \cap V = V
  BY <1>1, FS_Subset
<1>3. Cardinality(A) \in Nat /\ Cardinality(V) \in Nat
  BY <1>2, FS_CardinalityType
<1>4. Cardinality(A \ V) = Cardinality(A) - Cardinality(V)
  BY <1>2, FS_Difference
<1>5. V = {} <=> Cardinality(V) = 0
  BY <1>2, FS_EmptySet
<1>6. QED
  BY <1>1, <1>2, <1>3, <1>4, <1>5 DEF EvictCount

LEMMA EnforceLimitCount ==
  ASSUME IInv, [Next]_vars, NEW r \in Requests, CountOK(r), EnforceLimit(r)
  PROVE  CountOK(r)'
<1>1. /\ req[r].pc = "scan" /\ req[r].todo = {} /\ TypeOK
      /\ UNCHANGED <<tokens, sessions>>
  BY DEF EnforceLimit, redis, IInv
<1>2. /\ CountedOnce(r) /\ CountedTruly(r) /\ NoneForgotten(r)
      /\ \A t \in req[r].alive : t.sub = User(r)
      /\ req[r].victims = {}
  BY <1>1 DEF CountOK, Counting, ToCount
<1>3. PICK V \in OldestOf(req[r].active) :
        Locals(req'[r], r, "evict", req[r].todo, req[r].active \ V, V,
               req[r].cursor, req[r].alive)
  BY <1>1, EnforceLimitMoves
<1>4. Counted(r) = req[r].active /\ IsFiniteSet(req[r].active)
  BY <1>2, CountedFinite DEF Counted
<1>5. /\ req'[r].pc = "evict" /\ req'[r].login = req[r].login /\ req'[r].todo = {}
      /\ req'[r].active = req[r].active \ V /\ req'[r].victims = V
      /\ req'[r].alive = req[r].alive /\ req'[r].added = req[r].added
  BY <1>1, <1>3 DEF Locals
<1>6. Counted(r)' = Counted(r)
  BY <1>4, <1>5, Sliced DEF Counted
<1>7. User(r)' = User(r)
  BY <1>1, <1>5, UserStays
<1>8. CountedOnce(r)' /\ CountedTruly(r)'
  BY <1>2, <1>5, <1>6, TrulyStays DEF CountedOnce, CountedTruly
<1>9. NoneForgotten(r)'
  BY <1>1, <1>2, <1>5, <1>6, <1>7 DEF NoneForgotten, Hashes, Leaving
<1>10. Chosen(r)'
  BY <1>4, <1>5, Sliced DEF Chosen
<1>11. QED
  BY <1>2, <1>5, <1>7, <1>8, <1>9, <1>10 DEF CountOK, Counting

LEMMA EvictTokenCount ==
  ASSUME IInv, [Next]_vars, NEW r \in Requests, CountOK(r), EvictToken(r)
  PROVE  CountOK(r)'
<1>1. req[r].pc = "evict" /\ TypeOK /\ sessions' = sessions
  BY DEF EvictToken, IInv
<1>2. /\ CountedOnce(r) /\ CountedTruly(r) /\ NoneForgotten(r) /\ Chosen(r)
      /\ \A t \in req[r].alive : t.sub = User(r)
  BY <1>1 DEF CountOK, Evicting
<1>3. PICK v \in req[r].victims :
        \/ req'[r] = Idle
        \/ Locals(req'[r], r, "unlist", req[r].todo, req[r].active,
                  req[r].victims \ {v}, v.hash, req[r].alive)
  BY <1>1, EvictTokenMoves
<1>4. CASE req'[r] = Idle
  BY <1>4 DEF CountOK, Counting, Evicting, Idle
<1>5. CASE req'[r] # Idle
  <2>1. /\ req'[r].pc = "unlist" /\ req'[r].login = req[r].login
        /\ req'[r].todo = req[r].todo /\ req'[r].active = req[r].active
        /\ req'[r].victims = req[r].victims \ {v} /\ req'[r].cursor = v.hash
        /\ req'[r].alive = req[r].alive /\ req'[r].added = req[r].added
    BY <1>3, <1>5 DEF Locals
  <2>2. User(r)' = User(r)
    BY <1>1, <2>1, UserStays
  <2>3. Counted(r)' \subseteq Counted(r) /\ Counted(r) \subseteq Counted(r)' \cup {v}
    BY <2>1 DEF Counted
  <2>4. CountedOnce(r)' /\ CountedTruly(r)'
    BY <1>2, <2>1, <2>3, TrulyStays DEF CountedOnce, CountedTruly
  <2>5. NoneForgotten(r)'
    <3>1. Leaving(r)' = {v.hash} /\ Leaving(r) = {}
      BY <1>1, <2>1 DEF Leaving
    <3>2. Hashes(Counted(r)) \subseteq Hashes(Counted(r))' \cup {v.hash}
      BY <2>3 DEF Hashes
    <3>3. QED
      BY <1>1, <1>2, <2>1, <2>2, <3>1, <3>2 DEF NoneForgotten
  <2>6. Chosen(r)'
    BY <1>2, <2>1 DEF Chosen
  <2>7. QED
    BY <1>2, <2>1, <2>2, <2>4, <2>5, <2>6 DEF CountOK, Counting
<1>6. QED
  BY <1>4, <1>5

LEMMA UnlistVictimCount ==
  ASSUME IInv, [Next]_vars, NEW r \in Requests, CountOK(r), UnlistVictim(r)
  PROVE  CountOK(r)'
<1>1. req[r].pc = "unlist" /\ TypeOK
  BY DEF UnlistVictim, IInv
<1>2. /\ CountedOnce(r) /\ CountedTruly(r) /\ NoneForgotten(r) /\ Chosen(r)
      /\ \A t \in req[r].alive : t.sub = User(r)
  BY <1>1 DEF CountOK, Evicting
<1>3. CASE req'[r] = Idle
  BY <1>3 DEF CountOK, Counting, Evicting, Idle
<1>4. CASE req'[r] # Idle
  <2>1. /\ req'[r].pc = "evict" /\ req'[r].login = req[r].login
        /\ req'[r].todo = req[r].todo /\ req'[r].active = req[r].active
        /\ req'[r].victims = req[r].victims
        /\ req'[r].alive = req[r].alive /\ req'[r].added = req[r].added
    BY <1>1, <1>4, UnlistVictimMoves DEF Locals
  <2>2. User(r)' = User(r) /\ User(r) \in Users
    BY <1>1, <2>1, UserStays
  <2>3. Counted(r)' = Counted(r)
    BY <2>1 DEF Counted
  <2>4. CountedOnce(r)' /\ CountedTruly(r)'
    BY <1>2, <2>1, <2>3, TrulyStays DEF CountedOnce, CountedTruly
  <2>5. sessions'[User(r)] = sessions[User(r)] \ {req[r].cursor}
    BY <1>1, <2>2 DEF UnlistVictim, TypeOK
  <2>6. NoneForgotten(r)'
    BY <1>1, <1>2, <2>1, <2>2, <2>3, <2>5 DEF NoneForgotten, Leaving, Hashes
  <2>7. Chosen(r)'
    BY <1>2, <2>1 DEF Chosen
  <2>8. QED
    BY <1>2, <2>1, <2>2, <2>4, <2>6, <2>7 DEF CountOK, Counting
<1>5. QED
  BY <1>3, <1>4

LEMMA SetTokenCount ==
  ASSUME IInv, [Next]_vars, NEW r \in Requests, CountOK(r), SetToken(r)
  PROVE  CountOK(r)'
<1>1. req[r].pc = "evict" /\ req[r].victims = {} /\ TypeOK /\ sessions' = sessions
  BY DEF SetToken, IInv
<1>2. CountedOnce(r) /\ NoneForgotten(r) /\ Chosen(r)
  BY <1>1 DEF CountOK, Evicting
<1>3. CASE req'[r] = Idle
  BY <1>3 DEF CountOK, Counting, Evicting, Idle
<1>4. CASE req'[r] # Idle
  <2>1. /\ req'[r].pc = "sadd" /\ req'[r].login = req[r].login
        /\ req'[r].added = req[r].added
    BY <1>1, <1>4, SetTokenMoves DEF Locals
  <2>2. User(r)' = User(r)
    BY <1>1, <2>1, UserStays
  <2>3. Counted(r) = req[r].active /\ IsFiniteSet(req[r].active)
    BY <1>1, <1>2, CountedFinite DEF Counted
  <2> DEFINE left == sessions[User(r)] \ req[r].added
  <2>4. \A t \in left : \E s \in req[r].active : s.hash = t
    BY <1>1, <1>2, <2>3 DEF NoneForgotten, Leaving, Chosen, Hashes
  <2>5. Cardinality(left) \in Nat /\ Cardinality(left) <= Cardinality(req[r].active)
    BY <2>3, <2>4, HashesCounted
  <2>6. Cardinality(req[r].active) < MaxSessions /\ Cardinality(req[r].active) \in Nat
    BY <1>1, <1>2, <2>3, FS_CardinalityType DEF Chosen
  <2>7. Cardinality(sessions'[User(r)'] \ req'[r].added) < MaxSessions
    BY <1>1, <2>1, <2>2, <2>5, <2>6
  <2>8. QED
    BY <2>1, <2>7 DEF CountOK, Counting, Evicting
<1>5. QED
  BY <1>3, <1>4

(* The steps of a request outside the counting. *)
LEMMA ElsewhereCount ==
  ASSUME IInv, NEW r \in Requests,
         \/ \E u \in Users : IssueToken(r, u)
         \/ \E n \in granted : Present(r, n)
         \/ TrackToken(r) \/ Lookup(r) \/ RevokeDelete(r) \/ RevokeUnlist(r) \/ Fail(r)
  PROVE  CountOK(r)'
<1>1. TypeOK
  BY DEF IInv
<1>2. \/ req'[r] = Idle
      \/ req'[r].pc \in {"lookup", "delete", "srem"}
      \/ Begun(r, "smembers", Len(issued'))
  BY <1>1, IssueTokenStarts, PresentStarts, TrackTokenMoves, LookupMoves, RevokeDeleteMoves,
     RevokeUnlistMoves, FailMoves DEF Locals, Begun
<1>3. QED
  BY <1>2 DEF CountOK, Counting, Evicting, Idle, Begun

-----------------------------------------------------------------------------
(* The steps of others, and the environment's. *)

(* What a request adds to a set, it adds to the history of the logins that *)
(* have read it.                                                           *)
LEMMA OthersAdd ==
  ASSUME IInv, NEW r \in Requests, RequestStep(r), NEW q \in Requests \ {r}, Storing(q)
  PROVE  sessions'[User(q)] \ req'[q].added \subseteq sessions[User(q)] \ req[q].added
<1>1. TypeOK /\ User(q) \in Users /\ req[q] \in Request
  BY TokType DEF IInv, Storing
<1>2. CASE TrackToken(r)
  <2>1. User(r) \in Users /\ sessions' = [sessions EXCEPT ![User(r)] = @ \cup {Tok(r)}]
    BY <1>1, <1>2, TokType DEF TrackToken
  <2>2. CASE User(q) = User(r)
    <3>1. req'[q] = [req[q] EXCEPT !.added = @ \cup {Tok(r)}]
      BY <1>2, <2>2 DEF TrackToken
    <3>2. req'[q].added = req[q].added \cup {Tok(r)}
      BY <1>1, <3>1 DEF Request
    <3>3. sessions'[User(q)] = sessions[User(q)] \cup {Tok(r)}
      BY <1>1, <2>1, <2>2 DEF TypeOK
    <3>4. QED
      BY <3>2, <3>3
  <2>3. CASE User(q) # User(r)
    BY <1>1, <1>2, <2>1, <2>3 DEF TrackToken, TypeOK
  <2>4. QED
    BY <2>2, <2>3
<1>3. CASE ~TrackToken(r)
  <2>1. req'[q] = req[q]
    BY <1>1, <1>3, IssueTokenStarts, PresentStarts, ReadSessionsMoves, ReadPayloadMoves,
       MissPayloadMoves, DropStaleMoves, EnforceLimitMoves, EvictTokenMoves,
       UnlistVictimMoves, SetTokenMoves, LookupMoves, RevokeDeleteMoves,
       RevokeUnlistMoves, FailMoves DEF RequestStep, Step, Moves
  <2>2. CASE DropStale(r) \/ UnlistVictim(r) \/ RevokeUnlist(r)
    <3>1. \E h : sessions' = [sessions EXCEPT ![User(r)] = @ \ {h}]
      BY <2>2 DEF DropStale, UnlistVictim, RevokeUnlist
    <3>2. sessions'[User(q)] \subseteq sessions[User(q)]
      BY <1>1, <3>1 DEF TypeOK
    <3>3. QED
      BY <2>1, <3>2
  <2>3. CASE ~(DropStale(r) \/ UnlistVictim(r) \/ RevokeUnlist(r))
    <3>1. sessions' = sessions
      BY <1>3, <2>3 DEF RequestStep, Step, redis, IssueToken, Present, ReadSessions, ReadPayload,
         MissPayload, EnforceLimit, EvictToken, SetToken, Lookup, RevokeDelete, Fail
    <3>2. QED
      BY <2>1, <3>1
  <2>4. QED
    BY <2>2, <2>3
<1>4. QED
  BY <1>2, <1>3

LEMMA RequestStepCount ==
  ASSUME CInv, [Next]_vars, NEW r \in Requests, RequestStep(r), NEW q \in Requests
  PROVE  CountOK(q)'
<1>1. IInv /\ CountOK(q) /\ TypeOK
  BY DEF CInv, IInv
<1>2. CASE q = r
  <2>1. CASE \/ \E u \in Users : IssueToken(r, u)
             \/ \E n \in granted : Present(r, n)
             \/ TrackToken(r) \/ Lookup(r) \/ RevokeDelete(r) \/ RevokeUnlist(r) \/ Fail(r)
    BY <1>1, <1>2, <2>1, ElsewhereCount
  <2>2. CASE ReadSessions(r)
    BY <1>1, <1>2, <2>2, ReadSessionsCount
  <2>3. CASE \E h \in req[r].todo : ReadPayload(r, h)
    BY <1>1, <1>2, <2>3, ReadPayloadCount
  <2>4. CASE (\E h \in req[r].todo : MissPayload(r, h)) \/ DropStale(r)
    BY <1>1, <1>2, <2>4, StaleCount
  <2>5. CASE EnforceLimit(r)
    BY <1>1, <1>2, <2>5, EnforceLimitCount
  <2>6. CASE EvictToken(r)
    BY <1>1, <1>2, <2>6, EvictTokenCount
  <2>7. CASE UnlistVictim(r)
    BY <1>1, <1>2, <2>7, UnlistVictimCount
  <2>8. CASE SetToken(r)
    BY <1>1, <1>2, <2>8, SetTokenCount
  <2>9. QED
    BY <2>1, <2>2, <2>3, <2>4, <2>5, <2>6, <2>7, <2>8 DEF RequestStep, Step
<1>3. CASE q # r
  BY <1>1, <1>3, OthersSame, OthersAdd, CountStays
<1>4. QED
  BY <1>2, <1>3

LEMMA EnvironmentCount ==
  ASSUME CInv, [Next]_vars,
         (\E t \in Token : Expire(t)) \/ Tick \/ RedisRestart \/ UNCHANGED vars,
         NEW q \in Requests
  PROVE  CountOK(q)'
<1>1. IInv /\ CountOK(q) /\ TypeOK
  BY DEF CInv, IInv
<1>2. req' = req /\ (sessions' = sessions \/ sessions' = [u \in Users |-> {}])
  BY DEF Expire, Tick, RedisRestart, redis, vars
<1>3. SameCounts(q)
  BY <1>2 DEF SameCounts
<1>4. Storing(q) => sessions'[User(q)] \ req'[q].added \subseteq sessions[User(q)] \ req[q].added
  BY <1>1, <1>2, TokType DEF Storing
<1>5. QED
  BY <1>1, <1>3, <1>4, CountStays

LEMMA CNextInv == CInv /\ [Next]_vars => CInv'
<1> SUFFICES ASSUME CInv, [Next]_vars PROVE CInv'
  OBVIOUS
<1>1. IInv'
  BY NextInv DEF CInv
<1>2. \/ \E r \in Requests : RequestStep(r)
      \/ (\E t \in Token : Expire(t)) \/ Tick \/ RedisRestart \/ UNCHANGED vars
  BY DEF Next, RequestStep
<1>3. \A q \in Requests : CountOK(q)'
  BY <1>2, RequestStepCount, EnvironmentCount
<1>4. QED
  BY <1>1, <1>3 DEF CInv

LEMMA CountInductive == Spec => []CInv
<1>1. Init => CInv
  BY CInitInv
<1>2. CInv /\ [Next]_vars => CInv'
  BY CNextInv
<1>3. QED
  BY <1>1, <1>2, PTL DEF Spec

-----------------------------------------------------------------------------
(* Theorems. *)

(* A login that is about to evict had as many live sessions listed, when   *)
(* it read the set, as it evicts and keeps: _enforce_session_limit counts  *)
(* no stale hash and none twice, whatever runs beside it.                  *)
THEOREM EvictionsJustified == Spec => []EvictionJustified
<1>1. CInv => EvictionJustified
  <2> SUFFICES ASSUME CInv, NEW r \in Requests, req[r].pc = "evict", req[r].victims # {},
                      \A s \in req[r].active \cup req[r].victims : ~Reissued(s.hash)
               PROVE  Cardinality(req[r].alive) >= MaxSessions - 1 + Cardinality(req[r].victims)
    BY DEF EvictionJustified
  <2>1. /\ CountedOnce(r) /\ CountedTruly(r) /\ Chosen(r)
        /\ \A t \in req[r].alive : t.sub = User(r)
        /\ req[r].alive \in SUBSET Token /\ IInv
    BY DEF CInv, CountOK, Evicting, IInv, TypeOK, Request
  <2>2. IsFiniteSet(req[r].alive)
    BY <2>1, TokensOfUser
  <2>3. \A s \in Counted(r) : s.hash \in req[r].alive
    BY <2>1 DEF CountedTruly, Counted
  <2>4. /\ Cardinality(Counted(r)) <= Cardinality(req[r].alive)
        /\ Cardinality(Counted(r)) \in Nat /\ Cardinality(req[r].alive) \in Nat
        /\ IsFiniteSet(Counted(r))
    BY <2>1, <2>2, <2>3, CountedByHash DEF CountedOnce
  <2>5. IsFiniteSet(req[r].active) /\ IsFiniteSet(req[r].victims)
    BY <2>4, FS_Subset DEF Counted
  <2>6. /\ Cardinality(req[r].active) \in Nat /\ Cardinality(req[r].victims) \in Nat
        /\ req[r].active \cap req[r].victims = {} /\ Cardinality({}) = 0
    BY <2>1, <2>5, FS_CardinalityType, FS_EmptySet DEF Chosen
  <2>7. Cardinality(Counted(r)) = Cardinality(req[r].active) + Cardinality(req[r].victims)
    <3>1. Cardinality(req[r].active \cup req[r].victims)
            = Cardinality(req[r].active) + Cardinality(req[r].victims)
              - Cardinality(req[r].active \cap req[r].victims)
      BY <2>5, FS_Union
    <3>2. Cardinality(req[r].active \cap req[r].victims) = 0
      BY <2>6
    <3>3. QED
      BY <2>6, <3>1, <3>2 DEF Counted
  <2>8. Cardinality(req[r].active) = MaxSessions - 1
    BY <2>1 DEF Chosen
  <2>9. QED
    BY <2>4, <2>6, <2>7, <2>8
<1>2. QED
  BY <1>1, CountInductive, PTL

(* A login about to SADD its hash has room for it: store_token leaves in   *)
(* the set, besides what other logins added meanwhile, fewer hashes than   *)
(* REDIS_MAX_SESSIONS.                                                     *)
THEOREM RoomMade == Spec => []RoomForOneMore
<1>1. CInv => RoomForOneMore
  BY DEF CInv, CountOK, RoomForOneMore
<1>2. QED
  BY <1>1, CountInductive, PTL

(* An eviction leaves no older live session of the user behind, unless it  *)
(* was added since the set was read: the sort of _enforce_session_limit    *)
(* still holds when its deletions come.                                    *)
THEOREM OldestFirst == Spec => EvictsOldestFirst
<1>1. ASSUME CInv, [Next]_vars, NEW r \in Requests, NEW t \in Token, NEW h \in Token,
             req[r].pc = "evict", req'[r] # req[r],
             Live(t), ~Live(t)', ~Reissued(t), Live(h), ~Reissued(h),
             h \in sessions[User(r)] \ req[r].added
      PROVE  tokens[t].created_at <= tokens[h].created_at
  <2>1. /\ CountedOnce(r) /\ CountedTruly(r) /\ NoneForgotten(r) /\ Chosen(r)
        /\ IInv /\ TypeOK /\ tokens \in [Token -> Record]
    BY <1>1 DEF CInv, CountOK, Evicting, IInv, TypeOK
  <2>2. tokens'[t] # tokens[t]
    BY <1>1 DEF Live
  <2>3. PICK q \in Requests : EvictToken(q) \/ RevokeDelete(q) \/ SetToken(q) \/ req' = req
    BY <1>1, <2>2
    DEF Next, Step, vars, redis, IssueToken, Present, ReadSessions, ReadPayload, MissPayload,
        DropStale, EnforceLimit, UnlistVictim, TrackToken, Lookup, RevokeUnlist, Fail,
        Expire, Tick, RedisRestart
  <2>4. q = r
    BY <1>1, <2>1, <2>3, EvictTokenMoves, RevokeDeleteMoves, SetTokenMoves DEF Moves
  <2>5. ~SetToken(q)
    <3>1. ASSUME SetToken(q) PROVE FALSE
      <4>1. tokens' = [tokens EXCEPT ![Tok(q)] =
                         [created_at |-> req[q].login, expires_at |-> now + ExpiresIn]]
        BY <3>1 DEF SetToken
      <4>2. tokens'[t] = [created_at |-> req[q].login, expires_at |-> now + ExpiresIn]
        BY <2>1, <2>2, <4>1
      <4>3. tokens'[t].expires_at = now + ExpiresIn /\ Absent.expires_at = 0 /\ now \in Nat
        BY <2>1, <4>2 DEF Absent, TypeOK
      <4>4. QED
        BY <1>1, <4>3 DEF Live
    <3>2. QED
      BY <3>1
  <2>6. EvictToken(r)
    BY <1>1, <2>3, <2>4, <2>5 DEF RevokeDelete
  <2>7. PICK v \in req[r].victims :
          /\ \A w \in req[r].victims : v.created_at <= w.created_at
          /\ v.hash \in Token
          /\ tokens' = [tokens EXCEPT ![v.hash] = Absent]
    BY <2>1, <2>6, EvictTokenMoves
  <2>8. v.hash = t
    BY <2>1, <2>2, <2>7
  <2>9. PICK s \in Counted(r) : s.hash = h
    BY <1>1, <2>1 DEF NoneForgotten, Chosen, Leaving, Hashes
  <2>10. /\ tokens[t].created_at = v.created_at /\ tokens[h].created_at = s.created_at
    BY <1>1, <2>1, <2>8, <2>9 DEF CountedTruly, Counted
  <2>11. v.created_at <= s.created_at
    BY <2>1, <2>7, <2>9 DEF Chosen, Counted
  <2>12. QED
    BY <2>10, <2>11
<1>2. CInv /\ [Next]_vars =>
        [\A r \in Requests, t, h \in Token :
           /\ req[r].pc = "evict" /\ req'[r] # req[r]
           /\ Live(t) /\ ~Live(t)' /\ ~Reissued(t)
           /\ Live(h) /\ ~Reissued(h)
           /\ h \in sessions[User(r)] \ req[r].added
           => tokens[t].created_at <= tokens[h].created_at]_vars
  BY <1>1
<1>3. QED
  BY <1>2, CountInductive, PTL DEF Spec, EvictsOldestFirst

=============================================================================
