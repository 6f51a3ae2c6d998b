---------------------- MODULE TokenServiceSessionsProofs ----------------------
(***************************************************************************)
(* The proof that TokenService implements Sessions.  On top of the         *)
(* inductive invariant of TokenServiceProofs it needs that the sessions    *)
(* that a login has counted are among those it has seen, so that an        *)
(* eviction finds as many seen as the limit asks for.                      *)
(***************************************************************************)
EXTENDS TokenServiceSessions, TokenServiceCounting

USE MaxSessionsAssumption, ExpiresInAssumption, BoundsAssumption

-----------------------------------------------------------------------------
(* The logins in flight. *)

Before(r) == req[r].pc \in {"smembers", "scan", "drop", "evict", "unlist"}
After(r) == req[r].pc = "sadd"

LEMMA InFlight ==
  /\ \A n : n \in Pending <=> \E r \in Requests : Before(r) /\ req[r].login = n
  /\ \A n : n \in Opened <=> \E r \in Requests : After(r) /\ req[r].login = n
  BY DEF Pending, Opened, Before, After

LEMMA InFlightNext ==
  /\ \A n : n \in Pending' <=> \E r \in Requests : Before(r)' /\ req'[r].login = n
  /\ \A n : n \in Opened' <=> \E r \in Requests : After(r)' /\ req'[r].login = n
  BY DEF Pending, Opened, Before, After

LEMMA PendingType ==
  ASSUME TypeOK
  PROVE  Pending \subseteq 1 .. Len(issued) /\ Pending \subseteq 1 .. MaxLogins
  BY InFlight DEF TypeOK, Before

(* The others stay where they are. *)
Alone(r) ==
  \A q \in Requests \ {r} :
    req'[q].pc = req[q].pc /\ req'[q].login = req[q].login

LEMMA MovesAlone == \A r \in Requests : Moves(r) => Alone(r)
  BY DEF Moves, Alone

(* What becomes of the logins in flight when one of them moves. *)
LEMMA LoginMoves ==
  ASSUME LoginsApart, NEW r \in Requests, LoggingIn(r), Alone(r)
  PROVE  LET n == req[r].login
         IN  /\ req'[r] = Idle => /\ Pending' = Pending \ {n}
                                  /\ Opened' = Opened \ {n}
             /\ Before(r) /\ Before(r)' /\ req'[r].login = n
                  => Pending' = Pending /\ Opened' = Opened
             /\ Before(r) /\ After(r)' /\ req'[r].login = n
                  => Pending' = Pending \ {n} /\ Opened' = Opened \cup {n}
<1> DEFINE n == req[r].login
<1>1. \A q \in Requests \ {r} : /\ Before(q)' <=> Before(q)
                                /\ After(q)' <=> After(q)
                                /\ req'[q].login = req[q].login
                                /\ Before(q) \/ After(q) => req[q].login # n
  BY DEF Alone, Before, After, LoginsApart, LoggingIn
<1>2. ~ (Before(r) /\ After(r)) /\ ~ (Before(r) /\ After(r))'
  BY DEF Before, After
<1>3. \A m : /\ m # n => (m \in Pending <=> \E q \in Requests \ {r} : Before(q) /\ req[q].login = m)
             /\ m # n => (m \in Opened <=> \E q \in Requests \ {r} : After(q) /\ req[q].login = m)
  BY InFlight
<1>4. n \in Pending <=> Before(r)
  BY <1>1, InFlight
<1>5. n \in Opened <=> After(r)
  BY <1>1, InFlight
<1>6. CASE req'[r] = Idle
  <2>1. ~Before(r)' /\ ~After(r)'
    BY <1>6 DEF Before, After, Idle
  <2>2. Pending' = Pending \ {n} /\ Opened' = Opened \ {n}
    BY <1>1, <1>3, <2>1, InFlightNext
  <2>3. QED
    BY <2>1, <2>2
<1>7. CASE Before(r) /\ Before(r)' /\ req'[r].login = n
  <2>1. req'[r] # Idle /\ ~After(r) /\ ~After(r)'
    BY <1>7 DEF Before, After, Idle
  <2>2. \A m : m \in Pending' <=> m \in Pending
    BY <1>1, <1>3, <1>4, <1>7, InFlightNext
  <2>3. \A m : m \in Opened' <=> m \in Opened
    BY <1>1, <1>3, <1>5, <2>1, InFlightNext
  <2>4. Pending' = Pending /\ Opened' = Opened
    BY <2>2, <2>3
  <2>5. QED
    BY <1>2, <1>7, <2>1, <2>4
<1>8. CASE Before(r) /\ After(r)' /\ req'[r].login = n
  BY <1>1, <1>2, <1>3, <1>4, <1>5, <1>8, InFlightNext DEF Before, Idle, After
<1>9. QED
  BY <1>6, <1>7, <1>8

(* A request that is no login leaves them alone. *)
LEMMA OthersMove ==
  ASSUME NEW r \in Requests, ~LoggingIn(r), ~LoggingIn(r)', Alone(r)
  PROVE  Pending' = Pending /\ Opened' = Opened
<1>1. ~Before(r) /\ ~After(r) /\ ~Before(r)' /\ ~After(r)'
  BY DEF LoggingIn, Before, After
<1>2. \A q \in Requests \ {r} : /\ Before(q)' <=> Before(q)
                                /\ After(q)' <=> After(q)
                                /\ req'[q].login = req[q].login
  BY DEF Alone, Before, After
<1>3. QED
  BY <1>1, <1>2, InFlight, InFlightNext

(* A DEL ends one session or, of a dead hash, none. *)
LEMMA DeleteLive ==
  ASSUME TypeOK, NEW t \in Token, tokens' = [tokens EXCEPT ![t] = Absent]
  PROVE  LiveTokens' = LiveTokens \ {t}
  BY DEF TypeOK, LiveTokens, Live

-----------------------------------------------------------------------------
(* What the logins have seen and counted. *)

(* A pending login has seen what is live of its user, and nothing of       *)
(* others.                                                                 *)
SeenOK ==
  /\ seen \in [1 .. MaxLogins -> SUBSET Token]
  /\ \A n \in 1 .. MaxLogins : n \notin Pending => seen[n] = {}
  /\ \A n \in Pending : \A t \in seen[n] : t.sub = issued[n].sub
  /\ \A n \in Pending : \A t \in LiveTokens : t.sub = issued[n].sub => t \in seen[n]

(* It has counted sessions that it has seen, each once, and evicts only    *)
(* when it has counted as many as the limit.                               *)
CountsOK(r) ==
  /\ req[r].pc = "smembers" => req[r].active = {}
  /\ req[r].pc \in {"scan", "drop"} =>
       \A s \in req[r].active :
         /\ s.hash \in seen[req[r].login] \ req[r].todo
         /\ \A w \in req[r].active : s.hash = w.hash => s = w
  /\ req[r].pc \in {"evict", "unlist"} /\ req[r].victims # {} =>
       Cardinality(seen[req[r].login]) >= MaxSessions

HInv == IInv /\ SeenOK /\ \A r \in Requests : CountsOK(r)

LEMMA HInitInv == HInit => HInv
<1> SUFFICES ASSUME HInit PROVE HInv
  OBVIOUS
<1>1. IInv /\ \A r \in Requests : req[r] = Idle
  BY InitInv DEF HInit, Init
<1>2. Pending = {}
  BY <1>1, InFlight DEF Before, Idle
<1>3. SeenOK
  BY <1>2 DEF HInit, SeenOK
<1>4. \A r \in Requests : CountsOK(r)
  BY <1>1 DEF CountsOK, Idle
<1>5. QED
  BY <1>1, <1>3, <1>4 DEF HInv

LEMMA SeenFinite ==
  ASSUME SeenOK, NEW n \in 1 .. MaxLogins
  PROVE  IsFiniteSet(seen[n])
<1>1. CASE n \in Pending
  BY <1>1, TokensOfUser DEF SeenOK
<1>2. CASE n \notin Pending
  BY <1>2, FS_EmptySet DEF SeenOK
<1>3. QED
  BY <1>1, <1>2

(* What a login has counted is at most what it has seen. *)
LEMMA CountedSeen ==
  ASSUME SeenOK, NEW n \in 1 .. MaxLogins, NEW A,
         \A s \in A : s.hash \in seen[n] /\ \A w \in A : s.hash = w.hash => s = w
  PROVE  /\ IsFiniteSet(A) /\ Cardinality(A) \in Nat
         /\ Cardinality(A) <= Cardinality(seen[n])
<1>1. IsFiniteSet(seen[n])
  BY SeenFinite
<1>2. QED
  BY <1>1, CountedByHash

LEMMA SeenInv ==
  ASSUME TypeOK, TypeOK', SeenOK, [Next]_vars, S!Watch
  PROVE  /\ SeenOK'
         /\ \A n \in Pending : n \in Pending' => seen[n] \subseteq seen'[n]
<1>1. seen' = [n \in 1 .. MaxLogins |->
                IF n \in Pending'
                THEN seen[n] \cup {t \in LiveTokens' : t.sub = issued'[n].sub}
                ELSE {}]
  BY DEF S!Watch
<1>2. LiveTokens' \subseteq Token
  BY DEF LiveTokens
<1>3. Pending' \subseteq 1 .. MaxLogins /\ Pending \subseteq 1 .. Len(issued)
      /\ Pending \subseteq 1 .. MaxLogins
  <2>1. Pending' \subseteq 1 .. MaxLogins
    BY InFlightNext DEF TypeOK, Before
  <2>2. QED
    BY <2>1, PendingType
<1>4. \A n \in Pending : issued'[n] = issued[n]
  BY <1>3, IssuedStays
<1>5. \A n \in Pending' : \A t \in seen[n] : t.sub = issued'[n].sub
  BY <1>3, <1>4 DEF SeenOK
<1>6. /\ seen' \in [1 .. MaxLogins -> SUBSET Token]
      /\ \A n \in 1 .. MaxLogins : n \notin Pending' => seen'[n] = {}
  BY <1>1, <1>2 DEF SeenOK
<1>7. \A n \in Pending' : seen'[n] = seen[n] \cup {t \in LiveTokens' : t.sub = issued'[n].sub}
  BY <1>1, <1>3
<1>8. QED
  BY <1>5, <1>6, <1>7 DEF SeenOK

LEMMA SeenMore ==
  ASSUME TypeOK, SeenOK, SeenOK', NEW r \in Requests, Before(r), Before(r)',
         req'[r].login = req[r].login,
         \A n \in Pending : n \in Pending' => seen[n] \subseteq seen'[n]
  PROVE  LET n == req[r].login
         IN  /\ n \in 1 .. MaxLogins /\ n \in Pending
             /\ seen[n] \subseteq seen'[n]
             /\ Cardinality(seen[n]) \in Nat /\ Cardinality(seen'[n]) \in Nat
             /\ Cardinality(seen[n]) <= Cardinality(seen'[n])
<1> DEFINE n == req[r].login
<1>1. n \in Pending /\ n \in Pending' /\ n \in 1 .. MaxLogins
  BY InFlight, InFlightNext, PendingType
<1>2. seen[n] \subseteq seen'[n]
  BY <1>1
<1> HIDE DEF n
<1>3. IsFiniteSet(seen[n]) /\ IsFiniteSet(seen'[n])
  <2>1. IsFiniteSet(seen[n])
    BY <1>1, SeenFinite
  <2>2. IsFiniteSet(seen'[n])
    <3>1. \A t \in seen'[n] : t.sub = issued'[n].sub
      BY <1>1 DEF SeenOK
    <3>2. seen'[n] \subseteq Token
      BY <1>1 DEF SeenOK
    <3>3. QED
      BY <3>1, <3>2, TokensOfUser
  <2>3. QED
    BY <2>1, <2>2
<1>4. /\ Cardinality(seen[n]) \in Nat /\ Cardinality(seen'[n]) \in Nat
      /\ Cardinality(seen[n]) <= Cardinality(seen'[n])
  BY <1>2, <1>3, FS_Subset, FS_CardinalityType
<1>5. QED
  BY <1>1, <1>2, <1>4 DEF n

(* A login whose next step reads no payload and chooses no victims. *)
LEMMA CountsKept ==
  ASSUME TypeOK, SeenOK, SeenOK', NEW r \in Requests, CountsOK(r),
         \A n \in Pending : n \in Pending' => seen[n] \subseteq seen'[n],
         \/ ~Before(r)'
         \/ req'[r].active = {} /\ req'[r].victims = {}
         \/ SameCounts(r)
         \/ /\ req[r].pc \in {"scan", "drop"} /\ req'[r].pc \in {"scan", "drop"}
            /\ req'[r].login = req[r].login
            /\ req'[r].active = req[r].active /\ req'[r].todo \subseteq req[r].todo
         \/ /\ req[r].pc \in {"evict", "unlist"} /\ req'[r].pc \in {"evict", "unlist"}
            /\ req'[r].login = req[r].login
            /\ req'[r].victims \subseteq req[r].victims
  PROVE  CountsOK(r)'
<1>1. CASE ~Before(r)'
  BY <1>1 DEF CountsOK, Before
<1>2. CASE req'[r].active = {} /\ req'[r].victims = {}
  BY <1>2 DEF CountsOK
<1>3. CASE /\ Before(r) /\ Before(r)' /\ req'[r].login = req[r].login
           /\ \/ SameCounts(r)
              \/ /\ req[r].pc \in {"scan", "drop"} /\ req'[r].pc \in {"scan", "drop"}
                 /\ req'[r].active = req[r].active /\ req'[r].todo \subseteq req[r].todo
              \/ /\ req[r].pc \in {"evict", "unlist"} /\ req'[r].pc \in {"evict", "unlist"}
                 /\ req'[r].victims \subseteq req[r].victims
  <2> DEFINE n == req[r].login
             c == Cardinality(seen[n])
             d == Cardinality(seen'[n])
  <2>1. /\ seen[n] \subseteq seen'[n] /\ req'[r].login = n
        /\ c \in Nat /\ d \in Nat /\ c <= d
    BY <1>3, SeenMore
  <2> HIDE DEF n
  <2>2. /\ req[r].pc = "smembers" => req[r].active = {}
        /\ req[r].pc \in {"scan", "drop"} =>
             \A s \in req[r].active :
               /\ s.hash \in seen[n] \ req[r].todo
               /\ \A w \in req[r].active : s.hash = w.hash => s = w
        /\ req[r].pc \in {"evict", "unlist"} /\ req[r].victims # {} => c >= MaxSessions
    BY DEF CountsOK, n
  <2> HIDE DEF c, d
  <2>3. /\ req'[r].pc = "smembers" => req'[r].active = {}
        /\ req'[r].pc \in {"scan", "drop"} =>
             \A s \in req'[r].active :
               /\ s.hash \in seen'[n] \ req'[r].todo
               /\ \A w \in req'[r].active : s.hash = w.hash => s = w
    BY <1>3, <2>1, <2>2 DEF SameCounts
  <2>4. req'[r].pc \in {"evict", "unlist"} /\ req'[r].victims # {} => d >= MaxSessions
    <3>1. req'[r].pc \in {"evict", "unlist"} /\ req'[r].victims # {} => c >= MaxSessions
      BY <1>3, <2>2 DEF SameCounts
    <3>2. QED
      BY <3>1, <2>1
  <2>5. QED
    BY <2>1, <2>3, <2>4 DEF CountsOK, d
<1>4. QED
  BY <1>1, <1>2, <1>3 DEF SameCounts, Before

(* A payload that is there is one session more, and seen. *)
LEMMA CountsRead ==
  ASSUME IInv, SeenOK, SeenOK', NEW r \in Requests, CountsOK(r),
         \A n \in Pending : n \in Pending' => seen[n] \subseteq seen'[n],
         NEW h \in req[r].todo, ReadPayload(r, h)
  PROVE  CountsOK(r)'
<1> DEFINE n == req[r].login
           s == [hash |-> h, created_at |-> tokens[h].created_at]
<1>1. CASE req'[r] = Idle
  BY <1>1 DEF CountsOK, Idle
<1>2. CASE Locals(req'[r], r, "scan", req[r].todo \ {h}, req[r].active \cup {s},
                  req[r].victims, req[r].cursor, req[r].alive)
  <2>1. TypeOK /\ req[r].pc = "scan" /\ Live(h) /\ h \in Token /\ h.sub = issued[n].sub
    <3>1. TypeOK /\ req[r].pc = "scan" /\ Live(h)
      BY DEF IInv, ReadPayload
    <3>2. h \in Token
      BY <3>1 DEF TypeOK, Request
    <3>3. h.sub = User(r)
      BY <3>2 DEF IInv, KnownIssued, Holds
    <3>4. QED
      BY <3>1, <3>2, <3>3 DEF User, Tok
  <2>2. Before(r) /\ Before(r)' /\ req'[r].login = n
    BY <1>2, <2>1 DEF Locals, Before
  <2>3. n \in Pending /\ seen[n] \subseteq seen'[n]
    BY <2>1, <2>2, SeenMore
  <2>4. h \in seen'[n]
    BY <2>1, <2>3 DEF SeenOK, LiveTokens
  <2>5. \A w \in req[r].active :
          /\ w.hash \in seen'[n] \ req[r].todo
          /\ \A x \in req[r].active : w.hash = x.hash => w = x
    BY <2>1, <2>3 DEF CountsOK
  <2>6. \A w \in req'[r].active :
          /\ w.hash \in seen'[n] \ req'[r].todo
          /\ \A x \in req'[r].active : w.hash = x.hash => w = x
    <3>1. /\ req'[r].active = req[r].active \cup {s}
          /\ req'[r].todo = req[r].todo \ {h}
          /\ s.hash = h
      BY <1>2 DEF Locals
    <3> HIDE DEF s
    <3>2. QED
      BY <2>4, <2>5, <3>1
  <2>7. req'[r].pc = "scan"
    BY <1>2 DEF Locals
  <2>8. QED
    BY <2>2, <2>6, <2>7 DEF CountsOK
<1>3. QED
  BY <1>1, <1>2, ReadPayloadMoves DEF IInv

(* Who chooses victims has counted as many sessions as the limit. *)
LEMMA CountsChosen ==
  ASSUME TypeOK, SeenOK, SeenOK', NEW r \in Requests, CountsOK(r),
         \A n \in Pending : n \in Pending' => seen[n] \subseteq seen'[n],
         EnforceLimit(r)
  PROVE  CountsOK(r)'
<1> DEFINE n == req[r].login
           A == req[r].active
<1>1. PICK V \in OldestOf(A) :
        Locals(req'[r], r, "evict", req[r].todo, A \ V, V, req[r].cursor, req[r].alive)
  BY EnforceLimitMoves
<1>2. req[r].pc = "scan" /\ Before(r) /\ Before(r)' /\ req'[r].login = n
  BY <1>1 DEF EnforceLimit, Before, Locals
<1>3. /\ n \in 1 .. MaxLogins
      /\ Cardinality(seen[n]) \in Nat /\ Cardinality(seen'[n]) \in Nat
      /\ Cardinality(seen[n]) <= Cardinality(seen'[n])
  BY <1>2, SeenMore
<1>4. \A s \in A : s.hash \in seen[n] /\ \A w \in A : s.hash = w.hash => s = w
  BY <1>2 DEF CountsOK
<1> HIDE DEF n, A
<1>5. /\ IsFiniteSet(A) /\ Cardinality(A) \in Nat
      /\ Cardinality(A) <= Cardinality(seen[n])
  BY <1>3, <1>4, CountedSeen
<1>6. V \subseteq A /\ Cardinality(V) = EvictCount(Cardinality(A))
  BY DEF OldestOf
<1>7. V # {} => Cardinality(V) # 0
  BY <1>5, <1>6, FS_Subset, FS_EmptySet
<1>8. V # {} => Cardinality(A) >= MaxSessions
  BY <1>5, <1>6, <1>7 DEF EvictCount
<1>9. V # {} => Cardinality(seen'[n]) >= MaxSessions
  BY <1>3, <1>5, <1>8
<1>10. req'[r].pc = "evict" /\ req'[r].victims = V
  BY <1>1 DEF Locals
<1>11. QED
  BY <1>2, <1>9, <1>10 DEF CountsOK, n

(* The other steps of a request count nothing. *)
LEMMA CountsStep ==
  ASSUME IInv, SeenOK, SeenOK', NEW r \in Requests, CountsOK(r),
         \A n \in Pending : n \in Pending' => seen[n] \subseteq seen'[n],
         \/ \E u \in Users : IssueToken(r, u)
         \/ \E n \in granted : Present(r, n)
         \/ Step(r)
         \/ Fail(r)
  PROVE  CountsOK(r)'
<1>1. TypeOK
  BY DEF IInv
<1>2. ASSUME NEW u \in Users, IssueToken(r, u) PROVE CountsOK(r)'
  BY <1>1, <1>2, IssueTokenStarts, CountsKept DEF Begun
<1>3. ASSUME NEW n \in granted, Present(r, n) PROVE CountsOK(r)'
  BY <1>1, <1>3, PresentStarts, CountsKept DEF Begun
<1>4. req'[r] = Idle => ~Before(r)'
  BY DEF Idle, Before
<1>5. CASE ReadSessions(r)
  <2>1. req'[r] = Idle \/ /\ req'[r].pc = "scan" /\ req'[r].active = {}
    BY <1>1, <1>5, ReadSessionsMoves DEF Locals, CountsOK, ReadSessions
  <2>2. QED
    BY <2>1 DEF CountsOK, Idle
<1>6. ASSUME NEW h \in req[r].todo, ReadPayload(r, h) PROVE CountsOK(r)'
  BY <1>6, CountsRead
<1>7. ASSUME NEW h \in req[r].todo, MissPayload(r, h) PROVE CountsOK(r)'
  BY <1>1, <1>4, <1>7, MissPayloadMoves, CountsKept DEF Locals, MissPayload
<1>8. CASE DropStale(r)
  BY <1>1, <1>4, <1>8, DropStaleMoves, CountsKept DEF Locals, DropStale
<1>9. CASE EnforceLimit(r)
  BY <1>1, <1>9, CountsChosen
<1>10. CASE EvictToken(r)
  BY <1>1, <1>4, <1>10, EvictTokenMoves, CountsKept DEF Locals, EvictToken
<1>11. CASE UnlistVictim(r)
  BY <1>1, <1>4, <1>11, UnlistVictimMoves, CountsKept DEF Locals, UnlistVictim
<1>12. CASE \/ SetToken(r) \/ TrackToken(r) \/ Lookup(r) \/ RevokeDelete(r)
            \/ RevokeUnlist(r) \/ Fail(r)
  <2>1. req'[r] = Idle \/ req'[r].pc \in {"sadd", "delete", "srem"}
    BY <1>1, <1>12, SetTokenMoves, TrackTokenMoves, LookupMoves, RevokeDeleteMoves,
       RevokeUnlistMoves, FailMoves DEF Locals
  <2>2. ~Before(r)'
    BY <1>4, <2>1 DEF Before
  <2>3. QED
    BY <2>2 DEF CountsOK, Before
<1>13. QED
  BY <1>2, <1>3, <1>5, <1>6, <1>7, <1>8, <1>9, <1>10, <1>11, <1>12 DEF Step

LEMMA HNextInv == HInv /\ [HNext]_hvars => HInv'
<1> SUFFICES ASSUME HInv, [HNext]_hvars PROVE HInv'
  OBVIOUS
<1>1. CASE UNCHANGED hvars
  <2>1. IInv'
    BY <1>1, NextInv DEF HInv, hvars
  <2>2. SeenOK' /\ \A r \in Requests : CountsOK(r)'
    BY <1>1 DEF HInv, hvars, vars, SeenOK, CountsOK, Pending, LiveTokens, Live
  <2>3. QED
    BY <2>1, <2>2 DEF HInv
<1>2. CASE HNext
  <2>1. Next /\ S!Watch
    BY <1>2 DEF HNext
  <2>2. IInv /\ IInv' /\ TypeOK /\ TypeOK' /\ SeenOK
    BY <2>1, NextInv DEF HInv, IInv
  <2>3. SeenOK' /\ \A n \in Pending : n \in Pending' => seen[n] \subseteq seen'[n]
    BY <2>1, <2>2, SeenInv
  <2>4. ASSUME NEW r \in Requests, SameCounts(r) PROVE CountsOK(r)'
    BY <2>2, <2>3, <2>4, CountsKept DEF HInv
  <2>5. ASSUME NEW r \in Requests,
               \/ \E u \in Users : IssueToken(r, u)
               \/ \E n \in granted : Present(r, n)
               \/ Step(r)
               \/ Fail(r)
        PROVE  \A q \in Requests : CountsOK(q)'
    BY <2>2, <2>3, <2>4, <2>5, CountsStep, OthersSame DEF HInv, RequestStep
  <2>6. ASSUME req' = req PROVE \A q \in Requests : CountsOK(q)'
    BY <2>4, <2>6 DEF SameCounts
  <2>7. \A q \in Requests : CountsOK(q)'
    BY <2>1, <2>5, <2>6 DEF Next, Expire, Tick, RedisRestart
  <2>8. QED
    BY <2>2, <2>3, <2>7 DEF HInv
<1>3. QED
  BY <1>1, <1>2

-----------------------------------------------------------------------------
(* The refinement. *)

LEMMA Stutter ==
  ASSUME SeenOK, S!Watch, UNCHANGED <<now, issued, granted>>,
         Pending' = Pending, Opened' = Opened, LiveTokens' = LiveTokens
  PROVE  UNCHANGED S!vars
<1>1. seen' = [n \in 1 .. MaxLogins |->
                IF n \in Pending
                THEN seen[n] \cup {t \in LiveTokens : t.sub = issued[n].sub}
                ELSE {}]
  BY DEF S!Watch
<1>2. \A n \in 1 .. MaxLogins : seen'[n] = seen[n]
  <2> SUFFICES ASSUME NEW n \in 1 .. MaxLogins PROVE seen'[n] = seen[n]
    OBVIOUS
  <2>1. CASE n \in Pending
    <3>1. {t \in LiveTokens : t.sub = issued[n].sub} \subseteq seen[n]
      BY <2>1 DEF SeenOK
    <3>2. QED
      BY <1>1, <2>1, <3>1
  <2>2. CASE n \notin Pending
    BY <1>1, <2>2 DEF SeenOK
  <2>3. QED
    BY <2>1, <2>2
<1>3. seen' = seen
  BY <1>1, <1>2 DEF SeenOK
<1>4. QED
  BY <1>3 DEF S!vars

(* A login goes on, or breaks off. *)
LEMMA GoesOnOrGivesUp ==
  ASSUME SeenOK, LoginsApart, S!Watch, UNCHANGED <<now, issued, granted>>,
         LiveTokens' = LiveTokens, NEW r \in Requests, LoggingIn(r), Alone(r),
         \/ req'[r] = Idle
         \/ Before(r) /\ Before(r)' /\ req'[r].login = req[r].login
  PROVE  [S!Next]_(S!vars)
<1>1. CASE req'[r] = Idle
  <2>1. req[r].login \in Pending \cup Opened
    BY InFlight DEF LoggingIn, Before, After
  <2>2. S!GiveUp(req[r].login)
    BY <1>1, <2>1, LoginMoves DEF S!GiveUp
  <2>3. QED
    BY <2>1, <2>2 DEF S!Next
<1>2. CASE Before(r) /\ Before(r)' /\ req'[r].login = req[r].login
  BY <1>2, LoginMoves, Stutter
<1>3. QED
  BY <1>1, <1>2

(* A request that is no login and ends no session. *)
LEMMA OthersStutter ==
  ASSUME SeenOK, S!Watch, UNCHANGED <<now, issued, granted>>,
         LiveTokens' = LiveTokens, NEW r \in Requests, ~LoggingIn(r), ~LoggingIn(r)', Alone(r)
  PROVE  [S!Next]_(S!vars)
  BY OthersMove, Stutter

LEMMA IssueMaps ==
  ASSUME HInv, S!Watch, NEW r \in Requests, NEW u \in Users, IssueToken(r, u)
  PROVE  S!Issue(u)
<1>1. /\ Len(issued') = Len(issued) + 1
      /\ \A q \in Requests \ {r} : req'[q] = req[q]
      /\ req'[r].pc = "smembers" /\ req'[r].login = Len(issued) + 1
  BY IssueTokenStarts DEF HInv, IInv, Begun
<1>2. req[r].pc = "idle"
  BY DEF IssueToken
<1>3. Pending' = Pending \cup {Len(issued) + 1}
  <2>1. ~Before(r) /\ Before(r)'
    BY <1>1, <1>2 DEF Before
  <2>2. \A q \in Requests \ {r} : (Before(q)' <=> Before(q)) /\ req'[q].login = req[q].login
    BY <1>1 DEF Before
  <2>3. QED
    BY <1>1, <2>1, <2>2, InFlight, InFlightNext
<1>4. Opened' = Opened
  <2>1. ~After(r) /\ ~After(r)'
    BY <1>1, <1>2 DEF After
  <2>2. \A q \in Requests \ {r} : (After(q)' <=> After(q)) /\ req'[q].login = req[q].login
    BY <1>1 DEF After
  <2>3. QED
    BY <2>1, <2>2, InFlight, InFlightNext
<1>5. LiveTokens' = LiveTokens
  BY DEF IssueToken, redis, LiveTokens, Live
<1>6. QED
  BY <1>3, <1>4, <1>5 DEF S!Issue, IssueToken, Jwt

LEMMA SameCardinality == \A T : S!Cardinality(T) = Cardinality(T)
  BY DEF S!Cardinality, Cardinality

(* A DEL of an eviction ends a session of the login's own user, with the   *)
(* limit reached; or finds the session ended.                              *)
LEMMA EvictMaps ==
  ASSUME HInv, S!Watch, NEW r \in Requests, EvictToken(r)
  PROVE  [S!Next]_(S!vars)
<1> DEFINE n == req[r].login
<1>1. TypeOK /\ LoginsApart /\ KnownIssued /\ SeenOK /\ CountsOK(r)
  BY DEF HInv, IInv
<1>2. PICK v \in req[r].victims :
        /\ v.hash \in Token
        /\ tokens' = [tokens EXCEPT ![v.hash] = Absent]
        /\ \/ req'[r] = Idle
           \/ Locals(req'[r], r, "unlist", req[r].todo, req[r].active,
                     req[r].victims \ {v}, v.hash, req[r].alive)
  BY <1>1, EvictTokenMoves
<1>3. /\ req[r].pc = "evict" /\ Before(r) /\ LoggingIn(r) /\ Alone(r)
      /\ UNCHANGED <<now, issued, granted>>
  BY <1>1, EvictTokenMoves, MovesAlone DEF EvictToken, Before, LoggingIn, history
<1>4. LiveTokens' = LiveTokens \ {v.hash}
  BY <1>1, <1>2, DeleteLive
<1>5. \/ req'[r] = Idle
      \/ Before(r)' /\ req'[r].login = n
  BY <1>2 DEF Locals, Before
<1>6. n \in Pending
  BY <1>3, InFlight
<1>7. CASE v.hash \in LiveTokens
  <2>1. v.hash.sub = issued[n].sub
    BY <1>1, <1>2 DEF KnownIssued, Holds, User, Tok
  <2>2. Cardinality(seen[n]) >= MaxSessions
    BY <1>1, <1>2, <1>3 DEF CountsOK
  <2>3. Pending' \in {Pending, Pending \ {n}} /\ Opened' = Opened
    <3>1. n \notin Opened
      <4>1. \A q \in Requests : After(q) => req[q].login # n
        <5>1. \A q \in Requests : After(q) => q # r /\ LoggingIn(q)
          BY <1>3 DEF After, LoggingIn
        <5>2. QED
          BY <1>1, <1>3, <5>1 DEF LoginsApart
      <4>2. QED
        BY <4>1, InFlight
    <3>2. QED
      BY <1>1, <1>3, <1>5, <3>1, LoginMoves
  <2>4. S!Evict(n, v.hash)
    BY <1>3, <1>4, <1>6, <1>7, <2>1, <2>2, <2>3, SameCardinality DEF S!Evict
  <2>5. QED
    BY <1>6, <1>7, <2>4 DEF S!Next
<1>8. CASE v.hash \notin LiveTokens
  <2>1. LiveTokens' = LiveTokens
    BY <1>4, <1>8
  <2>2. QED
    BY <1>1, <1>3, <1>5, <2>1, GoesOnOrGivesUp
<1>9. QED
  BY <1>7, <1>8

(* The SET opens the session, for the first time. *)
LEMMA OpenMaps ==
  ASSUME HInv, S!Watch, NEW r \in Requests, SetToken(r)
  PROVE  S!Open(req[r].login) /\ req[r].login \in Pending
<1> DEFINE n == req[r].login
<1>1. TypeOK /\ LoginsApart
  BY DEF HInv, IInv
<1>2. /\ req[r].pc = "evict" /\ Before(r) /\ LoggingIn(r) /\ Alone(r)
      /\ UNCHANGED <<now, issued, granted>>
  BY <1>1, SetTokenMoves, MovesAlone DEF SetToken, Before, LoggingIn, history
<1>3. \/ req'[r] = Idle
      \/ After(r)' /\ req'[r].login = n
  BY <1>1, SetTokenMoves DEF Locals, After
<1>4. n \in Pending
  BY <1>2, InFlight
<1>5. n \notin Opened
  <2>1. \A q \in Requests : After(q) => q # r /\ LoggingIn(q)
    BY <1>2 DEF After, LoggingIn
  <2>2. QED
    BY <1>1, <1>2, <2>1, InFlight DEF LoginsApart
<1>6. Pending' = Pending \ {n} /\ Opened' \in {Opened, Opened \cup {n}}
  BY <1>1, <1>2, <1>3, <1>5, LoginMoves
<1>7. LiveTokens' = LiveTokens \cup {issued[n]}
  <2> DEFINE rec == [created_at |-> n, expires_at |-> now + ExpiresIn]
  <2>1. Tok(r) \in Token /\ n # 0 /\ tokens \in [Token -> Record]
    BY <1>1, <1>2, TokType DEF TypeOK
  <2>2. tokens' = [tokens EXCEPT ![Tok(r)] = rec]
    BY DEF SetToken
  <2>3. rec # Absent
    BY <2>1 DEF Absent
  <2> HIDE DEF rec, n
  <2>4. LiveTokens' = LiveTokens \cup {Tok(r)}
    BY <2>1, <2>2, <2>3 DEF LiveTokens, Live
  <2>5. QED
    BY <2>4 DEF Tok, n
<1>8. QED
  BY <1>2, <1>4, <1>6, <1>7 DEF S!Open

(* The SADD is the last command of a login. *)
LEMMA GrantMaps ==
  ASSUME HInv, S!Watch, NEW r \in Requests, TrackToken(r)
  PROVE  [S!Next]_(S!vars)
<1> DEFINE n == req[r].login
<1>1. TypeOK /\ LoginsApart
  BY DEF HInv, IInv
<1>2. /\ req[r].pc = "sadd" /\ After(r) /\ LoggingIn(r)
      /\ UNCHANGED <<now, issued>> /\ tokens' = tokens
      /\ granted' \in {granted, granted \cup {n}}
  BY DEF TrackToken, After, LoggingIn
<1>3. Alone(r) /\ req'[r] = Idle
  <2>1. \A q \in Requests \ {r} : SameCounts(q)
    BY <1>1, OthersSame DEF RequestStep, Step
  <2>2. QED
    BY <1>1, <2>1, TrackTokenMoves DEF Alone, SameCounts
<1>4. LiveTokens' = LiveTokens
  BY <1>2 DEF LiveTokens, Live
<1>5. n \in Opened /\ n \notin Pending
  <2>1. \A q \in Requests : Before(q) => q # r /\ LoggingIn(q)
    BY <1>2 DEF Before, LoggingIn
  <2>2. QED
    BY <1>1, <1>2, <2>1, InFlight DEF LoginsApart
<1>6. Pending' = Pending \ {n} /\ Opened' = Opened \ {n}
  BY <1>1, <1>2, <1>3, LoginMoves
<1>7. CASE granted' = granted
  <2>1. S!GiveUp(n)
    BY <1>2, <1>4, <1>5, <1>6, <1>7 DEF S!GiveUp
  <2>2. QED
    BY <1>5, <2>1 DEF S!Next
<1>8. CASE granted' = granted \cup {n}
  <2>1. S!Grant(n)
    BY <1>2, <1>4, <1>5, <1>6, <1>8 DEF S!Grant
  <2>2. QED
    BY <1>5, <2>1 DEF S!Next
<1>9. QED
  BY <1>2, <1>7, <1>8

(* The DEL of a logout closes the session that was presented. *)
LEMMA CloseMaps ==
  ASSUME HInv, S!Watch, NEW r \in Requests, RevokeDelete(r)
  PROVE  [S!Next]_(S!vars)
<1> DEFINE n == req[r].login
<1>1. TypeOK /\ PresentedGranted /\ SeenOK
  BY DEF HInv, IInv
<1>2. /\ Presenting(r) /\ ~LoggingIn(r) /\ Alone(r)
      /\ UNCHANGED <<now, issued, granted>>
  BY <1>1, RevokeDeleteMoves, MovesAlone DEF RevokeDelete, Presenting, LoggingIn, history
<1>3. ~LoggingIn(r)'
  BY <1>1, RevokeDeleteMoves DEF Locals, LoggingIn, Idle
<1>4. n \in granted /\ issued[n] \in Token /\ issued[n] = Tok(r)
  BY <1>1, <1>2, TokType DEF PresentedGranted, Tok, Presenting
<1>5. LiveTokens' = LiveTokens \ {issued[n]}
  BY <1>1, <1>4, DeleteLive DEF RevokeDelete
<1>6. Pending' = Pending /\ Opened' = Opened
  BY <1>2, <1>3, OthersMove
<1>7. CASE issued[n] \in LiveTokens
  <2>1. S!Close(n)
    BY <1>2, <1>4, <1>5, <1>6, <1>7 DEF S!Close
  <2>2. QED
    BY <1>4, <2>1 DEF S!Next
<1>8. CASE issued[n] \notin LiveTokens
  <2>1. LiveTokens' = LiveTokens
    BY <1>5, <1>8
  <2>2. QED
    BY <1>1, <1>2, <1>6, <2>1, Stutter
<1>9. QED
  BY <1>7, <1>8

LEMMA EnvironmentMaps ==
  ASSUME HInv, S!Watch, (\E t \in Token : Expire(t)) \/ Tick \/ RedisRestart
  PROVE  S!Next
<1>1. Pending' = Pending /\ Opened' = Opened
  BY DEF Expire, Tick, RedisRestart, Pending, Opened
<1>2. tokens \in [Token -> Record] /\ RecordOutlivesToken
  BY DEF HInv, IInv, TypeOK
<1>3. ASSUME NEW t \in Token, Expire(t) PROVE S!Next
  <2>1. LiveTokens' = LiveTokens \ {t}
    BY <1>3, DeleteLive DEF HInv, IInv, Expire
  <2>2. t \in LiveTokens /\ t.exp <= now
    BY <1>2, <1>3 DEF Expire, LiveTokens, RecordOutlivesToken
  <2>3. S!Expire(t)
    BY <1>1, <1>3, <2>1, <2>2 DEF S!Expire, Expire, history
  <2>4. QED
    BY <2>2, <2>3 DEF S!Next
<1>4. CASE Tick
  <2>1. LiveTokens' = LiveTokens
    BY <1>4 DEF Tick, redis, LiveTokens, Live
  <2>2. QED
    BY <1>1, <1>4, <2>1 DEF Tick, history, S!Tick, S!Next
<1>5. CASE RedisRestart
  <2>1. LiveTokens' = {}
    BY <1>5 DEF RedisRestart, LiveTokens, Live
  <2>2. QED
    BY <1>1, <1>5, <2>1 DEF RedisRestart, history, S!Restart, S!Next
<1>6. QED
  BY <1>3, <1>4, <1>5

LEMMA StepMaps == HInv /\ [HNext]_hvars => [S!Next]_(S!vars)
<1> SUFFICES ASSUME HInv, [HNext]_hvars PROVE [S!Next]_(S!vars)
  OBVIOUS
<1>1. CASE UNCHANGED hvars
  BY <1>1 DEF hvars, vars, S!vars, Pending, Opened, LiveTokens, Live
<1>2. CASE HNext
  <2>1. Next /\ S!Watch
    BY <1>2 DEF HNext
  <2>2. TypeOK /\ LoginsApart /\ SeenOK
    BY DEF HInv, IInv
  <2>3. UNCHANGED tokens => LiveTokens' = LiveTokens
    BY DEF LiveTokens, Live
  <2>4. ASSUME NEW r \in Requests, NEW u \in Users, IssueToken(r, u)
        PROVE  [S!Next]_(S!vars)
    BY <2>1, <2>4, IssueMaps DEF S!Next
  <2>5. ASSUME NEW r \in Requests,
               \/ ReadSessions(r) \/ DropStale(r) \/ EnforceLimit(r) \/ UnlistVictim(r)
               \/ \E h \in req[r].todo : ReadPayload(r, h) \/ MissPayload(r, h)
        PROVE  [S!Next]_(S!vars)
    <3>1. /\ LoggingIn(r) /\ Before(r)
          /\ UNCHANGED <<now, tokens, issued, granted>>
      BY <2>5 DEF LoggingIn, Before, redis, history, ReadSessions, ReadPayload,
                  MissPayload, DropStale, EnforceLimit, UnlistVictim
    <3>2. /\ Alone(r)
          /\ \/ req'[r] = Idle
             \/ Before(r)' /\ req'[r].login = req[r].login
      BY <2>2, <2>5, ReadSessionsMoves, ReadPayloadMoves, MissPayloadMoves, DropStaleMoves,
         EnforceLimitMoves, UnlistVictimMoves, MovesAlone DEF Locals, Before
    <3>3. QED
      BY <2>1, <2>2, <2>3, <3>1, <3>2, GoesOnOrGivesUp
  <2>6. ASSUME NEW r \in Requests, EvictToken(r) PROVE [S!Next]_(S!vars)
    BY <2>1, <2>6, EvictMaps
  <2>7. ASSUME NEW r \in Requests, SetToken(r) PROVE [S!Next]_(S!vars)
    BY <2>1, <2>7, OpenMaps DEF S!Next
  <2>8. ASSUME NEW r \in Requests, TrackToken(r) PROVE [S!Next]_(S!vars)
    BY <2>1, <2>8, GrantMaps
  <2>9. ASSUME NEW r \in Requests, NEW n \in granted, Present(r, n) PROVE [S!Next]_(S!vars)
    <3>1. ~LoggingIn(r) /\ ~LoggingIn(r)' /\ Alone(r)
      BY <2>2, <2>9, PresentStarts DEF Present, LoggingIn, Begun, Alone
    <3>2. UNCHANGED <<now, tokens, issued, granted>>
      BY <2>9 DEF Present, redis, history
    <3>3. QED
      BY <2>1, <2>2, <2>3, <3>1, <3>2, OthersStutter
  <2>10. ASSUME NEW r \in Requests, Lookup(r) \/ RevokeUnlist(r) PROVE [S!Next]_(S!vars)
    <3>1. ~LoggingIn(r) /\ ~LoggingIn(r)' /\ Alone(r)
      BY <2>2, <2>10, LookupMoves, RevokeUnlistMoves, MovesAlone
      DEF Lookup, RevokeUnlist, LoggingIn, Locals, Idle
    <3>2. UNCHANGED <<now, tokens, issued, granted>>
      BY <2>10 DEF Lookup, RevokeUnlist, redis, history
    <3>3. QED
      BY <2>1, <2>2, <2>3, <3>1, <3>2, OthersStutter
  <2>11. ASSUME NEW r \in Requests, RevokeDelete(r) PROVE [S!Next]_(S!vars)
    BY <2>1, <2>11, CloseMaps
  <2>12. ASSUME NEW r \in Requests, Fail(r) PROVE [S!Next]_(S!vars)
    <3>1. Alone(r) /\ req'[r] = Idle /\ ~LoggingIn(r)'
      BY <2>2, <2>12, FailMoves, MovesAlone DEF LoggingIn, Idle
    <3>2. UNCHANGED <<now, tokens, issued, granted>>
      BY <2>12 DEF Fail, redis, history
    <3>3. QED
      BY <2>1, <2>2, <2>3, <3>1, <3>2, OthersStutter, GoesOnOrGivesUp
  <2>13. CASE (\E t \in Token : Expire(t)) \/ Tick \/ RedisRestart
    BY <2>1, <2>13, EnvironmentMaps
  <2>14. QED
    BY <2>1, <2>4, <2>5, <2>6, <2>7, <2>8, <2>9, <2>10, <2>11, <2>12, <2>13 DEF Next, Step
<1>3. QED
  BY <1>1, <1>2

LEMMA InitMaps == HInit => S!Init
<1> SUFFICES ASSUME HInit PROVE S!Init
  OBVIOUS
<1>1. Pending = {} /\ Opened = {}
  BY InFlight DEF HInit, Init, Idle, Before, After
<1>2. LiveTokens = {}
  BY DEF HInit, Init, LiveTokens, Live
<1>3. QED
  BY <1>1, <1>2 DEF HInit, Init, S!Init

(* TokenService, command by command, implements Sessions: whatever logins, *)
(* logouts, lost replies, expiries and restarts interleave, a session      *)
(* begins once, for its login, and ends only by its logout, by a login of  *)
(* its user that found the limit reached, at the end of its JWT or with    *)
(* the store (store_token, _enforce_session_limit, revoke_token).          *)
THEOREM Refinement == HSpec => ImplementsSessions
<1>1. HInit => HInv /\ S!Init
  BY HInitInv, InitMaps
<1>2. HInv /\ [HNext]_hvars => HInv' /\ [S!Next]_(S!vars)
  BY HNextInv, StepMaps
<1>3. QED
  BY <1>1, <1>2, PTL DEF HSpec, S!Spec, ImplementsSessions

=============================================================================
