--------------------------- MODULE TokenServiceBound ---------------------------
(***************************************************************************)
(* Proof of the bound on a user's session set: "could briefly exceed the   *)
(* limit", but by no more than one session per other request.              *)
(*                                                                         *)
(* A login adds its hash however many others were added since it read the  *)
(* set, so the set alone tells nothing about its next size.  What does is  *)
(* the order in which the logins under way read it.  A login that adds its *)
(* hash leaves at most MaxSessions hashes besides those that were added    *)
(* since it read the set, by logins that had read it before and were still *)
(* under way, each once: no more than the other requests.                  *)
(***************************************************************************)
EXTENDS TokenServiceCounting

USE FiniteRequests, MaxSessionsAssumption

-----------------------------------------------------------------------------
(* The bound on a set of hashes, given the logins under way and what was   *)
(* added since each of them read the set.  K are those that read it before *)
(* the last reader that has added its hash, and before[r] those that read  *)
(* it before r.                                                            *)
BoundedBy(listed, S, added, K, before) ==
  /\ Cardinality(listed) + Cardinality(K) <= MaxSessions + Cardinality(Requests) - 1
  /\ \A r \in S \ K :
       /\ r \notin before[r] /\ K \subseteq before[r]
       /\ Cardinality(added[r]) + Cardinality(before[r]) <= Cardinality(Requests) - 1
       /\ \A q \in S \ K : q = r \/ q \in before[r] \/ r \in before[q]
       /\ \A q \in before[r] \ K : before[q] \subseteq before[r]

HasBound(listed, S, added) ==
  \E K \in SUBSET S, before \in [S -> SUBSET S] : BoundedBy(listed, S, added, K, before)

LEMMA SomeRequests ==
  ASSUME NEW S \in SUBSET Requests
  PROVE  /\ IsFiniteSet(S) /\ Cardinality(S) \in Nat
         /\ Cardinality(Requests) \in Nat /\ Cardinality(S) <= Cardinality(Requests)
<1>1. IsFiniteSet(S) /\ Cardinality(S) <= Cardinality(Requests)
  BY FS_Subset
<1>2. QED
  BY <1>1, FS_CardinalityType

LEMMA SmallerSet ==
  ASSUME NEW S, IsFiniteSet(S), NEW T \in SUBSET S
  PROVE  /\ IsFiniteSet(T) /\ Cardinality(T) \in Nat /\ Cardinality(S) \in Nat
         /\ Cardinality(T) <= Cardinality(S)
<1>1. IsFiniteSet(T) /\ Cardinality(T) <= Cardinality(S)
  BY FS_Subset
<1>2. QED
  BY <1>1, FS_CardinalityType

LEMMA WithoutOne ==
  ASSUME NEW S \in SUBSET Requests, NEW r \in S
  PROVE  /\ Cardinality(S) \in Nat /\ Cardinality(S \ {r}) \in Nat
         /\ Cardinality(S \ {r}) = Cardinality(S) - 1
<1>1. IsFiniteSet(S) /\ IsFiniteSet(S \ {r})
  BY SomeRequests
<1>2. Cardinality(S \ {r}) = Cardinality(S) - 1
  BY <1>1, FS_RemoveElement
<1>3. QED
  BY <1>1, <1>2, FS_CardinalityType

LEMMA WithOne ==
  ASSUME NEW S, IsFiniteSet(S), NEW t
  PROVE  /\ Cardinality(S) \in Nat /\ Cardinality(S \cup {t}) \in Nat
         /\ Cardinality(S \cup {t}) <= Cardinality(S) + 1
<1>1. IsFiniteSet(S \cup {t}) /\ Cardinality(S) \in Nat
      /\ Cardinality(S \cup {t}) = IF t \in S THEN Cardinality(S) ELSE Cardinality(S) + 1
  BY FS_AddElement, FS_CardinalityType
<1>2. QED
  BY <1>1, FS_CardinalityType

(* Fewer hashes, and fewer logins under way. *)
LEMMA BoundFewer ==
  ASSUME NEW listed, IsFiniteSet(listed), NEW fewer \in SUBSET listed,
         NEW S \in SUBSET Requests, NEW T \in SUBSET S,
         NEW added, NEW same, \A q \in T : same[q] = added[q] /\ IsFiniteSet(added[q]),
         HasBound(listed, S, added)
  PROVE  HasBound(fewer, T, same)
<1>1. PICK K \in SUBSET S, before \in [S -> SUBSET S] : BoundedBy(listed, S, added, K, before)
  BY DEF HasBound
<1> DEFINE K2 == K \cap T
           before2 == [q \in T |-> before[q] \cap T]
<1>2. K2 \in SUBSET T /\ before2 \in [T -> SUBSET T]
  OBVIOUS
<1>3. Cardinality(fewer) + Cardinality(K2) <= MaxSessions + Cardinality(Requests) - 1
  <2>1. Cardinality(fewer) <= Cardinality(listed)
        /\ Cardinality(fewer) \in Nat /\ Cardinality(listed) \in Nat
    BY SmallerSet
  <2>2. IsFiniteSet(K) /\ K2 \in SUBSET K /\ Cardinality(Requests) \in Nat
    BY SomeRequests
  <2>3. Cardinality(K2) <= Cardinality(K)
        /\ Cardinality(K2) \in Nat /\ Cardinality(K) \in Nat
    BY <2>2, SmallerSet
  <2>4. Cardinality(listed) + Cardinality(K) <= MaxSessions + Cardinality(Requests) - 1
    BY <1>1 DEF BoundedBy
  <2> HIDE DEF K2
  <2>5. QED
    BY <2>1, <2>2, <2>3, <2>4
<1>4. ASSUME NEW r \in T \ K2
      PROVE  /\ r \notin before2[r] /\ K2 \subseteq before2[r]
             /\ Cardinality(same[r]) + Cardinality(before2[r]) <= Cardinality(Requests) - 1
             /\ \A q \in T \ K2 : q = r \/ q \in before2[r] \/ r \in before2[q]
             /\ \A q \in before2[r] \ K2 : before2[q] \subseteq before2[r]
  <2>1. r \in S \ K /\ before2[r] = before[r] \cap T /\ before[r] \in SUBSET S
    OBVIOUS
  <2>2. /\ r \notin before[r] /\ K \subseteq before[r]
        /\ Cardinality(added[r]) + Cardinality(before[r]) <= Cardinality(Requests) - 1
        /\ \A q \in S \ K : q = r \/ q \in before[r] \/ r \in before[q]
        /\ \A q \in before[r] \ K : before[q] \subseteq before[r]
    BY <1>1, <2>1 DEF BoundedBy
  <2>3. Cardinality(same[r]) + Cardinality(before2[r]) <= Cardinality(Requests) - 1
    <3>1. IsFiniteSet(before[r]) /\ before2[r] \in SUBSET before[r]
          /\ Cardinality(Requests) \in Nat
      BY <2>1, SomeRequests
    <3>2. Cardinality(before2[r]) <= Cardinality(before[r])
          /\ Cardinality(before2[r]) \in Nat /\ Cardinality(before[r]) \in Nat
      BY <3>1, SmallerSet
    <3>3. Cardinality(added[r]) \in Nat /\ same[r] = added[r]
      BY FS_CardinalityType
    <3> HIDE DEF before2
    <3>4. QED
      BY <2>2, <3>1, <3>2, <3>3
  <2>4. QED
    BY <2>1, <2>2, <2>3
<1>5. BoundedBy(fewer, T, same, K2, before2)
  <2> HIDE DEF K2, before2
  <2>1. QED
    BY <1>3, <1>4 DEF BoundedBy
<1>6. QED
  BY <1>2, <1>5 DEF HasBound

(* One more login has read the set: all others under way read it before. *)
LEMMA BoundReader ==
  ASSUME NEW listed, NEW S \in SUBSET Requests, NEW r \in Requests \ S,
         NEW added, NEW same, \A q \in S : same[q] = added[q], same[r] = {},
         HasBound(listed, S, added)
  PROVE  HasBound(listed, S \cup {r}, same)
<1>1. PICK K \in SUBSET S, before \in [S -> SUBSET S] : BoundedBy(listed, S, added, K, before)
  BY DEF HasBound
<1> DEFINE T == S \cup {r}
           before2 == [q \in T |-> IF q = r THEN S ELSE before[q]]
<1>2. K \in SUBSET T /\ before2 \in [T -> SUBSET T]
  OBVIOUS
<1>3. before2[r] = S /\ \A q \in S : before2[q] = before[q] /\ q # r
  OBVIOUS
<1>4. Cardinality(same[r]) + Cardinality(S) <= Cardinality(Requests) - 1
  <2>1. S \in SUBSET (Requests \ {r}) /\ IsFiniteSet(Requests \ {r})
    BY SomeRequests
  <2>2. Cardinality(S) <= Cardinality(Requests \ {r}) /\ Cardinality(S) \in Nat
    BY <2>1, SmallerSet
  <2>3. Cardinality(Requests \ {r}) = Cardinality(Requests) - 1
        /\ Cardinality(Requests) \in Nat
    BY WithoutOne
  <2>4. Cardinality(same[r]) = 0
    BY FS_EmptySet
  <2>5. QED
    BY <2>2, <2>3, <2>4
<1> HIDE DEF before2
<1>5. ASSUME NEW p \in T \ K
      PROVE  /\ p \notin before2[p] /\ K \subseteq before2[p]
             /\ Cardinality(same[p]) + Cardinality(before2[p]) <= Cardinality(Requests) - 1
             /\ \A q \in T \ K : q = p \/ q \in before2[p] \/ p \in before2[q]
             /\ \A q \in before2[p] \ K : before2[q] \subseteq before2[p]
  <2>1. CASE p = r
    BY <1>3, <1>4, <2>1
  <2>2. CASE p # r
    <3>1. p \in S \ K /\ before2[p] = before[p] /\ before[p] \in SUBSET S /\ same[p] = added[p]
      BY <1>3, <2>2
    <3>2. /\ p \notin before[p] /\ K \subseteq before[p]
          /\ Cardinality(added[p]) + Cardinality(before[p]) <= Cardinality(Requests) - 1
          /\ \A q \in S \ K : q = p \/ q \in before[p] \/ p \in before[q]
          /\ \A q \in before[p] \ K : before[q] \subseteq before[p]
      BY <1>1, <3>1 DEF BoundedBy
    <3>3. \A q \in T \ K : q = p \/ q \in before2[p] \/ p \in before2[q]
      BY <1>3, <3>1, <3>2
    <3>4. \A q \in before2[p] \ K : before2[q] \subseteq before2[p]
      BY <1>3, <3>1, <3>2
    <3>5. QED
      BY <3>1, <3>2, <3>3, <3>4
  <2>3. QED
    BY <2>1, <2>2
<1>6. BoundedBy(listed, T, same, K, before2)
  BY <1>1, <1>5 DEF BoundedBy
<1>7. QED
  BY <1>2, <1>6 DEF HasBound

(* A login adds its hash and is no longer under way.  If it is the last    *)
(* reader so far to do so, those that read before it are K from now on.    *)
LEMMA BoundAdder ==
  ASSUME NEW listed, IsFiniteSet(listed), NEW t,
         NEW S \in SUBSET Requests, NEW r \in S,
         NEW added, NEW more, \A q \in S : IsFiniteSet(added[q]),
         \A q \in S \ {r} : more[q] = added[q] \cup {t},
         Cardinality(listed \ added[r]) < MaxSessions,
         HasBound(listed, S, added)
  PROVE  HasBound(listed \cup {t}, S \ {r}, more)
<1>1. PICK K \in SUBSET S, before \in [S -> SUBSET S] : BoundedBy(listed, S, added, K, before)
  BY DEF HasBound
<1> DEFINE T == S \ {r}
           K2 == IF r \in K THEN K \ {r} ELSE before[r]
           before2 == [q \in T |-> before[q] \ {r}]
<1>2. /\ Cardinality(listed) + Cardinality(K) <= MaxSessions + Cardinality(Requests) - 1
      /\ \A p \in S \ K :
           /\ p \notin before[p] /\ K \subseteq before[p]
           /\ Cardinality(added[p]) + Cardinality(before[p]) <= Cardinality(Requests) - 1
           /\ \A q \in S \ K : q = p \/ q \in before[p] \/ p \in before[q]
           /\ \A q \in before[p] \ K : before[q] \subseteq before[p]
  BY <1>1 DEF BoundedBy
<1>3. K2 \in SUBSET T /\ before2 \in [T -> SUBSET T]
  BY <1>2
<1>4. /\ Cardinality(listed \cup {t}) \in Nat /\ Cardinality(listed) \in Nat
      /\ Cardinality(listed \cup {t}) <= Cardinality(listed) + 1
      /\ Cardinality(Requests) \in Nat
  BY WithOne, SomeRequests
<1>5. Cardinality(listed \cup {t}) + Cardinality(K2) <= MaxSessions + Cardinality(Requests) - 1
  <2>1. CASE r \in K
    <3>1. Cardinality(K2) = Cardinality(K) - 1 /\ Cardinality(K) \in Nat
      BY <2>1, WithoutOne
    <3> HIDE DEF K2
    <3>2. QED
      BY <1>2, <1>4, <3>1
  <2>2. CASE r \notin K
    <3>1. K2 = before[r] /\ before[r] \in SUBSET Requests
      BY <2>2
    <3>2. Cardinality(added[r]) + Cardinality(before[r]) <= Cardinality(Requests) - 1
      BY <1>2, <2>2
    <3>3. Cardinality(added[r]) \in Nat /\ Cardinality(before[r]) \in Nat
      BY <3>1, SomeRequests, FS_CardinalityType
    <3>4. Cardinality(listed) <= Cardinality(listed \ added[r]) + Cardinality(added[r])
          /\ Cardinality(listed \ added[r]) \in Nat
      <4>1. IsFiniteSet(listed \ added[r]) /\ IsFiniteSet(listed \cap added[r])
        BY SmallerSet
      <4>2. Cardinality(listed \ added[r]) = Cardinality(listed) - Cardinality(listed \cap added[r])
        BY FS_Difference
      <4>3. Cardinality(listed \cap added[r]) <= Cardinality(added[r])
            /\ Cardinality(listed \cap added[r]) \in Nat
        BY SmallerSet
      <4>4. QED
        BY <1>4, <3>3, <4>1, <4>2, <4>3, FS_CardinalityType
    <3> HIDE DEF K2
    <3>5. QED
      BY <1>4, <3>1, <3>2, <3>3, <3>4
  <2>3. QED
    BY <2>1, <2>2
<1>6. ASSUME NEW p \in T \ K2
      PROVE  /\ p \notin before2[p] /\ K2 \subseteq before2[p]
             /\ Cardinality(more[p]) + Cardinality(before2[p]) <= Cardinality(Requests) - 1
             /\ \A q \in T \ K2 : q = p \/ q \in before2[p] \/ p \in before2[q]
             /\ \A q \in before2[p] \ K2 : before2[q] \subseteq before2[p]
  <2>1. K \ {r} \subseteq K2 /\ p \in S \ K /\ p # r
    BY <1>2
  <2>2. before2[p] = before[p] \ {r} /\ before[p] \in SUBSET Requests
        /\ \A q \in T : before2[q] = before[q] \ {r}
    OBVIOUS
  <2>3. r \in before[p] /\ K2 \subseteq before[p]
    <3>1. CASE r \in K
      BY <1>2, <2>1, <3>1
    <3>2. CASE r \notin K
      BY <1>2, <2>1, <3>2
    <3>3. QED
      BY <3>1, <3>2
  <2>4. Cardinality(more[p]) + Cardinality(before2[p]) <= Cardinality(Requests) - 1
    <3>1. Cardinality(before2[p]) = Cardinality(before[p]) - 1 /\ Cardinality(before[p]) \in Nat
      BY <2>2, <2>3, WithoutOne
    <3>2. Cardinality(more[p]) <= Cardinality(added[p]) + 1
          /\ Cardinality(more[p]) \in Nat /\ Cardinality(added[p]) \in Nat
      BY <2>1, WithOne
    <3>3. Cardinality(added[p]) + Cardinality(before[p]) <= Cardinality(Requests) - 1
      BY <1>2, <2>1
    <3> HIDE DEF before2
    <3>4. QED
      BY <1>4, <3>1, <3>2, <3>3
  <2>5. K2 \subseteq before2[p]
    BY <1>3, <2>2, <2>3
  <2>6. \A q \in T \ K2 : q = p \/ q \in before2[p] \/ p \in before2[q]
    BY <1>2, <2>1, <2>2
  <2>7. \A q \in before2[p] \ K2 : before2[q] \subseteq before2[p]
    <3>1. ASSUME NEW q \in before2[p] \ K2 PROVE before2[q] \subseteq before2[p]
      <4>1. q \in before[p] \ K /\ q \in T
        BY <1>3, <2>1, <2>2, <3>1
      <4>2. QED
        BY <1>2, <2>1, <2>2, <4>1
    <3>2. QED
      BY <3>1
  <2>8. QED
    BY <1>2, <2>1, <2>2, <2>4, <2>5, <2>6, <2>7
<1>7. BoundedBy(listed \cup {t}, T, more, K2, before2)
  <2> HIDE DEF K2, before2
  <2>1. QED
    BY <1>5, <1>6 DEF BoundedBy
<1>8. QED
  BY <1>3, <1>7 DEF HasBound

-----------------------------------------------------------------------------
(* The logins of a user that have read the set, and what each has seen     *)
(* added since.                                                            *)
Storers(u) == {r \in Requests : Storing(r) /\ User(r) = u}
Added == [r \in Requests |-> req[r].added]

AddedOK(r) ==
  /\ IsFiniteSet(req[r].added)
  /\ req[r].pc = "smembers" => req[r].added = {}

BInv ==
  /\ CInv
  /\ \A r \in Requests : AddedOK(r)
  /\ \A u \in Users : HasBound(sessions[u], Storers(u), Added)

LEMMA BInitInv == Init => BInv
<1> SUFFICES ASSUME Init PROVE BInv
  OBVIOUS
<1>1. IsFiniteSet({}) /\ Cardinality({}) = 0 /\ Cardinality(Requests) \in Nat
  BY FS_EmptySet, FS_CardinalityType
<1>2. CInv
  BY CInitInv
<1>3. \A r \in Requests : req[r] = Idle /\ AddedOK(r)
  BY <1>1 DEF Init, Idle, AddedOK
<1>4. ASSUME NEW u \in Users PROVE HasBound(sessions[u], Storers(u), Added)
  <2>1. sessions[u] = {} /\ Storers(u) = {}
    BY <1>3 DEF Init, Storers, Storing, Idle
  <2> DEFINE before == [r \in {} |-> {}]
  <2>2. before \in [{} -> SUBSET {}]
    OBVIOUS
  <2> HIDE DEF before
  <2>3. BoundedBy({}, {}, Added, {}, before)
    BY <1>1 DEF BoundedBy
  <2>4. QED
    BY <2>1, <2>2, <2>3 DEF HasBound
<1>5. QED
  BY <1>2, <1>3, <1>4 DEF BInv

(* What a step leaves of its own request, and of another one. *)
LEMMA OwnStep ==
  ASSUME IInv, NEW r \in Requests, RequestStep(r)
  PROVE  \/ req'[r] = Idle
         \/ req'[r].added = {} /\ ~Storing(r)'
         \/ /\ req'[r].login = req[r].login /\ req'[r].added = req[r].added
            /\ req'[r].pc # "smembers"
            /\ Storing(r)' => Storing(r) \/ ReadSessions(r)
<1>1. TypeOK
  BY DEF IInv
<1>2. CASE \/ \E u \in Users : IssueToken(r, u)
           \/ \E n \in granted : Present(r, n)
  BY <1>1, <1>2, IssueTokenStarts, PresentStarts DEF Begun, Storing
<1>3. CASE TrackToken(r) \/ RevokeUnlist(r) \/ Fail(r)
  BY <1>1, <1>3, TrackTokenMoves, RevokeUnlistMoves, FailMoves
<1>4. CASE Lookup(r) \/ RevokeDelete(r)
  BY <1>1, <1>4, LookupMoves, RevokeDeleteMoves DEF Locals, Storing
<1>5. CASE ReadSessions(r)
  BY <1>1, <1>5, ReadSessionsMoves DEF Locals
<1>6. CASE (\E h \in req[r].todo : ReadPayload(r, h) \/ MissPayload(r, h)) \/ EnforceLimit(r)
  <2>1. Storing(r)
    BY <1>6 DEF Storing, ReadPayload, MissPayload, EnforceLimit
  <2>2. QED
    BY <1>1, <1>6, <2>1, ReadPayloadMoves, MissPayloadMoves, EnforceLimitMoves DEF Locals
<1>7. CASE DropStale(r) \/ EvictToken(r) \/ UnlistVictim(r) \/ SetToken(r)
  <2>1. Storing(r)
    BY <1>7 DEF Storing, DropStale, EvictToken, UnlistVictim, SetToken
  <2>2. QED
    BY <1>1, <1>7, <2>1, DropStaleMoves, EvictTokenMoves, UnlistVictimMoves, SetTokenMoves
       DEF Locals
<1>8. QED
  BY <1>2, <1>3, <1>4, <1>5, <1>6, <1>7 DEF RequestStep, Step

LEMMA OtherStep ==
  ASSUME IInv, NEW r \in Requests, RequestStep(r), NEW q \in Requests \ {r}
  PROVE  \/ req'[q] = req[q]
         \/ /\ TrackToken(r) /\ Storing(q) /\ User(q) = User(r)
            /\ req'[q].pc = req[q].pc /\ req'[q].login = req[q].login
            /\ req'[q].added = req[q].added \cup {Tok(r)}
<1>1. TypeOK /\ req[q] \in Request
  BY DEF IInv, TypeOK
<1>2. CASE TrackToken(r)
  <2>1. \/ req'[q] = req[q]
        \/ /\ Storing(q) /\ User(q) = User(r)
           /\ req'[q] = [req[q] EXCEPT !.added = @ \cup {Tok(r)}]
    BY <1>1, <1>2, TrackTokenMoves
  <2>2. QED
    BY <1>1, <1>2, <2>1 DEF Request
<1>3. CASE ~TrackToken(r)
  BY <1>1, <1>3, IssueTokenStarts, PresentStarts, ReadSessionsMoves, ReadPayloadMoves,
     MissPayloadMoves, DropStaleMoves, EnforceLimitMoves, EvictTokenMoves,
     UnlistVictimMoves, SetTokenMoves, LookupMoves, RevokeDeleteMoves,
     RevokeUnlistMoves, FailMoves DEF RequestStep, Step, Moves
<1>4. QED
  BY <1>2, <1>3

LEMMA AddedStays ==
  ASSUME BInv, [Next]_vars, NEW q \in Requests
  PROVE  AddedOK(q)'
<1>1. IInv /\ AddedOK(q) /\ IsFiniteSet({})
  BY FS_EmptySet DEF BInv, CInv
<1>2. ASSUME NEW r \in Requests, RequestStep(r), q = r PROVE AddedOK(q)'
  <2>1. \/ req'[r] = Idle
        \/ req'[r].added = {} /\ ~Storing(r)'
        \/ req'[r].added = req[r].added /\ req'[r].pc # "smembers"
    BY <1>1, <1>2, OwnStep
  <2>2. QED
    BY <1>1, <1>2, <2>1 DEF AddedOK, Idle
<1>3. ASSUME NEW r \in Requests, RequestStep(r), q # r PROVE AddedOK(q)'
  <2>1. \/ req'[q] = req[q]
        \/ /\ Storing(q) /\ req'[q].pc = req[q].pc
           /\ req'[q].added = req[q].added \cup {Tok(r)}
    BY <1>1, <1>3, OtherStep
  <2>2. IsFiniteSet(req[q].added \cup {Tok(r)})
    BY <1>1, FS_AddElement DEF AddedOK
  <2>3. QED
    BY <1>1, <2>1, <2>2 DEF AddedOK, Storing
<1>4. CASE req' = req
  BY <1>1, <1>4 DEF AddedOK
<1>5. req' = req \/ \E r \in Requests : RequestStep(r)
  BY DEF Next, RequestStep, Expire, Tick, RedisRestart, vars
<1>6. QED
  BY <1>2, <1>3, <1>4, <1>5

(* A step that neither reads nor adds to the user's set. *)
LEMMA OnlyFewer ==
  ASSUME BInv, [Next]_vars, NEW u \in Users,
         \A r \in Requests : User(r) = u => ~ReadSessions(r) /\ ~TrackToken(r)
  PROVE  /\ sessions'[u] \subseteq sessions[u]
         /\ \A q \in Storers(u)' : q \in Storers(u) /\ req'[q].added = req[q].added
<1>1. IInv /\ TypeOK
  BY DEF BInv, CInv, IInv
<1>2. \/ req' = req /\ (sessions' = sessions \/ sessions' = [w \in Users |-> {}])
      \/ \E r \in Requests : RequestStep(r)
  BY DEF Next, RequestStep, Expire, Tick, RedisRestart, redis, vars
<1>3. sessions'[u] \subseteq sessions[u]
  <2>1. ASSUME NEW r \in Requests, RequestStep(r) PROVE sessions'[u] \subseteq sessions[u]
    <3>1. CASE TrackToken(r)
      <4>1. User(r) # u /\ sessions' = [sessions EXCEPT ![User(r)] = @ \cup {Tok(r)}]
        BY <3>1 DEF TrackToken
      <4>2. QED
        BY <1>1, <4>1 DEF TypeOK
    <3>2. CASE DropStale(r) \/ UnlistVictim(r) \/ RevokeUnlist(r)
      <4>1. \E h : sessions' = [sessions EXCEPT ![User(r)] = @ \ {h}]
        BY <3>2 DEF DropStale, UnlistVictim, RevokeUnlist
      <4>2. QED
        BY <1>1, <4>1 DEF TypeOK
    <3>3. CASE ~(TrackToken(r) \/ DropStale(r) \/ UnlistVictim(r) \/ RevokeUnlist(r))
      BY <2>1, <3>3 DEF RequestStep, Step, redis, IssueToken, Present, ReadSessions, ReadPayload,
         MissPayload, EnforceLimit, EvictToken, SetToken, Lookup, RevokeDelete, Fail
    <3>4. QED
      BY <3>1, <3>2, <3>3
  <2>2. QED
    BY <1>2, <2>1
<1>4. ASSUME NEW q \in Requests, Storing(q)', User(q)' = u
      PROVE  Storing(q) /\ User(q) = u /\ req'[q].added = req[q].added
  <2>1. CASE req'[q] = req[q]
    <3>1. User(q)' = User(q)
      BY <1>1, <1>4, <2>1, UserStays DEF Storing
    <3>2. QED
      BY <1>4, <2>1, <3>1 DEF Storing
  <2>2. ASSUME NEW r \in Requests, RequestStep(r), q # r, req'[q] # req[q] PROVE FALSE
    <3>1. TrackToken(r) /\ Storing(q) /\ User(q) = User(r) /\ req'[q].login = req[q].login
      BY <1>1, <2>2, OtherStep
    <3>2. User(q)' = User(q)
      BY <1>1, <3>1, UserStays DEF Storing
    <3>3. QED
      BY <1>4, <3>1, <3>2
  <2>3. ASSUME RequestStep(q)
        PROVE  Storing(q) /\ User(q) = u /\ req'[q].added = req[q].added
    <3>1. /\ req'[q].login = req[q].login /\ req'[q].added = req[q].added
          /\ Storing(q) \/ ReadSessions(q)
      BY <1>1, <1>4, <2>3, OwnStep DEF Storing, Idle
    <3>2. req[q].pc # "idle"
      BY <3>1 DEF Storing, ReadSessions
    <3>3. User(q)' = User(q)
      BY <1>1, <3>1, <3>2, UserStays
    <3>4. QED
      BY <1>4, <3>1, <3>3
  <2>4. QED
    BY <1>2, <2>1, <2>2, <2>3
<1>5. QED
  BY <1>3, <1>4 DEF Storers

LEMMA FewerBound ==
  ASSUME BInv, [Next]_vars, NEW u \in Users,
         \A r \in Requests : User(r) = u => ~ReadSessions(r) /\ ~TrackToken(r)
  PROVE  HasBound(sessions[u], Storers(u), Added)'
<1>1. /\ sessions'[u] \subseteq sessions[u]
      /\ \A q \in Storers(u)' : q \in Storers(u) /\ req'[q].added = req[q].added
  BY OnlyFewer
<1>2. HasBound(sessions[u], Storers(u), Added) /\ IsFiniteSet(sessions[u])
  BY ListedFinite DEF BInv, CInv
<1>3. Storers(u) \in SUBSET Requests /\ Storers(u)' \in SUBSET Storers(u)
  BY <1>1 DEF Storers
<1>4. \A q \in Storers(u)' : Added'[q] = Added[q] /\ IsFiniteSet(Added[q])
  BY <1>1, <1>3 DEF Added, BInv, AddedOK
<1>5. QED
  BY <1>1, <1>2, <1>3, <1>4, BoundFewer

LEMMA ReaderBound ==
  ASSUME BInv, [Next]_vars, NEW u \in Users, NEW r \in Requests, User(r) = u, ReadSessions(r)
  PROVE  HasBound(sessions[u], Storers(u), Added)'
<1>1. IInv /\ TypeOK /\ req[r].pc = "smembers" /\ sessions' = sessions /\ RequestStep(r)
  BY DEF BInv, CInv, IInv, ReadSessions, redis, RequestStep, Step
<1>2. \A q \in Requests \ {r} : req'[q] = req[q]
  BY <1>1, ReadSessionsMoves DEF Moves
<1>3. \A q \in Requests \ {r} : Storing(q)' = Storing(q) /\ (Storing(q) => User(q)' = User(q))
  BY <1>1, <1>2, UserStays DEF Storing
<1>4. User(r)' = u \/ req'[r] = Idle
  BY <1>1, UserStays, ReadSessionsMoves DEF Moves
<1>5. Storers(u)' \in {Storers(u), Storers(u) \cup {r}} /\ r \notin Storers(u)
  BY <1>1, <1>3, <1>4 DEF Storers, Storing, Idle
<1>6. HasBound(sessions[u], Storers(u), Added) /\ IsFiniteSet(sessions[u])
  BY ListedFinite DEF BInv, CInv
<1>7. \A q \in Storers(u) : Added'[q] = Added[q] /\ IsFiniteSet(Added[q])
  BY <1>2, <1>5 DEF Added, Storers, BInv, AddedOK
<1>8. Storers(u) \in SUBSET Requests
  BY DEF Storers
<1>9. CASE Storers(u)' = Storers(u)
  BY <1>1, <1>6, <1>7, <1>8, <1>9, BoundFewer
<1>10. CASE Storers(u)' = Storers(u) \cup {r}
  <2>1. req'[r] = Idle \/ req'[r].added = req[r].added
    BY <1>1, ReadSessionsMoves DEF Locals
  <2>2. Added'[r] = {}
    BY <1>1, <2>1 DEF Added, BInv, AddedOK, Idle
  <2>3. QED
    BY <1>1, <1>5, <1>6, <1>7, <1>8, <1>10, <2>2, BoundReader
<1>11. QED
  BY <1>5, <1>9, <1>10

LEMMA AdderBound ==
  ASSUME BInv, [Next]_vars, NEW u \in Users, NEW r \in Requests, User(r) = u, TrackToken(r)
  PROVE  HasBound(sessions[u], Storers(u), Added)'
<1>1. IInv /\ TypeOK /\ req[r].pc = "sadd" /\ RequestStep(r) /\ CountOK(r)
  BY DEF BInv, CInv, IInv, TrackToken, RequestStep, Step
<1>2. sessions'[u] = sessions[u] \cup {Tok(r)} /\ req'[r] = Idle
  BY <1>1, TrackTokenMoves DEF TrackToken, TypeOK
<1>3. \A q \in Requests \ {r} : Storing(q)' = Storing(q) /\ (Storing(q) => User(q)' = User(q))
  <2>1. \A q \in Requests \ {r} : req'[q].pc = req[q].pc /\ req'[q].login = req[q].login
    BY <1>1, OtherStep
  <2>2. QED
    BY <1>1, <2>1, UserStays DEF Storing
<1>4. Storers(u)' = Storers(u) \ {r} /\ r \in Storers(u)
  BY <1>1, <1>2, <1>3 DEF Storers, Storing, Idle
<1>5. \A q \in Storers(u) \ {r} : Added'[q] = Added[q] \cup {Tok(r)}
  <2>1. ASSUME NEW q \in Storers(u) \ {r} PROVE Added'[q] = Added[q] \cup {Tok(r)}
    <3>1. q \in Requests \ {r} /\ Storing(q) /\ User(q) = User(r) /\ req[q] \in Request
      BY <1>1 DEF Storers, TypeOK
    <3>2. req'[q] = [req[q] EXCEPT !.added = @ \cup {Tok(r)}]
      BY <3>1 DEF TrackToken
    <3>3. req'[q].added = req[q].added \cup {Tok(r)}
      BY <3>1, <3>2 DEF Request
    <3>4. QED
      BY <3>1, <3>3 DEF Added
  <2>2. QED
    BY <2>1
<1>6. HasBound(sessions[u], Storers(u), Added) /\ IsFiniteSet(sessions[u])
  BY ListedFinite DEF BInv, CInv
<1>7. Storers(u) \in SUBSET Requests /\ \A q \in Storers(u) : IsFiniteSet(Added[q])
  BY DEF Added, Storers, BInv, AddedOK
<1>8. Cardinality(sessions[u] \ Added[r]) < MaxSessions
  BY <1>1 DEF CountOK, Added
<1>9. HasBound(sessions[u] \cup {Tok(r)}, Storers(u) \ {r}, Added')
  BY <1>4, <1>5, <1>6, <1>7, <1>8, BoundAdder
<1>10. QED
  BY <1>2, <1>4, <1>9

LEMMA BNextInv == BInv /\ [Next]_vars => BInv'
<1> SUFFICES ASSUME BInv, [Next]_vars PROVE BInv'
  OBVIOUS
<1>1. CInv' /\ \A q \in Requests : AddedOK(q)'
  BY CNextInv, AddedStays DEF BInv
<1>2. \A u \in Users : HasBound(sessions[u], Storers(u), Added)'
  BY FewerBound, ReaderBound, AdderBound
<1>3. QED
  BY <1>1, <1>2 DEF BInv

(* A user's session set holds at most REDIS_MAX_SESSIONS hashes and one    *)
(* more for each request that can run beside a login: the two steps of     *)
(* store_token never let the overshoot add up over several logins.         *)
THEOREM SetBounded == Spec => []SessionSetBounded
<1>1. BInv => SessionSetBounded
  <2> SUFFICES ASSUME BInv, NEW u \in Users
               PROVE  Cardinality(sessions[u]) <= MaxSessions + Cardinality(Requests) - 1
    BY DEF SessionSetBounded
  <2>1. PICK K \in SUBSET Storers(u), before \in [Storers(u) -> SUBSET Storers(u)] :
          BoundedBy(sessions[u], Storers(u), Added, K, before)
    BY DEF BInv, HasBound
  <2>2. Cardinality(sessions[u]) + Cardinality(K) <= MaxSessions + Cardinality(Requests) - 1
    BY <2>1 DEF BoundedBy
  <2>3. Cardinality(sessions[u]) \in Nat
    BY ListedFinite, FS_CardinalityType DEF BInv, CInv
  <2>4. Cardinality(K) \in Nat /\ Cardinality(Requests) \in Nat
    BY SomeRequests DEF Storers
  <2>5. QED
    BY <2>2, <2>3, <2>4
<1>2. BInv /\ [Next]_vars => BInv'
  BY BNextInv
<1>3. QED
  BY <1>1, <1>2, BInitInv, PTL DEF Spec

-----------------------------------------------------------------------------
(* The work that is left of a request. *)

LEMMA WorkAt ==
  ASSUME NEW q
  PROVE  /\ q.pc = "smembers" => Work(q) = 3 * (MaxSessions + Cardinality(Requests) - 1) + 4
         /\ q.pc = "scan" => Work(q) = 3 * Cardinality(q.todo) + 2 * Cardinality(q.active) + 3
         /\ q.pc = "drop" => Work(q) = 3 * Cardinality(q.todo) + 2 * Cardinality(q.active) + 4
         /\ q.pc = "evict" => Work(q) = 2 * Cardinality(q.victims) + 2
         /\ q.pc = "unlist" => Work(q) = 2 * Cardinality(q.victims) + 3
         /\ q.pc = "sadd" => Work(q) = 1
         /\ q.pc = "lookup" => Work(q) = 3
         /\ q.pc = "delete" => Work(q) = 2
         /\ q.pc = "srem" => Work(q) = 1
         /\ q.pc = "idle" => Work(q) = 0
  BY DEF Work

LEMMA LocalsFinite ==
  ASSUME CInv, NEW r \in Requests
  PROVE  /\ IsFiniteSet(req[r].todo) /\ Cardinality(req[r].todo) \in Nat
         /\ Counting(r) \/ Evicting(r) =>
              /\ IsFiniteSet(req[r].active) /\ Cardinality(req[r].active) \in Nat
              /\ IsFiniteSet(req[r].victims) /\ Cardinality(req[r].victims) \in Nat
<1>1. req[r].todo \in SUBSET Token /\ \A t \in req[r].todo : t.sub = User(r)
  BY CountedHeld DEF CInv
<1>2. IsFiniteSet(req[r].todo)
  BY <1>1, TokensOfUser
<1>3. ASSUME Counting(r) \/ Evicting(r)
      PROVE  /\ IsFiniteSet(req[r].active) /\ Cardinality(req[r].active) \in Nat
             /\ IsFiniteSet(req[r].victims) /\ Cardinality(req[r].victims) \in Nat
  <2>1. IsFiniteSet(Counted(r))
    BY <1>3, CountedFinite DEF CInv, CountOK
  <2>2. req[r].active \in SUBSET Counted(r) /\ req[r].victims \in SUBSET Counted(r)
    BY DEF Counted
  <2>3. QED
    BY <2>1, <2>2, SmallerSet
<1>4. QED
  BY <1>2, <1>3, FS_CardinalityType

LEMMA RequestsCounted == Cardinality(Requests) \in Nat
  BY FS_CardinalityType

(* There is something left to do until the request has ended. *)
LEMMA WorkLeft ==
  ASSUME CInv, NEW r \in Requests, req[r].pc # "idle"
  PROVE  Work(req[r]) > Work(Idle)
<1>1. Work(Idle) = 0
  BY WorkAt DEF Idle
<1>2. req[r].pc \in Pcs
  BY DEF CInv, IInv, TypeOK, Request
<1>3. CASE req[r].pc = "smembers"
  <2>1. Work(req[r]) = 3 * (MaxSessions + Cardinality(Requests) - 1) + 4
    BY <1>3, WorkAt
  <2>2. QED
    BY <1>1, <2>1, RequestsCounted
<1>4. CASE Counting(r)
  <2>1. \/ Work(req[r]) = 3 * Cardinality(req[r].todo) + 2 * Cardinality(req[r].active) + 3
        \/ Work(req[r]) = 3 * Cardinality(req[r].todo) + 2 * Cardinality(req[r].active) + 4
    BY <1>4, WorkAt DEF Counting
  <2>2. QED
    BY <1>1, <1>4, <2>1, LocalsFinite
<1>5. CASE Evicting(r)
  <2>1. \/ Work(req[r]) = 2 * Cardinality(req[r].victims) + 2
        \/ Work(req[r]) = 2 * Cardinality(req[r].victims) + 3
    BY <1>5, WorkAt DEF Evicting
  <2>2. QED
    BY <1>1, <1>5, <2>1, LocalsFinite
<1>6. CASE req[r].pc \in {"sadd", "lookup", "delete", "srem"}
  BY <1>1, <1>6, WorkAt
<1>7. QED
  BY <1>2, <1>3, <1>4, <1>5, <1>6 DEF Pcs, Counting, Evicting

(* SMEMBERS lists no more than the set may hold. *)
LEMMA ReadSessionsDescends ==
  ASSUME CInv, SessionSetBounded, NEW r \in Requests, ReadSessions(r), req'[r] # Idle
  PROVE  Work(req'[r]) < Work(req[r])
<1>1. /\ req[r].pc = "smembers" /\ req[r].active = {} /\ User(r) \in Users
      /\ req'[r].pc = "scan" /\ req'[r].todo = sessions[User(r)]
      /\ req'[r].active = req[r].active
  BY ReadSessionsMoves, TokType DEF ReadSessions, CInv, CountOK, IInv, Locals
<1>2. /\ Cardinality(req'[r].todo) <= MaxSessions + Cardinality(Requests) - 1
      /\ Cardinality(req'[r].todo) \in Nat /\ Cardinality(req'[r].active) = 0
  BY <1>1, ListedFinite, FS_CardinalityType, FS_EmptySet DEF SessionSetBounded, CInv
<1>3. /\ Work(req[r]) = 3 * (MaxSessions + Cardinality(Requests) - 1) + 4
      /\ Work(req'[r]) = 3 * Cardinality(req'[r].todo) + 2 * Cardinality(req'[r].active) + 3
  BY <1>1, WorkAt
<1>4. QED
  BY <1>2, <1>3, RequestsCounted

LEMMA OneLess ==
  ASSUME NEW S, IsFiniteSet(S), NEW x \in S
  PROVE  Cardinality(S \ {x}) = Cardinality(S) - 1
  BY FS_RemoveElement

LEMMA ScanDescends ==
  ASSUME CInv, NEW r \in Requests, req'[r] # Idle,
         \/ \E h \in req[r].todo : ReadPayload(r, h) \/ MissPayload(r, h)
         \/ DropStale(r)
  PROVE  Work(req'[r]) < Work(req[r])
<1>1. TypeOK /\ Counting(r)
  BY DEF CInv, IInv, ReadPayload, MissPayload, DropStale, Counting
<1>2. /\ IsFiniteSet(req[r].todo) /\ Cardinality(req[r].todo) \in Nat
      /\ IsFiniteSet(req[r].active) /\ Cardinality(req[r].active) \in Nat
  BY <1>1, LocalsFinite
<1>3. ASSUME NEW h \in req[r].todo, req'[r].todo = req[r].todo \ {h}
      PROVE  Cardinality(req'[r].todo) = Cardinality(req[r].todo) - 1
  BY <1>2, <1>3, OneLess
<1>4. ASSUME NEW h \in req[r].todo, ReadPayload(r, h) PROVE Work(req'[r]) < Work(req[r])
  <2>1. /\ req[r].pc = "scan" /\ req'[r].pc = "scan" /\ req'[r].todo = req[r].todo \ {h}
        /\ \E s : req'[r].active = req[r].active \cup {s}
    BY <1>1, <1>4, ReadPayloadMoves DEF Locals, ReadPayload
  <2>2. /\ Cardinality(req'[r].active) \in Nat
        /\ Cardinality(req'[r].active) <= Cardinality(req[r].active) + 1
    BY <1>2, <2>1, WithOne
  <2>3. /\ Work(req[r]) = 3 * Cardinality(req[r].todo) + 2 * Cardinality(req[r].active) + 3
        /\ Work(req'[r]) = 3 * Cardinality(req'[r].todo) + 2 * Cardinality(req'[r].active) + 3
    BY <2>1, WorkAt
  <2>4. Cardinality(req'[r].todo) = Cardinality(req[r].todo) - 1
    BY <1>3, <2>1
  <2>5. QED
    BY <1>2, <2>2, <2>3, <2>4
<1>5. ASSUME NEW h \in req[r].todo, MissPayload(r, h) PROVE Work(req'[r]) < Work(req[r])
  <2>1. /\ req[r].pc = "scan" /\ req'[r].pc = "drop" /\ req'[r].todo = req[r].todo \ {h}
        /\ req'[r].active = req[r].active
    BY <1>1, <1>5, MissPayloadMoves DEF Locals, MissPayload
  <2>2. /\ Work(req[r]) = 3 * Cardinality(req[r].todo) + 2 * Cardinality(req[r].active) + 3
        /\ Work(req'[r]) = 3 * Cardinality(req'[r].todo) + 2 * Cardinality(req[r].active) + 4
    BY <2>1, WorkAt
  <2>3. Cardinality(req'[r].todo) = Cardinality(req[r].todo) - 1
    BY <1>3, <2>1
  <2>4. QED
    BY <1>2, <2>2, <2>3
<1>6. CASE DropStale(r)
  <2>1. /\ req[r].pc = "drop" /\ req'[r].pc = "scan" /\ req'[r].todo = req[r].todo
        /\ req'[r].active = req[r].active
    BY <1>1, <1>6, DropStaleMoves DEF Locals, DropStale
  <2>2. /\ Work(req[r]) = 3 * Cardinality(req[r].todo) + 2 * Cardinality(req[r].active) + 4
        /\ Work(req'[r]) = 3 * Cardinality(req[r].todo) + 2 * Cardinality(req[r].active) + 3
    BY <2>1, WorkAt
  <2>3. QED
    BY <1>2, <2>2
<1>7. QED
  BY <1>4, <1>5, <1>6

LEMMA EvictDescends ==
  ASSUME CInv, NEW r \in Requests, req'[r] # Idle,
         EnforceLimit(r) \/ EvictToken(r) \/ UnlistVictim(r) \/ SetToken(r)
  PROVE  Work(req'[r]) < Work(req[r])
<1>1. TypeOK /\ (Counting(r) \/ Evicting(r))
  BY DEF CInv, IInv, EnforceLimit, EvictToken, UnlistVictim, SetToken, Counting, Evicting
<1>2. /\ IsFiniteSet(req[r].active) /\ Cardinality(req[r].active) \in Nat
      /\ IsFiniteSet(req[r].victims) /\ Cardinality(req[r].victims) \in Nat
  BY <1>1, LocalsFinite
<1>3. CASE EnforceLimit(r)
  <2>1. /\ req[r].pc = "scan" /\ req[r].todo = {} /\ req'[r].pc = "evict"
        /\ req'[r].victims \in SUBSET req[r].active
    BY <1>1, <1>3, EnforceLimitMoves DEF Locals, EnforceLimit, OldestOf
  <2>2. /\ Cardinality(req'[r].victims) \in Nat /\ Cardinality(req[r].todo) = 0
        /\ Cardinality(req'[r].victims) <= Cardinality(req[r].active)
    BY <1>2, <2>1, SmallerSet, FS_EmptySet
  <2>3. /\ Work(req[r]) = 3 * Cardinality(req[r].todo) + 2 * Cardinality(req[r].active) + 3
        /\ Work(req'[r]) = 2 * Cardinality(req'[r].victims) + 2
    BY <2>1, WorkAt
  <2>4. QED
    BY <1>2, <2>2, <2>3
<1>4. CASE EvictToken(r)
  <2>1. /\ req[r].pc = "evict" /\ req'[r].pc = "unlist"
        /\ \E v \in req[r].victims : req'[r].victims = req[r].victims \ {v}
    BY <1>1, <1>4, EvictTokenMoves DEF Locals, EvictToken
  <2>2. Cardinality(req'[r].victims) = Cardinality(req[r].victims) - 1
    BY <1>2, <2>1, OneLess
  <2>3. /\ Work(req[r]) = 2 * Cardinality(req[r].victims) + 2
        /\ Work(req'[r]) = 2 * Cardinality(req'[r].victims) + 3
    BY <2>1, WorkAt
  <2>4. QED
    BY <1>2, <2>2, <2>3
<1>5. CASE UnlistVictim(r)
  <2>1. /\ req[r].pc = "unlist" /\ req'[r].pc = "evict"
        /\ req'[r].victims = req[r].victims
    BY <1>1, <1>5, UnlistVictimMoves DEF Locals, UnlistVictim
  <2>2. /\ Work(req[r]) = 2 * Cardinality(req[r].victims) + 3
        /\ Work(req'[r]) = 2 * Cardinality(req[r].victims) + 2
    BY <2>1, WorkAt
  <2>3. QED
    BY <1>2, <2>2
<1>6. CASE SetToken(r)
  <2>1. req[r].pc = "evict" /\ req'[r].pc = "sadd"
    BY <1>1, <1>6, SetTokenMoves DEF Locals, SetToken
  <2>2. Work(req[r]) = 2 * Cardinality(req[r].victims) + 2 /\ Work(req'[r]) = 1
    BY <2>1, WorkAt
  <2>3. QED
    BY <1>2, <2>2
<1>7. QED
  BY <1>3, <1>4, <1>5, <1>6

LEMMA OwnWorkDescends ==
  ASSUME CInv, SessionSetBounded, NEW r \in Requests, req[r].pc # "idle", RequestStep(r)
  PROVE  Work(req'[r]) < Work(req[r])
<1>1. TypeOK
  BY DEF CInv, IInv
<1>2. CASE req'[r] = Idle
  <2>1. Work(Idle) = 0 /\ Work(req[r]) > Work(Idle)
    BY WorkLeft, WorkAt DEF Idle
  <2>2. QED
    BY <1>2, <2>1
<1>3. CASE req'[r] # Idle
  <2>1. CASE Lookup(r)
    <3>1. req[r].pc = "lookup" /\ req'[r].pc = "delete"
      BY <1>1, <1>3, <2>1, LookupMoves DEF Locals, Lookup
    <3>2. Work(req[r]) = 3 /\ Work(req'[r]) = 2
      BY <3>1, WorkAt
    <3>3. QED
      BY <3>2
  <2>2. CASE RevokeDelete(r)
    <3>1. req[r].pc = "delete" /\ req'[r].pc = "srem"
      BY <1>1, <1>3, <2>2, RevokeDeleteMoves DEF Locals, RevokeDelete
    <3>2. Work(req[r]) = 2 /\ Work(req'[r]) = 1
      BY <3>1, WorkAt
    <3>3. QED
      BY <3>2
  <2>3. ~TrackToken(r) /\ ~RevokeUnlist(r) /\ ~Fail(r)
    BY <1>1, <1>3, TrackTokenMoves, RevokeUnlistMoves, FailMoves
  <2>4. Step(r)
    BY <2>3 DEF RequestStep, IssueToken, Present
  <2>5. QED
    BY <1>3, <2>1, <2>2, <2>3, <2>4, ReadSessionsDescends, ScanDescends, EvictDescends
    DEF Step
<1>4. QED
  BY <1>2, <1>3

(* The loops of _enforce_session_limit end after as many commands as the   *)
(* limit allows for: a login has read the set once and then only shortens  *)
(* its own lists, whatever other requests add to the set meanwhile.        *)
THEOREM LoopsDescend == Spec => WorkDescends
<1> DEFINE A == \A r \in Requests :
                  req[r].pc # "idle" =>
                    \/ Work(req'[r]) < Work(req[r])
                    \/ [req'[r] EXCEPT !.added = {}] = [req[r] EXCEPT !.added = {}]
<1>1. BInv /\ SessionSetBounded /\ [Next]_vars => [A]_vars
  <2>1. SUFFICES ASSUME BInv, SessionSetBounded, [Next]_vars, NEW r \in Requests,
                        req[r].pc # "idle", req'[r] # req[r], ~RequestStep(r)
                 PROVE  [req'[r] EXCEPT !.added = {}] = [req[r] EXCEPT !.added = {}]
    BY OwnWorkDescends DEF BInv
  <2>2. PICK q \in Requests \ {r} : RequestStep(q)
    BY <2>1 DEF Next, RequestStep, Expire, Tick, RedisRestart, vars
  <2>3. TrackToken(q)
    BY <2>1, <2>2, OtherStep DEF BInv, CInv
  <2>4. req'[r] = [req[r] EXCEPT !.added = @ \cup {Tok(q)}]
    BY <2>1, <2>2, <2>3, TrackTokenMoves DEF BInv, CInv, IInv
  <2>5. req[r] \in Request
    BY <2>1 DEF BInv, CInv, IInv, TypeOK
  <2>6. QED
    BY <2>4, <2>5 DEF Request
<1>2. Spec => []SessionSetBounded
  BY SetBounded
<1>3. BInv /\ [Next]_vars => BInv'
  BY BNextInv
<1>4. QED
  BY <1>1, <1>2, <1>3, BInitInv, PTL DEF Spec, WorkDescends

=============================================================================
