------------------------------ MODULE WorkerProofs ------------------------------
(***************************************************************************)
(* Proofs about Worker, for any requests, any routes, any limit of the     *)
(* pool and any time allowed for a probe.                                  *)
(***************************************************************************)
EXTENDS Worker, FiniteSetTheorems, SequenceTheorems, TLAPS

USE RoutesAssumption, LimitAssumption, ProbeTimeoutAssumption, OwnersAssumption

-----------------------------------------------------------------------------
(* The scripts. *)

(* What the routes but health wait for. *)
Calls == {"redis", "select", "write", "commit", "cognito"}

LEMMA Scripts ==
  /\ \A route \in DOMAIN Script : Len(Script[route]) \in 1 .. 10
  /\ "health" \in DOMAIN Script /\ "none" \notin DOMAIN Script
  /\ Script["health"] = Health
  /\ \A route \in DOMAIN Script \ {"health"}, n \in 1 .. 10 :
       n <= Len(Script[route]) => Script[route][n] \notin {"probe database", "probe redis"}
  /\ Len(Health) = 2 /\ Health[1] = "probe database" /\ Health[2] = "probe redis"
<1>1. /\ Len(Login) = 7 /\ Len(Signup) = 10 /\ Len(Guard) = 2 /\ Len(Logout) = 3
      /\ Len(ListUsers) = 4 /\ Len(GetUser) = 3 /\ Len(UpdateUser) = 6
      /\ Len(UpdateNothing) = 5 /\ Len(DeleteUser) = 7 /\ Len(Health) = 2
  BY DEF Login, Signup, Guard, Logout, ListUsers, GetUser, UpdateUser, UpdateNothing,
         DeleteUser, Health
<1>2. DOMAIN Script = {"login", "signup", "validate", "logout", "list", "get", "update",
                       "unchanged", "delete", "health"}
  BY DEF Script
<1>3. /\ Script["login"] = Login /\ Script["signup"] = Signup /\ Script["validate"] = Guard
      /\ Script["logout"] = Logout /\ Script["list"] = ListUsers /\ Script["get"] = GetUser
      /\ Script["update"] = UpdateUser /\ Script["unchanged"] = UpdateNothing
      /\ Script["delete"] = DeleteUser /\ Script["health"] = Health
  BY DEF Script
<1>4. Health[1] = "probe database" /\ Health[2] = "probe redis"
  BY DEF Health
<1>5. ASSUME NEW route \in DOMAIN Script PROVE Len(Script[route]) \in 1 .. 10
  BY <1>1, <1>2, <1>3
<1>6. "health" \in DOMAIN Script /\ "none" \notin DOMAIN Script
  BY <1>2
<1>7. \A route \in DOMAIN Script \ {"health"} : Script[route] \in Seq(Calls)
  <2>1. "redis" \in Calls /\ "select" \in Calls /\ "write" \in Calls /\ "commit" \in Calls
        /\ "cognito" \in Calls
    BY DEF Calls
  <2>2. Guard \in Seq(Calls) /\ Login \in Seq(Calls) /\ Signup \in Seq(Calls)
    BY <2>1 DEF Guard, Login, Signup
  <2>3. /\ <<"redis">> \in Seq(Calls) /\ <<"select">> \in Seq(Calls)
        /\ <<"select", "select">> \in Seq(Calls)
        /\ <<"select", "write", "select", "commit">> \in Seq(Calls)
        /\ <<"select", "select", "commit">> \in Seq(Calls)
        /\ <<"select", "write", "select", "cognito", "commit">> \in Seq(Calls)
    BY <2>1
  <2>4. Logout \in Seq(Calls) /\ ListUsers \in Seq(Calls) /\ GetUser \in Seq(Calls)
    BY <2>2, <2>3, ConcatProperties DEF Logout, ListUsers, GetUser
  <2>5. UpdateUser \in Seq(Calls) /\ UpdateNothing \in Seq(Calls) /\ DeleteUser \in Seq(Calls)
    BY <2>2, <2>3, ConcatProperties DEF UpdateUser, UpdateNothing, DeleteUser
  <2>6. QED
    BY <1>2, <1>3, <2>2, <2>4, <2>5
<1>8. ASSUME NEW route \in DOMAIN Script \ {"health"}, NEW n \in 1 .. 10, n <= Len(Script[route])
      PROVE  Script[route][n] \notin {"probe database", "probe redis"}
  <2>1. PICK s \in Seq(Calls) : s = Script[route]
    BY <1>7
  <2>2. n \in 1 .. Len(s)
    BY <1>8, <2>1
  <2>3. s[n] \in Calls
    BY <2>2, ElementOfSeq
  <2>4. QED
    BY <2>1, <2>3 DEF Calls
<1>9. QED
  BY <1>1, <1>3, <1>4, <1>5, <1>6, <1>8

-----------------------------------------------------------------------------
(* The inductive invariant. *)

Running(q) == q.phase = "run" /\ q.route = "health"

(* A request is somewhere in its script; a health request has spent no     *)
(* more than its time on each probe; and what its answer says so far is    *)
(* what it saw.                                                            *)
Placed(q) == q.phase = "run" => q.route \in DOMAIN Script /\ q.at \in 1 .. Len(Script[q.route])

Aged(q) ==
  Running(q) =>
    /\ q.since <= q.age /\ q.age <= q.since + ProbeTimeout
    /\ q.since <= ProbeTimeout
    /\ q.at = 1 => q.since = 0

Honest(q) ==
  q.route = "health" =>
    /\ q.phase = "run" /\ q.at = 2 /\ q.ok => "postgres" \in q.reached
    /\ q.phase = "close" /\ q.ok => q.reached = Stores
    /\ q.phase \in {"run", "close"} /\ ~q.ok => q.hindered

Good(q) == q \in Request /\ Placed(q) /\ Aged(q) /\ Honest(q)

(* A health request has seen the present state of the stores and the pool. *)
Watching(r) ==
  Probing(r) =>
    /\ Stores \ silent \subseteq req[r].reached
    /\ silent # {} => req[r].hindered
    /\ NoneFree(r) => req[r].hindered

PoolOK ==
  /\ running \in BOOLEAN
  /\ silent \subseteq Stores
  /\ taken \subseteq {r \in Requests : Busy(r)}
  /\ IsFiniteSet(taken) /\ Cardinality(taken) <= Limit
  /\ row \in taken \cup {NoOne, Elsewhere}
  /\ \A r \in Requests : row = r => req[r].route # "health"

IInv ==
  /\ PoolOK
  /\ req \in [Requests -> Request]
  /\ \A r \in Requests : Good(req[r]) /\ Watching(r)

LEMMA IdleGood == Good(Idle)
<1>1. 0 \in Times
  BY DEF Times
<1>2. Idle \in Request
  BY <1>1 DEF Idle, Request
<1>3. QED
  BY <1>2 DEF Good, Idle, Placed, Aged, Honest, Running

LEMMA InitInv == Init => IInv
<1> SUFFICES ASSUME Init PROVE IInv
  OBVIOUS
<1>1. IsFiniteSet({}) /\ Cardinality({}) <= Limit
  BY FS_EmptySet
<1>2. running \in BOOLEAN
  BY DEF Init
<1>3. PoolOK
  BY <1>1, <1>2 DEF Init, PoolOK
<1>4. \A r \in Requests : req[r] = Idle
  BY DEF Init
<1>5. \A r \in Requests : Good(req[r]) /\ Watching(r)
  BY <1>4, IdleGood DEF Watching, Probing, Idle
<1>6. QED
  BY <1>3, <1>5, IdleGood DEF IInv, Init, Good

-----------------------------------------------------------------------------
(* What a step makes of the local states. *)

LEMMA ObservedGood ==
  ASSUME NEW r, NEW q, Good(q)
  PROVE  /\ Good(Observed(r, q))
         /\ Observed(r, q).phase = q.phase /\ Observed(r, q).route = q.route
         /\ Running(q) =>
              /\ Stores \ silent' \subseteq Observed(r, q).reached
              /\ silent' # {} => Observed(r, q).hindered
              /\ Cardinality(taken' \ {r}) >= Limit => Observed(r, q).hindered
<1>1. q \in Request
  BY DEF Good
<1>2. CASE Running(q)
  <2> DEFINE next == [q EXCEPT !.reached = @ \cup (Stores \ silent'),
                               !.hindered = \/ @ \/ silent' # {}
                                            \/ Cardinality(taken' \ {r}) >= Limit]
  <2>1. Observed(r, q) = next
    BY <1>2 DEF Observed, Running
  <2>2. /\ next \in Request /\ next.phase = q.phase /\ next.route = q.route
        /\ next.at = q.at /\ next.ok = q.ok /\ next.age = q.age /\ next.since = q.since
        /\ next.reached = q.reached \cup (Stores \ silent')
        /\ next.hindered = \/ q.hindered \/ silent' # {}
                           \/ Cardinality(taken' \ {r}) >= Limit
    BY <1>1 DEF Request
  <2> HIDE DEF next
  <2>3. Good(next)
    BY <1>2, <2>2 DEF Good, Placed, Aged, Honest, Running
  <2>4. QED
    BY <2>1, <2>2, <2>3
<1>3. CASE ~Running(q)
  BY <1>3 DEF Observed, Running
<1>4. QED
  BY <1>2, <1>3

LEMMA ObservedAll ==
  ASSUME NEW old, \A p \in Requests : Good(old[p]),
         req' = [p \in Requests |-> Observed(p, old[p])]
  PROVE  /\ req' \in [Requests -> Request]
         /\ \A p \in Requests :
              /\ Good(req'[p]) /\ Watching(p)'
              /\ req'[p].phase = old[p].phase /\ req'[p].route = old[p].route
<1>1. ASSUME NEW p \in Requests
      PROVE  /\ Good(req'[p]) /\ Watching(p)'
             /\ req'[p].phase = old[p].phase /\ req'[p].route = old[p].route
  <2>1. req'[p] = Observed(p, old[p]) /\ Good(old[p])
    OBVIOUS
  <2>2. /\ Good(Observed(p, old[p]))
        /\ Observed(p, old[p]).phase = old[p].phase /\ Observed(p, old[p]).route = old[p].route
        /\ Running(old[p]) =>
             /\ Stores \ silent' \subseteq Observed(p, old[p]).reached
             /\ silent' # {} => Observed(p, old[p]).hindered
             /\ Cardinality(taken' \ {p}) >= Limit => Observed(p, old[p]).hindered
    BY <2>1, ObservedGood
  <2>3. QED
    BY <2>1, <2>2 DEF Watching, Probing, Running, NoneFree
<1>2. req' \in [Requests -> Request]
  BY <1>1 DEF Good
<1>3. QED
  BY <1>1, <1>2

LEMMA BecomesGood ==
  ASSUME IInv, NEW r \in Requests, NEW q, Good(q), Becomes(r, q)
  PROVE  /\ req' \in [Requests -> Request]
         /\ \A p \in Requests : Good(req'[p]) /\ Watching(p)'
         /\ \A p \in Requests \ {r} : req'[p].phase = req[p].phase /\ req'[p].route = req[p].route
         /\ req'[r].phase = q.phase /\ req'[r].route = q.route
<1> DEFINE old == [p \in Requests |-> IF p = r THEN q ELSE req[p]]
<1>1. \A p \in Requests : old[p] = IF p = r THEN q ELSE req[p]
  OBVIOUS
<1>2. req' = [p \in Requests |-> Observed(p, old[p])]
  BY DEF Becomes
<1> HIDE DEF old
<1>3. \A p \in Requests : Good(old[p])
  BY <1>1 DEF IInv
<1>4. /\ req' \in [Requests -> Request]
      /\ \A p \in Requests :
           /\ Good(req'[p]) /\ Watching(p)'
           /\ req'[p].phase = old[p].phase /\ req'[p].route = old[p].route
  BY <1>2, <1>3, ObservedAll
<1>5. QED
  BY <1>1, <1>4

(* A request has failed. *)
LEMMA FailedGood ==
  ASSUME NEW q, Good(q), q.route # "health"
  PROVE  Good(Failed(q)) /\ Failed(q).phase = "close" /\ Failed(q).route = q.route
<1>1. q \in Request
  BY DEF Good
<1>2. /\ Failed(q) \in Request /\ Failed(q).phase = "close" /\ Failed(q).route = q.route
  <2>1. PICK phase \in {"idle", "run", "close"} : phase = "close"
    OBVIOUS
  <2>2. PICK at \in 0 .. 10 : at = 0
    OBVIOUS
  <2>3. PICK ok \in BOOLEAN : ok = FALSE
    OBVIOUS
  <2> DEFINE n == [q EXCEPT !.phase = phase, !.at = at, !.ok = ok]
  <2>4. Failed(q) = n
    BY <2>1, <2>2, <2>3 DEF Failed
  <2>5. n \in Request /\ n.phase = phase /\ n.route = q.route
    BY <1>1 DEF Request
  <2>6. QED
    BY <2>1, <2>4, <2>5
<1>3. QED
  BY <1>2 DEF Good, Placed, Aged, Honest, Running

LEMMA AfterLocals ==
  ASSUME NEW q, Good(q), q.phase = "run", NEW good \in BOOLEAN
  PROVE  LET n == After(q, good)
             last == q.at = Len(Script[q.route])
         IN  /\ n \in Request /\ n.route = q.route
             /\ n.ok = (q.ok /\ good) /\ n.since = q.age /\ n.age = q.age
             /\ n.at = (IF last THEN 0 ELSE q.at + 1)
             /\ n.phase = (IF last THEN "close" ELSE "run")
             /\ n.reached = q.reached /\ n.hindered = q.hindered
             /\ Placed(n)
<1>1. /\ q \in Request /\ q.route \in DOMAIN Script /\ q.at \in 1 .. Len(Script[q.route])
      /\ Len(Script[q.route]) \in 1 .. 10
  BY Scripts DEF Good, Placed
<1> DEFINE len == Len(Script[q.route])
           n == After(q, good)
<1>2. len \in 1 .. 10 /\ q.at \in 1 .. len
  BY <1>1
<1> HIDE DEF len
<1>3. /\ n = [q EXCEPT !.ok = q.ok /\ good, !.since = q.age,
                       !.at = IF q.at = len THEN 0 ELSE q.at + 1,
                       !.phase = IF q.at = len THEN "close" ELSE q.phase]
  BY <1>1 DEF After, len, Request
<1>4. /\ (IF q.at = len THEN 0 ELSE q.at + 1) \in 0 .. 10
      /\ q.at # len => q.at + 1 \in 1 .. len
  BY <1>2
<1>5. /\ n \in Request /\ n.route = q.route
      /\ n.ok = (q.ok /\ good) /\ n.since = q.age /\ n.age = q.age
      /\ n.at = (IF q.at = len THEN 0 ELSE q.at + 1)
      /\ n.phase = (IF q.at = len THEN "close" ELSE "run")
      /\ n.reached = q.reached /\ n.hindered = q.hindered
  <2> DEFINE at == IF q.at = len THEN 0 ELSE q.at + 1
             ok == q.ok /\ good
             phase == IF q.at = len THEN "close" ELSE q.phase
  <2>1. at \in 0 .. 10 /\ ok \in BOOLEAN /\ phase \in {"idle", "run", "close"}
    BY <1>1, <1>4 DEF Request
  <2>2. n = [q EXCEPT !.ok = ok, !.since = q.age, !.at = at, !.phase = phase]
    BY <1>3
  <2> HIDE DEF n, at, ok, phase
  <2>3. /\ n \in Request /\ n.route = q.route /\ n.ok = ok /\ n.since = q.age /\ n.age = q.age
        /\ n.at = at /\ n.phase = phase /\ n.reached = q.reached /\ n.hindered = q.hindered
    BY <1>1, <2>1, <2>2 DEF Request
  <2>4. QED
    BY <2>3 DEF at, ok, phase
<1> HIDE DEF n
<1>6. Placed(n)
  BY <1>1, <1>4, <1>5 DEF Placed, len
<1>7. QED
  BY <1>5, <1>6 DEF n, len

LEMMA AfterGood ==
  ASSUME NEW q, Good(q), q.phase = "run", q.route # "health", NEW good \in BOOLEAN
  PROVE  Good(After(q, good)) /\ After(q, good).phase # "idle"
  BY AfterLocals DEF Good, Aged, Honest, Running

(* Where a health request is, and that the others are elsewhere. *)
LEMMA ProbePlace ==
  ASSUME IInv, NEW r \in Requests, req[r].phase = "run", req[r].route = "health"
  PROVE  /\ req[r].at \in {1, 2} /\ Len(Script[req[r].route]) = 2
         /\ \A op : Doing(r, op) => op = IF req[r].at = 1 THEN "probe database" ELSE "probe redis"
<1>1. req[r].at \in 1 .. Len(Script["health"])
  BY DEF IInv, Good, Placed
<1>2. req[r].at \in {1, 2} /\ Len(Script[req[r].route]) = 2
  <2>1. Script[req[r].route] = Health /\ Len(Health) = 2
    BY Scripts
  <2>2. req[r].at \in 1 .. 2
    BY <1>1, Scripts, <2>1
  <2>3. QED
    BY <2>1, <2>2
<1>3. \A op : Doing(r, op) => op = Health[req[r].at]
  BY Scripts DEF Doing
<1>4. QED
  BY <1>2, <1>3, Scripts

LEMMA NotHealth ==
  ASSUME IInv, NEW r \in Requests, NEW op, Doing(r, op),
         op \notin {"probe database", "probe redis"}
  PROVE  req[r].phase = "run" /\ req[r].route # "health"
  BY ProbePlace DEF Doing

LEMMA Within ==
  ASSUME NEW len \in 1 .. 10, NEW at \in 1 .. len
  PROVE  at \in 1 .. 10 /\ at <= len
  OBVIOUS

LEMMA ProbingIsHealth ==
  ASSUME IInv, NEW r \in Requests, NEW op \in {"probe database", "probe redis"}, Doing(r, op)
  PROVE  /\ req[r].phase = "run" /\ req[r].route = "health" /\ req[r].at \in {1, 2}
         /\ Len(Script[req[r].route]) = 2
         /\ req[r].at = IF op = "probe database" THEN 1 ELSE 2
<1>1. req[r].phase = "run" /\ Script[req[r].route][req[r].at] = op
  BY DEF Doing
<1>2. req[r].route \in DOMAIN Script /\ req[r].at \in 1 .. Len(Script[req[r].route])
  BY <1>1 DEF IInv, Good, Placed
<1>3. Len(Script[req[r].route]) \in 1 .. 10
  BY <1>2, Scripts
<1>4. req[r].at \in 1 .. 10 /\ req[r].at <= Len(Script[req[r].route])
  BY <1>2, <1>3, Within
<1>5. req[r].route = "health"
  BY <1>1, <1>2, <1>4, Scripts
<1>6. QED
  BY <1>1, <1>5, ProbePlace

-----------------------------------------------------------------------------
(* The steps of a request. *)

(* A step of one request: its place is good, and it changes only its own   *)
(* connection and its own lock.                                            *)
LEMMA StepInv ==
  ASSUME IInv, NEW r \in Requests, NEW q, Good(q), Becomes(r, q),
         running' \in BOOLEAN, silent' \subseteq Stores,
         IsFiniteSet(taken'), Cardinality(taken') <= Limit,
         taken' \subseteq taken \cup {r}, r \in taken' => q.phase # "idle",
         row' \in taken' \cup {NoOne, Elsewhere},
         row' = r => q.route # "health",
         \A p \in Requests \ {r} : row' = p => row = p
  PROVE  IInv'
<1>1. /\ req' \in [Requests -> Request]
      /\ \A p \in Requests : Good(req'[p]) /\ Watching(p)'
      /\ \A p \in Requests \ {r} : req'[p].phase = req[p].phase /\ req'[p].route = req[p].route
      /\ req'[r].phase = q.phase /\ req'[r].route = q.route
  BY BecomesGood
<1>2. PoolOK
  BY DEF IInv
<1>3. taken' \subseteq {p \in Requests : Busy(p)}'
  BY <1>1, <1>2 DEF PoolOK, Busy
<1>4. \A p \in Requests : row' = p => req'[p].route # "health"
  BY <1>1, <1>2 DEF PoolOK
<1>5. QED
  BY <1>1, <1>3, <1>4 DEF IInv, PoolOK

(* The connections that a step leaves. *)
LEMMA Released ==
  ASSUME IInv, NEW r \in Requests
  PROVE  /\ IsFiniteSet(taken) /\ Cardinality(taken) <= Limit /\ Cardinality(taken) \in Nat
         /\ IsFiniteSet(taken \ {r}) /\ Cardinality(taken \ {r}) <= Limit
<1>1. IsFiniteSet(taken) /\ Cardinality(taken) <= Limit /\ Cardinality(taken) \in Nat
  BY FS_CardinalityType DEF IInv, PoolOK
<1>2. /\ IsFiniteSet(taken \ {r})
      /\ Cardinality(taken \ {r}) = IF r \in taken THEN Cardinality(taken) - 1
                                                    ELSE Cardinality(taken)
  BY <1>1, FS_RemoveElement
<1>3. QED
  BY <1>1, <1>2

(* A step that changes neither connections nor locks. *)
LEMMA PlaceInv ==
  ASSUME IInv, NEW r \in Requests, NEW q, Good(q), Becomes(r, q), q.phase # "idle",
         UNCHANGED <<running, silent, taken, row>>, q.route = req[r].route \/ r \notin taken
  PROVE  IInv'
<1>1. PoolOK /\ IsFiniteSet(taken) /\ Cardinality(taken) <= Limit
  BY Released DEF IInv
<1>2. row = r => q.route # "health"
  BY <1>1 DEF PoolOK
<1>3. QED
  BY <1>1, <1>2, StepInv DEF PoolOK

LEMMA ArriveInv ==
  ASSUME IInv, NEW r \in Requests, NEW route \in Routes[r], Arrive(r, route)
  PROVE  IInv'
<1> DEFINE q == [Idle EXCEPT !.route = route, !.at = 1, !.phase = "run"]
<1>1. route \in DOMAIN Script /\ 1 \in 1 .. Len(Script[route])
  <2>1. PICK len \in 1 .. 10 : len = Len(Script[route])
    BY Scripts
  <2>2. 1 \in 1 .. len
    OBVIOUS
  <2>3. QED
    BY <2>1, <2>2
<1>2. Idle \in Request
  BY IdleGood DEF Good
<1>3. /\ q \in Request /\ q.route = route /\ q.at = 1 /\ q.phase = "run"
      /\ q.ok = TRUE /\ q.age = 0 /\ q.since = 0
  <2>1. Idle.ok = TRUE /\ Idle.age = 0 /\ Idle.since = 0
    BY DEF Idle
  <2>2. PICK phase \in {"idle", "run", "close"} : phase = "run"
    OBVIOUS
  <2>3. PICK at \in 0 .. 10 : at = 1
    OBVIOUS
  <2>4. q = [Idle EXCEPT !.route = route, !.at = at, !.phase = phase]
    BY <2>2, <2>3
  <2> HIDE DEF q
  <2>5. /\ q \in Request /\ q.route = route /\ q.at = at /\ q.phase = phase
        /\ q.ok = Idle.ok /\ q.age = Idle.age /\ q.since = Idle.since
    BY <1>1, <1>2, <2>4 DEF Request
  <2>6. QED
    BY <2>1, <2>2, <2>3, <2>5
<1>4. Becomes(r, q) /\ UNCHANGED <<running, silent, taken, row>> /\ r \notin taken
  BY DEF Arrive, IInv, PoolOK
<1> HIDE DEF q
<1>5. Good(q)
  BY <1>1, <1>3 DEF Good, Placed, Aged, Honest, Running
<1>6. QED
  BY <1>3, <1>4, <1>5, PlaceInv

LEMMA CheckoutInv ==
  ASSUME IInv, NEW r \in Requests, Checkout(r)
  PROVE  IInv'
<1>1. PoolOK /\ Good(req[r]) /\ req[r].phase = "run"
  BY DEF IInv, Checkout, Doing
<1>2. /\ Becomes(r, req[r]) /\ UNCHANGED <<running, silent, row>>
      /\ taken' = taken \cup {r} /\ r \notin taken /\ ~(Cardinality(taken \ {r}) >= Limit)
  BY DEF Checkout, NoneFree
<1>3. IsFiniteSet(taken') /\ Cardinality(taken') <= Limit
  <2>1. IsFiniteSet(taken) /\ Cardinality(taken) \in Nat /\ taken \ {r} = taken
    BY <1>2, Released
  <2>2. IsFiniteSet(taken \cup {r}) /\ Cardinality(taken \cup {r}) = Cardinality(taken) + 1
    BY <1>2, <2>1, FS_AddElement
  <2>3. ~(Cardinality(taken) >= Limit)
    BY <1>2, <2>1
  <2>4. Cardinality(taken) + 1 <= Limit
    BY <2>1, <2>3
  <2>5. QED
    BY <1>2, <2>2, <2>4
<1>4. QED
  BY <1>1, <1>2, <1>3, StepInv DEF PoolOK

(* A step of a route other than health that goes on or fails. *)
LEMMA CallInv ==
  ASSUME IInv, NEW r \in Requests, NEW op, Doing(r, op),
         op \notin {"probe database", "probe redis"},
         UNCHANGED <<running, silent, taken, row>>,
         Becomes(r, After(req[r], TRUE)) \/ Becomes(r, Failed(req[r]))
  PROVE  IInv'
<1>1. Good(req[r]) /\ req[r].phase = "run" /\ req[r].route # "health"
  BY NotHealth DEF IInv
<1>2. /\ Good(After(req[r], TRUE)) /\ After(req[r], TRUE).phase # "idle"
      /\ After(req[r], TRUE).route = req[r].route
  BY <1>1, AfterGood, AfterLocals
<1>3. /\ Good(Failed(req[r])) /\ Failed(req[r]).phase # "idle"
      /\ Failed(req[r]).route = req[r].route
  BY <1>1, FailedGood
<1>4. QED
  BY <1>2, <1>3, PlaceInv

LEMMA CallsInv ==
  ASSUME IInv, NEW r \in Requests,
         Select(r) \/ CallRedis(r) \/ CallCognito(r) \/ PoolTimeout(r)
  PROVE  IInv'
<1>1. CASE Select(r) \/ CallRedis(r) \/ CallCognito(r)
  BY <1>1, CallInv DEF Select, CallRedis, CallCognito, Reaches
<1>2. CASE PoolTimeout(r)
  <2>1. PICK op \in Statements \ {"probe database"} : Doing(r, op)
    BY <1>2 DEF PoolTimeout
  <2>2. op \notin {"probe database", "probe redis"}
    BY <2>1 DEF Statements
  <2>3. QED
    BY <1>2, <2>1, <2>2, CallInv DEF PoolTimeout
<1>3. QED
  BY <1>1, <1>2

LEMMA WriteInv ==
  ASSUME IInv, NEW r \in Requests, Write(r)
  PROVE  IInv'
<1>1. /\ Doing(r, "write") /\ r \in taken /\ UNCHANGED <<running, silent, taken>>
      /\ PoolOK /\ IsFiniteSet(taken) /\ Cardinality(taken) <= Limit
  BY Released DEF Write, Reaches, IInv
<1>2. CASE UNCHANGED row
  BY <1>1, <1>2, CallInv DEF Write
<1>3. CASE row = NoOne /\ row' = r /\ Becomes(r, After(req[r], TRUE))
  <2>1. Good(req[r]) /\ req[r].phase = "run" /\ req[r].route # "health"
    BY <1>1, NotHealth DEF IInv
  <2>2. /\ Good(After(req[r], TRUE)) /\ After(req[r], TRUE).phase # "idle"
        /\ After(req[r], TRUE).route = req[r].route
    BY <2>1, AfterGood, AfterLocals
  <2>3. QED
    BY <1>1, <1>3, <2>1, <2>2, StepInv DEF PoolOK
<1>4. QED
  BY <1>2, <1>3 DEF Write

(* A step that ends the transaction. *)
LEMMA EndInv ==
  ASSUME IInv, NEW r \in Requests, NEW q, Good(q), Becomes(r, q),
         UNCHANGED <<running, silent>>, taken' = taken \ {r}, row' = Unlocked(r)
  PROVE  IInv'
<1>1. PoolOK /\ IsFiniteSet(taken \ {r}) /\ Cardinality(taken \ {r}) <= Limit
  BY Released DEF IInv
<1>2. row' = IF row = r THEN NoOne ELSE row
  BY DEF Unlocked
<1>3. NoOne # r /\ NoOne \notin Requests
  OBVIOUS
<1>4. row' # r /\ row' \in taken' \cup {NoOne, Elsewhere}
  BY <1>1, <1>2, <1>3 DEF PoolOK
<1>5. \A p \in Requests \ {r} : row' = p => row = p
  BY <1>2, <1>3
<1>6. QED
  BY <1>1, <1>4, <1>5, StepInv DEF PoolOK

LEMMA CommitInv ==
  ASSUME IInv, NEW r \in Requests, Commit(r)
  PROVE  IInv'
<1>1. /\ Good(req[r]) /\ req[r].phase = "run" /\ req[r].route # "health"
      /\ UNCHANGED <<running, silent>> /\ taken' = taken \ {r} /\ row' = Unlocked(r)
      /\ Becomes(r, After(req[r], TRUE)) \/ Becomes(r, Failed(req[r]))
  BY NotHealth DEF IInv, Commit, Reaches
<1>2. Good(After(req[r], TRUE)) /\ Good(Failed(req[r]))
  BY <1>1, AfterGood, FailedGood
<1>3. QED
  BY <1>1, <1>2, EndInv

LEMMA CloseInv ==
  ASSUME IInv, NEW r \in Requests, Close(r)
  PROVE  IInv'
  BY IdleGood, EndInv DEF Close

-----------------------------------------------------------------------------
(* health_check, the clock and the environment. *)

(* The first probe has not used up more than its time, and the second one  *)
(* begins when the first has ended.                                        *)
LEMMA FirstProbe ==
  ASSUME NEW q \in Request, Aged(q), Running(q), q.at = 1
  PROVE  q.age \in Nat /\ q.age <= ProbeTimeout
<1>1. q.age \in Nat
  BY DEF Request, Times
<1>2. q.since = 0 /\ q.age <= q.since + ProbeTimeout
  BY DEF Aged
<1>3. q.age <= 0 + ProbeTimeout
  BY <1>2
<1>4. QED
  BY <1>1, <1>3

LEMMA SecondProbe ==
  ASSUME NEW n, n.age \in Nat, n.age <= ProbeTimeout, n.since = n.age, n.at = 2
  PROVE  Aged(n)
<1>1. n.age <= n.age + ProbeTimeout /\ n.age <= n.age
  OBVIOUS
<1>2. n.at # 1
  OBVIOUS
<1>3. QED
  BY <1>1, <1>2 DEF Aged

LEMMA OneIsNotTwo == 1 # 2
  OBVIOUS

(* What comes after a probe. *)
LEMMA AfterProbe ==
  ASSUME NEW q, Good(q), q.phase = "run", Len(Script[q.route]) = 2, NEW good \in BOOLEAN
  PROVE  LET n == After(q, good)
         IN  /\ n \in Request /\ n.route = q.route /\ Placed(n)
             /\ n.ok = (q.ok /\ good) /\ n.since = q.age /\ n.age = q.age
             /\ n.reached = q.reached /\ n.hindered = q.hindered
             /\ q.at = 1 => n.at = 2 /\ n.phase = "run"
             /\ q.at = 2 => n.phase = "close"
<1> DEFINE n == After(q, good)
           len == Len(Script[q.route])
<1>1. /\ n \in Request /\ n.route = q.route /\ Placed(n)
      /\ n.ok = (q.ok /\ good) /\ n.since = q.age /\ n.age = q.age
      /\ n.reached = q.reached /\ n.hindered = q.hindered
      /\ n.at = (IF q.at = len THEN 0 ELSE q.at + 1)
      /\ n.phase = (IF q.at = len THEN "close" ELSE "run")
  BY AfterLocals
<1>2. len = 2
  OBVIOUS
<1> HIDE DEF n, len
<1>3. ASSUME q.at = 1 PROVE n.at = 2 /\ n.phase = "run"
  <2>1. q.at # len
    BY <1>2, <1>3
  <2>2. n.at = q.at + 1 /\ n.phase = "run"
    BY <1>1, <2>1, Zenon
  <2>3. n.at = 2
    BY <1>3, <2>2
  <2>4. QED
    BY <2>2, <2>3
<1>4. ASSUME q.at = 2 PROVE n.phase = "close"
  <2>1. q.at = len
    BY <1>2, <1>4
  <2>2. QED
    BY <1>1, <2>1, Zenon
<1>5. QED
  BY <1>1, <1>3, <1>4 DEF n

LEMMA ProbeSucceedsInv ==
  ASSUME IInv, NEW r \in Requests, ProbeSucceeds(r)
  PROVE  IInv'
<1> DEFINE q == req[r]
           n == After(q, TRUE)
<1>1. PICK op \in {"probe database", "probe redis"} :
        /\ Doing(r, op)
        /\ op = "probe database" => "postgres" \notin silent
        /\ op = "probe redis" => "redis" \notin silent
  BY DEF ProbeSucceeds, Reaches, AnswersTo
<1>2. /\ q.phase = "run" /\ q.route = "health" /\ q.at \in {1, 2}
      /\ Len(Script[q.route]) = 2
      /\ q.at = 1 => op = "probe database"
      /\ q.at = 2 => op = "probe redis"
  <2>1. /\ q.phase = "run" /\ q.route = "health" /\ q.at \in {1, 2}
        /\ Len(Script[q.route]) = 2
    BY <1>1, ProbingIsHealth
  <2>2. q.at = IF op = "probe database" THEN 1 ELSE 2
    BY <1>1, ProbingIsHealth
  <2> HIDE DEF q, n
  <2>3. op # "probe database" => q.at = 2
    BY <2>2
  <2>4. op # "probe redis" => q.at = 1
    BY <2>2
  <2>5. 1 # 2
    BY OneIsNotTwo, Zenon
  <2>6. q.at = 1 => op = "probe database"
    BY <2>3, <2>5, Zenon
  <2>7. q.at = 2 => op = "probe redis"
    BY <2>4, <2>5, Zenon
  <2>8. QED
    BY <2>1, <2>6, <2>7
<1>3. Good(q) /\ q \in Request /\ q.reached \subseteq Stores
  BY DEF IInv, Good, Request
<1>4. Stores \ silent \subseteq q.reached
  BY <1>2 DEF IInv, Watching, Probing
<1>5. /\ n \in Request /\ n.route = q.route
      /\ n.ok = (q.ok /\ TRUE) /\ n.since = q.age /\ n.age = q.age
      /\ q.at = 1 => n.at = 2 /\ n.phase = "run"
      /\ q.at = 2 => n.phase = "close"
      /\ n.reached = q.reached /\ n.hindered = q.hindered
      /\ Placed(n)
  BY <1>2, <1>3, AfterProbe
<1>6. Becomes(r, n) /\ UNCHANGED <<running, silent, taken, row>>
  BY DEF ProbeSucceeds
<1> HIDE DEF q, n
<1>7. ~n.ok => n.hindered
  BY <1>2, <1>3, <1>5 DEF Good, Honest
<1>8. CASE q.at = 1
  <2>1. n.phase = "run" /\ n.at = 2 /\ "postgres" \in n.reached
    <3>1. n.phase = "run"
      BY <1>5, <1>8
    <3>2. n.at = 2
      BY <1>5, <1>8
    <3>3. op = "probe database"
      BY <1>2, <1>8
    <3>4. "postgres" \in Stores \ silent
      BY <1>1, <3>3 DEF Stores
    <3>5. QED
      BY <1>4, <1>5, <3>1, <3>2, <3>4
  <2>2. q.age \in Nat /\ q.age <= ProbeTimeout
    BY <1>2, <1>3, <1>8, FirstProbe DEF Good, Running
  <2>3. Aged(n)
    BY <1>5, <2>1, <2>2, SecondProbe
  <2>4. Good(n)
    BY <1>5, <1>7, <2>1, <2>3 DEF Good, Honest
  <2>5. QED
    BY <1>5, <1>6, <2>1, <2>4, PlaceInv DEF q
<1>9. CASE q.at = 2
  <2>1. n.phase = "close" /\ Aged(n)
    BY <1>5, <1>9 DEF Aged, Running
  <2>2. n.ok => n.reached = Stores
    <3>1. "redis" \in q.reached
      <4>1. op = "probe redis"
        BY <1>2, <1>9
      <4>2. "redis" \in Stores \ silent
        BY <1>1, <4>1 DEF Stores
      <4>3. QED
        BY <1>4, <4>2
    <3>2. q.ok => "postgres" \in q.reached
      BY <1>2, <1>3, <1>9 DEF Good, Honest
    <3>3. QED
      BY <1>3, <1>5, <3>1, <3>2 DEF Stores
  <2>3. Good(n)
    BY <1>5, <1>7, <2>1, <2>2 DEF Good, Honest
  <2>4. QED
    BY <1>5, <1>6, <2>1, <2>3, PlaceInv DEF q
<1>10. QED
  BY <1>2, <1>8, <1>9

LEMMA ProbeFailsInv ==
  ASSUME IInv, NEW r \in Requests, ProbeFails(r)
  PROVE  IInv'
<1> DEFINE q == req[r]
           m == After(q, FALSE)
           n == [m EXCEPT !.hindered = @ \/ ~TimedOut(r)]
<1>1. PICK op \in {"probe database", "probe redis"} : Doing(r, op)
  BY DEF ProbeFails, Reaches, TimedOut, Waiting
<1>2. /\ q.phase = "run" /\ q.route = "health" /\ q.at \in {1, 2}
      /\ Len(Script[q.route]) = 2
  BY <1>1, ProbingIsHealth
<1>3. Good(q) /\ q \in Request
  BY DEF IInv, Good
<1>4. TimedOut(r) => q.hindered
  <2>1. /\ silent # {} => q.hindered
        /\ NoneFree(r) => q.hindered
    BY <1>2 DEF IInv, Watching, Probing
  <2>2. Waiting(r) => silent # {} \/ NoneFree(r)
    BY DEF Waiting, AnswersTo
  <2>3. QED
    BY <2>1, <2>2 DEF TimedOut
<1>5. /\ m \in Request /\ m.route = q.route
      /\ m.ok = (q.ok /\ FALSE) /\ m.since = q.age /\ m.age = q.age
      /\ q.at = 1 => m.at = 2 /\ m.phase = "run"
      /\ q.at = 2 => m.phase = "close"
      /\ m.hindered = q.hindered
      /\ Placed(m)
  BY <1>2, <1>3, AfterProbe
<1>6. /\ Becomes(r, n) /\ UNCHANGED <<running, silent, row>>
      /\ taken' \in {taken, taken \ {r}}
  BY DEF ProbeFails, KeepsOrLoses
<1> HIDE DEF q, m
<1>7. /\ n \in Request /\ n.route = m.route /\ n.ok = m.ok /\ n.since = m.since
      /\ n.age = m.age /\ n.at = m.at /\ n.phase = m.phase
      /\ n.hindered = (m.hindered \/ ~TimedOut(r))
  BY <1>5 DEF Request
<1> HIDE DEF n
<1>8. n.hindered /\ n.ok = FALSE
  BY <1>4, <1>5, <1>7
<1>9. Aged(n)
  <2>1. CASE q.at = 1
    <3>1. q.age \in Nat /\ q.age <= ProbeTimeout
      BY <1>2, <1>3, <2>1, FirstProbe DEF Good, Running
    <3>2. n.age = q.age /\ n.since = n.age
      BY <1>5, <1>7
    <3>3. n.at = 2
      BY <1>5, <1>7, <2>1
    <3>4. QED
      BY <3>1, <3>2, <3>3, SecondProbe
  <2>2. CASE q.at = 2
    BY <1>5, <1>7, <2>2 DEF Aged, Running
  <2>3. QED
    BY <1>2, <2>1, <2>2
<1>10. Placed(n)
  BY <1>5, <1>7 DEF Placed
<1>11. Good(n)
  BY <1>7, <1>8, <1>9, <1>10 DEF Good, Honest
<1>12. PoolOK /\ row # r /\ n.phase # "idle"
  <2>1. row # r
    BY <1>2 DEF IInv, PoolOK, q
  <2>2. QED
    BY <1>2, <1>5, <1>7, <2>1 DEF IInv
<1>13. IsFiniteSet(taken') /\ Cardinality(taken') <= Limit
  BY <1>6, Released
<1>14. row' \in taken' \cup {NoOne, Elsewhere}
  BY <1>6, <1>12 DEF PoolOK
<1>15. QED
  BY <1>6, <1>11, <1>12, <1>13, <1>14, StepInv DEF PoolOK

LEMMA TickInv ==
  ASSUME IInv, Tick
  PROVE  IInv'
<1>1. /\ req' = [r \in Requests |-> IF Probing(r) THEN [req[r] EXCEPT !.age = @ + 1] ELSE req[r]]
      /\ UNCHANGED <<running, silent, taken, row>>
      /\ \A r \in Requests : Probing(r) => Waiting(r) /\ ~TimedOut(r)
  BY DEF Tick
<1>2. ASSUME NEW r \in Requests
      PROVE  /\ Good(req'[r]) /\ Watching(r)'
             /\ req'[r].phase = req[r].phase /\ req'[r].route = req[r].route
  <2>1. Good(req[r]) /\ Watching(r) /\ req[r] \in Request
    BY DEF IInv, Good
  <2>2. CASE ~Probing(r)
    <3>1. req'[r] = req[r]
      BY <1>1, <2>2
    <3>2. QED
      BY <1>1, <2>1, <3>1 DEF Watching, Probing, NoneFree
  <2>3. CASE Probing(r)
    <3> DEFINE q == req[r]
               n == [q EXCEPT !.age = q.age + 1]
    <3>1. req'[r] = n
      BY <1>1, <2>3
    <3>2. q.age \in Nat /\ q.since \in Nat
      BY <2>1 DEF Request, Times
    <3>3. q.age - q.since < ProbeTimeout
      BY <1>1, <2>3, <3>2 DEF TimedOut
    <3>4. /\ q.since <= q.age /\ q.since <= ProbeTimeout
          /\ q.at = 1 => q.since = 0
      BY <2>1, <2>3 DEF Good, Aged, Running, Probing
    <3>5. /\ q.age + 1 \in Times /\ q.since <= q.age + 1
          /\ q.age + 1 <= q.since + ProbeTimeout
      <4> DEFINE a == q.age
                 s == q.since
      <4>1. /\ a \in Nat /\ s \in Nat
            /\ a - s < ProbeTimeout /\ s <= a /\ s <= ProbeTimeout
        BY <3>2, <3>3, <3>4
      <4> HIDE DEF a, s
      <4>2. /\ a + 1 \in 0 .. 2 * ProbeTimeout /\ s <= a + 1
            /\ a + 1 <= s + ProbeTimeout
        BY <4>1
      <4>3. QED
        BY <4>2 DEF Times, a, s
    <3> HIDE DEF q
    <3>6. /\ n \in Request /\ n.route = q.route /\ n.at = q.at /\ n.phase = q.phase
          /\ n.ok = q.ok /\ n.age = q.age + 1 /\ n.since = q.since
          /\ n.reached = q.reached /\ n.hindered = q.hindered
      BY <2>1, <3>5 DEF Request, q
    <3> HIDE DEF n
    <3>7. Aged(n)
      BY <2>1, <3>4, <3>5, <3>6 DEF Aged, Good, Running, q
    <3>8. Placed(n) /\ Honest(n)
      BY <2>1, <3>6 DEF Placed, Honest, Good, q
    <3>9. QED
      BY <1>1, <2>1, <2>3, <3>1, <3>6, <3>7, <3>8 DEF Good, Watching, Probing, NoneFree, q
  <2>4. QED
    BY <2>2, <2>3
<1>3. req' \in [Requests -> Request]
  BY <1>1, <1>2 DEF Good
<1>4. PoolOK'
  BY <1>1, <1>2 DEF IInv, PoolOK, Busy
<1>5. QED
  BY <1>2, <1>3, <1>4 DEF IInv

LEMMA EnvironmentInv ==
  ASSUME IInv, StoreChanges \/ LockElsewhere \/ UnlockElsewhere \/ StartUp \/ ShutDown
               \/ Crash \/ UNCHANGED vars
  PROVE  IInv'
<1>1. CASE StoreChanges
  <2>1. /\ req' = [r \in Requests |-> Observed(r, req[r])] /\ UNCHANGED <<running, taken, row>>
        /\ silent' \subseteq Stores
    BY <1>1 DEF StoreChanges, IInv, PoolOK
  <2>2. \A p \in Requests : Good(req[p])
    BY DEF IInv
  <2>3. /\ req' \in [Requests -> Request]
        /\ \A p \in Requests :
             /\ Good(req'[p]) /\ Watching(p)'
             /\ req'[p].phase = req[p].phase /\ req'[p].route = req[p].route
    BY <2>1, <2>2, ObservedAll
  <2>4. PoolOK'
    BY <2>1, <2>3 DEF IInv, PoolOK, Busy
  <2>5. QED
    BY <2>3, <2>4 DEF IInv
<1>2. CASE LockElsewhere \/ UnlockElsewhere \/ StartUp \/ ShutDown \/ UNCHANGED vars
  <2>1. /\ UNCHANGED <<silent, taken, req>> /\ running' \in BOOLEAN
        /\ row' \in {row, NoOne, Elsewhere}
    BY <1>2 DEF LockElsewhere, UnlockElsewhere, StartUp, ShutDown, vars, IInv, PoolOK
  <2>2. PoolOK'
    BY <2>1 DEF IInv, PoolOK, Busy
  <2>3. QED
    BY <2>1, <2>2 DEF IInv, Watching, Probing, NoneFree
<1>3. CASE Crash
  <2>1. /\ taken' = {} /\ running' = FALSE /\ UNCHANGED silent
        /\ req' = [r \in Requests |-> Idle] /\ row' \in {NoOne, Elsewhere}
    BY <1>3 DEF Crash
  <2>2. IsFiniteSet(taken') /\ Cardinality(taken') <= Limit
    BY <2>1, FS_EmptySet
  <2>3. PoolOK'
    BY <2>1, <2>2 DEF IInv, PoolOK
  <2>4. \A r \in Requests : Good(req'[r]) /\ Watching(r)'
    BY <2>1, IdleGood DEF Watching, Probing, Idle
  <2>5. QED
    BY <2>1, <2>3, <2>4, IdleGood DEF IInv, Good
<1>4. QED
  BY <1>1, <1>2, <1>3

LEMMA NextInv == IInv /\ [Next]_vars => IInv'
<1> SUFFICES ASSUME IInv, [Next]_vars PROVE IInv'
  OBVIOUS
<1>1. ASSUME NEW r \in Requests,
             (\E route \in Routes[r] : Arrive(r, route)) \/ Step(r) \/ PoolTimeout(r)
      PROVE  IInv'
  BY <1>1, ArriveInv, CheckoutInv, CallsInv, WriteInv, CommitInv, ProbeSucceedsInv,
     ProbeFailsInv, CloseInv DEF Step
<1>2. QED
  BY <1>1, TickInv, EnvironmentInv DEF Next

LEMMA Inductive == Spec => []IInv
  BY InitInv, NextInv, PTL DEF Spec

-----------------------------------------------------------------------------
(* The row's lock. *)

(* No script writes twice. *)
LEMMA OneWrite ==
  ASSUME NEW route \in DOMAIN Script,
         NEW n \in 1 .. Len(Script[route]), Script[route][n] = "write",
         NEW m \in 1 .. Len(Script[route]), Script[route][m] = "write"
  PROVE  n = m
<1> DEFINE Only(s, k) == \A i \in 1 .. Len(s) : s[i] = "write" => i = k
<1>1. Only(Login, 4)
  BY DEF Login
<1>2. Only(Signup, 5)
  BY DEF Signup
<1>3. Only(Guard, 4)
  BY DEF Guard
<1>4. Only(Logout, 4)
  BY DEF Guard, Logout
<1>5. Only(ListUsers, 4) /\ Only(GetUser, 4)
  BY DEF Guard, ListUsers, GetUser
<1>6. Only(UpdateUser, 4)
  BY DEF Guard, UpdateUser
<1>7. Only(UpdateNothing, 4)
  BY DEF Guard, UpdateNothing
<1>8. Only(DeleteUser, 4)
  BY DEF Guard, DeleteUser
<1>9. Only(Health, 4)
  <2>1. Len(Health) = 2 /\ Health[1] # "write" /\ Health[2] # "write"
    BY Scripts, Zenon
  <2>2. \A i \in 1 .. 2 : Health[i] # "write"
    BY <2>1
  <2>3. QED
    BY <2>1, <2>2
<1> HIDE DEF Only
<1>10. Script[route] \in {Login, Signup, Guard, Logout, ListUsers, GetUser, UpdateUser,
                         UpdateNothing, DeleteUser, Health}
  BY DEF Script
<1>11. \E k : Only(Script[route], k)
  BY <1>1, <1>2, <1>3, <1>4, <1>5, <1>6, <1>7, <1>8, <1>9, <1>10, Zenon
<1>12. QED
  BY <1>11 DEF Only

(* No write lies ahead of q: whoever owns the lock has its own behind it. *)
Past(q) ==
  q.phase = "run" =>
    \A n \in 1 .. Len(Script[q.route]) : n >= q.at => Script[q.route][n] # "write"

OwnerPast == \A r \in Requests : row = r => Past(req[r])

OInv == IInv /\ OwnerPast

LEMMA ObservedPlace ==
  ASSUME NEW r, NEW q \in Request
  PROVE  /\ Observed(r, q).at = q.at /\ Observed(r, q).phase = q.phase
         /\ Observed(r, q).route = q.route
  BY DEF Observed, Request

LEMMA OwnerKept ==
  ASSUME OInv, NEW r \in Requests, NEW q, Becomes(r, q),
         \A p \in Requests \ {r} : row' = p => row = p,
         row' = r => q \in Request /\ Past(q)
  PROVE  OwnerPast'
<1>1. ASSUME NEW p \in Requests, row' = p PROVE Past(req'[p])
  <2>1. CASE p = r
    <3>1. req'[r] = Observed(r, q)
      BY DEF Becomes
    <3>2. QED
      BY <1>1, <2>1, <3>1, ObservedPlace DEF Past
  <2>2. CASE p # r
    <3>1. req'[p] = Observed(p, req[p]) /\ req[p] \in Request
      BY <2>2 DEF Becomes, OInv, IInv
    <3>2. QED
      BY <1>1, <2>2, <3>1, ObservedPlace DEF OInv, OwnerPast, Past
  <2>3. QED
    BY <2>1, <2>2
<1>2. QED
  BY <1>1 DEF OwnerPast, Past

(* After its write, or a later step, a request has no write ahead. *)
LEMMA AfterPast ==
  ASSUME NEW q, Good(q), q.phase = "run", NEW good \in BOOLEAN,
         Past(q) \/ Script[q.route][q.at] = "write"
  PROVE  After(q, good) \in Request /\ Past(After(q, good))
<1> DEFINE n == After(q, good)
           len == Len(Script[q.route])
<1>1. /\ n \in Request /\ n.route = q.route
      /\ n.at = (IF q.at = len THEN 0 ELSE q.at + 1)
      /\ n.phase = (IF q.at = len THEN "close" ELSE "run")
  BY AfterLocals
<1>2. q.route \in DOMAIN Script /\ q.at \in 1 .. len /\ len \in 1 .. 10
  BY Scripts DEF Good, Placed
<1> HIDE DEF n
<1>3. ASSUME n.phase = "run", NEW m \in 1 .. len, m >= n.at, Script[q.route][m] = "write"
      PROVE  FALSE
  <2>1. n.at = q.at + 1
    BY <1>1, <1>3
  <2>2. m \in 1 .. 10 /\ q.at \in 1 .. 10
    BY <1>2, <1>3, Within
  <2>3. m >= q.at /\ m # q.at
    BY <1>3, <2>1, <2>2
  <2>4. CASE Past(q)
    BY <1>3, <2>3, <2>4 DEF Past
  <2>5. CASE Script[q.route][q.at] = "write"
    BY <1>2, <1>3, <2>3, <2>5, OneWrite
  <2>6. QED
    BY <2>4, <2>5
<1>4. Past(n)
  BY <1>1, <1>3 DEF Past
<1>5. QED
  BY <1>1, <1>4 DEF n

LEMMA OwnerCalls ==
  ASSUME OInv, NEW r \in Requests, NEW op, Doing(r, op),
         op \notin {"probe database", "probe redis"}, row' = row,
         Becomes(r, After(req[r], TRUE)) \/ Becomes(r, Failed(req[r]))
  PROVE  OwnerPast'
<1>1. Good(req[r]) /\ req[r] \in Request /\ req[r].phase = "run" /\ req[r].route # "health"
  BY NotHealth DEF OInv, IInv, Good
<1>2. ASSUME row' = r
      PROVE  After(req[r], TRUE) \in Request /\ Past(After(req[r], TRUE))
  <2>1. Past(req[r])
    BY <1>2 DEF OInv, OwnerPast
  <2>2. QED
    BY <1>1, <2>1, AfterPast
<1>3. Failed(req[r]) \in Request /\ Past(Failed(req[r]))
  BY <1>1, FailedGood DEF Good, Past
<1>4. CASE Becomes(r, After(req[r], TRUE))
  BY <1>2, <1>4, OwnerKept
<1>5. CASE Becomes(r, Failed(req[r]))
  BY <1>3, <1>5, OwnerKept
<1>6. QED
  BY <1>4, <1>5

LEMMA OwnerWrites ==
  ASSUME OInv, NEW r \in Requests, Write(r)
  PROVE  OwnerPast'
<1>1. /\ Doing(r, "write") /\ Good(req[r]) /\ req[r].phase = "run"
      /\ Script[req[r].route][req[r].at] = "write"
  BY DEF Write, Reaches, Doing, OInv, IInv
<1>2. CASE UNCHANGED row
  BY <1>1, <1>2, OwnerCalls DEF Write
<1>3. CASE row = NoOne /\ row' = r /\ Becomes(r, After(req[r], TRUE))
  <2>1. After(req[r], TRUE) \in Request /\ Past(After(req[r], TRUE))
    BY <1>1, AfterPast
  <2>2. QED
    BY <1>3, <2>1, OwnerKept
<1>4. QED
  BY <1>2, <1>3 DEF Write

(* The other steps of a request leave the lock alone or give it up. *)
LEMMA OwnerSteps ==
  ASSUME OInv, NEW r \in Requests,
         \/ \E route \in Routes[r] : Arrive(r, route)
         \/ Checkout(r) \/ Commit(r) \/ Close(r) \/ ProbeSucceeds(r) \/ ProbeFails(r)
  PROVE  OwnerPast'
<1>1. IInv /\ PoolOK /\ req[r] \in Request
  BY DEF OInv, IInv
<1>2. CASE \E route \in Routes[r] : Arrive(r, route)
  <2>1. row' = row /\ row # r
    BY <1>1, <1>2 DEF Arrive, PoolOK
  <2>2. QED
    BY <1>2, <2>1, OwnerKept DEF Arrive
<1>3. CASE Checkout(r)
  <2>1. row' = row /\ Becomes(r, req[r])
    BY <1>3 DEF Checkout
  <2>2. QED
    BY <1>1, <2>1, OwnerKept DEF OInv, OwnerPast
<1>4. CASE Commit(r) \/ Close(r)
  <2>1. row' = Unlocked(r) /\ \E q : Becomes(r, q)
    BY <1>4 DEF Commit, Close
  <2>2. row' # r /\ \A p \in Requests \ {r} : row' = p => row = p
    BY <2>1 DEF Unlocked
  <2>3. QED
    BY <2>1, <2>2, OwnerKept
<1>5. CASE ProbeSucceeds(r) \/ ProbeFails(r)
  <2>1. PICK op \in {"probe database", "probe redis"} : Doing(r, op)
    BY <1>5 DEF ProbeSucceeds, ProbeFails, Reaches, TimedOut, Waiting
  <2>2. row # r
    BY <1>1, <2>1, ProbingIsHealth DEF PoolOK
  <2>3. row' = row /\ \E q : Becomes(r, q)
    BY <1>5 DEF ProbeSucceeds, ProbeFails
  <2>4. QED
    BY <2>2, <2>3, OwnerKept
<1>6. QED
  BY <1>2, <1>3, <1>4, <1>5

LEMMA OwnerInv == OInv /\ [Next]_vars => OInv'
<1> SUFFICES ASSUME OInv, [Next]_vars PROVE OInv'
  OBVIOUS
<1>1. IInv /\ IInv' /\ \A r \in Requests : req[r] \in Request
  BY NextInv DEF OInv, IInv
<1>2. ASSUME NEW r \in Requests,
             Select(r) \/ CallRedis(r) \/ CallCognito(r) \/ PoolTimeout(r)
      PROVE  OwnerPast'
  <2>1. CASE Select(r) \/ CallRedis(r) \/ CallCognito(r)
    BY <2>1, OwnerCalls DEF Select, CallRedis, CallCognito, Reaches
  <2>2. CASE PoolTimeout(r)
    <3>1. PICK op \in Statements \ {"probe database"} : Doing(r, op)
      BY <2>2 DEF PoolTimeout
    <3>2. op \notin {"probe database", "probe redis"}
      BY <3>1 DEF Statements
    <3>3. QED
      BY <2>2, <3>1, <3>2, OwnerCalls DEF PoolTimeout
  <2>3. QED
    BY <1>2, <2>1, <2>2
<1>3. ASSUME Tick \/ StoreChanges PROVE OwnerPast'
  <2>1. /\ row' = row
        /\ \A r \in Requests : /\ req'[r].at = req[r].at /\ req'[r].phase = req[r].phase
                               /\ req'[r].route = req[r].route
    BY <1>1, <1>3, ObservedPlace DEF Tick, StoreChanges, Request
  <2>2. QED
    BY <2>1 DEF OInv, OwnerPast, Past
<1>4. ASSUME LockElsewhere \/ UnlockElsewhere \/ StartUp \/ ShutDown \/ UNCHANGED vars
      PROVE  OwnerPast'
  BY <1>4 DEF LockElsewhere, UnlockElsewhere, StartUp, ShutDown, vars, OInv, OwnerPast, Past
<1>5. ASSUME Crash PROVE OwnerPast'
  BY <1>5 DEF Crash, OwnerPast, Past, Idle
<1>6. OwnerPast'
  BY <1>2, <1>3, <1>4, <1>5, OwnerWrites, OwnerSteps DEF Next, Step
<1>7. QED
  BY <1>1, <1>6 DEF OInv

LEMMA OwnerInductive == Spec => []OInv
<1>1. Init => OwnerPast
  BY DEF Init, OwnerPast, Past, Idle
<1>2. Init => OInv
  BY <1>1, InitInv DEF OInv
<1>3. QED
  BY <1>2, OwnerInv, PTL DEF Spec

-----------------------------------------------------------------------------
(* Theorems. *)

(* The pool never hands out more connections than it may open, no request  *)
(* that has ended keeps one (get_db's context manager closes it on every   *)
(* path), and whoever owns the row's lock has one; no probe and no pair of *)
(* probes takes longer than wait_for allows.                               *)
THEOREM WorkerTypeCorrect == Spec => []TypeOK
<1>1. IInv => TypeOK
  BY DEF IInv, PoolOK, TypeOK
<1>2. QED
  BY <1>1, Inductive, PTL

(* health_check answers 200 only if it saw both stores answer, and 503     *)
(* only if one was silent or refused, or others had all connections.       *)
THEOREM HealthIsHonest == Spec => []HealthHonest
<1>1. IInv => HealthHonest
  BY DEF IInv, Good, Honest, HealthHonest
<1>2. QED
  BY <1>1, Inductive, PTL

(* No deadlock through the pool: the owner of a row lock has a connection  *)
(* and its UPDATE behind it (get_db gives each request one session, and    *)
(* every route writes once), so it waits for no other request, and whoever *)
(* is waited for by those who want a connection waits at most for it.      *)
THEOREM ShortWaits == Spec => []WaitsAreShort
<1>1. OInv => WaitsAreShort
  <2>1. SUFFICES ASSUME OInv, NEW r \in Requests, NEW q \in Requests,
                        NEW p \in Requests, NEW o \in Requests,
                        WaitsFor(r, q), WaitsFor(q, p), WaitsFor(p, o)
                 PROVE  FALSE
    BY DEF WaitsAreShort
  <2>2. q \in taken /\ p \in taken
    BY <2>1 DEF WaitsFor, OInv, IInv, PoolOK
  <2>3. row = p /\ Doing(p, "write")
    BY <2>1, <2>2 DEF WaitsFor
  <2>4. Past(req[p]) /\ req[p].phase = "run" /\ Script[req[p].route][req[p].at] = "write"
    BY <2>1, <2>3 DEF Doing, OInv, OwnerPast
  <2>5. req[p].at \in 1 .. Len(Script[req[p].route]) /\ req[p].at \in 0 .. 10
    BY <2>1, <2>4 DEF OInv, IInv, Good, Placed, Request
  <2>6. req[p].at >= req[p].at
    BY <2>5
  <2>7. QED
    BY <2>4, <2>5, <2>6 DEF Past
<1>2. QED
  BY <1>1, OwnerInductive, PTL

=============================================================================
