------------------------ MODULE AccountsDirectoryProofs ------------------------
(***************************************************************************)
(* Proof, for all values of the constants, that Accounts implements        *)
(* Directory: every statement of a request maps to one step of Directory   *)
(* or to none.                                                             *)
(***************************************************************************)
EXTENDS AccountsDirectory, AccountsProofs

USE AdminsAssumption, ProfileAssumption, NoOneAssumption, NoRowAssumption

-----------------------------------------------------------------------------
(* What the mapping makes of a request. *)

LEMMA Orders ==
  ASSUME NEW q
  PROVE  /\ q.pc = "idle" => OrderOf(q) = D!NoOrder
         /\ q.kind = "login" /\ q.pc = "store" => OrderOf(q) = D!Token(q.target)
         /\ q.kind = "login" /\ q.pc \notin {"idle", "store"} =>
              OrderOf(q) = D!Login(q.who, q.gone)
         /\ q.kind # "login" /\ q.pc = "find" =>
              OrderOf(q) = D!Change(q.target, q.asked, q.write, FALSE)
         /\ q.kind # "login" /\ q.pc \notin {"idle", "find"} =>
              OrderOf(q) = D!Change(q.target, q.asked, q.write, TRUE)
<1>1. /\ q.pc = "find" => (q.pc # "find") = FALSE
      /\ q.pc # "find" => (q.pc # "find") = TRUE
  OBVIOUS
<1>2. q.kind # "login" /\ q.pc # "idle" =>
        OrderOf(q) = D!Change(q.target, q.asked, q.write, q.pc # "find")
  BY DEF OrderOf, D!Change
<1>3. QED
  BY <1>1, <1>2 DEF OrderOf, D!NoOrder, D!Token, D!Login

(* A request that is under way keeps its order as long as these stay. *)
LEMMA SameOrder ==
  ASSUME NEW p, NEW q, p.kind = q.kind, p.who = q.who, p.gone = q.gone,
         p.pc \notin {"idle", "store"}, q.pc \notin {"idle", "store"},
         q.kind # "login" => /\ p.pc # "find" /\ q.pc # "find"
                            /\ p.target = q.target /\ p.asked = q.asked
                            /\ p.write = q.write
  PROVE  OrderOf(p) = OrderOf(q)
<1>1. CASE q.kind = "login"
  BY <1>1, Orders
<1>2. CASE q.kind # "login"
  BY <1>2, Orders
<1>3. QED
  BY <1>1, <1>2

LEMMA IdleOrder == OrderOf(Idle) = D!NoOrder
BY Orders, IdleType

LEMMA Moves ==
  ASSUME NEW r \in Requests, Others(r)
  PROVE  /\ D!Becomes(r, OrderOf(req'[r]))
         /\ OrderOf(req'[r]) = OrderOf(req[r]) =>
              UNCHANGED [q \in Requests |-> OrderOf(req[q])]
<1>1. \A q \in Requests \ {r} : req'[q] = req[q]
  BY DEF Others
<1> HIDE DEF OrderOf
<1>2. QED
  BY <1>1 DEF D!Becomes

(* The rows are read in the same way. *)
LEMMA SameRows ==
  ASSUME NEW s
  PROVE  /\ D!Exists(s) <=> Exists(s)
         /\ D!Active(s) <=> Active(s)
         /\ D!Deleted(s) <=> Deleted(s)
BY DEF D!Exists, D!Active, D!Deleted, Exists, Active, Deleted

-----------------------------------------------------------------------------
(* What the mapping needs to know beside IInv. *)

(* A login works on a row with its own address, and adds none but its own; *)
(* a deletion keeps the column it is about.                                *)
Faithful(r) ==
  /\ req[r].kind = "login" /\ req[r].pc # "idle" =>
       Lower[EmailOf[req[r].target]] = Lower[EmailOf[req[r].who]]
  /\ req[r].new => req[r].target = req[r].who
  /\ req[r].kind = "delete" => "status" \in DOMAIN req[r].write

DInv == IInv /\ \A r \in Requests : Faithful(r)

LEMMA FaithfulIdle ==
  ASSUME NEW r \in Requests, req'[r] = Idle
  PROVE  Faithful(r)'
BY IdleType DEF Faithful

LEMMA FindByIdFaithful ==
  ASSUME DInv, NEW r \in Requests, FindById(r)
  PROVE  Faithful(r)'
<1>1. Known(r) /\ Faithful(r) /\ TypeOK /\ req[r].pc = "find" /\ req[r].kind # "login"
  BY DEF DInv, IInv, FindById
<1>2. CASE req'[r] = Idle
  BY <1>2, FaithfulIdle
<1>3. CASE req'[r] # Idle
  <2>1. PICK w \in Writes :
          /\ w = req[r].write \/ w = NetChange(req[r].write, db[req[r].target])
          /\ Changed(req'[r], r, IF DOMAIN w = {} THEN "commit" ELSE "write",
                     req[r].target, req[r].new, w)
    BY <1>1, <1>3, FindByIdMoves
  <2>2. Active(req[r].target)
    BY <1>1, <1>3, FindByIdMoves
  <2>3. ASSUME req[r].kind = "delete" PROVE "status" \in DOMAIN w
    <3>1. req[r].write = Deletion
      BY <1>1, <2>3 DEF Known, Allowed
    <3>2. Deletion["status"] # db[req[r].target]["status"]
      BY <2>2, DeletionType DEF Active
    <3>3. QED
      BY <2>1, <3>1, <3>2, DeletionType DEF NetChange
  <2>4. ~req[r].new
    BY <1>1 DEF Known, Shaped
  <2>5. QED
    BY <1>1, <2>1, <2>3, <2>4 DEF Faithful, Changed, Fields
<1>4. QED
  BY <1>2, <1>3

LEMMA FaithfulStep ==
  ASSUME DInv, NEW r \in Requests,
         \/ \E s \in Subs : StartLogin(r, s)
         \/ \E a, t \in Subs : \/ \E c \in Bodies : StartUpdate(r, a, t, c)
                               \/ StartDelete(r, a, t)
         \/ Step(r)
         \/ Abort(r)
  PROVE  Faithful(r)' /\ Others(r)
<1>1. Known(r) /\ Faithful(r) /\ TypeOK
  BY DEF DInv, IInv
<1>2. CASE \E s \in Subs : StartLogin(r, s)
  BY <1>1, <1>2, StartLoginMoves DEF Faithful, Fields
<1>3. CASE \E a, t \in Subs : \E c \in Bodies : StartUpdate(r, a, t, c)
  BY <1>1, <1>3, StartUpdateMoves DEF Faithful, Fields
<1>4. CASE \E a, t \in Subs : StartDelete(r, a, t)
  BY <1>1, <1>4, StartDeleteMoves, DeletionType DEF Faithful, Fields
<1>5. CASE FindByEmail(r)
  <2>1. ~req[r].new /\ req[r].kind = "login"
    BY <1>1, <1>5 DEF Known, Shaped, FindByEmail
  <2>2. QED
    BY <1>1, <1>5, <2>1, FindByEmailMoves DEF Faithful, Changed, Fields, ByEmail
<1>6. CASE NoUserFound(r)
  BY <1>1, <1>6, NoUserFoundMoves DEF Faithful, Changed, Fields, NoUserFound
<1>7. CASE CreateUser(r)
  BY <1>1, <1>7, CreateUserMoves DEF Faithful, Changed, Fields, CreateUser, Known, Shaped
<1>8. CASE Write(r)
  BY <1>1, <1>8, WriteMoves DEF Faithful, Changed, Fields, Write
<1>9. CASE DisableAccount(r)
  BY <1>1, <1>9, DisableAccountMoves, FaithfulIdle
  DEF Faithful, Changed, Fields, DisableAccount
<1>10. CASE Commit(r)
  BY <1>1, <1>10, CommitMoves, FaithfulIdle DEF Faithful, Changed, Fields, Commit
<1>11. CASE CreateConflict(r) \/ StoreToken(r) \/ Abort(r)
  BY <1>1, <1>11, EndMoves, FaithfulIdle
<1>12. CASE FindById(r)
  BY <1>1, <1>12, FindByIdMoves, FindByIdFaithful
<1>13. QED
  BY <1>2, <1>3, <1>4, <1>5, <1>6, <1>7, <1>8, <1>9, <1>10, <1>11, <1>12 DEF Step

LEMMA DInvNext == DInv /\ [Next]_vars => DInv'
<1> SUFFICES ASSUME DInv, [Next]_vars PROVE DInv'
  OBVIOUS
<1>1. IInv'
  BY NextInv DEF DInv
<1>2. CASE UNCHANGED vars
  BY <1>1, <1>2 DEF DInv, vars, Faithful
<1>3. CASE Next
  <2>1. PICK r \in Requests :
          \/ \E s \in Subs : StartLogin(r, s)
          \/ \E a, t \in Subs : \/ \E c \in Bodies : StartUpdate(r, a, t, c)
                                \/ StartDelete(r, a, t)
          \/ Step(r)
          \/ Abort(r)
    BY <1>3 DEF Next
  <2>2. Faithful(r)' /\ Others(r)
    BY <2>1, FaithfulStep
  <2>3. ASSUME NEW q \in Requests, q # r PROVE Faithful(q)'
    BY <2>2, <2>3 DEF DInv, Others, Faithful
  <2>4. QED
    BY <1>1, <2>2, <2>3 DEF DInv
<1>4. QED
  BY <1>2, <1>3

LEMMA DInductive == Spec => []DInv
<1>1. Init => DInv
  BY InitInv, IdleType DEF DInv, Init, Faithful
<1>2. QED
  BY <1>1, DInvNext, PTL DEF Spec
-----------------------------------------------------------------------------
(* Every statement is a step of Directory, or none. *)

AbstractStep == D!Next \/ UNCHANGED D!vars

LEMMA Unseen ==
  ASSUME NEW r \in Requests, Others(r), UNCHANGED <<db, disabled>>,
         req'[r].kind = req[r].kind, req'[r].who = req[r].who, req'[r].gone = req[r].gone,
         req'[r].pc \notin {"idle", "store"}, req[r].pc \notin {"idle", "store"},
         req[r].kind # "login" =>
           /\ req'[r].pc # "find" /\ req[r].pc # "find"
           /\ req'[r].target = req[r].target /\ req'[r].asked = req[r].asked
           /\ req'[r].write = req[r].write
  PROVE  AbstractStep
<1>1. OrderOf(req'[r]) = OrderOf(req[r])
  BY SameOrder
<1>2. QED
  BY <1>1, Moves DEF AbstractStep, D!vars

LEMMA Dropped ==
  ASSUME NEW r \in Requests, Others(r), req'[r] = Idle, UNCHANGED <<db, disabled>>
  PROVE  AbstractStep
<1>1. D!Becomes(r, D!NoOrder)
  BY Moves, IdleOrder
<1>2. D!Drop(r)
  BY <1>1 DEF D!Drop
<1>3. QED
  BY <1>2 DEF AbstractStep, D!Next

LEMMA StartLoginImplements ==
  ASSUME DInv, NEW r \in Requests, NEW s \in Subs, StartLogin(r, s)
  PROVE  AbstractStep
<1> DEFINE barred == {t \in Subs : Deleted(t)}
<1>1. /\ Others(r)
      /\ Fields(req'[r], "find", "login", s, s, FALSE, FALSE, Nothing, Nothing, barred)
  BY StartLoginMoves DEF DInv, IInv
<1>2. OrderOf(req[r]) = D!NoOrder /\ OrderOf(req'[r]) = D!Login(s, barred)
  BY <1>1, Orders DEF StartLogin, Fields
<1>3. D!Becomes(r, D!Login(s, barred))
  BY <1>1, <1>2, Moves
<1>4. {t \in Subs : D!Deleted(t)} = barred
  BY SameRows
<1>5. D!SignIn(r, s)
  BY <1>2, <1>3, <1>4 DEF D!SignIn, StartLogin
<1>6. QED
  BY <1>5 DEF AbstractStep, D!Next

(* All of an order is left of it, or all but what the row has already.     *)
LEMMA LeftOver ==
  ASSUME NEW t, NEW w \in Writes
  PROVE  /\ w \in D!Left(w, t)
         /\ Exists(t) => NetChange(w, db[t]) \in D!Left(w, t)
<1>1. w = [c \in DOMAIN w |-> w[c]]
  BY WritesDef
<1>2. w \in D!Left(w, t)
  BY <1>1 DEF D!Left
<1>3. ASSUME Exists(t) PROVE NetChange(w, db[t]) \in D!Left(w, t)
  <2> DEFINE K == {d \in DOMAIN w : w[d] # db[t][d]}
  <2>1. NetChange(w, db[t]) = [c \in K |-> w[c]]
    BY DEF NetChange
  <2>2. D!Exists(t)
    BY <1>3, SameRows
  <2>3. K \in SUBSET DOMAIN w /\ \A c \in DOMAIN w \ K : D!Exists(t) /\ w[c] = db[t][c]
    BY <2>2
  <2> HIDE DEF K
  <2>4. QED
    BY <2>1, <2>3 DEF D!Left
<1>4. QED
  BY <1>2, <1>3

(* What PATCH and DELETE ask for can be ordered. *)
LEMMA Ordered ==
  ASSUME NEW w \in Bodies \cup {Deletion}
  PROVE  w \in D!Orders
BY DEF D!Orders, Deletion

LEMMA PlaceImplements ==
  ASSUME NEW r \in Requests, NEW a \in Subs, NEW t \in Subs,
         NEW asked \in D!Orders, NEW w \in D!Left(asked, t),
         Others(r), req[r].pc = "idle", UNCHANGED <<db, disabled>>,
         OrderOf(req'[r]) = D!Change(t, asked, w, FALSE), Active(a),
         db[a].role = "admin" \/ (t = a /\ DOMAIN asked \subseteq ProfileColumns)
  PROVE  AbstractStep
<1>1. OrderOf(req[r]) = D!NoOrder /\ D!Becomes(r, D!Change(t, asked, w, FALSE))
  BY Orders, Moves
<1>2. D!Active(a) /\ D!ProfileColumns = ProfileColumns
  BY SameRows DEF D!ProfileColumns, ProfileColumns
<1>3. D!Place(r, a, t, asked)
  BY <1>1, <1>2 DEF D!Place
<1>4. QED
  BY <1>3 DEF AbstractStep, D!Next

LEMMA StartUpdateImplements ==
  ASSUME DInv, NEW r \in Requests, NEW a \in Subs, NEW t \in Subs,
         NEW change \in Bodies, StartUpdate(r, a, t, change)
  PROVE  AbstractStep
<1> DEFINE w == IF t = a THEN NetChange(change, db[a]) ELSE change
<1>1. change \in D!Orders /\ w \in D!Left(change, t)
  <2>1. Exists(a) /\ change \in Writes
    BY BodiesType DEF StartUpdate, Active
  <2>2. QED
    BY <2>1, Ordered, LeftOver
<1>2. Others(r)
  BY StartUpdateMoves DEF DInv, IInv
<1>3. req'[r] = [Idle EXCEPT !.pc = "find", !.kind = "update", !.who = a,
                   !.target = t, !.admin = db[a].role = "admin",
                   !.asked = change, !.write = w]
  BY DEF StartUpdate, DInv, IInv, TypeOK
<1> HIDE DEF w
<1>4. /\ req'[r].pc = "find" /\ req'[r].kind = "update"
      /\ req'[r].target = t /\ req'[r].asked = change /\ req'[r].write = w
  BY <1>3 DEF Idle
<1>5. OrderOf(req'[r]) = D!Change(t, change, w, FALSE)
  BY <1>4, Orders
<1>6. db[a].role = "admin" \/ (t = a /\ DOMAIN change \subseteq ProfileColumns)
  BY DEF StartUpdate, MayUpdate
<1>7. QED
  BY <1>1, <1>2, <1>5, <1>6, PlaceImplements DEF StartUpdate

LEMMA StartDeleteImplements ==
  ASSUME DInv, NEW r \in Requests, NEW a \in Subs, NEW t \in Subs, StartDelete(r, a, t)
  PROVE  AbstractStep
<1>1. /\ Others(r)
      /\ Fields(req'[r], "find", "delete", a, t, FALSE, TRUE, Deletion, Deletion, {})
  BY StartDeleteMoves DEF DInv, IInv
<1>2. OrderOf(req'[r]) = D!Change(t, Deletion, Deletion, FALSE)
  BY <1>1, Orders DEF Fields
<1>3. Deletion \in D!Orders /\ Deletion \in D!Left(Deletion, t)
  BY Ordered, LeftOver, DeletionType
<1>4. QED
  BY <1>1, <1>2, <1>3, PlaceImplements DEF StartDelete

LEMMA FindByIdImplements ==
  ASSUME DInv, NEW r \in Requests, FindById(r)
  PROVE  AbstractStep
<1> DEFINE t == req[r].target
           v == req[r].write
<1>1. /\ TypeOK /\ Others(r) /\ UNCHANGED <<db, disabled>>
      /\ req[r].pc = "find" /\ req[r].kind # "login" /\ v \in Writes
  BY FindByIdMoves DEF DInv, IInv, FindById, TypeOK, Request
<1>2. CASE req'[r] = Idle
  BY <1>1, <1>2, Dropped
<1>3. CASE req'[r] # Idle
  <2>1. PICK w \in Writes :
          /\ w = v \/ w = NetChange(v, db[t])
          /\ Changed(req'[r], r, IF DOMAIN w = {} THEN "commit" ELSE "write", t,
                     req[r].new, w)
    BY <1>1, <1>3, FindByIdMoves
  <2>2. D!Active(t)
    BY <1>1, <1>3, FindByIdMoves, SameRows
  <2>3. w \in D!Left(v, t)
    BY <1>1, <2>1, <2>2, SameRows, LeftOver DEF Active
  <2>4. /\ OrderOf(req[r]) = D!Change(t, req[r].asked, v, FALSE)
        /\ OrderOf(req'[r]) = D!Change(t, req[r].asked, w, TRUE)
    BY <1>1, <2>1, Orders DEF Changed, Fields
  <2>5. D!Becomes(r, D!Change(t, req[r].asked, w, TRUE))
    BY <1>1, <2>4, Moves
  <2>6. D!Find(r)
    <3> DEFINE o == [q \in Requests |-> OrderOf(req[q])][r]
    <3>1. /\ o.kind = "change" /\ ~o.found /\ o.target = t
          /\ o.asked = req[r].asked /\ o.values = v
      BY <2>4 DEF D!Change
    <3>2. D!Active(o.target) /\ w \in D!Left(o.values, o.target)
      BY <2>2, <2>3, <3>1
    <3>3. D!Becomes(r, D!Change(o.target, o.asked, w, TRUE))
      BY <2>5, <3>1
    <3>4. QED
      BY <1>1, <3>1, <3>2, <3>3 DEF D!Find
  <2>7. QED
    BY <2>6 DEF AbstractStep, D!Next
<1>4. QED
  BY <1>2, <1>3

LEMMA DisableAccountImplements ==
  ASSUME DInv, NEW r \in Requests, DisableAccount(r)
  PROVE  AbstractStep
<1> DEFINE o == [q \in Requests |-> OrderOf(req[q])][r]
<1>1. /\ Others(r) /\ req[r].pc = "disable" /\ req[r].kind = "delete"
      /\ "status" \in DOMAIN req[r].write
      /\ disabled' = disabled \cup {req[r].target} /\ db' = db
  BY DisableAccountMoves DEF DInv, IInv, DisableAccount, Known, Shaped, Faithful
<1>2. /\ o.kind = "change" /\ o.found /\ o.target = req[r].target
      /\ o.values = req[r].write
  BY <1>1, Orders DEF D!Change
<1>3. UNCHANGED [q \in Requests |-> OrderOf(req[q])] \/ D!Becomes(r, D!NoOrder)
  <2>1. CASE req'[r] = Idle
    BY <1>1, <2>1, Moves, IdleOrder
  <2>2. CASE Changed(req'[r], r, "commit", req[r].target, req[r].new, req[r].write)
    <3>1. OrderOf(req'[r]) = OrderOf(req[r])
      BY <1>1, <2>2, SameOrder DEF Changed, Fields
    <3>2. QED
      BY <1>1, <3>1, Moves
  <2>3. QED
    BY <2>1, <2>2, DisableAccountMoves DEF DInv, IInv
<1>4. D!Disable(r)
  BY <1>1, <1>2, <1>3 DEF D!Disable
<1>5. QED
  BY <1>4 DEF AbstractStep, D!Next

(* The commit of a login that inserts its row. *)
LEMMA CommitRegisters ==
  ASSUME DInv, NEW r \in Requests, Commit(r), req[r].new
  PROVE  AbstractStep
<1> DEFINE o == [q \in Requests |-> OrderOf(req[q])][r]
           s == req[r].who
<1>1. /\ Others(r) /\ req[r].pc = "commit" /\ req[r].kind = "login"
      /\ req[r].target = s /\ s \in Subs /\ disabled' = disabled
  BY CommitMoves DEF DInv, IInv, Commit, Known, Shaped, Faithful
<1>2. o.kind = "login" /\ o.who = s
  <2>1. OrderOf(req[r]) = D!Login(s, req[r].gone)
    BY <1>1, Orders
  <2>2. QED
    BY <2>1 DEF D!Login
<1>3. db' = [db EXCEPT ![s] = D!NewRow]
  BY <1>1 DEF Commit, NewRow, D!NewRow
<1>4. \A t \in {t \in Subs : SameKey(s, t)} : ~D!Exists(t)
  BY <1>1, SameRows DEF DInv, IInv, InsertsApart
<1>5. D!Becomes(r, D!Token(s)) \/ D!Becomes(r, D!NoOrder)
  <2>1. CASE req'[r] = Idle
    BY <1>1, <2>1, Moves, IdleOrder
  <2>2. CASE Changed(req'[r], r, "store", req[r].target, FALSE, req[r].write)
    <3>1. OrderOf(req'[r]) = D!Token(s)
      BY <1>1, <2>2, Orders DEF Changed, Fields
    <3>2. QED
      BY <1>1, <3>1, Moves
  <2>3. QED
    BY <2>1, <2>2, CommitMoves DEF DInv, IInv
<1>6. D!Register(r)
  <2>1. \A t \in [u \in Subs |-> {t \in Subs : SameKey(u, t)}][o.who] : ~D!Exists(t)
    BY <1>1, <1>2, <1>4
  <2>2. db' = [db EXCEPT ![o.who] = D!NewRow]
    BY <1>2, <1>3
  <2>3. D!Becomes(r, D!Token(o.who)) \/ D!Becomes(r, D!NoOrder)
    BY <1>2, <1>5
  <2>4. QED
    BY <1>1, <1>2, <2>1, <2>2, <2>3 DEF D!Register
<1>7. QED
  BY <1>6 DEF AbstractStep, D!Next

(* The commit of a login that found its row: the row stays what it is. *)
LEMMA CommitRecognises ==
  ASSUME DInv, NEW r \in Requests, Commit(r), ~req[r].new, req[r].kind = "login"
  PROVE  AbstractStep
<1> DEFINE o == [q \in Requests |-> OrderOf(req[q])][r]
           s == req[r].who
           t == req[r].target
<1>1. /\ Others(r) /\ req[r].pc = "commit" /\ s \in Subs /\ t \in Subs
      /\ disabled' = disabled /\ Lower[EmailOf[t]] = Lower[EmailOf[s]]
      /\ t \notin req[r].gone /\ DOMAIN req[r].write = {} /\ Exists(t)
  BY CommitMoves
  DEF DInv, IInv, Commit, Known, Shaped, Allowed, Found, Fresh, Faithful
<1>2. db' = db
  <2>1. /\ db \in [Subs -> Row \cup {NoRow}] /\ db' \in [Subs -> Row \cup {NoRow}]
        /\ \A u \in Subs \ {t} : db'[u] = db[u]
        /\ db[t] \in Row /\ db'[t] = Updated(db[t], req[r].write)
    BY CommitRows DEF DInv, IInv, TypeOK
  <2>2. Updated(db[t], req[r].write) = [c \in Columns |-> db[t][c]]
    BY <1>1 DEF Updated
  <2>3. db[t] = [c \in Columns |-> db[t][c]]
    BY <2>1 DEF Row, Columns, ProfileColumns
  <2>4. QED
    BY <2>1, <2>2, <2>3
<1>3. CASE req'[r] = Idle
  BY <1>1, <1>2, <1>3, Dropped
<1>4. CASE Changed(req'[r], r, "store", t, FALSE, req[r].write)
  <2>1. OrderOf(req'[r]) = D!Token(t)
    BY <1>4, Orders DEF Changed, Fields
  <2>2. D!Becomes(r, D!Token(t))
    BY <1>1, <2>1, Moves
  <2>3. o.kind = "login" /\ o.who = s /\ o.barred = req[r].gone
    <3>1. OrderOf(req[r]) = D!Login(s, req[r].gone)
      BY <1>1, Orders
    <3>2. QED
      BY <3>1 DEF D!Login
  <2>4. t \in [u \in Subs |-> {v \in Subs : Lower[EmailOf[v]] = Lower[EmailOf[u]]}][o.who]
    BY <1>1, <2>3
  <2>5. D!Recognise(r, t)
    BY <1>1, <1>2, <2>2, <2>3, <2>4, SameRows DEF D!Recognise
  <2>6. QED
    BY <1>1, <2>5 DEF AbstractStep, D!Next
<1>5. QED
  BY <1>3, <1>4, CommitMoves DEF DInv, IInv

(* The commit of an UPDATE or a soft delete. *)
LEMMA CommitApplies ==
  ASSUME DInv, NEW r \in Requests, Commit(r), req[r].kind # "login"
  PROVE  AbstractStep
<1> DEFINE o == [q \in Requests |-> OrderOf(req[q])][r]
           t == req[r].target
           w == req[r].write
<1>1. /\ Others(r) /\ req[r].pc = "commit" /\ t \in Subs /\ req'[r] = Idle
      /\ disabled' = disabled /\ Exists(t) /\ ~req[r].new
      /\ req[r].kind \in {"update", "delete"}
  BY CommitMoves DEF DInv, IInv, TypeOK, Request, Commit, Known, Shaped, Found
<1>2. o.kind = "change" /\ o.found /\ o.target = t /\ o.values = w
  BY <1>1, Orders DEF D!Change
<1>3. "status" \in DOMAIN w => t \in disabled
  BY <1>1 DEF DInv, IInv, Known, Allowed, Names, DisabledFirst
<1>4. db' = [db EXCEPT ![t] = [c \in D!Columns |-> IF c \in DOMAIN w THEN w[c]
                                                                  ELSE @[c]]]
  BY <1>1 DEF Commit, Updated, Columns, ProfileColumns, D!Columns, D!ProfileColumns
<1>5. D!Becomes(r, D!NoOrder)
  BY <1>1, Moves, IdleOrder
<1>6. D!Apply(r)
  <2>1. db' = [db EXCEPT ![o.target] =
                 [c \in D!Columns |-> IF c \in DOMAIN o.values THEN o.values[c]
                                                             ELSE @[c]]]
    BY <1>2, <1>4
  <2>2. D!Exists(o.target) /\ ("status" \in DOMAIN o.values => o.target \in disabled)
    BY <1>1, <1>2, <1>3, SameRows
  <2>3. QED
    BY <1>1, <1>2, <1>5, <2>1, <2>2 DEF D!Apply
<1>7. QED
  BY <1>6 DEF AbstractStep, D!Next

(* The other statements of a login, and the UPDATE before its commit,      *)
(* change nothing that Directory speaks of.                                *)
LEMMA QuietImplements ==
  ASSUME DInv, NEW r \in Requests,
         FindByEmail(r) \/ NoUserFound(r) \/ CreateUser(r) \/ Write(r)
  PROVE  AbstractStep
<1>1. Known(r) /\ TypeOK /\ UNCHANGED <<db, disabled>>
  BY DEF DInv, IInv, FindByEmail, NoUserFound, CreateUser, Write
<1>2. CASE FindByEmail(r) \/ NoUserFound(r)
  <2>1. /\ Others(r) /\ req'[r].pc \in {"write", "insert"}
        /\ req'[r].kind = req[r].kind /\ req'[r].who = req[r].who
        /\ req'[r].gone = req[r].gone
    BY <1>1, <1>2, FindByEmailMoves, NoUserFoundMoves DEF Changed, Fields
  <2>2. req[r].pc = "find" /\ req[r].kind = "login"
    BY <1>2 DEF FindByEmail, NoUserFound
  <2>3. QED
    BY <1>1, <2>1, <2>2, Unseen
<1>3. CASE CreateUser(r) \/ Write(r)
  <2>1. /\ Others(r) /\ req'[r].pc \in {"write", "disable", "commit"}
        /\ req'[r].kind = req[r].kind /\ req'[r].who = req[r].who
        /\ req'[r].gone = req[r].gone
        /\ req'[r].target = req[r].target /\ req'[r].asked = req[r].asked
        /\ req'[r].write = req[r].write
    BY <1>1, <1>3, CreateUserMoves, WriteMoves DEF Changed, Fields
  <2>2. req[r].pc \in {"insert", "write"}
    BY <1>3 DEF CreateUser, Write
  <2>3. QED
    BY <1>1, <2>1, <2>2, Unseen
<1>4. QED
  BY <1>2, <1>3

LEMMA NextImplements == DInv /\ [Next]_vars => [D!Next]_(D!vars)
<1> SUFFICES ASSUME DInv, [Next]_vars PROVE AbstractStep
  BY DEF AbstractStep
<1>1. ASSUME NEW r \in Requests, Step(r) PROVE AbstractStep
  <2>1. CASE Commit(r)
    BY <2>1, CommitRegisters, CommitRecognises, CommitApplies
  <2>2. CASE CreateConflict(r) \/ StoreToken(r)
    BY <2>2, EndMoves, Dropped DEF DInv, IInv, CreateConflict, StoreToken
  <2>3. QED
    BY <1>1, <2>1, <2>2, QuietImplements, FindByIdImplements, DisableAccountImplements
    DEF Step
<1>2. ASSUME NEW r \in Requests, Abort(r) PROVE AbstractStep
  BY <1>2, EndMoves, Dropped DEF DInv, IInv, Abort
<1>3. CASE UNCHANGED vars
  BY <1>3 DEF vars, AbstractStep, D!vars
<1>4. QED
  BY <1>1, <1>2, <1>3, StartLoginImplements, StartUpdateImplements,
     StartDeleteImplements
  DEF Next

(* Accounts implements Directory: each statement, call and failure of a    *)
(* request is one step on its order or none, and each change of the users  *)
(* table carries out, in one step, all columns of one order but those that *)
(* had the value already when the request looked, and no other.  The steps *)
(* that need an invariant are the commits: the row of an INSERT has no     *)
(* rival, the row of an UPDATE was found and is there, a deletion's        *)
(* account is disabled.                                                    *)
THEOREM DirectoryImplemented == Spec => ImplementsDirectory
<1>1. Init => D!Init
  <2>1. SUFFICES ASSUME Init PROVE D!Init
    OBVIOUS
  <2>2. \A r \in Requests : OrderOf(req[r]) = D!NoOrder
    BY <2>1, IdleOrder DEF Init
  <2>3. [r \in Requests |-> OrderOf(req[r])] = [r \in Requests |-> D!NoOrder]
    BY <2>2
  <2>4. [D!NewRow EXCEPT !.role = "admin"]
        = [role |-> "admin", name |-> NoProfile, phone |-> NoProfile, status |-> "active"]
    BY DEF D!NewRow
  <2>5. QED
    BY <2>1, <2>3, <2>4 DEF Init, D!Init
<1>2. QED
  BY <1>1, NextImplements, DInductive, PTL DEF Spec, ImplementsDirectory, D!Spec
=============================================================================
