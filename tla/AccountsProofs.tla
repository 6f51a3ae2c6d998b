---------------------------- MODULE AccountsProofs ----------------------------
(***************************************************************************)
(* Proofs about Accounts, for all values of its constants.                 *)
(***************************************************************************)
EXTENDS Accounts, TLAPS

USE AdminsAssumption, ProfileAssumption, BodiesAssumption, NoOneAssumption, NoRowAssumption

-----------------------------------------------------------------------------
(* Rows and the columns that an UPDATE names. *)

LEMMA WritesDef ==
  ASSUME NEW w
  PROVE  w \in Writes <=>
           \E C \in SUBSET Columns :
             /\ w \in [C -> Roles \cup Profiles \cup Statuses]
             /\ \A c \in C : w[c] \in ValuesOf(c)
  BY DEF Writes

LEMMA WriteColumns ==
  ASSUME NEW w \in Writes
  PROVE  /\ DOMAIN w \subseteq Columns
         /\ \A c \in DOMAIN w : w[c] \in ValuesOf(c)
  BY WritesDef

LEMMA Values ==
  /\ ValuesOf("role") = Roles
  /\ \A c \in ProfileColumns : ValuesOf(c) = Profiles
  /\ ValuesOf("status") = Statuses
  BY DEF ValuesOf, ProfileColumns

LEMMA UpdatedType ==
  ASSUME NEW row \in Row, NEW w \in Writes
  PROVE  Updated(row, w) \in Row
<1>1. row \in [role : Roles, name : Profiles, phone : Profiles, status : Statuses]
  BY DEF Row
<1>2. /\ Updated(row, w)["role"] \in Roles
      /\ Updated(row, w)["name"] \in Profiles /\ Updated(row, w)["phone"] \in Profiles
      /\ Updated(row, w)["status"] \in Statuses
  BY <1>1, WriteColumns, Values DEF Updated, Columns, ProfileColumns
<1>3. Updated(row, w) = [role |-> Updated(row, w)["role"],
                         name |-> Updated(row, w)["name"],
                         phone |-> Updated(row, w)["phone"],
                         status |-> Updated(row, w)["status"]]
  BY DEF Updated, Columns, ProfileColumns
<1>4. QED
  BY <1>2, <1>3 DEF Row

LEMMA NetChangeType ==
  ASSUME NEW w \in Writes, NEW row
  PROVE  /\ NetChange(w, row) \in Writes
         /\ DOMAIN NetChange(w, row) \subseteq DOMAIN w
         /\ \A c \in DOMAIN NetChange(w, row) : NetChange(w, row)[c] = w[c]
<1> DEFINE D == {d \in DOMAIN w : w[d] # row[d]}
<1>1. DOMAIN NetChange(w, row) = D /\ \A c \in D : NetChange(w, row)[c] = w[c]
  BY DEF NetChange
<1>2. D \in SUBSET Columns /\ \A c \in D : w[c] \in ValuesOf(c)
  BY WriteColumns
<1>3. \A c \in D : w[c] \in Roles \cup Profiles \cup Statuses
  BY <1>2, Values DEF Columns
<1>4. NetChange(w, row) \in [D -> Roles \cup Profiles \cup Statuses]
  BY <1>3 DEF NetChange
<1>5. QED
  BY <1>1, <1>2, <1>4, WritesDef

LEMMA NothingType == Nothing \in Writes /\ DOMAIN Nothing = {}
  BY WritesDef DEF Nothing

LEMMA DeletionType ==
  /\ Deletion \in Writes
  /\ DOMAIN Deletion = {"status"} /\ Deletion["status"] = "deleted"
<1>1. DOMAIN Deletion = {"status"} /\ Deletion["status"] = "deleted"
  BY DEF Deletion
<1>2. Deletion \in [{"status"} -> Roles \cup Profiles \cup Statuses]
  BY DEF Deletion, Statuses
<1>3. \A c \in {"status"} : Deletion[c] \in ValuesOf(c)
  BY <1>1, Values DEF Statuses
<1>4. QED
  BY <1>1, <1>2, <1>3, WritesDef DEF Columns

LEMMA BodiesType ==
  ASSUME NEW change \in Bodies
  PROVE  change \in Writes /\ "status" \notin DOMAIN change
  BY DEF Changes

LEMMA RowType ==
  /\ NewRow \in Row /\ NewRow.status = "active"
  /\ \A row \in Row :
       row \in [role : Roles, name : Profiles, phone : Profiles, status : Statuses]
  /\ [role |-> "admin", name |-> NoProfile, phone |-> NoProfile, status |-> "active"] \in Row
  BY DEF NewRow, Row, Roles, Statuses

LEMMA IdleType ==
  /\ Idle \in Request
  /\ Idle.pc = "idle" /\ Idle.kind = "none" /\ Idle.new = FALSE
  /\ Idle.write = Nothing /\ Idle.asked = Nothing /\ Idle.gone = {}
  BY NothingType DEF Idle, Request

-----------------------------------------------------------------------------
(* What a step does to the local state of the requests. *)

(* Request r moves, the others stay. *)
Others(r) ==
  /\ req' \in [Requests -> Request]
  /\ \A q \in Requests \ {r} : req'[q] = req[q]

(* q is a local state with these values. *)
Fields(q, pc, kind, who, target, new, admin, write, asked, gone) ==
  /\ q.pc = pc /\ q.kind = kind /\ q.who = who /\ q.target = target
  /\ q.new = new /\ q.admin = admin /\ q.write = write
  /\ q.asked = asked /\ q.gone = gone

(* q is r's local state but for these values. *)
Changed(q, r, pc, target, new, write) ==
  Fields(q, pc, req[r].kind, req[r].who, target, new, req[r].admin, write,
         req[r].asked, req[r].gone)

LEMMA ReplaceOne ==
  ASSUME TypeOK, NEW r \in Requests, NEW next \in Request,
         req' = [req EXCEPT ![r] = next]
  PROVE  Others(r) /\ req'[r] = next
  BY DEF TypeOK, Others

LEMMA StartLoginMoves ==
  ASSUME TypeOK, NEW r \in Requests, NEW s \in Subs, StartLogin(r, s)
  PROVE  /\ Others(r)
         /\ Fields(req'[r], "find", "login", s, s, FALSE, FALSE, Nothing, Nothing,
                   {t \in Subs : Deleted(t)})
<1> DEFINE next == [Idle EXCEPT !.pc = "find", !.kind = "login", !.who = s,
                                !.target = s, !.gone = {t \in Subs : Deleted(t)}]
<1>1. /\ next \in Request
      /\ Fields(next, "find", "login", s, s, FALSE, FALSE, Nothing, Nothing,
                {t \in Subs : Deleted(t)})
  BY NothingType DEF Idle, Request, Fields
<1>2. req' = [req EXCEPT ![r] = next]
  BY DEF StartLogin
<1> HIDE DEF next
<1>3. QED
  BY <1>1, <1>2, ReplaceOne

LEMMA FindByEmailMoves ==
  ASSUME TypeOK, NEW r \in Requests, FindByEmail(r)
  PROVE  /\ Others(r)
         /\ \E t \in ByEmail(req[r].who) :
              Changed(req'[r], r, "write", t, req[r].new, req[r].write)
<1>1. PICK t \in ByEmail(req[r].who) :
        req' = [req EXCEPT ![r].pc = "write", ![r].target = t]
  BY DEF FindByEmail
<1> DEFINE next == [req[r] EXCEPT !.pc = "write", !.target = t]
<1>2. req[r] \in Request /\ t \in Subs
  BY <1>1 DEF TypeOK, ByEmail
<1>3. next \in Request /\ Changed(next, r, "write", t, req[r].new, req[r].write)
  BY <1>2 DEF Request, Changed, Fields
<1>4. req' = [req EXCEPT ![r] = next]
  BY <1>1 DEF TypeOK
<1> HIDE DEF next
<1>5. QED
  BY <1>1, <1>3, <1>4, ReplaceOne

LEMMA NoUserFoundMoves ==
  ASSUME TypeOK, NEW r \in Requests, NoUserFound(r)
  PROVE  /\ Others(r)
         /\ Changed(req'[r], r, "insert", req[r].target, req[r].new, req[r].write)
<1> DEFINE next == [req[r] EXCEPT !.pc = "insert"]
<1>1. req[r] \in Request
  BY DEF TypeOK
<1>2. /\ next \in Request
      /\ Changed(next, r, "insert", req[r].target, req[r].new, req[r].write)
  BY <1>1 DEF Request, Changed, Fields
<1>3. req' = [req EXCEPT ![r] = next]
  BY DEF NoUserFound, TypeOK
<1> HIDE DEF next
<1>4. QED
  BY <1>2, <1>3, ReplaceOne

LEMMA CreateUserMoves ==
  ASSUME TypeOK, NEW r \in Requests, CreateUser(r)
  PROVE  /\ Others(r)
         /\ Changed(req'[r], r, "write", req[r].target, TRUE, req[r].write)
<1> DEFINE next == [req[r] EXCEPT !.pc = "write", !.new = TRUE]
<1>1. req[r] \in Request
  BY DEF TypeOK
<1>2. next \in Request /\ Changed(next, r, "write", req[r].target, TRUE, req[r].write)
  BY <1>1 DEF Request, Changed, Fields
<1>3. req' = [req EXCEPT ![r] = next]
  BY DEF CreateUser, TypeOK
<1> HIDE DEF next
<1>4. QED
  BY <1>2, <1>3, ReplaceOne

LEMMA StartUpdateMoves ==
  ASSUME TypeOK, NEW r \in Requests, NEW a \in Subs, NEW t \in Subs,
         NEW change \in Bodies, StartUpdate(r, a, t, change)
  PROVE  /\ Others(r)
         /\ \E w \in Writes :
              /\ DOMAIN w \subseteq DOMAIN change /\ \A c \in DOMAIN w : w[c] = change[c]
              /\ Fields(req'[r], "find", "update", a, t, FALSE,
                        db[a].role = "admin", w, change, {})
<1> DEFINE w == IF t = a THEN NetChange(change, db[a]) ELSE change
           next == [Idle EXCEPT !.pc = "find", !.kind = "update", !.who = a,
                      !.target = t, !.admin = db[a].role = "admin",
                      !.asked = change, !.write = w]
<1>1. /\ w \in Writes /\ change \in Writes
      /\ DOMAIN w \subseteq DOMAIN change /\ \A c \in DOMAIN w : w[c] = change[c]
  BY BodiesType, NetChangeType
<1>2. req' = [req EXCEPT ![r] = next]
  BY DEF StartUpdate
<1> HIDE DEF w
<1>3. /\ next \in Request
      /\ Fields(next, "find", "update", a, t, FALSE,
                db[a].role = "admin", w, change, {})
  BY <1>1 DEF Idle, Request, Fields
<1> HIDE DEF next
<1>4. QED
  BY <1>1, <1>2, <1>3, ReplaceOne

LEMMA StartDeleteMoves ==
  ASSUME TypeOK, NEW r \in Requests, NEW a \in Subs, NEW t \in Subs,
         StartDelete(r, a, t)
  PROVE  /\ Others(r)
         /\ Fields(req'[r], "find", "delete", a, t, FALSE, TRUE, Deletion,
                   Deletion, {})
<1> DEFINE next == [Idle EXCEPT !.pc = "find", !.kind = "delete", !.who = a,
                      !.target = t, !.admin = TRUE,
                      !.asked = Deletion, !.write = Deletion]
<1>1. req' = [req EXCEPT ![r] = next]
  BY DEF StartDelete
<1>2. /\ next \in Request
      /\ Fields(next, "find", "delete", a, t, FALSE, TRUE, Deletion, Deletion, {})
  BY DeletionType DEF Idle, Request, Fields, Columns
<1> HIDE DEF next
<1>3. QED
  BY <1>1, <1>2, ReplaceOne

LEMMA FindByIdMoves ==
  ASSUME TypeOK, NEW r \in Requests, FindById(r)
  PROVE  /\ Others(r)
         /\ \/ req'[r] = Idle
            \/ /\ Active(req[r].target)
               /\ \E w \in Writes :
                    /\ w = req[r].write \/ w = NetChange(req[r].write, db[req[r].target])
                    /\ DOMAIN w \subseteq DOMAIN req[r].write
                    /\ \A c \in DOMAIN w : w[c] = req[r].write[c]
                    /\ Changed(req'[r], r, IF DOMAIN w = {} THEN "commit" ELSE "write",
                               req[r].target, req[r].new, w)
<1> DEFINE w == IF req[r].target = req[r].who THEN req[r].write
                ELSE NetChange(req[r].write, db[req[r].target])
           next == [req[r] EXCEPT !.pc = IF DOMAIN w = {} THEN "commit" ELSE "write",
                                  !.write = w]
<1>1. req[r] \in Request /\ req[r].write \in Writes
  BY DEF TypeOK, Request
<1>2. /\ w \in Writes /\ DOMAIN w \subseteq DOMAIN req[r].write
      /\ \A c \in DOMAIN w : w[c] = req[r].write[c]
      /\ w = req[r].write \/ w = NetChange(req[r].write, db[req[r].target])
  BY <1>1, NetChangeType
<1>3. \/ Active(req[r].target) /\ req' = [req EXCEPT ![r] = next]
      \/ req' = [req EXCEPT ![r] = Idle]
  BY DEF FindById, TypeOK
<1> HIDE DEF w
<1>4. /\ next \in Request
      /\ Changed(next, r, IF DOMAIN w = {} THEN "commit" ELSE "write",
                 req[r].target, req[r].new, w)
  BY <1>1, <1>2 DEF Request, Changed, Fields
<1> HIDE DEF next
<1>5. CASE Active(req[r].target) /\ req' = [req EXCEPT ![r] = next]
  BY <1>2, <1>4, <1>5, ReplaceOne
<1>6. CASE req' = [req EXCEPT ![r] = Idle]
  BY <1>6, IdleType, ReplaceOne
<1>7. QED
  BY <1>3, <1>5, <1>6

LEMMA WriteMoves ==
  ASSUME TypeOK, NEW r \in Requests, Write(r)
  PROVE  /\ Others(r)
         /\ Changed(req'[r], r, IF req[r].kind = "delete" THEN "disable" ELSE "commit",
                    req[r].target, req[r].new, req[r].write)
<1> DEFINE next == [req[r] EXCEPT !.pc = IF req[r].kind = "delete" THEN "disable"
                                                                  ELSE "commit"]
<1>1. req[r] \in Request
  BY DEF TypeOK
<1>2. /\ next \in Request
      /\ Changed(next, r, IF req[r].kind = "delete" THEN "disable" ELSE "commit",
                 req[r].target, req[r].new, req[r].write)
  BY <1>1 DEF Request, Changed, Fields
<1>3. req' = [req EXCEPT ![r] = next]
  BY DEF Write, TypeOK
<1> HIDE DEF next
<1>4. QED
  BY <1>2, <1>3, ReplaceOne

LEMMA DisableAccountMoves ==
  ASSUME TypeOK, NEW r \in Requests, DisableAccount(r)
  PROVE  /\ Others(r)
         /\ \/ req'[r] = Idle
            \/ Changed(req'[r], r, "commit", req[r].target, req[r].new, req[r].write)
<1> DEFINE next == [req[r] EXCEPT !.pc = "commit"]
<1>1. req[r] \in Request
  BY DEF TypeOK
<1>2. /\ next \in Request
      /\ Changed(next, r, "commit", req[r].target, req[r].new, req[r].write)
  BY <1>1 DEF Request, Changed, Fields
<1>3. req' = [req EXCEPT ![r] = next] \/ req' = [req EXCEPT ![r] = Idle]
  BY DEF DisableAccount, TypeOK
<1> HIDE DEF next
<1>4. QED
  BY <1>2, <1>3, IdleType, ReplaceOne

LEMMA CommitMoves ==
  ASSUME TypeOK, NEW r \in Requests, Commit(r)
  PROVE  /\ Others(r)
         /\ \/ req'[r] = Idle
            \/ /\ req[r].kind = "login"
               /\ Changed(req'[r], r, "store", req[r].target, FALSE, req[r].write)
<1> DEFINE next == [req[r] EXCEPT !.pc = "store", !.new = FALSE]
<1>1. req[r] \in Request
  BY DEF TypeOK
<1>2. /\ next \in Request
      /\ Changed(next, r, "store", req[r].target, FALSE, req[r].write)
  BY <1>1 DEF Request, Changed, Fields
<1>3. \/ req[r].kind = "login" /\ req' = [req EXCEPT ![r] = next]
      \/ req' = [req EXCEPT ![r] = Idle]
  BY DEF Commit, TypeOK
<1> HIDE DEF next
<1>4. QED
  BY <1>2, <1>3, IdleType, ReplaceOne

LEMMA EndMoves ==
  ASSUME TypeOK, NEW r \in Requests,
         CreateConflict(r) \/ StoreToken(r) \/ Abort(r)
  PROVE  Others(r) /\ req'[r] = Idle
  BY IdleType, ReplaceOne DEF CreateConflict, StoreToken, Abort

-----------------------------------------------------------------------------
(* The inductive invariant. *)

(* The UPDATE of r names column c. *)
Names(r, c) == c \in DOMAIN req[r].write

(* A request in flight has an account it acts for and one it works on, and *)
(* only some steps belong to each kind of request.                         *)
Shaped(r) ==
  /\ req[r].pc # "idle" => /\ req[r].who \in Subs /\ req[r].target \in Subs
                           /\ req[r].kind # "none"
  /\ req[r].pc \in {"insert", "store"} => req[r].kind = "login"
  /\ req[r].pc = "disable" => req[r].kind = "delete"
  /\ req[r].pc = "find" /\ req[r].kind = "login" => req[r].target = req[r].who
  /\ req[r].pc = "insert" => req[r].target = req[r].who
  /\ req[r].new => req[r].kind = "login" /\ req[r].pc \in {"write", "commit"}

(* What a request may write, given its kind and is_admin. *)
Allowed(r) ==
  /\ req[r].kind = "login" => DOMAIN req[r].write = {}
  /\ req[r].kind = "delete" =>
       /\ DOMAIN req[r].write \subseteq {"status"}
       /\ Names(r, "status") => req[r].write["status"] = "deleted"
  /\ req[r].kind = "delete" /\ req[r].pc = "find" => req[r].write = Deletion
  /\ req[r].kind = "update" => ~Names(r, "status")
  /\ \A c \in Columns : Names(r, c) => /\ c \in DOMAIN req[r].asked
                                      /\ req[r].write[c] = req[r].asked[c]
  /\ req[r].kind \in {"update", "delete"} /\ ~req[r].admin =>
       req[r].who = req[r].target /\ DOMAIN req[r].write \subseteq ProfileColumns

(* The row that a request is about to write is there, unless it inserts it. *)
Found(r) ==
  req[r].pc \in {"write", "disable", "commit"} /\ ~req[r].new =>
    Exists(req[r].target)

(* A deletion reaches its commit only with the account disabled. *)
DisabledFirst(r) ==
  req[r].pc = "commit" /\ req[r].kind = "delete" => req[r].target \in disabled

(* The rows that were deleted when a login started still are, and it is    *)
(* not about one of them once it has found or inserted its row.            *)
Fresh(r) ==
  /\ \A s \in req[r].gone : Deleted(s)
  /\ req[r].kind = "login" /\ req[r].pc \in {"write", "commit", "store"} =>
       req[r].target \notin req[r].gone

Known(r) ==
  Shaped(r) /\ Allowed(r) /\ Found(r) /\ DisabledFirst(r) /\ Fresh(r)

(* The unique constraints: an uncommitted row shares no key with a         *)
(* committed one or with another uncommitted one.                          *)
InsertsApart ==
  \A r \in Requests : req[r].new =>
    /\ \A t \in Subs : SameKey(req[r].target, t) => ~Exists(t)
    /\ \A q \in Requests \ {r} :
         req[q].new => ~SameKey(req[r].target, req[q].target)

IInv ==
  /\ TypeOK
  /\ \A r \in Requests : Known(r)
  /\ InsertsApart
  /\ DeletedIsDisabled

LEMMA InitInv == Init => IInv
<1> SUFFICES ASSUME Init PROVE IInv
  OBVIOUS
<1>1. \A r \in Requests : req[r] = Idle
  BY DEF Init
<1>2. TypeOK
  BY <1>1, IdleType, RowType DEF Init, TypeOK
<1>3. \A r \in Requests : Known(r)
  BY <1>1, IdleType, NothingType
  DEF Known, Shaped, Allowed, Names, Found, DisabledFirst, Fresh
<1>4. \A s \in Subs : ~Deleted(s)
  BY DEF Init, Deleted, Exists
<1>5. QED
  BY <1>1, <1>2, <1>3, <1>4, IdleType DEF IInv, InsertsApart, DeletedIsDisabled

(* What a step of r owes to the requests beside it. *)
RowsStay ==
  /\ \A s \in Subs : Exists(s) => Exists(s)'
  /\ \A s \in Subs : Deleted(s) => Deleted(s)'
  /\ disabled \subseteq disabled'

LEMMA OthersKnown ==
  ASSUME IInv, RowsStay, NEW r \in Requests, Others(r),
         NEW q \in Requests, q # r
  PROVE  Known(q)'
<1>1. Known(q) /\ req'[q] = req[q] /\ req[q] \in Request
  BY DEF IInv, Others, TypeOK
<1>2. Shaped(q)' /\ Allowed(q)'
  BY <1>1 DEF Known, Shaped, Allowed, Names
<1>3. Found(q)' /\ DisabledFirst(q)' /\ Fresh(q)'
  BY <1>1 DEF Known, Shaped, Found, DisabledFirst, Fresh, RowsStay, Request
<1>4. QED
  BY <1>2, <1>3 DEF Known

LEMMA IdleKnown ==
  ASSUME NEW r \in Requests, req'[r] = Idle
  PROVE  Known(r)'
  BY IdleType, NothingType
  DEF Known, Shaped, Allowed, Names, Found, DisabledFirst, Fresh

(* Most steps commit nothing and insert nothing. *)
LEMMA QuietStepInv ==
  ASSUME IInv, TypeOK', NEW r \in Requests, Others(r), db' = db,
         disabled \subseteq disabled', Known(r)',
         req'[r].new => req[r].new /\ req'[r].target = req[r].target
  PROVE  IInv'
<1>1. RowsStay
  BY DEF RowsStay, Exists, Deleted
<1>2. \A q \in Requests : Known(q)'
  BY <1>1, OthersKnown
<1>3. InsertsApart'
  BY DEF IInv, InsertsApart, Others, Exists
<1>4. DeletedIsDisabled'
  BY DEF IInv, DeletedIsDisabled, Deleted, Exists
<1>5. QED
  BY <1>2, <1>3, <1>4 DEF IInv

-----------------------------------------------------------------------------
(* A commit. *)

(* What a commit does to the table: it inserts a row that was not there,   *)
(* or updates one that was.                                                *)
LEMMA CommitRows ==
  ASSUME IInv, NEW r \in Requests, Commit(r)
  PROVE  LET t == req[r].target
         IN  /\ t \in Subs
             /\ db' \in [Subs -> Row \cup {NoRow}]
             /\ \A s \in Subs \ {t} : db'[s] = db[s]
             /\ \/ req[r].new /\ ~Exists(t) /\ db'[t] = NewRow
                \/ /\ ~req[r].new /\ db[t] \in Row
                   /\ db'[t] = Updated(db[t], req[r].write) /\ db'[t] \in Row
<1> DEFINE t == req[r].target
<1>1. /\ req[r] \in Request /\ req[r].write \in Writes /\ t \in Subs
      /\ db \in [Subs -> Row \cup {NoRow}]
  BY DEF IInv, TypeOK, Request, Known, Shaped, Commit
<1>2. CASE req[r].new
  <2>1. ~Exists(t)
    BY <1>1, <1>2 DEF IInv, InsertsApart, SameKey
  <2>2. db' = [db EXCEPT ![t] = NewRow]
    BY <1>2 DEF Commit
  <2>3. QED
    BY <1>1, <1>2, <2>1, <2>2, RowType
<1>3. CASE ~req[r].new
  <2>1. db[t] \in Row
    BY <1>1, <1>3 DEF IInv, Known, Found, Commit, Exists
  <2>2. Updated(db[t], req[r].write) \in Row
    BY <1>1, <2>1, UpdatedType
  <2>3. db' = [db EXCEPT ![t] = Updated(db[t], req[r].write)]
    BY <1>1, <1>3 DEF Commit
  <2>4. QED
    BY <1>1, <1>3, <2>1, <2>2, <2>3
<1>4. QED
  BY <1>2, <1>3

(* The status that a commit leaves behind. *)
LEMMA CommitStatus ==
  ASSUME IInv, NEW r \in Requests, Commit(r), NEW s \in Subs
  PROVE  /\ Exists(s) => Exists(s)'
         /\ Deleted(s) => Deleted(s)'
         /\ Deleted(s)' => Deleted(s) \/ s \in disabled
         /\ Exists(s)' => Exists(s) \/ (req[r].new /\ s = req[r].target)
<1> DEFINE t == req[r].target
<1>1. CASE s # t
  BY <1>1, CommitRows DEF Exists, Deleted
<1>2. CASE s = t /\ req[r].new
  <2>1. ~Exists(s) /\ db'[s] = NewRow
    BY <1>2, CommitRows
  <2>2. QED
    BY <1>2, <2>1, RowType DEF Exists, Deleted
<1>3. CASE s = t /\ ~req[r].new
  <2>1. /\ db[s] \in Row /\ db'[s] \in Row
        /\ db'[s] = Updated(db[s], req[r].write)
    BY <1>3, CommitRows
  <2>2. Exists(s) /\ Exists(s)'
    BY <2>1 DEF Exists
  <2>3. db'[s].status = IF Names(r, "status") THEN req[r].write["status"]
                                             ELSE db[s].status
    BY <2>1 DEF Updated, Columns, Names
  <2>4. Names(r, "status") => req[r].kind = "delete" /\ req[r].write["status"] = "deleted"
    BY DEF IInv, Known, Shaped, Allowed, Names, Commit, TypeOK, Request
  <2>5. Names(r, "status") => s \in disabled
    BY <1>3, <2>4 DEF IInv, Known, DisabledFirst, Commit
  <2>6. QED
    BY <2>2, <2>3, <2>4, <2>5 DEF Deleted, Exists
<1>4. QED
  BY <1>1, <1>2, <1>3

-----------------------------------------------------------------------------
(* Types. *)

LEMMA ReleaseType ==
  ASSUME TypeOK, NEW r \in Requests
  PROVE  Release(r) \in [Subs -> Requests \cup {NoOne}]
  BY DEF TypeOK, Release

LEMMA NextType == IInv /\ [Next]_vars => TypeOK'
<1> SUFFICES ASSUME IInv, [Next]_vars PROVE TypeOK'
  OBVIOUS
<1>1. TypeOK
  BY DEF IInv
<1>2. ASSUME NEW r \in Requests, NEW s \in Subs, StartLogin(r, s) PROVE TypeOK'
  BY <1>1, <1>2, StartLoginMoves DEF StartLogin, TypeOK, Others
<1>3. ASSUME NEW r \in Requests, NEW a \in Subs, NEW t \in Subs, NEW c \in Bodies,
             StartUpdate(r, a, t, c)
      PROVE  TypeOK'
  BY <1>1, <1>3, StartUpdateMoves DEF StartUpdate, TypeOK, Others
<1>4. ASSUME NEW r \in Requests, NEW a \in Subs, NEW t \in Subs, StartDelete(r, a, t)
      PROVE  TypeOK'
  BY <1>1, <1>4, StartDeleteMoves DEF StartDelete, TypeOK, Others
<1>5. ASSUME NEW r \in Requests, FindByEmail(r) PROVE TypeOK'
  BY <1>1, <1>5, FindByEmailMoves DEF FindByEmail, TypeOK, Others
<1>6. ASSUME NEW r \in Requests, NoUserFound(r) PROVE TypeOK'
  BY <1>1, <1>6, NoUserFoundMoves DEF NoUserFound, TypeOK, Others
<1>7. ASSUME NEW r \in Requests, CreateUser(r) PROVE TypeOK'
  BY <1>1, <1>7, CreateUserMoves DEF CreateUser, TypeOK, Others
<1>8. ASSUME NEW r \in Requests, FindById(r) PROVE TypeOK'
  BY <1>1, <1>8, FindByIdMoves DEF FindById, TypeOK, Others
<1>9. ASSUME NEW r \in Requests, Write(r) PROVE TypeOK'
  <2>1. lock' \in [Subs -> Requests \cup {NoOne}]
    BY <1>1, <1>9 DEF Write, TypeOK
  <2>2. QED
    BY <1>1, <1>9, <2>1, WriteMoves DEF Write, TypeOK, Others
<1>10. ASSUME NEW r \in Requests, DisableAccount(r) PROVE TypeOK'
  <2>1. req[r].target \in Subs
    BY <1>10 DEF IInv, Known, Shaped, DisableAccount
  <2>2. QED
    BY <1>1, <1>10, <2>1, DisableAccountMoves, ReleaseType
    DEF DisableAccount, TypeOK, Others
<1>11. ASSUME NEW r \in Requests, Commit(r) PROVE TypeOK'
  BY <1>1, <1>11, CommitMoves, CommitRows, ReleaseType DEF Commit, TypeOK, Others
<1>12. ASSUME NEW r \in Requests, CreateConflict(r) \/ StoreToken(r) \/ Abort(r)
       PROVE  TypeOK'
  BY <1>1, <1>12, EndMoves, ReleaseType
  DEF CreateConflict, StoreToken, Abort, TypeOK, Others
<1>13. CASE UNCHANGED vars
  BY <1>1, <1>13 DEF vars, TypeOK
<1>14. QED
  BY <1>2, <1>3, <1>4, <1>5, <1>6, <1>7, <1>8, <1>9, <1>10, <1>11, <1>12, <1>13
  DEF Next, Step

-----------------------------------------------------------------------------
(* The invariant is preserved. *)

LEMMA CreateUserInv ==
  ASSUME IInv, TypeOK', NEW r \in Requests, CreateUser(r)
  PROVE  IInv'
<1>1. /\ Others(r) /\ UNCHANGED <<db, lock, disabled>>
      /\ Changed(req'[r], r, "write", req[r].target, TRUE, req[r].write)
  BY CreateUserMoves DEF IInv, CreateUser
<1>2. /\ Known(r) /\ req[r].kind = "login" /\ req[r].target = req[r].who
      /\ req[r].target \in Subs
  BY DEF IInv, Known, Shaped, CreateUser
<1>3. RowsStay
  BY <1>1 DEF RowsStay, Exists, Deleted
<1>4. ~Exists(req[r].target)
  BY <1>2 DEF CreateUser, SameKey
<1>5. Known(r)'
  <2>1. Shaped(r)' /\ Allowed(r)' /\ Found(r)' /\ DisabledFirst(r)'
    BY <1>1, <1>2 DEF Known, Shaped, Allowed, Names, Found, DisabledFirst,
                      Changed, Fields
  <2>2. Fresh(r)'
    BY <1>1, <1>2, <1>4 DEF Known, Fresh, Changed, Fields, Deleted, Exists
  <2>3. QED
    BY <2>1, <2>2 DEF Known
<1>6. InsertsApart'
  <2>1. ASSUME NEW q \in Requests, req'[q].new
        PROVE  \A t \in Subs : SameKey(req'[q].target, t) => ~Exists(t)
    BY <1>1, <1>2, <2>1 DEF IInv, InsertsApart, Others, Changed, Fields, CreateUser
  <2>2. ASSUME NEW q \in Requests, NEW p \in Requests \ {q}, req'[q].new, req'[p].new
        PROVE  ~SameKey(req'[q].target, req'[p].target)
    <3>1. CASE q = r \/ p = r
      BY <1>1, <1>2, <2>2, <3>1
      DEF Others, Changed, Fields, CreateUser, SameKey
    <3>2. CASE q # r /\ p # r
      BY <1>1, <2>2, <3>2 DEF IInv, InsertsApart, Others
    <3>3. QED
      BY <3>1, <3>2
  <2>3. QED
    BY <1>1, <2>1, <2>2 DEF InsertsApart, Exists
<1>7. \A q \in Requests : Known(q)'
  BY <1>1, <1>3, <1>5, OthersKnown
<1>8. DeletedIsDisabled'
  BY <1>1 DEF IInv, DeletedIsDisabled, Deleted, Exists
<1>9. QED
  BY <1>6, <1>7, <1>8 DEF IInv

LEMMA CommitInv ==
  ASSUME IInv, TypeOK', NEW r \in Requests, Commit(r)
  PROVE  IInv'
<1>1. /\ Others(r)
      /\ \/ req'[r] = Idle
         \/ /\ req[r].kind = "login"
            /\ Changed(req'[r], r, "store", req[r].target, FALSE, req[r].write)
      /\ ~req'[r].new
  BY CommitMoves, IdleType DEF IInv, Changed, Fields
<1>2. RowsStay
  BY CommitStatus DEF RowsStay, Commit
<1>3. Known(r)'
  <2>1. CASE req'[r] = Idle
    BY <2>1, IdleKnown
  <2>2. CASE req'[r] # Idle
    <3>1. Known(r) /\ req[r].pc = "commit" /\ req[r] \in Request
      BY DEF IInv, Commit, TypeOK
    <3>2. /\ req[r].kind = "login"
          /\ Changed(req'[r], r, "store", req[r].target, FALSE, req[r].write)
      BY <1>1, <2>2
    <3>3. Shaped(r)' /\ Allowed(r)' /\ Found(r)' /\ DisabledFirst(r)'
      BY <3>1, <3>2 DEF Known, Shaped, Allowed, Names, Found, DisabledFirst,
                        Changed, Fields
    <3>4. Fresh(r)'
      BY <1>2, <3>1, <3>2 DEF Known, Fresh, Changed, Fields, RowsStay, Request
    <3>5. QED
      BY <3>3, <3>4 DEF Known
  <2>3. QED
    BY <2>1, <2>2
<1>4. InsertsApart'
  <2>1. ASSUME NEW q \in Requests, req'[q].new
        PROVE  q # r /\ req[q].new /\ req'[q] = req[q]
    BY <1>1, <2>1 DEF Others
  <2>2. ASSUME NEW q \in Requests, req'[q].new, NEW t \in Subs,
               SameKey(req[q].target, t)
        PROVE  ~(Exists(t)')
    <3>1. q # r /\ req[q].new
      BY <2>1, <2>2
    <3>2. ~Exists(t)
      BY <2>2, <3>1 DEF IInv, InsertsApart
    <3>3. ~(req[r].new /\ t = req[r].target)
      BY <2>2, <3>1 DEF IInv, InsertsApart
    <3>4. QED
      BY <3>2, <3>3, CommitStatus
  <2>3. QED
    BY <2>1, <2>2 DEF IInv, InsertsApart
<1>5. \A q \in Requests : Known(q)'
  BY <1>1, <1>2, <1>3, OthersKnown
<1>6. DeletedIsDisabled'
  BY CommitStatus DEF IInv, DeletedIsDisabled, Commit
<1>7. QED
  BY <1>4, <1>5, <1>6 DEF IInv

LEMMA FindByEmailInv ==
  ASSUME IInv, TypeOK', NEW r \in Requests, FindByEmail(r)
  PROVE  IInv'
<1>1. PICK t \in ByEmail(req[r].who) :
        Others(r) /\ Changed(req'[r], r, "write", t, req[r].new, req[r].write)
  BY FindByEmailMoves DEF IInv
<1>2. /\ t \in Subs /\ Exists(t) /\ ~Deleted(t)
      /\ UNCHANGED <<db, lock, disabled>>
  BY DEF ByEmail, Active, Deleted, FindByEmail
<1>3. Known(r) /\ req[r].pc = "find" /\ req[r].kind = "login" /\ ~req[r].new
  BY DEF IInv, FindByEmail, Known, Shaped
<1>4. Known(r)'
  <2>1. Shaped(r)' /\ Allowed(r)' /\ Found(r)' /\ DisabledFirst(r)'
    BY <1>1, <1>2, <1>3 DEF Known, Shaped, Allowed, Names, Found, DisabledFirst,
                            Changed, Fields, Exists
  <2>2. Fresh(r)'
    BY <1>1, <1>2, <1>3 DEF Known, Fresh, Changed, Fields, Deleted, Exists
  <2>3. QED
    BY <2>1, <2>2 DEF Known
<1>5. QED
  BY <1>1, <1>2, <1>3, <1>4, QuietStepInv DEF Changed, Fields

LEMMA FindByIdInv ==
  ASSUME IInv, TypeOK', NEW r \in Requests, FindById(r)
  PROVE  IInv'
<1>1. /\ Known(r) /\ req[r].pc = "find" /\ req[r].kind # "login" /\ ~req[r].new
      /\ UNCHANGED <<db, lock, disabled>> /\ Others(r)
  BY FindByIdMoves DEF IInv, FindById, Known, Shaped
<1>2. CASE req'[r] = Idle
  BY <1>1, <1>2, IdleKnown, IdleType, QuietStepInv
<1>3. CASE req'[r] # Idle
  <2>1. PICK w \in Writes :
          /\ w = req[r].write \/ w = NetChange(req[r].write, db[req[r].target])
          /\ DOMAIN w \subseteq DOMAIN req[r].write
          /\ \A c \in DOMAIN w : w[c] = req[r].write[c]
          /\ Changed(req'[r], r, IF DOMAIN w = {} THEN "commit" ELSE "write",
                     req[r].target, req[r].new, w)
    BY <1>3, FindByIdMoves DEF IInv
  <2>2. Active(req[r].target)
    BY <1>3, FindByIdMoves DEF IInv
  <2>3. req[r].kind = "delete" => "status" \in DOMAIN w
    <3>1. SUFFICES ASSUME req[r].kind = "delete" PROVE "status" \in DOMAIN w
      OBVIOUS
    <3>2. req[r].write = Deletion
      BY <1>1, <3>1 DEF Known, Allowed
    <3>3. Deletion["status"] # db[req[r].target]["status"]
      BY <2>2, DeletionType DEF Active
    <3>4. QED
      BY <2>1, <3>2, <3>3, DeletionType DEF NetChange
  <2>4. Shaped(r)' /\ Found(r)' /\ Fresh(r)'
    BY <1>1, <2>1, <2>2 DEF Known, Shaped, Found, Fresh, Changed, Fields, Active,
                            Exists, Deleted
  <2>5. Allowed(r)' /\ DisabledFirst(r)'
    BY <1>1, <2>1, <2>3, DeletionType
    DEF Known, Shaped, Allowed, Names, DisabledFirst, Changed, Fields
  <2>6. QED
    BY <1>1, <2>1, <2>4, <2>5, QuietStepInv DEF Known, Changed, Fields
<1>4. QED
  BY <1>2, <1>3

LEMMA StartInv ==
  ASSUME IInv, TypeOK', NEW r \in Requests,
         \/ \E s \in Subs : StartLogin(r, s)
         \/ \E a, t \in Subs : \/ \E c \in Bodies : StartUpdate(r, a, t, c)
                               \/ StartDelete(r, a, t)
  PROVE  IInv'
<1>1. ASSUME NEW s \in Subs, StartLogin(r, s) PROVE IInv'
  <2>1. Others(r) /\ Fields(req'[r], "find", "login", s, s, FALSE, FALSE, Nothing, Nothing,
                            {t \in Subs : Deleted(t)})
    BY <1>1, StartLoginMoves DEF IInv
  <2>2. Known(r)'
    BY <1>1, <2>1, NothingType
    DEF StartLogin, Known, Shaped, Allowed, Names, Found, DisabledFirst, Fresh,
        Fields, Deleted, Exists
  <2>3. QED
    BY <1>1, <2>1, <2>2, QuietStepInv DEF StartLogin, Fields
<1>2. ASSUME NEW a \in Subs, NEW t \in Subs, NEW c \in Bodies, StartUpdate(r, a, t, c)
      PROVE  IInv'
  <2>1. PICK w \in Writes :
          /\ DOMAIN w \subseteq DOMAIN c /\ \A d \in DOMAIN w : w[d] = c[d]
          /\ Fields(req'[r], "find", "update", a, t, FALSE,
                    db[a].role = "admin", w, c, {})
    BY <1>2, StartUpdateMoves DEF IInv
  <2>2. ~(db[a].role = "admin") => a = t /\ DOMAIN c \subseteq ProfileColumns
    BY <1>2 DEF StartUpdate, MayUpdate
  <2>3. "status" \notin DOMAIN w
    BY <2>1, BodiesType
  <2>4. Known(r)'
    BY <2>1, <2>2, <2>3
    DEF Known, Shaped, Allowed, Names, Found, DisabledFirst, Fresh, Fields
  <2>5. QED
    BY <1>2, <2>1, <2>4, StartUpdateMoves, QuietStepInv DEF IInv, StartUpdate, Fields
<1>3. ASSUME NEW a \in Subs, NEW t \in Subs, StartDelete(r, a, t) PROVE IInv'
  <2>1. Others(r) /\ Fields(req'[r], "find", "delete", a, t, FALSE, TRUE, Deletion,
                            Deletion, {})
    BY <1>3, StartDeleteMoves DEF IInv
  <2>2. Known(r)'
    BY <2>1, DeletionType
    DEF Known, Shaped, Allowed, Names, Found, DisabledFirst, Fresh, Fields
  <2>3. QED
    BY <1>3, <2>1, <2>2, QuietStepInv DEF StartDelete, Fields
<1>4. QED
  BY <1>1, <1>2, <1>3

LEMMA NextInv == IInv /\ [Next]_vars => IInv'
<1> SUFFICES ASSUME IInv, [Next]_vars PROVE IInv'
  OBVIOUS
<1>1. TypeOK /\ TypeOK' /\ \A r \in Requests : Known(r) /\ req[r] \in Request
  BY NextType DEF IInv, TypeOK
<1>2. ASSUME NEW r \in Requests, NoUserFound(r) PROVE IInv'
  <2>1. Others(r) /\ Changed(req'[r], r, "insert", req[r].target, req[r].new, req[r].write)
    BY <1>1, <1>2, NoUserFoundMoves
  <2>2. Known(r)'
    BY <1>1, <1>2, <2>1
    DEF NoUserFound, Known, Shaped, Allowed, Names, Found, DisabledFirst, Fresh,
        Changed, Fields, Deleted, Exists
  <2>3. QED
    BY <1>1, <1>2, <2>1, <2>2, QuietStepInv DEF NoUserFound, Changed, Fields
<1>3. ASSUME NEW r \in Requests, Write(r) PROVE IInv'
  <2>1. /\ Others(r)
        /\ Changed(req'[r], r, IF req[r].kind = "delete" THEN "disable" ELSE "commit",
                   req[r].target, req[r].new, req[r].write)
    BY <1>1, <1>3, WriteMoves
  <2>2. Known(r)'
    BY <1>1, <1>3, <2>1
    DEF Write, Known, Shaped, Allowed, Names, Found, DisabledFirst, Fresh,
        Changed, Fields, Deleted, Exists
  <2>3. QED
    BY <1>1, <1>3, <2>1, <2>2, QuietStepInv DEF Write, Changed, Fields
<1>4. ASSUME NEW r \in Requests, DisableAccount(r) PROVE IInv'
  <2>1. /\ Others(r)
        /\ \/ req'[r] = Idle
           \/ Changed(req'[r], r, "commit", req[r].target, req[r].new, req[r].write)
    BY <1>1, <1>4, DisableAccountMoves
  <2>2. Known(r)'
    <3>1. CASE req'[r] = Idle
      BY <3>1, IdleKnown
    <3>2. CASE req'[r] # Idle
      BY <1>1, <1>4, <2>1, <3>2
      DEF DisableAccount, Known, Shaped, Allowed, Names, Found, DisabledFirst, Fresh,
          Changed, Fields, Deleted, Exists
    <3>3. QED
      BY <3>1, <3>2
  <2>3. QED
    BY <1>1, <1>4, <2>1, <2>2, IdleType, QuietStepInv DEF DisableAccount, Changed, Fields
<1>5. ASSUME NEW r \in Requests, CreateConflict(r) \/ StoreToken(r) \/ Abort(r)
      PROVE  IInv'
  BY <1>1, <1>5, EndMoves, IdleKnown, IdleType, QuietStepInv
  DEF CreateConflict, StoreToken, Abort
<1>6. CASE UNCHANGED vars
  BY <1>1, <1>6
  DEF vars, IInv, Known, Shaped, Allowed, Names, Found, DisabledFirst, Fresh,
      InsertsApart, DeletedIsDisabled, Deleted, Exists
<1>7. QED
  BY <1>1, <1>2, <1>3, <1>4, <1>5, <1>6, StartInv, FindByEmailInv, CreateUserInv,
     FindByIdInv, CommitInv
  DEF Next, Step

LEMMA Inductive == Spec => []IInv
  BY InitInv, NextInv, PTL DEF Spec

-----------------------------------------------------------------------------
(* Theorems. *)

(* Every variable of the accounts keeps its type; above all each committed *)
(* row is a whole row, whatever columns the UPDATEs named.                 *)
THEOREM TypeCorrect == Spec => []TypeOK
<1>1. IInv => TypeOK
  BY DEF IInv
<1>2. QED
  BY <1>1, Inductive, PTL

(* The account of a deleted row is disabled in Cognito: delete_user        *)
(* disables it between the flush of deleted_at and the commit, and no      *)
(* other writer commits that column.                                       *)
THEOREM DeletedDisabled == Spec => []DeletedIsDisabled
<1>1. IInv => DeletedIsDisabled
  BY DEF IInv
<1>2. QED
  BY <1>1, Inductive, PTL

(* A login that starts after a deletion is committed never issues a token  *)
(* for that row: get_by_email skips it and the unique keys of the INSERT   *)
(* of authenticate stay taken.                                             *)
THEOREM NoReturn == Spec => []NoLoginAfterDeletion
<1>1. IInv => NoLoginAfterDeletion
  BY DEF IInv, Known, Shaped, Fresh, NoLoginAfterDeletion
<1>2. QED
  BY <1>1, Inductive, PTL

LEMMA OnlyCommitWrites ==
  ASSUME IInv, [Next]_vars
  PROVE  db' = db \/ \E r \in Requests : Commit(r)
BY DEF Next, Step, vars, StartLogin, StartUpdate, StartDelete, FindByEmail,
       NoUserFound, CreateUser, CreateConflict, FindById, Write, DisableAccount,
       StoreToken, Abort

(* No step clears deleted_at: UPDATEs that were prepared before the        *)
(* deletion and commit after it do not name the column.                    *)
THEOREM DeletionStays == Spec => DeletionIsPermanent
<1>1. IInv /\ [Next]_vars => [\A s \in Subs : Deleted(s) => Deleted(s)']_vars
  <2>1. SUFFICES ASSUME IInv, [Next]_vars, NEW s \in Subs, Deleted(s)
                 PROVE  Deleted(s)'
    OBVIOUS
  <2>2. CASE db' = db
    BY <2>1, <2>2 DEF Deleted, Exists
  <2>3. CASE \E r \in Requests : Commit(r)
    BY <2>1, <2>3, CommitStatus
  <2>4. QED
    BY <2>1, <2>2, <2>3, OnlyCommitWrites
<1>2. QED
  BY <1>1, Inductive, PTL DEF Spec, DeletionIsPermanent

(* The change of an existing row is the UPDATE of the request that commits *)
(* it, and the columns it changes are named there.                         *)
LEMMA ChangedRow ==
  ASSUME IInv, [Next]_vars, NEW s \in Subs, Exists(s), db'[s] # db[s]
  PROVE  \E r \in Requests :
           /\ Commits(r, s)
           /\ \A q \in Requests \ {r} : req'[q] = req[q]
           /\ Known(r)
           /\ db[s] \in Row /\ db'[s] \in Row
           /\ db'[s] = Updated(db[s], req[r].write)
<1>1. PICK r \in Requests : Commit(r)
  BY OnlyCommitWrites
<1>2. req[r].target = s
  BY <1>1, CommitRows
<1>3. db[s] \in Row /\ db'[s] \in Row /\ db'[s] = Updated(db[s], req[r].write)
  BY <1>1, <1>2, CommitRows
<1>4. /\ \A q \in Requests \ {r} : req'[q] = req[q]
      /\ req[r].pc = "commit" /\ req'[r] # req[r]
  BY <1>1, CommitMoves, IdleType DEF IInv, Commit, Others, Changed, Fields
<1>5. QED
  BY <1>2, <1>3, <1>4 DEF IInv, Commits

(* No lost update across columns: what a commit changes in a row, its      *)
(* caller asked for, in that column and with that value, because           *)
(* SQLAlchemy's UPDATE names only dirty columns.                           *)
THEOREM AskedOnly == Spec => OnlyAskedColumnsChange
<1> DEFINE A == \A s \in Subs : Exists(s) /\ db'[s] # db[s] =>
                  \E r \in Requests :
                    /\ Commits(r, s)
                    /\ \A c \in Columns : db'[s][c] # db[s][c] =>
                         c \in DOMAIN req[r].asked /\ db'[s][c] = req[r].asked[c]
<1>1. IInv /\ [Next]_vars => [A]_vars
  <2>1. SUFFICES ASSUME IInv, [Next]_vars, NEW s \in Subs, Exists(s), db'[s] # db[s]
                 PROVE  \E r \in Requests :
                          /\ Commits(r, s)
                          /\ \A c \in Columns : db'[s][c] # db[s][c] =>
                               c \in DOMAIN req[r].asked /\ db'[s][c] = req[r].asked[c]
    OBVIOUS
  <2>2. PICK r \in Requests :
          /\ Commits(r, s) /\ Known(r)
          /\ db'[s] = Updated(db[s], req[r].write)
    BY <2>1, ChangedRow
  <2>3. \A c \in Columns : db'[s][c] # db[s][c] =>
          Names(r, c) /\ db'[s][c] = req[r].write[c]
    BY <2>2 DEF Updated, Names
  <2>4. QED
    BY <2>2, <2>3 DEF Known, Allowed
<1>2. QED
  BY <1>1, Inductive, PTL DEF Spec, OnlyAskedColumnsChange

(* Without the admin role a request changes at most profile columns of its *)
(* own row: the checks of update_user and require_role hold to the commit.     *)
THEOREM Authorised == Spec => ChangesAreAuthorised
<1> DEFINE A == \A s \in Subs, r \in Requests :
                  Commits(r, s) /\ Exists(s) /\ db'[s] # db[s] /\ ~req[r].admin =>
                    /\ req[r].who = s
                    /\ \A c \in Columns \ ProfileColumns : db'[s][c] = db[s][c]
<1>1. IInv /\ [Next]_vars => [A]_vars
  <2>1. SUFFICES ASSUME IInv, [Next]_vars, NEW s \in Subs, NEW r \in Requests,
                        Commits(r, s), Exists(s), db'[s] # db[s], ~req[r].admin
                 PROVE  /\ req[r].who = s
                        /\ \A c \in Columns \ ProfileColumns : db'[s][c] = db[s][c]
    OBVIOUS
  <2>2. /\ Known(r) /\ db[s] \in Row /\ db'[s] \in Row
        /\ db'[s] = Updated(db[s], req[r].write)
    BY <2>1, ChangedRow DEF Commits
  <2>3. req[r].target = s /\ req[r].pc = "commit" /\ req[r].kind # "none"
    BY <2>1, <2>2 DEF Commits, Known, Shaped
  <2>4. \E c \in Columns : db'[s][c] # db[s][c]
    BY <2>1, <2>2 DEF Row, Columns, ProfileColumns
  <2>5. req[r].kind # "login"
    BY <2>2, <2>4 DEF Updated, Known, Allowed
  <2>6. req[r].kind \in {"update", "delete"}
    BY <2>1, <2>3, <2>5 DEF IInv, TypeOK, Request
  <2>7. req[r].who = s /\ DOMAIN req[r].write \subseteq ProfileColumns
    BY <2>1, <2>2, <2>3, <2>6 DEF Known, Allowed
  <2>8. \A c \in Columns \ ProfileColumns : db'[s][c] = db[s][c]
    BY <2>2, <2>7 DEF Updated
  <2>9. QED
    BY <2>7, <2>8
<1>2. QED
  BY <1>1, Inductive, PTL DEF Spec, ChangesAreAuthorised

-----------------------------------------------------------------------------
(* Row locks. *)

(* A lock is held by the request that works on the row, between its UPDATE *)
(* and the end of its transaction.                                         *)
LocksOfWriters ==
  \A s \in Subs, q \in Requests :
    lock[s] = q => req[q].target = s /\ req[q].pc \in {"disable", "commit"}

LInv == IInv /\ LocksOfWriters

LEMMA LocksKept ==
  ASSUME LInv, NEW r \in Requests, Others(r), lock' = lock,
         \/ req[r].pc \notin {"disable", "commit"}
         \/ /\ req'[r].target = req[r].target
            /\ req'[r].pc \in {"disable", "commit"}
  PROVE  LocksOfWriters'
  BY DEF LInv, LocksOfWriters, Others

LEMMA LocksReleased ==
  ASSUME LInv, NEW r \in Requests, Others(r), req[r].target \in Subs,
         lock' = Release(r)
  PROVE  LocksOfWriters'
<1>1. ASSUME NEW s \in Subs, NEW q \in Requests, lock'[s] = q
      PROVE  q # r /\ lock[s] = q
  <2>1. lock'[s] = IF s = req[r].target /\ lock[s] = r THEN NoOne ELSE lock[s]
    BY DEF LInv, IInv, TypeOK, Release
  <2>2. lock[s] = q
    BY <1>1, <2>1, Zenon
  <2>3. s # req[r].target => lock[s] # r
    BY DEF LInv, LocksOfWriters
  <2>4. QED
    BY <1>1, <2>1, <2>2, <2>3
<1>2. QED
  BY <1>1 DEF LInv, LocksOfWriters, Others

LEMMA LocksInv == LInv /\ [Next]_vars => LInv'
<1> SUFFICES ASSUME LInv, [Next]_vars PROVE LInv'
  OBVIOUS
<1>1. IInv /\ IInv' /\ TypeOK
  BY NextInv DEF LInv, IInv
<1>2. \A r \in Requests : req[r].pc # "idle" => req[r].target \in Subs
  BY <1>1 DEF IInv, Known, Shaped
<1>3. ASSUME NEW r \in Requests, NEW s \in Subs, StartLogin(r, s)
      PROVE  LocksOfWriters'
  BY <1>1, <1>3, StartLoginMoves, LocksKept DEF StartLogin
<1>4. ASSUME NEW r \in Requests, NEW a \in Subs, NEW t \in Subs,
             \/ \E c \in Bodies : StartUpdate(r, a, t, c)
             \/ StartDelete(r, a, t)
      PROVE  LocksOfWriters'
  BY <1>1, <1>4, StartUpdateMoves, StartDeleteMoves, LocksKept
  DEF StartUpdate, StartDelete
<1>5. ASSUME NEW r \in Requests,
             FindByEmail(r) \/ NoUserFound(r) \/ CreateUser(r) \/ FindById(r)
      PROVE  LocksOfWriters'
  BY <1>1, <1>5, FindByEmailMoves, NoUserFoundMoves, CreateUserMoves, FindByIdMoves,
     LocksKept
  DEF FindByEmail, NoUserFound, CreateUser, FindById
<1>6. ASSUME NEW r \in Requests, CreateConflict(r) \/ StoreToken(r)
      PROVE  LocksOfWriters'
  BY <1>1, <1>6, EndMoves, LocksKept DEF CreateConflict, StoreToken
<1>7. ASSUME NEW r \in Requests, Write(r) PROVE LocksOfWriters'
  <2>1. /\ Others(r) /\ req'[r].target = req[r].target
        /\ req'[r].pc \in {"disable", "commit"} /\ req[r].pc = "write"
    BY <1>1, <1>7, WriteMoves DEF Changed, Fields, Write
  <2>2. /\ \A s \in Subs \ {req[r].target} : lock'[s] = lock[s]
        /\ req[r].target \in Subs => lock'[req[r].target] = r
    BY <1>1, <1>7 DEF Write, TypeOK
  <2>3. QED
    BY <2>1, <2>2 DEF LInv, LocksOfWriters, Others
<1>8. ASSUME NEW r \in Requests, DisableAccount(r) PROVE LocksOfWriters'
  <2>1. /\ Others(r) /\ req[r].target \in Subs
        /\ \/ lock' = Release(r)
           \/ lock' = lock /\ req' = [req EXCEPT ![r].pc = "commit"]
    BY <1>1, <1>2, <1>8, DisableAccountMoves DEF DisableAccount
  <2>2. CASE lock' = lock /\ req' = [req EXCEPT ![r].pc = "commit"]
    <3>1. req'[r].target = req[r].target /\ req'[r].pc = "commit"
      BY <1>1, <2>2 DEF TypeOK, Request
    <3>2. QED
      BY <2>1, <2>2, <3>1, LocksKept
  <2>3. QED
    BY <2>1, <2>2, LocksReleased
<1>9. ASSUME NEW r \in Requests, Commit(r) PROVE LocksOfWriters'
  BY <1>1, <1>2, <1>9, CommitMoves, LocksReleased DEF Commit
<1>10. ASSUME NEW r \in Requests, Abort(r) PROVE LocksOfWriters'
  BY <1>1, <1>2, <1>10, EndMoves, LocksReleased DEF Abort
<1>11. ASSUME UNCHANGED vars PROVE LocksOfWriters'
  BY <1>11 DEF vars, LInv, LocksOfWriters
<1>12. LocksOfWriters'
  BY <1>3, <1>4, <1>5, <1>6, <1>7, <1>8, <1>9, <1>10, <1>11 DEF Next, Step
<1>13. QED
  BY <1>1, <1>12 DEF LInv

LEMMA LocksInductive == Spec => []LInv
<1>1. Init => LocksOfWriters
  BY DEF Init, LocksOfWriters
<1>2. Init => LInv
  BY <1>1, InitInv DEF LInv
<1>3. QED
  BY <1>2, LocksInv, PTL DEF Spec

(* Only the inserter knows its row: an uncommitted row is locked by nobody *)
(* else, because no other request has found it.                            *)
LEMMA InserterNeverWaits ==
  ASSUME LInv, NEW q \in Requests, req[q].new, NEW p \in Requests,
         lock[req[q].target] = p
  PROVE  p = q
<1>1. req[q].target \in Subs /\ req[q].pc # "idle"
  BY DEF LInv, IInv, Known, Shaped
<1>2. req[p].target = req[q].target /\ req[p].pc \in {"disable", "commit"}
  BY <1>1 DEF LInv, LocksOfWriters
<1>3. ~Exists(req[p].target)
  BY <1>1, <1>2 DEF LInv, IInv, InsertsApart, SameKey
<1>4. req[p].new
  BY <1>2, <1>3 DEF LInv, IInv, Known, Found
<1>5. QED
  BY <1>2, <1>4 DEF LInv, IInv, InsertsApart, SameKey

(* PostgreSQL never meets a deadlock between these transactions: a request *)
(* that holds a row lock or an uncommitted key is past its waits, because  *)
(* each transaction writes one row and a new row is nobody else's yet.     *)
THEOREM WaitsEnd == Spec => []NobodyWaitsForAWaiter
<1>1. LInv => NobodyWaitsForAWaiter
  <2>1. SUFFICES ASSUME LInv, NEW r \in Requests, NEW q \in Requests, WaitsFor(r, q)
                 PROVE  /\ req[q].pc # "idle"
                        /\ \A p \in Requests : ~WaitsFor(q, p)
    BY DEF NobodyWaitsForAWaiter
  <2>2. CASE req[r].pc = "write" /\ lock[req[r].target] = q
    <3>1. req[r].target \in Subs
      BY <2>1, <2>2 DEF LInv, IInv, Known, Shaped
    <3>2. req[q].pc \in {"disable", "commit"} /\ Shaped(q)
      BY <2>1, <2>2, <3>1 DEF LInv, LocksOfWriters, IInv, Known
    <3>3. QED
      BY <3>2 DEF WaitsFor, Shaped
  <2>3. CASE req[q].new
    <3>1. req[q].pc \in {"write", "commit"}
      BY <2>1, <2>3 DEF LInv, IInv, Known, Shaped
    <3>2. req[q].pc = "write" => \A p \in Requests : lock[req[q].target] # p
      <4>1. SUFFICES ASSUME req[q].pc = "write", NEW p \in Requests,
                            lock[req[q].target] = p
                     PROVE  FALSE
        OBVIOUS
      <4>2. p = q /\ req[q].target \in Subs
        BY <2>1, <2>3, <4>1, InserterNeverWaits DEF LInv, IInv, Known, Shaped
      <4>3. QED
        BY <2>1, <4>1, <4>2 DEF LInv, LocksOfWriters
    <3>3. QED
      BY <3>1, <3>2 DEF WaitsFor
  <2>4. QED
    BY <2>1, <2>2, <2>3 DEF WaitsFor
<1>2. QED
  BY <1>1, LocksInductive, PTL

=============================================================================
