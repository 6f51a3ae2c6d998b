------------------------------- MODULE Accounts -------------------------------
(***************************************************************************)
(* User accounts: the users table as UserRepository reads and writes it    *)
(* from AuthService.authenticate and UserService, and the account's        *)
(* enabled flag in Cognito.                                                *)
(*                                                                         *)
(* Each request has one AsyncSession, so one transaction at a time on      *)
(* PostgreSQL in READ COMMITTED: a statement reads what is committed when  *)
(* it starts, an UPDATE waits for the row's lock and keeps it to the end   *)
(* of the transaction, an INSERT waits for an uncommitted one with the     *)
(* same unique key.  One action is one statement or one Cognito call.      *)
(***************************************************************************)
EXTENDS Naturals, FiniteSets

CONSTANTS
  Subs,       \* Cognito accounts (cognito_sub)
  EmailOf,    \* the address Cognito reports for each account
  Lower,      \* lower-case form of each address
  Admins,     \* accounts that exist from the start, with the role admin
  Profiles,   \* values of a profile column
  NoProfile,  \* its value in a new row
  Bodies,     \* bodies of PATCH requests that are sent
  Requests,   \* request tasks that may be in flight at the same time
  NoRow,      \* no row in the table
  NoOne       \* nobody holds the lock

ASSUME EmailAssumption == DOMAIN EmailOf = Subs
ASSUME AdminsAssumption == Admins \subseteq Subs
ASSUME ProfileAssumption == NoProfile \in Profiles
ASSUME NoOneAssumption == NoOne \notin Requests

-----------------------------------------------------------------------------
(* Data. *)

Roles == {"user", "admin"}
ProfileColumns == {"name", "phone"}
Columns == {"role", "status"} \cup ProfileColumns

(* The columns of users that later steps look at; status stands for        *)
(* deleted_at, and two profile columns for the four.  id and cognito_sub   *)
(* are both unique and never change: the account stands for the row.  The  *)
(* oauth columns are written by every login and read by nobody.            *)
Statuses == {"active", "deleted"}
Row == [role : Roles, name : Profiles, phone : Profiles, status : Statuses]

ASSUME NoRowAssumption == NoRow \notin Row

(* The columns an UPDATE names, with their new values. *)
ValuesOf(c) == CASE c = "role" -> Roles [] c = "status" -> Statuses
                 [] OTHER -> Profiles
Writes == UNION {{w \in [C -> Roles \cup Profiles \cup Statuses] :
                    \A c \in C : w[c] \in ValuesOf(c)} : C \in SUBSET Columns}
Nothing == [c \in {} |-> NoProfile]

(* What the body of a PATCH may ask for: new values for any of these       *)
(* columns, or for none (exclude_unset).  email is refused before anything *)
(* is read, for everybody.                                                 *)
Changes == {w \in Writes : "status" \notin DOMAIN w}

ASSUME BodiesAssumption == Bodies \subseteq Changes

Deletion == [c \in {"status"} |-> "deleted"]

(* Local state of a request: who authenticated (for a login, the account   *)
(* that signs in), the row it works on, whether it inserts that row,       *)
(* is_admin, and its dirty columns.  History: asked, what the caller asked *)
(* for, and gone, the rows deleted when the request started.               *)
Request == [pc : {"idle", "find", "insert", "write", "disable", "commit", "store"},
            kind : {"none", "login", "update", "delete"},
            who : Subs \cup {NoOne}, target : Subs \cup {NoOne},
            new : BOOLEAN, admin : BOOLEAN, write : Writes,
            asked : Writes, gone : SUBSET Subs]

Idle == [pc |-> "idle", kind |-> "none", who |-> NoOne, target |-> NoOne,
         new |-> FALSE, admin |-> FALSE, write |-> Nothing,
         asked |-> Nothing, gone |-> {}]

VARIABLES
  db,        \* the committed rows
  lock,      \* the request whose transaction has updated the row
  disabled,  \* accounts disabled in Cognito
  req        \* local state of the requests

vars == <<db, lock, disabled, req>>

Init ==
  /\ db = [s \in Subs |-> IF s \in Admins
                          THEN [role |-> "admin", name |-> NoProfile, phone |-> NoProfile,
                                status |-> "active"]
                          ELSE NoRow]
  /\ lock = [s \in Subs |-> NoOne]
  /\ disabled = {}
  /\ req = [r \in Requests |-> Idle]

-----------------------------------------------------------------------------
(* Helper state functions. *)

Exists(s) == db[s] # NoRow
Active(s) == Exists(s) /\ db[s].status = "active"
Deleted(s) == Exists(s) /\ db[s].status = "deleted"

(* Rows that the unique constraints on cognito_sub and email (as written,  *)
(* not lower-cased) keep from coexisting.                                  *)
SameKey(s, t) == s = t \/ EmailOf[s] = EmailOf[t]

-----------------------------------------------------------------------------
(* Faulty variants of definitions below, none of them part of Spec. *)

ByEmailWithDeleted(s) ==
  {t \in Subs : Exists(t) /\ Lower[EmailOf[t]] = Lower[EmailOf[s]]}

FullRow(change, row) ==
  [c \in Columns |-> IF c \in DOMAIN change THEN change[c] ELSE row[c]]

(* Columns that the body sets to null are left out (exclude_none). *)
WithoutNulls(change, row) ==
  [c \in {d \in DOMAIN change : change[d] \notin {row[d], NoProfile}} |-> change[c]]

MayUpdateAnyone(actor, target, change) ==
  db[actor].role = "admin" \/ "role" \notin DOMAIN change

(* The error of the Cognito call leaves the transaction open. *)
DisableAndKeepLock(r) ==
  /\ req[r].pc = "disable"
  /\ disabled' = disabled \cup {req[r].target}
  /\ req' \in {[req EXCEPT ![r].pc = "commit"], [req EXCEPT ![r] = Idle]}
  /\ UNCHANGED <<db, lock>>

(* The error of the Cognito call is swallowed. *)
DisableAndGoOn(r) ==
  /\ req[r].pc = "disable"
  /\ disabled' \in {disabled, disabled \cup {req[r].target}}
  /\ req' = [req EXCEPT ![r].pc = "commit"]
  /\ UNCHANGED <<db, lock>>

NewRowWithoutRole ==
  [role |-> "none", name |-> NoProfile, phone |-> NoProfile, status |-> "active"]

CreateOrUpdateUser(r) ==
  /\ req[r].pc = "insert"
  /\ \A q \in Requests : req[q].new => ~SameKey(req[r].who, req[q].target)
  /\ req' = [req EXCEPT ![r].pc = "write", ![r].new = TRUE]
  /\ UNCHANGED <<db, lock, disabled>>

-----------------------------------------------------------------------------
(* Reads and writes of the repository. *)

(* get_by_email: lower(email) equal, not deleted; first() without ORDER BY *)
(* picks any.                                                              *)
ByEmail(s) == {t \in Subs : Active(t) /\ Lower[EmailOf[t]] = Lower[EmailOf[s]]}

(* SQLAlchemy's UPDATE names the columns whose value is not the loaded     *)
(* one, and is left out when there is none.                                *)
NetChange(change, row) ==
  [c \in {d \in DOMAIN change : change[d] # row[d]} |-> change[c]]

Updated(row, write) ==
  [c \in Columns |-> IF c \in DOMAIN write THEN write[c] ELSE row[c]]

NewRow == [role |-> "user", name |-> NoProfile, phone |-> NoProfile, status |-> "active"]

Release(r) == [lock EXCEPT ![req[r].target] = IF @ = r THEN NoOne ELSE @]

-----------------------------------------------------------------------------
(* Login: AuthService.authenticate. *)

(* The code is exchanged and the profile fetched: Cognito answers for      *)
(* enabled accounts only.                                                  *)
StartLogin(r, s) ==
  /\ req[r].pc = "idle" /\ s \notin disabled
  /\ req' = [req EXCEPT ![r] = [Idle EXCEPT !.pc = "find", !.kind = "login",
                                  !.who = s, !.target = s,
                                  !.gone = {t \in Subs : Deleted(t)}]]
  /\ UNCHANGED <<db, lock, disabled>>

FindByEmail(r) ==
  /\ req[r].pc = "find" /\ req[r].kind = "login"
  /\ \E t \in ByEmail(req[r].who) :
       req' = [req EXCEPT ![r].pc = "write", ![r].target = t]
  /\ UNCHANGED <<db, lock, disabled>>

NoUserFound(r) ==
  /\ req[r].pc = "find" /\ req[r].kind = "login"
  /\ ByEmail(req[r].who) = {}
  /\ req' = [req EXCEPT ![r].pc = "insert"]
  /\ UNCHANGED <<db, lock, disabled>>

(* INSERT, when no other transaction has one pending for the same key. *)
CreateUser(r) ==
  /\ req[r].pc = "insert"
  /\ \A t \in Subs : SameKey(req[r].who, t) => ~Exists(t)
  /\ \A q \in Requests : req[q].new => ~SameKey(req[r].who, req[q].target)
  /\ req' = [req EXCEPT ![r].pc = "write", ![r].new = TRUE]
  /\ UNCHANGED <<db, lock, disabled>>

(* The INSERT meets a committed row with its key: IntegrityError, 500. *)
CreateConflict(r) ==
  /\ req[r].pc = "insert"
  /\ \E t \in Subs : SameKey(req[r].who, t) /\ Exists(t)
  /\ req' = [req EXCEPT ![r] = Idle]
  /\ UNCHANGED <<db, lock, disabled>>

(* The token is stored in Redis and the login is answered. *)
StoreToken(r) ==
  /\ req[r].pc = "store"
  /\ req' = [req EXCEPT ![r] = Idle]
  /\ UNCHANGED <<db, lock, disabled>>

-----------------------------------------------------------------------------
(* Requests with a session: get_current_user, then UserService. *)

(* get_current_user finds the actor's row active and keeps the object; the *)
(* role read here is the role the request has to its end.  A PATCH by a    *)
(* non-admin is refused unless it is about the own profile; what is        *)
(* refused (401, 403) changes nothing.                                     *)
MayUpdate(actor, target, change) ==
  \/ db[actor].role = "admin"
  \/ target = actor /\ DOMAIN change \subseteq ProfileColumns

StartUpdate(r, actor, target, change) ==
  /\ req[r].pc = "idle" /\ Active(actor)
  /\ MayUpdate(actor, target, change)
  /\ req' = [req EXCEPT ![r] =
               [Idle EXCEPT !.pc = "find", !.kind = "update", !.who = actor,
                  !.target = target, !.admin = db[actor].role = "admin",
                  !.asked = change,
                  !.write = IF target = actor THEN NetChange(change, db[actor])
                                              ELSE change]]
  /\ UNCHANGED <<db, lock, disabled>>

(* require_role("admin"). *)
StartDelete(r, actor, target) ==
  /\ req[r].pc = "idle" /\ Active(actor) /\ db[actor].role = "admin"
  /\ req' = [req EXCEPT ![r] =
               [Idle EXCEPT !.pc = "find", !.kind = "delete", !.who = actor,
                  !.target = target, !.admin = TRUE,
                  !.asked = Deletion, !.write = Deletion]]
  /\ UNCHANGED <<db, lock, disabled>>

(* SELECT of the target, 404 when it is missing or deleted.  The actor's   *)
(* own row is already in the session and keeps its loaded values.          *)
FindById(r) ==
  /\ req[r].pc = "find" /\ req[r].kind # "login"
  /\ LET t == req[r].target
         dirty == IF t = req[r].who THEN req[r].write
                                    ELSE NetChange(req[r].write, db[t])
     IN IF Active(t)
        THEN req' = [req EXCEPT
                       ![r].pc = IF DOMAIN dirty = {} THEN "commit" ELSE "write",
                       ![r].write = dirty]
        ELSE req' = [req EXCEPT ![r] = Idle]
  /\ UNCHANGED <<db, lock, disabled>>

-----------------------------------------------------------------------------
(* The transaction's write and its end, for logins and for UserService. *)

(* flush: UPDATE users SET ... WHERE id = target.  Nothing in the WHERE    *)
(* clause looks at deleted_at again.                                       *)
Write(r) ==
  /\ req[r].pc = "write"
  /\ lock[req[r].target] = NoOne
  /\ lock' = [lock EXCEPT ![req[r].target] = r]
  /\ req' = [req EXCEPT ![r].pc = IF req[r].kind = "delete" THEN "disable"
                                                            ELSE "commit"]
  /\ UNCHANGED <<db, disabled>>

(* admin_disable_user, inside the transaction; a lost reply or an error    *)
(* after the fact rolls the row back but leaves the account disabled.      *)
DisableAccount(r) ==
  /\ req[r].pc = "disable"
  /\ disabled' = disabled \cup {req[r].target}
  /\ \/ req' = [req EXCEPT ![r].pc = "commit"] /\ UNCHANGED lock
     \/ req' = [req EXCEPT ![r] = Idle] /\ lock' = Release(r)
  /\ UNCHANGED db

(* COMMIT.  A login goes on to issue its token; the others are answered,   *)
(* unless the connection breaks after the fact.                            *)
Commit(r) ==
  /\ req[r].pc = "commit"
  /\ LET t == req[r].target
     IN db' = [db EXCEPT ![t] = IF req[r].new THEN NewRow
                                              ELSE Updated(@, req[r].write)]
  /\ lock' = Release(r)
  /\ \/ /\ req[r].kind = "login"
        /\ req' = [req EXCEPT ![r].pc = "store", ![r].new = FALSE]
     \/ req' = [req EXCEPT ![r] = Idle]
  /\ UNCHANGED disabled

(* Any step may fail instead: PostgreSQL, Cognito (401, 502) or Redis is   *)
(* out of reach, a constraint refuses the UPDATE (role_id null or          *)
(* unknown), the client goes away, the worker dies.  The session closes    *)
(* and the transaction rolls back.                                         *)
Abort(r) ==
  /\ req[r].pc # "idle"
  /\ req' = [req EXCEPT ![r] = Idle]
  /\ lock' = Release(r)
  /\ UNCHANGED <<db, disabled>>

-----------------------------------------------------------------------------
(* The next statement or call of a request in flight. *)
Step(r) ==
  \/ FindByEmail(r)
  \/ NoUserFound(r)
  \/ CreateUser(r)
  \/ CreateConflict(r)
  \/ FindById(r)
  \/ Write(r)
  \/ DisableAccount(r)
  \/ Commit(r)
  \/ StoreToken(r)

Next ==
  \E r \in Requests :
    \/ \E s \in Subs : StartLogin(r, s)
    \/ \E a, t \in Subs : \/ \E c \in Bodies : StartUpdate(r, a, t, c)
                          \/ StartDelete(r, a, t)
    \/ Step(r)
    \/ Abort(r)

Spec == Init /\ [][Next]_vars

(* Cognito, PostgreSQL and Redis answer or the connection breaks, and      *)
(* PostgreSQL gives a freed lock to the requests waiting for it: a request *)
(* that could take its next step again and again takes it.                 *)
FairSpec == Spec /\ \A r \in Requests : SF_vars(Step(r))

-----------------------------------------------------------------------------
(* Invariants. *)

(* Every variable has its type. *)
TypeOK ==
  /\ db \in [Subs -> Row \cup {NoRow}]
  /\ lock \in [Subs -> Requests \cup {NoOne}]
  /\ disabled \subseteq Subs
  /\ req \in [Requests -> Request]

(* A deleted account can no longer sign in to Cognito: the deletion is     *)
(* committed after the account was disabled, never without it              *)
(* (delete_user; 005-user-management-crud/functional-spec.md:110).         *)
DeletedIsDisabled == \A s \in Subs : Deleted(s) => s \in disabled

(* A login that starts after a deletion is committed never issues a token  *)
(* for the deleted row, not even through another Cognito account with the  *)
(* same address: get_by_email skips the row and the INSERT meets its keys. *)
NoLoginAfterDeletion ==
  \A r \in Requests : req[r].pc = "store" => req[r].target \notin req[r].gone

(* q has what r waits for: the lock of the row that r is to update, or an  *)
(* uncommitted row with the key of the one that r is to insert.            *)
WaitsFor(r, q) ==
  \/ req[r].pc = "write" /\ lock[req[r].target] = q
  \/ req[r].pc = "insert" /\ req[q].new /\ SameKey(req[r].who, req[q].target)

(* Whoever is waited for is in flight and waits for nobody: row locks and  *)
(* unique keys, taken in any order by logins, updates and deletions, never *)
(* form a circle, and none is left behind by a request that has ended.     *)
NobodyWaitsForAWaiter ==
  \A r, q \in Requests :
    WaitsFor(r, q) => /\ req[q].pc # "idle"
                      /\ \A p \in Requests : ~WaitsFor(q, p)

-----------------------------------------------------------------------------
(* Action properties. *)

Commits(r, s) ==
  req[r].pc = "commit" /\ req[r].target = s /\ req'[r] # req[r]

(* deleted_at is never cleared: a login or a profile update that read the  *)
(* row before its deletion writes it afterwards without undoing that.      *)
DeletionIsPermanent ==
  [][\A s \in Subs : Deleted(s) => Deleted(s)']_vars

(* No lost update across columns: a committed change touches only columns  *)
(* that the committing request's caller named, however old the values it   *)
(* read are.                                                               *)
OnlyAskedColumnsChange ==
  [][\A s \in Subs : Exists(s) /\ db'[s] # db[s] =>
       \E r \in Requests :
         /\ Commits(r, s)
         /\ \A c \in Columns : db'[s][c] # db[s][c] =>
              c \in DOMAIN req[r].asked /\ db'[s][c] = req[r].asked[c]]_vars

(* What a request without the admin role commits is the profile of its own *)
(* row (update_user's checks, require_role on DELETE).                     *)
ChangesAreAuthorised ==
  [][\A s \in Subs, r \in Requests :
       Commits(r, s) /\ Exists(s) /\ db'[s] # db[s] /\ ~req[r].admin =>
         /\ req[r].who = s
         /\ \A c \in Columns \ ProfileColumns : db'[s][c] = db[s][c]]_vars

-----------------------------------------------------------------------------
(* Liveness, under FairSpec. *)

(* Every request ends: transactions that wait for each other's row locks   *)
(* and unique keys, with a Cognito call inside, never wait in a circle.    *)
RequestsComplete ==
  \A r \in Requests : req[r].pc # "idle" ~> req[r].pc = "idle"

-----------------------------------------------------------------------------
(* What the documents say and the code does not do. *)

(* "After deletion, the user cannot log in via the auth flow"              *)
(* (005-user-management-crud/functional-spec.md:113): a login answered     *)
(* now is for a row that is not deleted.                                   *)
NoLoginWhenDeleted ==
  \A r \in Requests : req[r].pc = "store" => ~Deleted(req[r].target)

(* "Updating a soft-deleted user returns 404" and "Deleting an             *)
(* already-deleted user returns 404"                                       *)
(* (005-user-management-crud/functional-spec.md:98, :112): what is written *)
(* and about to be committed is a change of an active row.                 *)
ChangesOnlyActiveUsers ==
  \A r \in Requests :
    /\ req[r].pc = "commit" /\ req[r].kind # "login"
    /\ lock[req[r].target] = r
    => ~Deleted(req[r].target)
=============================================================================
