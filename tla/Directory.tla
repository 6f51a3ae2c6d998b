------------------------------- MODULE Directory -------------------------------
(***************************************************************************)
(* What the user accounts promise to the requests: who may sign in, what a *)
(* request may change and when.  An order is judged by the rows as they    *)
(* are when it is placed, and carried out later in one step, after others  *)
(* that were placed before or since.  Accounts, with its statements, dirty *)
(* columns, row locks and unique keys, implements it.                      *)
(***************************************************************************)
CONSTANTS
  Subs, Admins, NoProfile, Bodies, Requests, NoRow,  \* as in Accounts
  Alike,  \* for each account, those with its address, in whatever letter case
  Rivals  \* for each account, those whose row cannot be there beside its own

VARIABLES
  db,        \* the rows
  disabled,  \* accounts that can no longer sign in to Cognito
  order      \* what each request has been accepted for and has not done yet

vars == <<db, disabled, order>>

ProfileColumns == {"name", "phone"}
Columns == {"role", "status"} \cup ProfileColumns

(* What can be ordered: a change of any columns, or the deletion. *)
Orders == Bodies \cup {[c \in {"status"} |-> "deleted"]}

NewRow == [role |-> "user", name |-> NoProfile, phone |-> NoProfile, status |-> "active"]

Exists(s) == db[s] # NoRow
Active(s) == Exists(s) /\ db[s].status = "active"
Deleted(s) == Exists(s) /\ db[s].status = "deleted"

(* What a request can be at; asked is a whole order, values what is left   *)
(* of it to be written.                                                    *)
NoOrder == [kind |-> "none"]
Login(s, barred) == [kind |-> "login", who |-> s, barred |-> barred]
Token(t) == [kind |-> "token", target |-> t]
Change(t, asked, w, found) ==
  [kind |-> "change", target |-> t, asked |-> asked, values |-> w, found |-> found]

(* What may be left of w: all but values that the row of t has already. *)
Left(w, t) ==
  {[c \in C |-> w[c]] : C \in {K \in SUBSET DOMAIN w :
     \A c \in DOMAIN w \ K : Exists(t) /\ w[c] = db[t][c]}}

Init ==
  /\ db = [s \in Subs |-> IF s \in Admins
                          THEN [NewRow EXCEPT !.role = "admin"] ELSE NoRow]
  /\ disabled = {}
  /\ order = [r \in Requests |-> NoOrder]

-----------------------------------------------------------------------------
Becomes(r, o) == order' = [order EXCEPT ![r] = o]

(* A login starts; the rows that are deleted now are barred to it. *)
SignIn(r, s) ==
  /\ order[r] = NoOrder /\ s \notin disabled
  /\ Becomes(r, Login(s, {t \in Subs : Deleted(t)}))
  /\ UNCHANGED <<db, disabled>>

(* It gets a token for a row that is there and is not barred: one that was *)
(* active at some moment since the login started.                          *)
Recognise(r, t) ==
  /\ order[r].kind = "login" /\ t \in Alike[order[r].who]
  /\ Exists(t) /\ t \notin order[r].barred
  /\ Becomes(r, Token(t))
  /\ UNCHANGED <<db, disabled>>

(* Or for the row that it adds. *)
Register(r) ==
  /\ order[r].kind = "login"
  /\ \A t \in Rivals[order[r].who] : ~Exists(t)
  /\ db' = [db EXCEPT ![order[r].who] = NewRow]
  /\ Becomes(r, Token(order[r].who)) \/ Becomes(r, NoOrder)
  /\ UNCHANGED disabled

(* A change is ordered by an admin, or by a user for the own profile. The  *)
(* order is judged now, and not again.                                     *)
Place(r, actor, target, w) ==
  /\ order[r] = NoOrder /\ Active(actor)
  /\ db[actor].role = "admin" \/ (target = actor /\ DOMAIN w \subseteq ProfileColumns)
  /\ \E v \in Left(w, target) : Becomes(r, Change(target, w, v, FALSE))
  /\ UNCHANGED <<db, disabled>>

(* Its row is found active. *)
Find(r) ==
  /\ order[r].kind = "change" /\ ~order[r].found
  /\ Active(order[r].target)
  /\ \E v \in Left(order[r].values, order[r].target) :
       Becomes(r, Change(order[r].target, order[r].asked, v, TRUE))
  /\ UNCHANGED <<db, disabled>>

(* An account is disabled for a deletion, which may still break off. *)
Disable(r) ==
  /\ order[r].kind = "change" /\ order[r].found
  /\ "status" \in DOMAIN order[r].values
  /\ disabled' = disabled \cup {order[r].target}
  /\ UNCHANGED order \/ Becomes(r, NoOrder)
  /\ UNCHANGED db

(* The change is carried out: all that is left of the order in one step,   *)
(* and no other column; a deletion only of an account that was disabled.   *)
Apply(r) ==
  /\ order[r].kind = "change" /\ order[r].found
  /\ Exists(order[r].target)
  /\ "status" \in DOMAIN order[r].values => order[r].target \in disabled
  /\ db' = [db EXCEPT ![order[r].target] =
              [c \in Columns |-> IF c \in DOMAIN order[r].values
                                 THEN order[r].values[c] ELSE @[c]]]
  /\ Becomes(r, NoOrder)
  /\ UNCHANGED disabled

(* A request ends, done or not. *)
Drop(r) ==
  /\ Becomes(r, NoOrder)
  /\ UNCHANGED <<db, disabled>>

-----------------------------------------------------------------------------
Next ==
  \E r \in Requests :
    \/ Drop(r)
    \/ Find(r) \/ Disable(r) \/ Apply(r)
    \/ \E s \in Subs : SignIn(r, s) \/ Recognise(r, s)
    \/ Register(r)
    \/ \E a, t \in Subs : \E w \in Orders : Place(r, a, t, w)

Spec == Init /\ [][Next]_vars
=============================================================================
