--------------------------- MODULE AccountsDirectory ---------------------------
(***************************************************************************)
(* The statements of Accounts implement Directory.  The rows and the       *)
(* disabled accounts are the same; what a request has been accepted for    *)
(* can be read off its local state.                                        *)
(***************************************************************************)
EXTENDS Accounts

OrderOf(q) ==
  CASE q.pc = "idle" -> [kind |-> "none"]
    [] q.kind = "login" /\ q.pc = "store" -> [kind |-> "token", target |-> q.target]
    [] q.kind = "login" /\ q.pc \notin {"idle", "store"} ->
         [kind |-> "login", who |-> q.who, barred |-> q.gone]
    [] q.kind # "login" /\ q.pc # "idle" ->
         [kind |-> "change", target |-> q.target, asked |-> q.asked,
          values |-> q.write, found |-> q.pc # "find"]

D == INSTANCE Directory WITH
       order <- [r \in Requests |-> OrderOf(req[r])],
       Alike <- [s \in Subs |-> {t \in Subs : Lower[EmailOf[t]] = Lower[EmailOf[s]]}],
       Rivals <- [s \in Subs |-> {t \in Subs : SameKey(s, t)}]

(* Whatever the requests' statements interleave with, each change of the   *)
(* users table is one accepted order, authorised when it was placed, of a  *)
(* row found active since, a deletion after the account was disabled.  It  *)
(* is carried out in one step with every column it names, roles and        *)
(* profiles together, but for values that the row had when the request     *)
(* looked, and with no other column.  A login's token is for a row that    *)
(* was active at a moment since the login started                          *)
(* (AuthService.authenticate, UserService).                                *)
ImplementsDirectory == D!Spec
=============================================================================
