------------------------------ MODULE MCAccounts ------------------------------
(* Values for the TLC runs of Accounts. *)
EXTENDS AccountsDirectory, TLC

CONSTANTS root, ann, bob, ann2, p0, p1

(* Bodies of PATCH requests: nothing, one column, a role together with a   *)
(* profile column, with other values and with those of a new row.          *)
MCBodies ==
  {[c \in {} |-> p0], [name |-> p1], [role |-> "user", phone |-> p1],
   [role |-> "admin", name |-> p0]}
MCSharedBodies == {[name |-> p1, phone |-> p1]}

(* Addresses: ann2 is a second Cognito account, with ann's address in      *)
(* other letter case or as ann wrote it.                                   *)
MCEmailOf == [s \in Subs |-> CASE s = root -> "root@x" [] s = bob -> "bob@x"
                               [] s = ann -> "ann@x" [] s = ann2 -> "Ann@x"]
MCSharedEmailOf == [s \in Subs |-> CASE s = root -> "root@x" [] s = bob -> "bob@x"
                                     [] OTHER -> "ann@x"]
MCLower == [e \in {"root@x", "ann@x", "Ann@x", "bob@x"} |->
              IF e = "Ann@x" THEN "ann@x" ELSE e]

RequestSymmetry == Permutations(Requests)
=============================================================================
