----------------------------- MODULE MCSessionGuard -----------------------------
(* Values for the TLC runs of SessionGuard. *)
EXTENDS SessionGuard, TLC

CONSTANTS root, ann, ann2, p0

(* ann2 is a second Cognito account with ann's address. *)
MCEmailOf == [s \in Subs |-> IF s = root THEN "root@x" ELSE "ann@x"]
MCLower == [e \in {"root@x", "ann@x"} |-> e]
MCBodies == {[name |-> p0], [role |-> "admin", phone |-> p0]}

RequestSymmetry == Permutations(Requests)
=============================================================================
