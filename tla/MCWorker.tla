-------------------------------- MODULE MCWorker --------------------------------
(* Values for the TLC runs of Worker. *)
EXTENDS Worker, TLC

CONSTANTS r1, r2, r3

(* Whoever writes the row: a PATCH, a first login, a deletion; and the     *)
(* routes that take a connection without the row, beside the PATCH.  The   *)
(* other routes hold nothing while they wait that these do not hold while  *)
(* they wait for the same.                                                 *)
MCRoutes ==
  (r1 :> {"health", "unchanged", "update"}) @@ (r2 :> {"signup"}) @@ (r3 :> {"delete"})
MCAnyRoute == [r \in Requests |-> DOMAIN Script]
=============================================================================
