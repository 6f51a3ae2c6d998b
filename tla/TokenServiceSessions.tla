-------------------------- MODULE TokenServiceSessions --------------------------
(***************************************************************************)
(* TokenService implements Sessions.  The history variable seen, which the *)
(* code does not have, records for each login in flight the sessions of    *)
(* its user that have been live since it began.                            *)
(***************************************************************************)
EXTENDS TokenService

VARIABLE seen

(* The locals of a request before its SET, and between SET and SADD. *)
Pending ==
  {req[r].login : r \in {q \in Requests :
     req[q].pc \in {"smembers", "scan", "drop", "evict", "unlist"}}}

Opened == {req[r].login : r \in {q \in Requests : req[q].pc = "sadd"}}

LiveTokens == {t \in Token : Live(t)}

S == INSTANCE Sessions WITH pending <- Pending, opened <- Opened,
                            live <- LiveTokens

hvars == <<vars, seen>>

HInit == Init /\ seen = [n \in 1 .. MaxLogins |-> {}]

HNext == Next /\ S!Watch

HSpec == HInit /\ [][HNext]_hvars

HFairSpec == HSpec /\ \A r \in Requests : WF_vars(Step(r))

-----------------------------------------------------------------------------
(* However the Redis commands of concurrent requests interleave, fail or   *)
(* lose their replies, they amount to the steps of Sessions: a session     *)
(* begins once for each login and ends only by a logout of a device that   *)
(* holds its token, by a login of the same user that found the limit       *)
(* reached, at the end of its JWT, or with the store.                      *)
ImplementsSessions == S!Spec
=============================================================================
