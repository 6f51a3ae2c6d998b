-------------------------------- MODULE Sessions --------------------------------
(***************************************************************************)
(* What the session store promises: which sessions are live, and what may  *)
(* begin or end one.  TokenService, with its Redis commands one at a time, *)
(* implements it; SessionGuard builds on it.                               *)
(***************************************************************************)
EXTENDS Naturals, Sequences, FiniteSets

CONSTANTS
  Users,        \* user ids, the JWT's "sub"
  MaxSessions,  \* REDIS_MAX_SESSIONS
  ExpiresIn,    \* Cognito's expires_in, in seconds
  MaxTime,      \* bound: the clock stops at this second
  MaxLogins     \* bound: number of logins

(* The claims, which stand for the token. *)
Token == [sub : Users, exp : ExpiresIn .. (MaxTime + ExpiresIn)]

VARIABLES
  now,      \* the clock, in whole seconds
  issued,   \* the token of each login, in order of issue
  pending,  \* logins whose record is not written
  opened,   \* logins whose record was written and that are not answered
  granted,  \* logins answered 200, whose device holds the token
  live,     \* tokens with a live record
  seen      \* for each pending login: its user's sessions live since it began

vars == <<now, issued, pending, opened, granted, live, seen>>

Init ==
  /\ now = 0
  /\ issued = <<>>
  /\ pending = {} /\ opened = {} /\ granted = {}
  /\ live = {}
  /\ seen = [n \in 1 .. MaxLogins |-> {}]

-----------------------------------------------------------------------------
(* Each step is watched by the logins that are pending after it. *)
Watch ==
  seen' = [n \in 1 .. MaxLogins |->
             IF n \in pending'
             THEN seen[n] \cup {t \in live' : t.sub = issued'[n].sub}
             ELSE {}]

(* A JWT is signed. *)
Issue(u) ==
  /\ Len(issued) < MaxLogins
  /\ issued' = Append(issued, [sub |-> u, exp |-> now + ExpiresIn])
  /\ pending' = pending \cup {Len(issued) + 1}
  /\ UNCHANGED <<now, opened, granted, live>>
  /\ Watch

(* A login ends a session of its own user, and only if MaxSessions of them *)
(* have been live since it began; it may break off right after that.       *)
Evict(n, t) ==
  /\ n \in pending /\ t \in live /\ t.sub = issued[n].sub
  /\ Cardinality(seen[n]) >= MaxSessions
  /\ live' = live \ {t}
  /\ pending' \in {pending, pending \ {n}}
  /\ UNCHANGED <<now, issued, opened, granted>>
  /\ Watch

(* The record is written, once for each login. *)
Open(n) ==
  /\ n \in pending
  /\ pending' = pending \ {n}
  /\ opened' \in {opened, opened \cup {n}}
  /\ live' = live \cup {issued[n]}
  /\ UNCHANGED <<now, issued, granted>>
  /\ Watch

(* The login is answered. *)
Grant(n) ==
  /\ n \in opened
  /\ opened' = opened \ {n}
  /\ granted' = granted \cup {n}
  /\ UNCHANGED <<now, issued, pending, live>>
  /\ Watch

(* It breaks off, before or after its record is written. *)
GiveUp(n) ==
  /\ n \in pending \cup opened
  /\ pending' = pending \ {n}
  /\ opened' = opened \ {n}
  /\ UNCHANGED <<now, issued, granted, live>>
  /\ Watch

(* A device that was granted the token logs out. *)
Close(n) ==
  /\ n \in granted /\ issued[n] \in live
  /\ live' = live \ {issued[n]}
  /\ UNCHANGED <<now, issued, pending, opened, granted>>
  /\ Watch

(* No session expires before the last second of its JWT. *)
Expire(t) ==
  /\ t \in live /\ t.exp <= now
  /\ live' = live \ {t}
  /\ UNCHANGED <<now, issued, pending, opened, granted>>
  /\ Watch

Tick ==
  /\ now < MaxTime
  /\ now' = now + 1
  /\ UNCHANGED <<issued, pending, opened, granted, live>>
  /\ Watch

(* The store loses everything. *)
Restart ==
  /\ live' = {}
  /\ UNCHANGED <<now, issued, pending, opened, granted>>
  /\ Watch

-----------------------------------------------------------------------------
Next ==
  \/ \E u \in Users : Issue(u)
  \/ \E n \in pending : Open(n) \/ \E t \in live : Evict(n, t)
  \/ \E n \in opened : Grant(n)
  \/ \E n \in pending \cup opened : GiveUp(n)
  \/ \E n \in granted : Close(n)
  \/ \E t \in live : Expire(t)
  \/ Tick
  \/ Restart

Spec == Init /\ [][Next]_vars
=============================================================================
