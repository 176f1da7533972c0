------------------------------ MODULE AuditLog ------------------------------
(***************************************************************************)
(* What the audit crate promises its callers: the instance keeps one       *)
(* append-only log, and an audited action takes effect together with its   *)
(* entry or not at all.  RevokeDevice is the one action that is recorded   *)
(* after it has taken effect, and perhaps never.                           *)
(***************************************************************************)
EXTENDS Integers, Sequences

CONSTANTS Req,          \* requests that act on the instance
          BestEffort    \* those whose action is committed before it is audited

VARIABLES log,          \* the entries, oldest first; an entry names its request
          applied       \* the requests whose effect is committed

alvars == <<log, applied>>

Logged(r) == \E i \in DOMAIN log : log[i].data = r

ALInit == log = <<>> /\ applied = {}

(* One entry more, for request r; what else it records is not promised. *)
Extends(r) == /\ Len(log') = Len(log) + 1
              /\ log' = Append(log, log'[Len(log')])
              /\ log'[Len(log')].data = r

Act(r) == /\ r \notin BestEffort
          /\ r \notin applied
          /\ Extends(r)
          /\ applied' = applied \cup {r}

ActUnrecorded(r) == /\ r \in BestEffort
                    /\ r \notin applied
                    /\ applied' = applied \cup {r}
                    /\ log' = log

RecordLate(r) == /\ r \in BestEffort
                 /\ r \in applied
                 /\ ~Logged(r)
                 /\ Extends(r)
                 /\ applied' = applied

ALNext == \E r \in Req : Act(r) \/ ActUnrecorded(r) \/ RecordLate(r)

ALSpec == ALInit /\ [][ALNext]_alvars
=============================================================================
