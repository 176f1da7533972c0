----------------------------- MODULE AuditChain -----------------------------
(***************************************************************************)
(* The tamper-evident audit log (crates/audit) under the transactions that *)
(* write it.  A request's handler opens a transaction, writes its business *)
(* rows, calls append, which takes the audit advisory lock, draws a seqno, *)
(* reads the hash of the newest row and inserts its own, and commits.      *)
(* Requests interleave statement by statement at READ COMMITTED; any       *)
(* statement may fail, the server may crash, and users may be physically   *)
(* removed while rows that name them are in the table.                     *)
(***************************************************************************)
EXTENDS Integers, Sequences, FiniteSets

CONSTANTS Req,            \* requests, each one audited action
          BestEffort,     \* RevokeDevice requests: audited after their commit
          Rows,           \* business rows that requests update
          Target,         \* Target[r]: the row request r locks and updates
          Users,          \* accounts that may act
          NoActor,        \* the actor of a system event
          Nanos,          \* readings of the wall clock, in nanoseconds
          NanosPerMicro,  \* 1000 in the code
          None            \* a lock nobody holds

ASSUME AuditAssumption ==
    /\ BestEffort \subseteq Req
    /\ Target \in [Req -> Rows]
    /\ None \notin Req
    /\ NoActor \notin Users
    /\ Nanos \subseteq Nat
    /\ NanosPerMicro \in Nat \ {0}

VARIABLES pc,           \* pc[r]: the next statement of request r
          actor,        \* actor[r]: who acts, read when r was authenticated
          seqno,        \* seqno[r]: the value r drew from the sequence
          prev,         \* prev[r]: the hash r read from the newest row
          uncommitted,  \* uncommitted[r]: rows inserted by r, not yet visible
          events,       \* audit.events: the committed rows
          nextSeqno,    \* audit.events_seqno_seq, never rolled back
          auditLock,    \* holder of the advisory lock
          rowLock,      \* rowLock[b]: holder of the lock on business row b
          applied,      \* requests whose business write is committed
          acked,        \* requests answered with success
          users         \* accounts that still exist

txvars == <<pc, actor, seqno, prev, uncommitted>>
dbvars == <<events, nextSeqno, auditLock, rowLock, applied, users>>
vars == <<txvars, dbvars, acked>>

-----------------------------------------------------------------------------
(* Hashing.  SHA-256 is idealised as collision free: a hash is identified  *)
(* with what was hashed, the sequence of canonical records from genesis.   *)

Actors == Users \cup {NoActor}
Canonical == [seqno : Nat, at : Nat, actor : Actors, data : Req]
Hash == Seq(Canonical)
Row == [seqno : Nat, at : Nat, actor : Actors, data : Req,
        prev : Hash, hash : Hash]

genesis_hash == <<>>

compute_hash(prev_hash, canonical) == Append(prev_hash, canonical)

(* What a timestamptz column gives back for the instant it was handed. *)
Timestamptz(t) == (t \div NanosPerMicro) * NanosPerMicro

truncate_to_micros_Off(t) == t
truncate_to_micros(t) == (t \div NanosPerMicro) * NanosPerMicro

(* The fields under the hash; row.seqno is among them, redaction is not. *)
CanonicalOf(row) == [seqno |-> row.seqno, at |-> row.at,
                     actor |-> row.actor, data |-> row.data]

(* ORDER BY seqno DESC LIMIT 1, or genesis on an empty table. *)
Newest(rows) == CHOOSE e \in rows : \A f \in rows : f.seqno <= e.seqno
HeadHash(rows) == IF rows = {} THEN genesis_hash ELSE Newest(rows).hash

-----------------------------------------------------------------------------
InAppend == {"seqno", "prev", "insert", "commit"}
InTx     == {"append"} \cup InAppend
Finished == {"done", "failed"}
PCs      == {"start", "committed"} \cup InTx \cup Finished

Init == /\ pc = [r \in Req |-> "start"]
        /\ actor = [r \in Req |-> NoActor]
        /\ seqno = [r \in Req |-> 0]
        /\ prev = [r \in Req |-> genesis_hash]
        /\ uncommitted = [r \in Req |-> {}]
        /\ events = {}
        /\ nextSeqno = 1
        /\ auditLock = None
        /\ rowLock = [b \in Rows |-> None]
        /\ applied = {}
        /\ acked = {}
        /\ users = Users

Goto(r, l) == pc' = [pc EXCEPT ![r] = l]

(* The locks of the requests in R, released. *)
Release(R) ==
    /\ auditLock' = IF auditLock \in R THEN None ELSE auditLock
    /\ rowLock' = [b \in Rows |-> IF rowLock[b] \in R THEN None ELSE rowLock[b]]

(* pool.begin and the business statements: the row lock is kept until the  *)
(* transaction ends.                                                       *)
WriteInTx(r) ==
    /\ pc[r] = "start"
    /\ r \notin BestEffort
    /\ rowLock[Target[r]] = None
    /\ rowLock' = [rowLock EXCEPT ![Target[r]] = r]
    /\ \E a \in users \cup {NoActor} : actor' = [actor EXCEPT ![r] = a]
    /\ Goto(r, "append")
    /\ UNCHANGED <<seqno, prev, uncommitted, events, nextSeqno, auditLock,
                   applied, acked, users>>

(* revoke_owned runs on the pool, so it commits by itself; the audit       *)
(* transaction of audit_device_revoked begins afterwards.                  *)
WriteAndCommit(r) ==
    /\ pc[r] = "start"
    /\ r \in BestEffort
    /\ rowLock[Target[r]] = None
    /\ applied' = applied \cup {r}
    /\ \E a \in users : actor' = [actor EXCEPT ![r] = a]
    /\ Goto(r, "append")
    /\ UNCHANGED <<seqno, prev, uncommitted, events, nextSeqno, auditLock,
                   rowLock, acked, users>>

(* pg_advisory_xact_lock: blocks while another transaction holds it. *)
AcquireLock_Off(r) ==
    /\ pc[r] = "append"
    /\ auditLock' = r
    /\ Goto(r, "seqno")
    /\ UNCHANGED <<actor, seqno, prev, uncommitted, events, nextSeqno,
                   rowLock, applied, acked, users>>
AcquireLock(r) ==
    /\ pc[r] = "append"
    /\ auditLock = None
    /\ auditLock' = r
    /\ Goto(r, "seqno")
    /\ UNCHANGED <<actor, seqno, prev, uncommitted, events, nextSeqno,
                   rowLock, applied, acked, users>>

DrawSeqno(r) ==
    /\ pc[r] = "seqno"
    /\ seqno' = [seqno EXCEPT ![r] = nextSeqno]
    /\ nextSeqno' = nextSeqno + 1
    /\ Goto(r, "prev")
    /\ UNCHANGED <<actor, prev, uncommitted, events, auditLock, rowLock,
                   applied, acked, users>>

ReadPrev(r) ==
    /\ pc[r] = "prev"
    /\ prev' = [prev EXCEPT ![r] = HeadHash(events \cup uncommitted[r])]
    /\ Goto(r, "insert")
    /\ UNCHANGED <<actor, seqno, uncommitted, dbvars, acked>>

(* The row r inserts at instant now: hashed over the truncated instant,    *)
(* stored through the column type.                                         *)
NewRow(r, now) ==
    LET c == [seqno |-> seqno[r], at |-> truncate_to_micros(now),
              actor |-> actor[r], data |-> r]
    IN  [seqno |-> c.seqno, at |-> Timestamptz(c.at), actor |-> c.actor,
         data |-> c.data, prev |-> prev[r],
         hash |-> compute_hash(prev[r], c)]

Insert_UnlocksEarly(r) ==
    /\ pc[r] = "insert"
    /\ \E now \in Nanos :
          uncommitted' = [uncommitted EXCEPT ![r] = {NewRow(r, now)}]
    /\ auditLock' = None
    /\ Goto(r, "commit")
    /\ UNCHANGED <<actor, seqno, prev, events, nextSeqno, rowLock, applied,
                   acked, users>>
Insert(r) ==
    /\ pc[r] = "insert"
    /\ \E now \in Nanos :
          uncommitted' = [uncommitted EXCEPT ![r] = {NewRow(r, now)}]
    /\ Goto(r, "commit")
    /\ UNCHANGED <<actor, seqno, prev, dbvars, acked>>

Commit(r) ==
    /\ pc[r] = "commit"
    /\ events' = events \cup uncommitted[r]
    /\ uncommitted' = [uncommitted EXCEPT ![r] = {}]
    /\ applied' = applied \cup {r}
    /\ Release({r})
    /\ Goto(r, "committed")
    /\ UNCHANGED <<actor, seqno, prev, nextSeqno, acked, users>>

(* A statement of the transaction fails: the handler returns the error and *)
(* the transaction rolls back.  RevokeDevice only logs the failure.        *)
Fail_KeepsWrite(r) ==
    /\ pc[r] \in InTx
    /\ uncommitted' = [uncommitted EXCEPT ![r] = {}]
    /\ applied' = applied \cup {r}
    /\ Release({r})
    /\ Goto(r, "committed")
    /\ UNCHANGED <<actor, seqno, prev, events, nextSeqno, acked, users>>
Fail_KeepsLock(r) ==
    /\ pc[r] \in InTx
    /\ uncommitted' = [uncommitted EXCEPT ![r] = {}]
    /\ Goto(r, IF r \in BestEffort THEN "committed" ELSE "failed")
    /\ UNCHANGED <<actor, seqno, prev, dbvars, acked>>
Fail(r) ==
    /\ pc[r] \in InTx
    /\ uncommitted' = [uncommitted EXCEPT ![r] = {}]
    /\ Release({r})
    /\ Goto(r, IF r \in BestEffort THEN "committed" ELSE "failed")
    /\ UNCHANGED <<actor, seqno, prev, events, nextSeqno, applied, acked, users>>

(* The business statement itself fails (a constraint, a lost connection).  *)
Reject(r) ==
    /\ pc[r] = "start"
    /\ Goto(r, "failed")
    /\ UNCHANGED <<actor, seqno, prev, uncommitted, dbvars, acked>>

Reply(r) ==
    /\ pc[r] = "committed"
    /\ acked' = acked \cup {r}
    /\ Goto(r, "done")
    /\ UNCHANGED <<actor, seqno, prev, uncommitted, dbvars>>

(* The server dies: Postgres rolls back every open transaction, clients of *)
(* running requests get no answer.                                         *)
Running == {r \in Req : pc[r] \in InTx \cup {"committed"}}

Crash ==
    /\ Running # {}
    /\ pc' = [r \in Req |-> IF r \in Running THEN "failed" ELSE pc[r]]
    /\ uncommitted' = [r \in Req |-> {}]
    /\ Release(Req)
    /\ UNCHANGED <<actor, seqno, prev, events, nextSeqno, applied, acked, users>>

(* hard_remove: DELETE FROM identity.users.  actor_user_id is no foreign   *)
(* key, so no row of the log changes.                                      *)
HardRemove_SetNull(u) ==
    /\ u \in users
    /\ users' = users \ {u}
    /\ events' = {[e EXCEPT !.actor = IF e.actor = u THEN NoActor ELSE e.actor]
                    : e \in events}
    /\ UNCHANGED <<txvars, nextSeqno, auditLock, rowLock, applied, acked>>
HardRemove(u) ==
    /\ u \in users
    /\ users' = users \ {u}
    /\ UNCHANGED <<txvars, events, nextSeqno, auditLock, rowLock, applied, acked>>

(* Every request is answered and every account is gone. *)
Quiescent ==
    /\ \A r \in Req : pc[r] \in Finished
    /\ users = {}
    /\ UNCHANGED vars

Step(r) == \/ WriteInTx(r) \/ WriteAndCommit(r) \/ AcquireLock(r)
           \/ DrawSeqno(r) \/ ReadPrev(r) \/ Insert(r) \/ Commit(r) \/ Reply(r)

Next == \/ \E r \in Req : Step(r) \/ Fail(r) \/ Reject(r)
        \/ Crash
        \/ \E u \in Users : HardRemove(u)
        \/ Quiescent

Spec == Init /\ [][Next]_vars

(* Requests have arrived and the runtime keeps polling their handlers.     *)
(* Failures, crashes and removals are never owed.                          *)
FairSpec == Spec /\ \A r \in Req : WF_vars(Step(r))

-----------------------------------------------------------------------------
(* Every variable has its type; a hash is a sequence of canonical records. *)
TypeOK ==
    /\ pc \in [Req -> PCs]
    /\ actor \in [Req -> Actors]
    /\ seqno \in [Req -> Nat]
    /\ prev \in [Req -> Hash]
    /\ uncommitted \in [Req -> SUBSET Row]
    /\ events \in SUBSET Row
    /\ nextSeqno \in Nat
    /\ auditLock \in Req \cup {None}
    /\ rowLock \in [Rows -> Req \cup {None}]
    /\ applied \in SUBSET Req
    /\ acked \in SUBSET Req
    /\ users \in SUBSET Users

Logged(r) == \E e \in events : e.data = r

(* What an external verifier checks of the table, read in seqno order: no  *)
(* two rows share a seqno, each row links to the row before it (the first  *)
(* to genesis) and each hash recomputes from the columns as they are       *)
(* stored.  It survives concurrent appenders, rollbacks that leave gaps in *)
(* the sequence, crashes, and the removal of the users the rows name.      *)
ChainIntact ==
    /\ \A e, f \in events : e.seqno = f.seqno => e = f
    /\ \A e \in events :
          /\ e.prev = HeadHash({f \in events : f.seqno < e.seqno})
          /\ e.hash = compute_hash(e.prev, CanonicalOf(e))

(* The business write and its event are one transaction: no event without  *)
(* its action, no action of an audited handler without its event, and no   *)
(* client is told of success before the action is committed.               *)
AuditedTogether ==
    /\ \A r \in Req : Logged(r) => r \in applied
    /\ \A r \in applied \ BestEffort : Logged(r)
    /\ acked \subseteq applied

(* A committed row is never changed or removed, and rows become visible in *)
(* seqno order: a reader that has seen seqno n never finds a row below n   *)
(* appear later.                                                           *)
AppendOnly ==
    [][/\ events \subseteq events'
       /\ \A e \in events, f \in events' \ events : e.seqno < f.seqno]_events

(* The chain implements one append-only log written together with the      *)
(* actions: the log is what the newest hash commits to.                    *)
AL == INSTANCE AuditLog WITH log <- HeadHash(events)
ImplementsAuditLog == AL!ALSpec

(* A request whose handler has begun, or that waits for its row, ends: the *)
(* row lock and the audit lock are always taken in that order and always   *)
(* given back, also on failure.                                            *)
EveryRequestEnds ==
    \A r \in Req : pc[r] # "start" \/ r \notin BestEffort ~> pc[r] \in Finished

(* The strengthening that makes the safety properties inductive: who is in *)
(* append holds the lock; what the holder drew and read is still current,  *)
(* because only the holder can add a row; the newest row exists; the       *)
(* newest hash names exactly the logged requests.                          *)
LockHeld == \A r \in Req : pc[r] \in InAppend <=> auditLock = r
SeqnoCurrent ==
    /\ \A e \in events : e.seqno < nextSeqno
    /\ \A r \in Req : pc[r] \in {"prev", "insert", "commit"} =>
          /\ seqno[r] < nextSeqno
          /\ \A e \in events : e.seqno < seqno[r]
PrevCurrent ==
    \A r \in Req : pc[r] \in {"insert", "commit"} => prev[r] = HeadHash(events)
PendingRow ==
    \A r \in Req :
       IF pc[r] = "commit"
         THEN \E now \in Nanos : uncommitted[r] = {NewRow(r, now)}
         ELSE uncommitted[r] = {}
NewestExists ==
    events # {} => \E e \in events : \A f \in events : f.seqno <= e.seqno
EffectOfPhase ==
    \A r \in Req :
       /\ pc[r] = "start" => r \notin applied
       /\ pc[r] \in InTx => (r \in applied <=> r \in BestEffort) /\ ~Logged(r)
       /\ pc[r] = "committed" => r \in applied
HeadNamesLogged ==
    \A r \in Req :
       Logged(r) <=> \E i \in DOMAIN HeadHash(events) :
                        HeadHash(events)[i].data = r

(* The inductive invariant of the audit transactions. *)
IInv == /\ TypeOK /\ LockHeld /\ SeqnoCurrent /\ PrevCurrent /\ PendingRow
        /\ NewestExists /\ EffectOfPhase /\ HeadNamesLogged
        /\ ChainIntact /\ AuditedTogether

(* The doc comment of append: "if audit fails, the originating action      *)
(* fails".  RevokeDevice does not keep it.                                 *)
NoUnauditedSuccess == \A r \in acked : Logged(r)
=============================================================================
