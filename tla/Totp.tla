-------------------------------- MODULE Totp --------------------------------
(***************************************************************************)
(* Authenticator-app second factors: auth.totp_credentials as the          *)
(* functions of crates/auth/src/user_totp.rs use it, and the time-step     *)
(* match of totp.rs.  Any number of handlers call those functions at once; *)
(* how a handler strings them together is taken from their doc comments.   *)
(* A credential stands for its secret; labels and last_used_at are left    *)
(* out, and with them rename and stamp_used, which write nothing else.     *)
(***************************************************************************)
EXTENDS UserTable, Sequences, FiniteSets

CONSTANTS Creds,              \* totp_credentials ids the database may draw
          hotp,               \* hotp[c][n]: the six digits of c's secret at step n; they may collide
          MAX_AUTHENTICATORS,
          MaxStep             \* bound: time steps that pass

ASSUME TotpAssumption ==
    /\ None \notin Creds /\ Deleted \notin Creds
    /\ MAX_AUTHENTICATORS \in Nat \ {0} /\ MaxStep \in Nat
    /\ IsFiniteSet(Creds)
    /\ Creds = DOMAIN hotp /\ \A c \in Creds : DOMAIN hotp[c] = 0..(MaxStep + 1)

VARIABLES creds,      \* auth.totp_credentials: a row, None before it and Deleted after it
          now,        \* the current time step, unix_time / TIME_STEP_SECS
          accepted,   \* <<credential, step>> of every code that was accepted, in order
          removed     \* credentials delete() answered true for

totp == <<creds, now, accepted, removed>>

Digits == UNION {{hotp[c][n] : n \in DOMAIN hotp[c]} : c \in Creds}
Row == [user : Users, verified : BOOLEAN, last_used_step : Nat \cup {None}]
ASSUME TotpRowAssumption == None \notin Row /\ Deleted \notin Row

Rows == {c \in Creds : creds[c] \notin {None, Deleted}}
Verified(u) == {c \in Rows : creds[c].user = u /\ creds[c].verified}
Pending(u) == {c \in Rows : creds[c].user = u /\ ~ creds[c].verified}

(* One user may have an authenticator in use, and enrolments it began and  *)
(* did not finish: two, if it began them at the same time.                 *)
InitTotp ==
    /\ \E u \in Users, inUse \in SUBSET {CHOOSE c \in Creds : TRUE}, begun \in SUBSET Creds :
          /\ inUse \cap begun = {} /\ Cardinality(begun) \in {0, 2}
          /\ creds = [c \in Creds |-> IF c \in inUse \cup begun
                                  THEN [user |-> u, verified |-> c \in inUse, last_used_step |-> None]
                                  ELSE None]
    /\ now = 0 /\ accepted = <<>> /\ removed = {}

Advance == /\ now < MaxStep
           /\ now' = now + 1
           /\ UNCHANGED <<handlers, creds, accepted, removed>>

(* Rows a transaction has written and not yet committed: whoever else      *)
(* writes them waits, and then looks at them again.                        *)
LockedBy(s) ==
    IF s \notin Busy THEN {}
    ELSE CASE call[s].op = "enroll" /\ call[s].pc \in {"insert", "commit"} -> call[s].rows
           [] call[s].op = "confirm" /\ call[s].pc = "commit" -> {call[s].cred}
           [] OTHER -> {}
Free(s, rows) == \A t \in Slots \ {s} : LockedBy(t) \cap rows = {}
DrawnBy(s) == IF At(s, "commit") /\ call[s].op = "enroll" THEN {call[s].cred} ELSE {}

(***************************************************************************)
(* start_enrollment.                                                       *)
(***************************************************************************)
StartEnrollment(s, u) ==
    /\ Exists(u)
    /\ Arrive(s, [op |-> "enroll", pc |-> "clear", user |-> u, rows |-> {}, cred |-> None])
    /\ UNCHANGED totp

(* The DELETE picks its rows from the snapshot it starts with. *)
SelectPending(s) ==
    /\ At(s, "clear")
    /\ Step(s, [call[s] EXCEPT !.pc = "clearing", !.rows = Pending(call[s].user)])
    /\ UNCHANGED totp
(* It waits for rows that are being written, and deletes the ones that are *)
(* still unverified.                                                       *)
ClearPending_Unchecked(s) ==
    /\ At(s, "clearing") /\ Free(s, call[s].rows)
    /\ Step(s, [call[s] EXCEPT !.pc = "insert", !.rows = @ \cap Rows])
    /\ UNCHANGED totp
ClearPending(s) ==
    /\ At(s, "clearing") /\ Free(s, call[s].rows)
    /\ Step(s, [call[s] EXCEPT !.pc = "insert", !.rows = @ \cap Pending(call[s].user)])
    /\ UNCHANGED totp
InsertPending(s) ==
    /\ At(s, "insert") /\ call[s].op = "enroll"
    /\ \/ ~ Exists(call[s].user) /\ Finish(s)
       \/ \E c \in Creds : /\ Exists(call[s].user)
                           /\ creds[c] = None /\ \A t \in Slots : c \notin DrawnBy(t)
                           /\ Step(s, [call[s] EXCEPT !.pc = "commit", !.cred = c])
    /\ UNCHANGED totp
CommitEnrollment(s) ==
    /\ At(s, "commit") /\ call[s].op = "enroll"
    /\ creds' = [c \in Creds |->
                    CASE c \in call[s].rows -> Deleted
                      [] c = call[s].cred -> [user |-> call[s].user, verified |-> FALSE,
                                              last_used_step |-> None]
                      [] OTHER -> creds[c]]
    /\ Finish(s)
    /\ UNCHANGED <<now, accepted, removed>>

(***************************************************************************)
(* Confirming: the pending secret, the limit, then confirm() in its        *)
(* transaction.                                                            *)
(***************************************************************************)
StartConfirm(s, u, c) ==
    /\ Exists(u)
    /\ Arrive(s, [op |-> "confirm", pc |-> "load", user |-> u, cred |-> c])
    /\ UNCHANGED totp

load_pending_secret(s) ==
    /\ At(s, "load")
    /\ IF call[s].cred \in Pending(call[s].user) THEN Step(s, [call[s] EXCEPT !.pc = "count"])
       ELSE Finish(s)
    /\ UNCHANGED totp
count_verified_OffByOne(s) ==
    /\ At(s, "count")
    /\ IF Cardinality(Verified(call[s].user)) <= MAX_AUTHENTICATORS
       THEN Step(s, [call[s] EXCEPT !.pc = "confirm"]) ELSE Finish(s)
    /\ UNCHANGED totp
count_verified(s) ==
    /\ At(s, "count")
    /\ IF Cardinality(Verified(call[s].user)) < MAX_AUTHENTICATORS
       THEN Step(s, [call[s] EXCEPT !.pc = "confirm"]) ELSE Finish(s)
    /\ UNCHANGED totp
confirm(s) ==
    /\ At(s, "confirm") /\ Free(s, {call[s].cred})
    /\ IF call[s].cred \in Pending(call[s].user) THEN Step(s, [call[s] EXCEPT !.pc = "commit"])
       ELSE Finish(s)
    /\ UNCHANGED totp
CommitConfirm(s) ==
    /\ At(s, "commit") /\ call[s].op = "confirm"
    /\ creds' = [creds EXCEPT ![call[s].cred].verified = TRUE]
    /\ Finish(s)
    /\ UNCHANGED <<now, accepted, removed>>

(***************************************************************************)
(* verify_and_consume.                                                     *)
(***************************************************************************)

(* The steps around t, oldest first; there is none before 0. *)
matched_step(c, code, t) ==
    LET hits == {n \in {t - 1, t, t + 1} : n >= 0 /\ hotp[c][n] = code}
    IN  IF hits = {} THEN None ELSE CHOOSE n \in hits : \A k \in hits : n <= k

(* The caller reads the clock, then calls. *)
StartVerify(s, u, code) ==
    /\ Exists(u)
    /\ Arrive(s, [op |-> "verify", pc |-> "match", user |-> u, code |-> code, at |-> now,
                  cred |-> None, step |-> None])
    /\ UNCHANGED totp

(* The verified rows, in no particular order: the first that matches.      *)
MatchStep(s) ==
    /\ At(s, "match")
    /\ LET Match(c) == matched_step(c, call[s].code, call[s].at)
           hits == {c \in Verified(call[s].user) : Match(c) # None}
       IN  \/ hits = {} /\ Finish(s)
           \/ \E c \in hits : Step(s, [call[s] EXCEPT !.pc = "consume", !.cred = c, !.step = Match(c)])
    /\ UNCHANGED totp

(* The UPDATE, which looks at the row again and accepts a newer step only. *)
ConsumeIf(s, newer) ==
    /\ At(s, "consume") /\ Free(s, {call[s].cred})
    /\ IF call[s].cred \in Verified(call[s].user) /\ newer
       THEN /\ creds' = [creds EXCEPT ![call[s].cred].last_used_step = call[s].step]
            /\ accepted' = Append(accepted, <<call[s].cred, call[s].step>>)
       ELSE UNCHANGED <<creds, accepted>>
    /\ Finish(s)
    /\ UNCHANGED <<now, removed>>
Consume_NotSameStep(s) ==
    ConsumeIf(s, creds[call[s].cred] # Deleted =>
                    creds[call[s].cred].last_used_step # call[s].step)
Consume(s) ==
    ConsumeIf(s, creds[call[s].cred] # Deleted =>
                    \/ creds[call[s].cred].last_used_step = None
                    \/ creds[call[s].cred].last_used_step < call[s].step)

(* delete(): scoped to its user, verified or not. *)
delete(u, c) ==
    /\ Exists(u) /\ calls < MaxCalls /\ calls' = calls + 1
    /\ \A s \in Slots : c \notin LockedBy(s)
    /\ c \in Rows
    /\ IF creds[c].user = u THEN /\ creds' = [creds EXCEPT ![c] = Deleted]
                                 /\ removed' = removed \cup {c}
       ELSE UNCHANGED <<creds, removed>>
    /\ UNCHANGED <<call, now, accepted>>

(* A statement, a decryption, a commit or the connection fails: an open    *)
(* transaction is rolled back.                                             *)
TotpFail(s) == s \in Busy /\ call[s].op \in {"enroll", "confirm", "verify"} /\ Finish(s)
               /\ UNCHANGED totp

TotpNext ==
    \/ Advance
    \/ \E s \in Slots :
          \/ \E u \in Users : \/ StartEnrollment(s, u)
                              \/ \E c \in Rows : StartConfirm(s, u, c)
                              \/ \E code \in Digits : StartVerify(s, u, code)
          \/ SelectPending(s) \/ ClearPending(s) \/ InsertPending(s) \/ CommitEnrollment(s)
          \/ load_pending_secret(s) \/ count_verified(s) \/ confirm(s) \/ CommitConfirm(s)
          \/ MatchStep(s) \/ Consume(s) \/ TotpFail(s)
    \/ \E u \in Users, c \in Creds : delete(u, c)

-----------------------------------------------------------------------------
(* "TOTP codes are single-use": a credential accepts every time step at    *)
(* most once, and none older than one it has accepted, however many        *)
(* verifications of the same or of neighbouring codes overlap.             *)
StepsAreSingleUse ==
    \A i, j \in 1..Len(accepted) :
        i < j /\ accepted[i][1] = accepted[j][1] => accepted[i][2] < accepted[j][2]

(* An authenticator that is in use stays in use until its own user deletes *)
(* it: no enrolment that was started meanwhile clears a row which confirm  *)
(* has activated, and no one else's delete reaches it.                     *)
InUseUntilDeleted ==
    [][\A u \in Users : \A c \in Verified(u) : c \in Verified(u)' \/ c \in removed']_<<totp, handlers>>

(* count_verified "enforces MAX_AUTHENTICATORS" before the transaction of  *)
(* confirm, so handlers that count at the same time pass together: the     *)
(* limit is exceeded by at most the other handlers that can be in flight.  *)
AuthenticatorLimit ==
    \A u \in Users : Cardinality(Verified(u)) <= MAX_AUTHENTICATORS + SlotCount - 1
=============================================================================
