----------------------------- MODULE TotpProofs -----------------------------
(***************************************************************************)
(* Second factors, proved for any number of users, authenticators and      *)
(* handlers and any six digits: TotpInv is kept by the functions of        *)
(* user_totp.rs, by the removal of the user and by every handler that does *)
(* something else.  EnrollmentProofs takes it from here.                   *)
(***************************************************************************)
EXTENDS Enrollment, FiniteSetTheorems, TLAPS

(* What a handler is, for each function that runs in one. *)
Hashes == {hash_code(code) : code \in Codes \cup Typed}
Enrolling == [op : {"enroll"}, pc : {"clear", "clearing", "insert", "commit"}, user : Users,
              rows : SUBSET Creds, cred : Creds \cup {None}]
Confirming == [op : {"confirm"}, pc : {"load", "count", "confirm", "commit"}, user : Users,
               cred : Creds]
Verifying == [op : {"verify"}, pc : {"match", "consume"}, user : Users, code : Digits, at : Nat,
              cred : Creds \cup {None}, step : Nat \cup {None}]
Joining == [op : {"accept"}, pc : {"find", "create", "accept"}, invite : Invites, token : Nat,
            user : Users \cup {None}]
Bootstrapping == [op : {"bootstrap"}, pc : {"start", "commit"}, new : Hashes]
Rotating == [op : {"rotate"}, pc : {"start", "insert", "commit"}, current : Hashes,
             new : Hashes, previous : Nat \cup {None}]
Resetting == [op : {"reset"}, pc : {"start", "rotate"}, user : Users, current : Hashes]
TotpHandler == Enrolling \cup Confirming \cup Verifying
OtherHandler == Joining \cup Bootstrapping \cup Rotating \cup Resetting
HandlersOK == /\ call \in [Slots -> TotpHandler \cup OtherHandler \cup {None}]
              /\ calls \in Nat

(* The fields a handler has filled in by the time it needs them. *)
Filled(h) == /\ h.pc = "consume" => h.cred \in Creds /\ h.step \in Nat
             /\ h.pc = "commit" /\ h.op = "enroll" => h.cred \in Creds

TotpTypeOK ==
    /\ creds \in [Creds -> Row \cup {None, Deleted}]
    /\ now \in Nat
    /\ accepted \in Seq(Creds \X Nat)
    /\ HandlersOK
    /\ \A s \in Busy : call[s] \in TotpHandler => Filled(call[s])

(* A transaction holds locks only on enrolments that are still pending,    *)
(* and no two hold one on the same row.                                    *)
LocksHeld ==
    \A s \in Slots : \A c \in LockedBy(s) :
       /\ c \in Pending(call[s].user)
       /\ \A t \in Slots \ {s} : c \notin LockedBy(t)

(* An id that was drawn for a row is not in the table yet, nor drawn twice. *)
DrawnFresh ==
    \A s \in Slots : \A c \in DrawnBy(s) :
       /\ creds[c] = None
       /\ \A t \in Slots \ {s} : c \notin DrawnBy(t)

(* last_used_step is not below any step the credential has accepted. *)
AcceptedBelow ==
    \A i \in 1..Len(accepted) :
       LET row == creds[accepted[i][1]] IN
       /\ row # None
       /\ row # Deleted => /\ row.last_used_step # None
                           /\ accepted[i][2] <= row.last_used_step

TotpInv == TotpTypeOK /\ LocksHeld /\ DrawnFresh /\ AcceptedBelow /\ StepsAreSingleUse

-----------------------------------------------------------------------------
(* Which function a handler runs follows from where it is. *)
LEMMA HandlerKinds ==
    ASSUME HandlersOK, NEW s \in Busy
    PROVE  /\ call[s] \in TotpHandler \cup OtherHandler
           /\ call[s].op = "enroll" => call[s] \in Enrolling
           /\ call[s].op = "confirm" => call[s] \in Confirming
           /\ call[s].op = "verify" => call[s] \in Verifying
           /\ call[s].pc \in {"clear", "clearing"} => call[s] \in Enrolling
           /\ call[s].pc \in {"load", "count", "confirm"} => call[s] \in Confirming
           /\ call[s].pc \in {"match", "consume"} => call[s] \in Verifying
           /\ call[s].pc \in {"find", "create", "accept"} => call[s] \in Joining
           /\ call[s].op = "accept" => call[s] \in Joining
           /\ call[s].op = "bootstrap" => call[s] \in Bootstrapping
           /\ call[s].op = "rotate" => call[s] \in Rotating
           /\ call[s].op = "reset" => call[s] \in Resetting
<1>1. call[s] \in TotpHandler \cup OtherHandler
  BY DEF HandlersOK, Busy
<1> QED
  BY <1>1 DEF TotpHandler, OtherHandler, Enrolling, Confirming, Verifying, Joining,
              Bootstrapping, Rotating, Resetting

(* Handlers that are neither enrolling nor confirming hold no lock and     *)
(* have drawn no id.                                                       *)
LEMMA NoLocks ==
    ASSUME NEW s \in Slots,
           call[s] = None \/ call[s].op \notin {"enroll", "confirm"} \/ call[s].pc \notin {"insert", "commit"}
    PROVE  LockedBy(s) = {} /\ DrawnBy(s) = {}
BY DEF LockedBy, DrawnBy, At, Busy

(* A handler moves, in any of the functions, and the table stays: the      *)
(* invariant needs to be seen only for what the handler now locks or draws. *)
LEMMA MoveKeepsTotp ==
    ASSUME TotpInv, UNCHANGED <<creds, accepted>>, now' \in Nat, calls' \in Nat,
           NEW s \in Slots, NEW h \in TotpHandler \cup OtherHandler \cup {None},
           call' = [call EXCEPT ![s] = h],
           h # None /\ h \in TotpHandler => Filled(h),
           \A c \in LockedBy(s)' :
              /\ c \in Pending(h.user)
              /\ \A t \in Slots \ {s} : c \notin LockedBy(t),
           \A c \in DrawnBy(s)' :
              /\ creds[c] = None
              /\ \A t \in Slots \ {s} : c \notin DrawnBy(t)
    PROVE  TotpInv'
<1>1. \A t \in Slots : call'[t] = IF t = s THEN h ELSE call[t]
  BY DEF TotpInv, TotpTypeOK, HandlersOK
<1>2. \A t \in Slots \ {s} : LockedBy(t)' = LockedBy(t) /\ DrawnBy(t)' = DrawnBy(t)
  BY <1>1 DEF LockedBy, DrawnBy, At, Busy
<1>3. \A u : Pending(u)' = Pending(u)
  BY DEF Pending, Rows
<1>4. TotpTypeOK'
  <2>1. call' \in [Slots -> TotpHandler \cup OtherHandler \cup {None}]
    BY DEF TotpInv, TotpTypeOK, HandlersOK
  <2>2. \A t \in Busy' : call'[t] \in TotpHandler => Filled(call'[t])
    BY <1>1 DEF TotpInv, TotpTypeOK, Busy
  <2> QED
    BY <2>1, <2>2 DEF TotpInv, TotpTypeOK, HandlersOK
<1>5. LocksHeld'
  <2> SUFFICES ASSUME NEW t \in Slots, NEW c \in LockedBy(t)'
               PROVE  /\ c \in Pending(call'[t].user)
                      /\ \A v \in Slots \ {t} : c \notin LockedBy(v)'
    BY <1>3 DEF LocksHeld
  <2> QED
    BY <1>1, <1>2 DEF TotpInv, LocksHeld
<1>6. DrawnFresh'
  BY <1>2 DEF TotpInv, DrawnFresh
<1>7. (AcceptedBelow /\ StepsAreSingleUse)'
  BY DEF TotpInv, AcceptedBelow, StepsAreSingleUse
<1> QED
  BY <1>4, <1>5, <1>6, <1>7 DEF TotpInv

(* A handler that moves without a lock or a drawn id. *)
LEMMA PlainMoveKeepsTotp ==
    ASSUME TotpInv, UNCHANGED <<creds, accepted>>, now' \in Nat, calls' \in Nat,
           NEW s \in Slots, NEW h \in TotpHandler \cup OtherHandler \cup {None},
           call' = [call EXCEPT ![s] = h],
           h # None /\ h \in TotpHandler => Filled(h),
           \/ h = None
           \/ h.op \notin {"enroll", "confirm"}
           \/ h.pc \notin {"insert", "commit"}
    PROVE  TotpInv'
<1>1. call'[s] = h
  BY DEF TotpInv, TotpTypeOK, HandlersOK
<1>2. LockedBy(s)' = {} /\ DrawnBy(s)' = {}
  BY <1>1 DEF LockedBy, DrawnBy, At, Busy
<1> QED
  BY <1>2, MoveKeepsTotp

(* The table is written, by a transaction that ends or by a statement of   *)
(* its own: what others have locked or drawn it leaves alone.              *)
LEMMA WriteKeepsLocks ==
    ASSUME TotpInv, calls' \in Nat,
           call' \in [Slots -> TotpHandler \cup OtherHandler \cup {None}],
           \A t \in Slots : call'[t] \in {call[t], None},
           creds' \in [Creds -> Row \cup {None, Deleted}],
           now' \in Nat, accepted' \in Seq(Creds \X Nat),
           \A t \in Slots : call'[t] = call[t] =>
              \A c \in LockedBy(t) \cup DrawnBy(t) : creds'[c] = creds[c]
    PROVE  (TotpTypeOK /\ LocksHeld /\ DrawnFresh)'
<1>1. \A t \in Slots : \/ LockedBy(t)' = {} /\ DrawnBy(t)' = {}
                       \/ /\ call'[t] = call[t]
                          /\ LockedBy(t)' = LockedBy(t) /\ DrawnBy(t)' = DrawnBy(t)
  BY DEF LockedBy, DrawnBy, At, Busy
<1>2. TotpTypeOK'
  <2>1. \A t \in Busy' : t \in Busy /\ call'[t] = call[t]
    BY DEF Busy
  <2> QED
    BY <2>1 DEF TotpInv, TotpTypeOK, HandlersOK
<1>3. LocksHeld'
  <2> SUFFICES ASSUME NEW t \in Slots, NEW c \in LockedBy(t)'
               PROVE  /\ c \in Pending(call[t].user)'
                      /\ \A v \in Slots \ {t} : c \notin LockedBy(v)'
    BY DEF LocksHeld
  <2>1. call'[t] = call[t] /\ c \in LockedBy(t) /\ creds'[c] = creds[c]
    BY <1>1
  <2>2. c \in Pending(call[t].user) /\ \A v \in Slots \ {t} : c \notin LockedBy(v)
    BY <2>1 DEF TotpInv, LocksHeld
  <2>3. c \in Pending(call[t].user)'
    BY <2>1, <2>2 DEF Pending, Rows
  <2> QED
    BY <1>1, <2>2, <2>3
<1>4. DrawnFresh'
  BY <1>1 DEF TotpInv, DrawnFresh
<1> QED
  BY <1>2, <1>3, <1>4

(* A write that stamps no row and brings none back keeps what was accepted. *)
LEMMA NotStampedKeepsSteps ==
    ASSUME TotpInv, UNCHANGED accepted,
           \A c \in Creds : creds[c] # None =>
              /\ creds'[c] # None
              /\ creds'[c] # Deleted => /\ creds[c] # Deleted
                                        /\ creds'[c].last_used_step = creds[c].last_used_step
    PROVE  (AcceptedBelow /\ StepsAreSingleUse)'
<1>1. \A i \in 1..Len(accepted) : accepted[i][1] \in Creds
  BY DEF TotpInv, TotpTypeOK
<1>2. AcceptedBelow'
  BY <1>1 DEF TotpInv, AcceptedBelow
<1>3. StepsAreSingleUse'
  BY DEF TotpInv, StepsAreSingleUse
<1> QED
  BY <1>2, <1>3

-----------------------------------------------------------------------------
(* The functions of user_totp.rs. *)

(* start_enrollment: its DELETE and INSERT commit together.                *)
LEMMA EnrollStep ==
    ASSUME TotpInv, NEW s \in Slots,
           SelectPending(s) \/ ClearPending(s) \/ InsertPending(s) \/ CommitEnrollment(s)
    PROVE  TotpInv'
<1> USE DEF Step, Finish, At
<1>1. CASE SelectPending(s)
  <2>1. call[s] \in Enrolling
    BY <1>1, HandlerKinds DEF SelectPending, TotpInv, TotpTypeOK
  <2> DEFINE h == [call[s] EXCEPT !.pc = "clearing", !.rows = Pending(call[s].user)]
  <2>2. h \in Enrolling /\ h.pc = "clearing" /\ h.op = "enroll"
    BY <2>1 DEF Enrolling, Pending, Rows
  <2>3. /\ call' = [call EXCEPT ![s] = h] /\ calls' \in Nat /\ now' \in Nat
        /\ UNCHANGED <<creds, accepted>>
    BY <1>1 DEF SelectPending, totp, TotpInv, TotpTypeOK, HandlersOK
  <2> HIDE DEF h
  <2> QED
    BY <2>2, <2>3, PlainMoveKeepsTotp DEF TotpHandler, Filled
<1>2. CASE ClearPending(s)
  <2>1. call[s] \in Enrolling
    BY <1>2, HandlerKinds DEF ClearPending, TotpInv, TotpTypeOK
  <2> DEFINE h == [call[s] EXCEPT !.pc = "insert", !.rows = @ \cap Pending(call[s].user)]
  <2>2. /\ h \in Enrolling /\ h.pc = "insert" /\ h.op = "enroll" /\ h.user = call[s].user
        /\ h.rows = call[s].rows \cap Pending(call[s].user)
    BY <2>1 DEF Enrolling
  <2>3. /\ call' = [call EXCEPT ![s] = h] /\ calls' \in Nat /\ now' \in Nat
        /\ UNCHANGED <<creds, accepted>>
    BY <1>2 DEF ClearPending, totp, TotpInv, TotpTypeOK, HandlersOK
  <2> HIDE DEF h
  <2>4. call'[s] = h
    BY <2>3 DEF TotpInv, TotpTypeOK, HandlersOK
  <2>5. LockedBy(s)' \subseteq h.rows /\ DrawnBy(s)' = {}
    BY <2>2, <2>4 DEF LockedBy, DrawnBy, Busy
  <2>6. \A c \in h.rows : \A t \in Slots \ {s} : c \notin LockedBy(t)
    BY <1>2, <2>2 DEF ClearPending, Free
  <2> QED
    BY <2>2, <2>3, <2>5, <2>6, MoveKeepsTotp DEF TotpHandler, Filled
<1>3. CASE InsertPending(s)
  <2>1. call[s] \in Enrolling /\ LockedBy(s) = call[s].rows
    BY <1>3, HandlerKinds DEF InsertPending, TotpInv, TotpTypeOK, LockedBy
  <2>2. calls' \in Nat /\ now' \in Nat /\ UNCHANGED <<creds, accepted>>
    BY <1>3 DEF InsertPending, totp, TotpInv, TotpTypeOK, HandlersOK
  <2>3. CASE call' = [call EXCEPT ![s] = None]
    BY <2>2, <2>3, PlainMoveKeepsTotp
  <2>4. ASSUME NEW c \in Creds, creds[c] = None, \A t \in Slots : c \notin DrawnBy(t),
               call' = [call EXCEPT ![s] = [call[s] EXCEPT !.pc = "commit", !.cred = c]]
        PROVE  TotpInv'
    <3> DEFINE h == [call[s] EXCEPT !.pc = "commit", !.cred = c]
    <3>1. /\ h \in Enrolling /\ h.pc = "commit" /\ h.op = "enroll" /\ h.user = call[s].user
          /\ h.rows = call[s].rows /\ h.cred = c
      BY <2>1 DEF Enrolling
    <3>2. call' = [call EXCEPT ![s] = h]
      BY <2>4
    <3> HIDE DEF h
    <3>3. call'[s] = h
      BY <3>2 DEF TotpInv, TotpTypeOK, HandlersOK
    <3>4. LockedBy(s)' \subseteq LockedBy(s) /\ DrawnBy(s)' \subseteq {c}
      BY <2>1, <3>1, <3>3 DEF LockedBy, DrawnBy, Busy
    <3>5. \A d \in LockedBy(s)' : /\ d \in Pending(h.user)
                                  /\ \A t \in Slots \ {s} : d \notin LockedBy(t)
      BY <3>1, <3>4 DEF TotpInv, LocksHeld
    <3>6. \A d \in DrawnBy(s)' : /\ creds[d] = None
                                 /\ \A t \in Slots \ {s} : d \notin DrawnBy(t)
      BY <2>4, <3>4
    <3>7. Filled(h)
      BY <3>1 DEF Filled
    <3> QED
      BY <2>2, <3>1, <3>2, <3>5, <3>6, <3>7, MoveKeepsTotp DEF TotpHandler
  <2> QED
    BY <1>3, <2>3, <2>4 DEF InsertPending
<1>4. CASE CommitEnrollment(s)
  <2>1. /\ call[s] \in Enrolling /\ call[s].cred \in Creds
        /\ LockedBy(s) = call[s].rows /\ DrawnBy(s) = {call[s].cred}
    BY <1>4, HandlerKinds DEF CommitEnrollment, TotpInv, TotpTypeOK, LockedBy, DrawnBy,
       TotpHandler, Filled
  <2> DEFINE new == [user |-> call[s].user, verified |-> FALSE, last_used_step |-> None]
  <2>2. new \in Row /\ new # None /\ new # Deleted
    <3>1. new \in Row
      BY <2>1 DEF Row, Enrolling
    <3> QED
      BY <3>1, TotpRowAssumption
  <2>3. creds' = [c \in Creds |-> CASE c \in call[s].rows -> Deleted
                                    [] c = call[s].cred -> new
                                    [] OTHER -> creds[c]]
    BY <1>4 DEF CommitEnrollment
  <2> HIDE DEF new
  <2>4. /\ call' = [call EXCEPT ![s] = None] /\ calls' \in Nat /\ now' \in Nat
        /\ UNCHANGED accepted
    BY <1>4 DEF CommitEnrollment, TotpInv, TotpTypeOK, HandlersOK
  <2>5. creds' \in [Creds -> Row \cup {None, Deleted}]
    BY <2>2, <2>3 DEF TotpInv, TotpTypeOK
  <2>6. \A t \in Slots : call'[t] = IF t = s THEN None ELSE call[t]
    BY <2>4 DEF TotpInv, TotpTypeOK, HandlersOK
  <2>7. call[s] # None
    BY <1>4 DEF CommitEnrollment, Busy
  <2>8. ASSUME NEW t \in Slots, t # s, NEW c \in LockedBy(t) \cup DrawnBy(t)
        PROVE  creds'[c] = creds[c]
    <3>1. c \in Creds /\ c \notin call[s].rows
      <4>1. CASE c \in LockedBy(t)
        BY <2>1, <2>8, <4>1 DEF TotpInv, LocksHeld, Pending, Rows
      <4>2. CASE c \in DrawnBy(t)
        <5>1. creds[c] = None /\ call[t].cred = c /\ call[t] \in TotpHandler /\ Filled(call[t])
          BY <4>2, HandlerKinds DEF TotpInv, DrawnFresh, DrawnBy, TotpHandler, TotpTypeOK
        <5>2. c \in Creds
          BY <4>2, <5>1 DEF Filled, DrawnBy
        <5> QED
          BY <2>1, <5>1, <5>2 DEF TotpInv, LocksHeld, Pending, Rows
      <4> QED
        BY <2>8, <4>1, <4>2
    <3>2. c # call[s].cred
      <4>1. (creds[call[s].cred] = None /\ c \notin DrawnBy(t)) \/ c # call[s].cred
        BY <2>1, <2>8 DEF TotpInv, DrawnFresh
      <4> QED
        BY <2>8, <4>1 DEF TotpInv, LocksHeld, Pending, Rows
    <3> QED
      BY <2>3, <3>1, <3>2
  <2>9. (TotpTypeOK /\ LocksHeld /\ DrawnFresh)'
    <3>1. /\ call' \in [Slots -> TotpHandler \cup OtherHandler \cup {None}]
          /\ \A t \in Slots : call'[t] \in {call[t], None}
          /\ accepted' \in Seq(Creds \X Nat)
      BY <2>4, <2>6 DEF TotpInv, TotpTypeOK, HandlersOK
    <3>2. \A t \in Slots : call'[t] = call[t] => t # s
      BY <2>6, <2>7
    <3> QED
      BY <2>4, <2>5, <2>8, <3>1, <3>2, WriteKeepsLocks
  <2>10. (AcceptedBelow /\ StepsAreSingleUse)'
    <3>1. creds[call[s].cred] = None
      BY <2>1 DEF TotpInv, DrawnFresh
    <3>2. Deleted # None
      BY UserTableAssumption
    <3> QED
      BY <2>3, <2>4, <3>1, <3>2, NotStampedKeepsSteps
  <2> QED
    BY <2>9, <2>10 DEF TotpInv
<1> QED
  BY <1>1, <1>2, <1>3, <1>4

(* Confirming: the row it activates is one it found pending, and locked.   *)
LEMMA ConfirmStep ==
    ASSUME TotpInv, NEW s \in Slots,
           load_pending_secret(s) \/ count_verified(s) \/ confirm(s) \/ CommitConfirm(s)
    PROVE  TotpInv'
<1> USE DEF Step, Finish, At
<1>1. call[s] \in Confirming /\ call[s] # None
  BY HandlerKinds DEF load_pending_secret, count_verified, confirm, CommitConfirm, Busy,
     TotpInv, TotpTypeOK
<1>2. calls' \in Nat /\ now' \in Nat /\ UNCHANGED accepted
  BY DEF load_pending_secret, count_verified, confirm, CommitConfirm, totp,
     TotpInv, TotpTypeOK, HandlersOK
<1>3. CASE UNCHANGED creds /\ call' = [call EXCEPT ![s] = None]
  BY <1>2, <1>3, PlainMoveKeepsTotp
<1>4. ASSUME UNCHANGED creds, NEW pc \in {"count", "confirm"},
             call' = [call EXCEPT ![s] = [call[s] EXCEPT !.pc = pc]]
      PROVE  TotpInv'
  <2> DEFINE h == [call[s] EXCEPT !.pc = pc]
  <2>1. h \in Confirming /\ h.pc = pc /\ h.op = "confirm"
    BY <1>1 DEF Confirming
  <2>2. call' = [call EXCEPT ![s] = h]
    BY <1>4
  <2> HIDE DEF h
  <2> QED
    BY <1>2, <1>4, <2>1, <2>2, PlainMoveKeepsTotp DEF TotpHandler, Filled
<1>5. CASE confirm(s) /\ call' = [call EXCEPT ![s] = [call[s] EXCEPT !.pc = "commit"]]
           /\ call[s].cred \in Pending(call[s].user)
  <2> DEFINE h == [call[s] EXCEPT !.pc = "commit"]
  <2>1. /\ h \in Confirming /\ h.pc = "commit" /\ h.op = "confirm" /\ h.cred = call[s].cred
        /\ h.user = call[s].user
    BY <1>1 DEF Confirming
  <2>2. call' = [call EXCEPT ![s] = h]
    BY <1>5
  <2> HIDE DEF h
  <2>3. call'[s] = h
    BY <2>2 DEF TotpInv, TotpTypeOK, HandlersOK
  <2>4. LockedBy(s)' \subseteq {call[s].cred} /\ DrawnBy(s)' = {}
    BY <2>1, <2>3 DEF LockedBy, DrawnBy, Busy
  <2>5. \A t \in Slots \ {s} : call[s].cred \notin LockedBy(t)
    BY <1>5 DEF confirm, Free
  <2>6. UNCHANGED creds
    BY <1>5 DEF confirm, totp
  <2> QED
    <3>1. \A c \in LockedBy(s)' : /\ c \in Pending(h.user)
                                  /\ \A t \in Slots \ {s} : c \notin LockedBy(t)
      BY <1>5, <2>1, <2>4, <2>5
    <3>2. h \in TotpHandler /\ Filled(h)
      BY <2>1 DEF TotpHandler, Filled
    <3> QED
      BY <1>2, <2>2, <2>4, <2>6, <3>1, <3>2, MoveKeepsTotp
<1>6. CASE CommitConfirm(s)
  <2>1. LockedBy(s) = {call[s].cred} /\ DrawnBy(s) = {}
    BY <1>6 DEF CommitConfirm, LockedBy, DrawnBy
  <2>2. /\ call[s].cred \in Creds /\ creds[call[s].cred] \in Row
        /\ \A t \in Slots \ {s} : call[s].cred \notin LockedBy(t)
    BY <2>1 DEF TotpInv, LocksHeld, Pending, Rows, TotpTypeOK
  <2> DEFINE new == [creds[call[s].cred] EXCEPT !.verified = TRUE]
  <2>3. new \in Row /\ new.last_used_step = creds[call[s].cred].last_used_step
    BY <2>2 DEF Row
  <2>4. creds' = [creds EXCEPT ![call[s].cred] = new] /\ call' = [call EXCEPT ![s] = None]
    BY <1>6 DEF CommitConfirm
  <2> HIDE DEF new
  <2>5. \A c \in Creds : creds'[c] = IF c = call[s].cred THEN new ELSE creds[c]
    BY <2>4 DEF TotpInv, TotpTypeOK
  <2>6. (TotpTypeOK /\ LocksHeld /\ DrawnFresh)'
    <3>1. /\ creds' \in [Creds -> Row \cup {None, Deleted}]
          /\ call' \in [Slots -> TotpHandler \cup OtherHandler \cup {None}]
          /\ \A t \in Slots : call'[t] = IF t = s THEN None ELSE call[t]
      BY <2>3, <2>4 DEF TotpInv, TotpTypeOK, HandlersOK
    <3>2. ASSUME NEW t \in Slots, t # s, NEW c \in LockedBy(t) \cup DrawnBy(t)
          PROVE  creds'[c] = creds[c]
      <4>1. c # call[s].cred
        BY <2>2, <3>2, TotpRowAssumption DEF TotpInv, DrawnFresh
      <4> QED
        BY <2>4, <4>1 DEF TotpInv, TotpTypeOK
    <3>3. accepted' \in Seq(Creds \X Nat)
      BY <1>2 DEF TotpInv, TotpTypeOK
    <3> QED
      BY <1>1, <1>2, <3>1, <3>2, <3>3, WriteKeepsLocks
  <2>7. (AcceptedBelow /\ StepsAreSingleUse)'
    <3>1. new # None /\ new # Deleted /\ creds[call[s].cred] # Deleted
      BY <2>2, <2>3, TotpRowAssumption
    <3> QED
      BY <1>2, <2>3, <2>5, <3>1, NotStampedKeepsSteps
  <2> QED
    BY <2>6, <2>7 DEF TotpInv
<1> QED
  BY <1>3, <1>4, <1>5, <1>6 DEF load_pending_secret, count_verified, confirm, totp

(* A time step that matches is one of the three around the clock.          *)
LEMMA MatchIsStep ==
    ASSUME NEW c \in Creds, NEW code, NEW t \in Nat, matched_step(c, code, t) # None
    PROVE  matched_step(c, code, t) \in Nat
<1> DEFINE hits == {n \in {t - 1, t, t + 1} : n >= 0 /\ hotp[c][n] = code}
<1>1. hits # {}
  BY DEF matched_step
<1>2. \A n \in hits : n \in Nat /\ n \in {t - 1, t, t + 1}
  OBVIOUS
<1>3. \E n \in hits : \A k \in hits : n <= k
  <2>1. CASE t - 1 \in hits
    BY <1>2, <2>1
  <2>2. CASE t - 1 \notin hits /\ t \in hits
    <3>1. \A k \in hits : t <= k
      BY <1>2, <2>2
    <3> QED
      BY <2>2, <3>1
  <2>3. CASE t - 1 \notin hits /\ t \notin hits
    BY <1>1, <1>2, <2>3
  <2> QED
    BY <2>1, <2>2, <2>3
<1>4. matched_step(c, code, t) = CHOOSE n \in hits : \A k \in hits : n <= k
  BY <1>1 DEF matched_step
<1> HIDE DEF hits
<1> QED
  BY <1>2, <1>3, <1>4

(* verify_and_consume: the UPDATE accepts a step that is newer than every  *)
(* one the credential has accepted, whatever happened since the match.     *)
LEMMA VerifyStep ==
    ASSUME TotpInv, NEW s \in Slots, MatchStep(s) \/ Consume(s)
    PROVE  TotpInv'
<1> USE DEF Step, Finish, At
<1>1. call[s] \in Verifying /\ call[s] # None
  BY HandlerKinds DEF MatchStep, Consume, ConsumeIf, Busy, TotpInv, TotpTypeOK
<1>2. calls' \in Nat /\ now' \in Nat
  BY DEF MatchStep, Consume, ConsumeIf, totp, TotpInv, TotpTypeOK, HandlersOK
<1>3. CASE UNCHANGED <<creds, accepted>> /\ call' = [call EXCEPT ![s] = None]
  BY <1>2, <1>3, PlainMoveKeepsTotp
<1>4. ASSUME UNCHANGED <<creds, accepted>>, NEW c \in Creds,
             matched_step(c, call[s].code, call[s].at) # None,
             call' = [call EXCEPT ![s] = [call[s] EXCEPT !.pc = "consume", !.cred = c,
                                             !.step = matched_step(c, call[s].code, call[s].at)]]
      PROVE  TotpInv'
  <2> DEFINE n == matched_step(c, call[s].code, call[s].at)
             h == [call[s] EXCEPT !.pc = "consume", !.cred = c, !.step = n]
  <2>1. n \in Nat
    BY <1>1, <1>4, MatchIsStep DEF Verifying
  <2> HIDE DEF n
  <2>2. h \in Verifying /\ h.op = "verify" /\ h.pc = "consume" /\ h.cred = c /\ h.step = n
    BY <1>1, <2>1 DEF Verifying
  <2>3. call' = [call EXCEPT ![s] = h]
    BY <1>4 DEF n
  <2> HIDE DEF h
  <2> QED
    BY <1>2, <1>4, <2>1, <2>2, <2>3, PlainMoveKeepsTotp DEF TotpHandler, Filled
<1>5. CASE Consume(s) /\ ~ UNCHANGED <<creds, accepted>>
  <2> DEFINE c == call[s].cred
             n == call[s].step
             new == [creds[c] EXCEPT !.last_used_step = n]
  <2>1. c \in Creds /\ n \in Nat
    BY <1>1, <1>5 DEF Consume, ConsumeIf, TotpInv, TotpTypeOK, TotpHandler, Filled
  <2>2. /\ c \in Verified(call[s].user)
        /\ creds[c] # Deleted => creds[c].last_used_step = None \/ creds[c].last_used_step < n
        /\ creds' = [creds EXCEPT ![c] = new]
        /\ accepted' = Append(accepted, <<c, n>>)
        /\ call' = [call EXCEPT ![s] = None]
    BY <1>5 DEF Consume, ConsumeIf
  <2>3. creds[c] \in Row /\ creds[c] # Deleted
    BY <2>1, <2>2 DEF Verified, Rows, TotpInv, TotpTypeOK
  <2>4. new \in Row /\ new.last_used_step = n
    BY <2>1, <2>3 DEF Row
  <2>5. new # None /\ new # Deleted
    BY <2>4, TotpRowAssumption
  <2> HIDE DEF new, n, c
  <2>6. \A d \in Creds : creds'[d] = IF d = c THEN new ELSE creds[d]
    BY <2>2 DEF TotpInv, TotpTypeOK
  <2>7. accepted \in Seq(Creds \X Nat)
    BY DEF TotpInv, TotpTypeOK
  <2>8. /\ accepted' \in Seq(Creds \X Nat) /\ Len(accepted') = Len(accepted) + 1
        /\ \A i \in 1..Len(accepted) : accepted'[i] = accepted[i]
        /\ accepted'[Len(accepted) + 1] = <<c, n>>
    BY <2>1, <2>2, <2>7
  <2>9. \A i \in 1..Len(accepted) : accepted[i][1] \in Creds /\ accepted[i][2] \in Nat
    BY <2>7
  <2>10. \A i \in 1..Len(accepted) : accepted[i][1] = c => accepted[i][2] < n
    <3> TAKE i \in 1..Len(accepted)
    <3> HAVE accepted[i][1] = c
    <3>1. creds[c].last_used_step # None /\ accepted[i][2] <= creds[c].last_used_step
      BY <2>3 DEF TotpInv, AcceptedBelow
    <3>2. creds[c].last_used_step < n /\ creds[c].last_used_step \in Nat
      BY <2>2, <2>3, <3>1 DEF Row
    <3> QED
      BY <2>1, <2>9, <3>1, <3>2
  <2>11. AcceptedBelow'
    <3> SUFFICES ASSUME NEW i \in 1..(Len(accepted) + 1)
                 PROVE  /\ creds'[accepted'[i][1]] # None
                        /\ creds'[accepted'[i][1]] # Deleted =>
                              /\ creds'[accepted'[i][1]].last_used_step # None
                              /\ accepted'[i][2] <= creds'[accepted'[i][1]].last_used_step
      BY <2>8 DEF AcceptedBelow
    <3>1. n # None
      BY <2>1, HandlersAssumption
    <3>2. CASE i = Len(accepted) + 1
      BY <2>1, <2>4, <2>5, <2>6, <2>8, <3>1, <3>2
    <3>3. CASE i \in 1..Len(accepted) /\ accepted[i][1] = c
      BY <2>1, <2>4, <2>5, <2>6, <2>8, <2>9, <2>10, <3>1, <3>3
    <3>4. CASE i \in 1..Len(accepted) /\ accepted[i][1] # c
      BY <2>6, <2>8, <2>9, <3>4 DEF TotpInv, AcceptedBelow
    <3> QED
      BY <2>7, <3>2, <3>3, <3>4
  <2>12. StepsAreSingleUse'
    <3> SUFFICES ASSUME NEW i \in 1..(Len(accepted) + 1), NEW j \in 1..(Len(accepted) + 1),
                        i < j, accepted'[i][1] = accepted'[j][1]
                 PROVE  accepted'[i][2] < accepted'[j][2]
      BY <2>8 DEF StepsAreSingleUse
    <3>1. Len(accepted) \in Nat
      BY <2>7
    <3>2. CASE j = Len(accepted) + 1
      <4>1. i \in 1..Len(accepted) /\ accepted'[i] = accepted[i] /\ accepted'[j] = <<c, n>>
        BY <2>8, <3>1, <3>2
      <4>2. accepted[i][1] = c
        BY <4>1
      <4>3. accepted[i][2] < n
        BY <2>10, <4>1, <4>2
      <4> QED
        BY <4>1, <4>3
    <3>3. CASE j # Len(accepted) + 1
      <4>0. i \in 1..Len(accepted) /\ j \in 1..Len(accepted)
        BY <3>1, <3>3
      <4>1. /\ i \in 1..Len(accepted) /\ accepted'[i] = accepted[i]
            /\ j \in 1..Len(accepted) /\ accepted'[j] = accepted[j]
        BY <2>8, <4>0
      <4>2. accepted[i][1] = accepted[j][1]
        BY <4>1
      <4>3. accepted[i][2] < accepted[j][2]
        BY <4>1, <4>2 DEF TotpInv, StepsAreSingleUse
      <4> QED
        BY <4>1, <4>3
    <3> QED
      BY <3>2, <3>3
  <2>13. (TotpTypeOK /\ LocksHeld /\ DrawnFresh)'
    <3>1. /\ creds' \in [Creds -> Row \cup {None, Deleted}]
          /\ call' \in [Slots -> TotpHandler \cup OtherHandler \cup {None}]
          /\ \A t \in Slots : call'[t] = IF t = s THEN None ELSE call[t]
      BY <2>2, <2>4 DEF TotpInv, TotpTypeOK, HandlersOK
    <3>2. ASSUME NEW t \in Slots, t # s, NEW d \in LockedBy(t) \cup DrawnBy(t)
          PROVE  creds'[d] = creds[d]
      <4>1. d # c
        <5>1. \A v \in Slots \ {s} : c \notin LockedBy(v)
          BY <1>5 DEF Consume, ConsumeIf, Free, c
        <5> QED
          BY <2>3, <3>2, <5>1, TotpRowAssumption DEF TotpInv, DrawnFresh
      <4> QED
        BY <2>2, <4>1 DEF TotpInv, TotpTypeOK
    <3> QED
      BY <1>1, <1>2, <2>8, <3>1, <3>2, WriteKeepsLocks
  <2> QED
    BY <2>11, <2>12, <2>13 DEF TotpInv
<1> QED
  <2>1. CASE MatchStep(s)
    BY <1>3, <1>4, <2>1 DEF MatchStep, totp, Verified, Rows
  <2>2. CASE Consume(s)
    BY <1>3, <1>5, <2>2 DEF Consume, ConsumeIf
  <2> QED
    BY <2>1, <2>2

(* A call arrives, or a statement, a commit or the connection fails.       *)
LEMMA ArriveOrFailStep ==
    ASSUME TotpInv, NEW s \in Slots,
           \/ \E u \in Users : \/ StartEnrollment(s, u)
                               \/ \E c \in Rows : StartConfirm(s, u, c)
                               \/ \E code \in Digits : StartVerify(s, u, code)
           \/ TotpFail(s)
    PROVE  TotpInv'
<1> USE DEF Step, Finish, Arrive
<1>1. /\ calls' \in Nat /\ now' \in Nat /\ UNCHANGED <<creds, accepted>>
  BY DEF StartEnrollment, StartConfirm, StartVerify, TotpFail, totp,
         TotpInv, TotpTypeOK, HandlersOK
<1>2. ASSUME NEW u \in Users, StartEnrollment(s, u)
      PROVE  TotpInv'
  <2> DEFINE h == [op |-> "enroll", pc |-> "clear", user |-> u, rows |-> {}, cred |-> None]
  <2>1. h \in TotpHandler /\ Filled(h) /\ h.pc = "clear"
    BY DEF TotpHandler, Enrolling, Filled
  <2>2. call' = [call EXCEPT ![s] = h]
    BY <1>2 DEF StartEnrollment
  <2> HIDE DEF h
  <2> QED
    BY <1>1, <2>1, <2>2, PlainMoveKeepsTotp
<1>3. ASSUME NEW u \in Users, NEW c \in Rows, StartConfirm(s, u, c)
      PROVE  TotpInv'
  <2> DEFINE h == [op |-> "confirm", pc |-> "load", user |-> u, cred |-> c]
  <2>1. h \in TotpHandler /\ Filled(h) /\ h.pc = "load"
    BY DEF TotpHandler, Confirming, Filled, Rows
  <2>2. call' = [call EXCEPT ![s] = h]
    BY <1>3 DEF StartConfirm
  <2> HIDE DEF h
  <2> QED
    BY <1>1, <2>1, <2>2, PlainMoveKeepsTotp
<1>4. ASSUME NEW u \in Users, NEW code \in Digits, StartVerify(s, u, code)
      PROVE  TotpInv'
  <2> DEFINE h == [op |-> "verify", pc |-> "match", user |-> u, code |-> code, at |-> now,
                   cred |-> None, step |-> None]
  <2>1. h \in TotpHandler /\ Filled(h) /\ h.pc = "match"
    BY DEF TotpHandler, Verifying, Filled, TotpInv, TotpTypeOK
  <2>2. call' = [call EXCEPT ![s] = h]
    BY <1>4 DEF StartVerify
  <2> HIDE DEF h
  <2> QED
    BY <1>1, <2>1, <2>2, PlainMoveKeepsTotp
<1>5. CASE TotpFail(s)
  BY <1>1, <1>5, PlainMoveKeepsTotp DEF TotpFail
<1> QED
  BY <1>2, <1>3, <1>4, <1>5

(* Rows are deleted by a statement that waits for the locks on them: one   *)
(* of them, by delete(), or all of a user's, by hard_remove's cascade.     *)
LEMMA DeleteKeepsTotp ==
    ASSUME TotpInv, UNCHANGED <<call, now, accepted>>, calls' \in Nat,
           NEW D \in SUBSET Rows,
           \A s \in Slots : LockedBy(s) \cap D = {},
           creds' = [c \in Creds |-> IF c \in D THEN Deleted ELSE creds[c]]
    PROVE  TotpInv'
<1>1. creds' \in [Creds -> Row \cup {None, Deleted}]
  BY DEF TotpInv, TotpTypeOK
<1>2. /\ call' \in [Slots -> TotpHandler \cup OtherHandler \cup {None}]
      /\ \A t \in Slots : call'[t] = call[t]
      /\ now' \in Nat /\ accepted' \in Seq(Creds \X Nat)
  BY DEF TotpInv, TotpTypeOK, HandlersOK
<1>3. ASSUME NEW t \in Slots, NEW c \in LockedBy(t) \cup DrawnBy(t)
      PROVE  creds'[c] = creds[c]
  <2>1. c \in Creds
    <3>1. CASE c \in LockedBy(t)
      BY <3>1 DEF TotpInv, LocksHeld, Pending, Rows
    <3>2. CASE c \in DrawnBy(t)
      <4>1. /\ t \in Busy /\ call[t].cred = c /\ call[t].pc = "commit"
            /\ call[t].op = "enroll"
        BY <3>2 DEF DrawnBy, At
      <4> QED
        BY <4>1, HandlerKinds DEF TotpInv, TotpTypeOK, TotpHandler, Filled
    <3> QED
      BY <3>1, <3>2
  <2>2. c \notin D
    BY <1>3 DEF TotpInv, DrawnFresh, Rows
  <2> QED
    BY <2>1, <2>2
<1>4. (TotpTypeOK /\ LocksHeld /\ DrawnFresh)'
  BY <1>1, <1>2, <1>3, WriteKeepsLocks
<1>5. (AcceptedBelow /\ StepsAreSingleUse)'
  BY UserTableAssumption, NotStampedKeepsSteps
<1> QED
  BY <1>4, <1>5 DEF TotpInv

(* delete() of one authenticator, and hard_remove of its user.             *)
LEMMA RemovalStep ==
    ASSUME TotpInv, NEW u \in Users,
           hard_remove(u) \/ \E c \in Creds : delete(u, c)
    PROVE  TotpInv'
<1>1. CASE hard_remove(u)
  <2> DEFINE D == Verified(u) \cup Pending(u)
  <2>1. \A s \in Slots : LockedBy(s) \cap D = {}
    BY <1>1 DEF hard_remove, Verified, Pending
  <2>2. /\ UNCHANGED <<call, now, accepted>> /\ calls' \in Nat /\ D \in SUBSET Rows
        /\ creds' = [c \in Creds |-> IF c \in D THEN Deleted ELSE creds[c]]
    BY <1>1 DEF hard_remove, AdminCall, Verified, Pending, TotpInv, TotpTypeOK, HandlersOK
  <2> HIDE DEF D
  <2> QED
    BY <2>1, <2>2, DeleteKeepsTotp
<1>2. ASSUME NEW c \in Creds, delete(u, c)
      PROVE  TotpInv'
  <2> DEFINE D == IF creds[c].user = u THEN {c} ELSE {}
  <2>1. /\ \A s \in Slots : LockedBy(s) \cap D = {}
        /\ UNCHANGED <<call, now, accepted>> /\ calls' \in Nat /\ D \in SUBSET Rows
    BY <1>2 DEF delete, TotpInv, TotpTypeOK, HandlersOK
  <2>2. creds' = [d \in Creds |-> IF d \in D THEN Deleted ELSE creds[d]]
    BY <1>2 DEF delete, TotpInv, TotpTypeOK
  <2> HIDE DEF D
  <2> QED
    BY <2>1, <2>2, DeleteKeepsTotp
<1> QED
  BY <1>1, <1>2

(* A handler of another kind moves: nothing here depends on it.            *)
LEMMA OtherMoveKeepsTotp ==
    ASSUME TotpInv, UNCHANGED totp, calls' \in Nat,
           \/ UNCHANGED call
           \/ \E s \in Slots, h \in OtherHandler \cup {None} : call' = [call EXCEPT ![s] = h]
    PROVE  TotpInv'
<1>1. /\ UNCHANGED <<creds, accepted>> /\ now' \in Nat
  BY DEF totp, TotpInv, TotpTypeOK
<1>2. CASE UNCHANGED call
  <2>1. (LocksHeld /\ DrawnFresh)'
    BY <1>1, <1>2 DEF TotpInv, LocksHeld, DrawnFresh, LockedBy, DrawnBy, At, Busy, Pending, Rows
  <2>2. TotpTypeOK'
    BY <1>1, <1>2 DEF TotpInv, TotpTypeOK, HandlersOK, Busy
  <2>3. (AcceptedBelow /\ StepsAreSingleUse)'
    BY <1>1 DEF TotpInv, AcceptedBelow, StepsAreSingleUse
  <2> QED
    BY <2>1, <2>2, <2>3 DEF TotpInv
<1>3. ASSUME NEW s \in Slots, NEW h \in OtherHandler \cup {None}, call' = [call EXCEPT ![s] = h]
      PROVE  TotpInv'
  <2>1. h # None => h.op \notin {"enroll", "confirm", "verify"}
    BY DEF OtherHandler, Joining, Bootstrapping, Rotating, Resetting
  <2>2. h # None => h \notin TotpHandler
    BY <2>1 DEF TotpHandler, Enrolling, Confirming, Verifying
  <2> QED
    BY <1>1, <1>3, <2>1, <2>2, PlainMoveKeepsTotp
<1> QED
  BY <1>2, <1>3

(* Every step of the functions of user_totp.rs keeps the invariant.        *)
LEMMA TotpStep ==
    ASSUME TotpInv, TotpNext
    PROVE  TotpInv'
<1>1. CASE Advance
  <2>1. /\ UNCHANGED <<creds, accepted, call, calls>> /\ now' \in Nat
    BY <1>1 DEF Advance, handlers, TotpInv, TotpTypeOK
  <2>2. (LocksHeld /\ DrawnFresh)'
    BY <2>1 DEF TotpInv, LocksHeld, DrawnFresh, LockedBy, DrawnBy, At, Busy, Pending, Rows
  <2>3. (TotpTypeOK /\ AcceptedBelow /\ StepsAreSingleUse)'
    BY <2>1 DEF TotpInv, TotpTypeOK, HandlersOK, Busy, AcceptedBelow, StepsAreSingleUse
  <2> QED
    BY <2>2, <2>3 DEF TotpInv
<1>2. ASSUME NEW s \in Slots,
             \/ \E u \in Users : \/ StartEnrollment(s, u)
                                 \/ \E c \in Rows : StartConfirm(s, u, c)
                                 \/ \E code \in Digits : StartVerify(s, u, code)
             \/ TotpFail(s)
      PROVE  TotpInv'
  BY <1>2, ArriveOrFailStep
<1>3. ASSUME NEW s \in Slots,
             SelectPending(s) \/ ClearPending(s) \/ InsertPending(s) \/ CommitEnrollment(s)
      PROVE  TotpInv'
  BY <1>3, EnrollStep
<1>4. ASSUME NEW s \in Slots,
             load_pending_secret(s) \/ count_verified(s) \/ confirm(s) \/ CommitConfirm(s)
      PROVE  TotpInv'
  BY <1>4, ConfirmStep
<1>5. ASSUME NEW s \in Slots, MatchStep(s) \/ Consume(s)
      PROVE  TotpInv'
  BY <1>5, VerifyStep
<1>6. ASSUME NEW u \in Users, NEW c \in Creds, delete(u, c)
      PROVE  TotpInv'
  BY <1>6, RemovalStep
<1> QED
  BY <1>1, <1>2, <1>3, <1>4, <1>5, <1>6 DEF TotpNext

(* A fresh server, its owner signed up with an authenticator or none.      *)
LEMMA InitTotpInv ==
    ASSUME InitTotp, InitHandlers
    PROVE  TotpInv
<1>1. creds \in [Creds -> Row \cup {None, Deleted}]
  BY DEF InitTotp, Row
<1>2. \A s \in Slots : LockedBy(s) = {} /\ DrawnBy(s) = {} /\ call[s] = None
  BY DEF InitHandlers, LockedBy, DrawnBy, At, Busy
<1>3. accepted = <<>> /\ now = 0 /\ calls = 0 /\ call \in [Slots -> {None}]
  BY DEF InitTotp, InitHandlers
<1>4. TotpTypeOK
  BY <1>1, <1>2, <1>3 DEF TotpTypeOK, HandlersOK, Busy
<1>5. AcceptedBelow /\ StepsAreSingleUse
  BY <1>3 DEF AcceptedBelow, StepsAreSingleUse
<1> QED
  BY <1>2, <1>4, <1>5 DEF TotpInv, LocksHeld, DrawnFresh

-----------------------------------------------------------------------------
(* Authenticators in use. *)

(* Of a step that writes the table at one row: the row keeps its user, and *)
(* being verified is not taken back.                                       *)
LEMMA VerifiedStays ==
    ASSUME TotpInv, TotpNext, NEW u \in Users, NEW c \in Verified(u)
    PROVE  c \in Verified(u)' \/ c \in removed'
<1>1. c \in Creds /\ creds[c] \in Row /\ creds[c].user = u /\ creds[c].verified
  BY DEF Verified, Rows, TotpInv, TotpTypeOK
<1>2. CASE creds'[c] = creds[c]
  BY <1>1, <1>2, TotpRowAssumption DEF Verified, Rows
<1>3. ASSUME NEW s \in Slots, CommitEnrollment(s)
      PROVE  c \in Verified(u)'
  <2>1. call[s] \in Enrolling /\ LockedBy(s) = call[s].rows /\ DrawnBy(s) = {call[s].cred}
    BY <1>3, HandlerKinds DEF CommitEnrollment, At, TotpInv, TotpTypeOK, LockedBy, DrawnBy
  <2>2. c \notin call[s].rows
    BY <1>1, <2>1 DEF TotpInv, LocksHeld, Pending
  <2>3. c # call[s].cred
    BY <1>1, <2>1, TotpRowAssumption DEF TotpInv, DrawnFresh
  <2>4. creds'[c] = creds[c]
    BY <1>1, <1>3, <2>2, <2>3 DEF CommitEnrollment
  <2> QED
    BY <1>2, <2>4, <1>1, TotpRowAssumption DEF Verified, Rows
<1>4. ASSUME NEW s \in Slots, CommitConfirm(s)
      PROVE  c \in Verified(u)'
  <2>1. call[s].cred # c
    <3>1. LockedBy(s) = {call[s].cred}
      BY <1>4 DEF CommitConfirm, At, LockedBy
    <3> QED
      BY <1>1, <3>1 DEF TotpInv, LocksHeld, Pending
  <2>2. creds'[c] = creds[c]
    BY <1>1, <1>4, <2>1 DEF CommitConfirm, TotpInv, TotpTypeOK
  <2> QED
    BY <1>1, <2>2, TotpRowAssumption DEF Verified, Rows
<1>5. ASSUME NEW s \in Slots, Consume(s)
      PROVE  c \in Verified(u)'
  <2>1. CASE creds' = [creds EXCEPT ![call[s].cred].last_used_step = call[s].step]
    <3>1. call[s].step \in Nat
      BY <1>5, HandlerKinds DEF Consume, ConsumeIf, At, TotpInv, TotpTypeOK, TotpHandler, Filled
    <3>2. creds'[c] \in Row /\ creds'[c].user = u /\ creds'[c].verified
      BY <1>1, <2>1, <3>1 DEF Row, TotpInv, TotpTypeOK
    <3> QED
      BY <1>1, <3>2, TotpRowAssumption DEF Verified, Rows
  <2>2. CASE UNCHANGED creds
    BY <1>1, <2>2, TotpRowAssumption DEF Verified, Rows
  <2> QED
    BY <1>5, <2>1, <2>2 DEF Consume, ConsumeIf
<1>6. ASSUME NEW v \in Users, NEW d \in Creds, delete(v, d)
      PROVE  c \in Verified(u)' \/ c \in removed'
  <2>1. CASE d = c
    BY <1>1, <1>6, <2>1, TotpRowAssumption DEF delete, Verified, Rows
  <2>2. CASE d # c
    <3>1. creds'[c] = creds[c]
      BY <1>1, <1>6, <2>2 DEF delete, TotpInv, TotpTypeOK
    <3> QED
      BY <1>1, <3>1, TotpRowAssumption DEF Verified, Rows
  <2> QED
    BY <2>1, <2>2
<1>7. CASE UNCHANGED creds
  BY <1>1, <1>7, TotpRowAssumption DEF Verified, Rows
<1>8. \/ UNCHANGED creds
      \/ \E s \in Slots : CommitEnrollment(s) \/ CommitConfirm(s) \/ Consume(s)
      \/ \E v \in Users, d \in Creds : delete(v, d)
  BY DEF TotpNext, Advance, StartEnrollment, StartConfirm, StartVerify, SelectPending,
         ClearPending, InsertPending, load_pending_secret, count_verified, confirm,
         MatchStep, TotpFail, totp
<1> QED
  BY <1>3, <1>4, <1>5, <1>6, <1>7, <1>8

(* The handlers that have passed the limit check for a user and have not   *)
(* committed.                                                              *)
Passed(u) == {s \in Slots : /\ At(s, "confirm") \/ At(s, "commit")
                            /\ call[s].op = "confirm" /\ call[s].user = u}

(* Of the authenticators in use and those about to be, at most the other   *)
(* handlers' are above the limit.                                          *)
WithinLimit ==
    \A u \in Users :
       Cardinality(Verified(u)) + Cardinality(Passed(u)) <= MAX_AUTHENTICATORS + SlotCount - 1

(* The sets that are counted are finite, and no more handlers pass than run. *)
LEMMA CountsAreFinite ==
    ASSUME NEW u
    PROVE  /\ IsFiniteSet(Verified(u)) /\ Cardinality(Verified(u)) \in Nat
           /\ IsFiniteSet(Passed(u)) /\ Cardinality(Passed(u)) \in Nat
           /\ Cardinality(Passed(u)) <= SlotCount
<1>1. Verified(u) \subseteq Creds /\ Passed(u) \subseteq 1..SlotCount
  BY DEF Verified, Rows, Passed, Slots
<1>2. IsFiniteSet(Creds)
  BY TotpAssumption
<1>3. IsFiniteSet(1..SlotCount) /\ Cardinality(1..SlotCount) = SlotCount
  BY FS_Interval, HandlersAssumption
<1>4. IsFiniteSet(Verified(u)) /\ Cardinality(Verified(u)) \in Nat
  BY <1>1, <1>2, FS_Subset, FS_CardinalityType
<1>5. IsFiniteSet(Passed(u)) /\ Cardinality(Passed(u)) <= SlotCount
  BY <1>1, <1>3, FS_Subset
<1>6. Cardinality(Passed(u)) \in Nat
  BY <1>5, FS_CardinalityType
<1> QED
  BY <1>4, <1>5, <1>6

(* Fewer in use and fewer about to be keep the limit. *)
LEMMA ShrinkKeepsLimit ==
    ASSUME WithinLimit, NEW u \in Users,
           Verified(u)' \subseteq Verified(u), Passed(u)' \subseteq Passed(u)
    PROVE  Cardinality(Verified(u)') + Cardinality(Passed(u)')
              <= MAX_AUTHENTICATORS + SlotCount - 1
<1> DEFINE V == Verified(u) W == Verified(u)' P == Passed(u) Q == Passed(u)'
<1>1. /\ IsFiniteSet(V) /\ Cardinality(V) \in Nat /\ IsFiniteSet(P) /\ Cardinality(P) \in Nat
  BY CountsAreFinite
<1>2. W \subseteq V /\ Q \subseteq P
  OBVIOUS
<1>3. Cardinality(V) + Cardinality(P) <= MAX_AUTHENTICATORS + SlotCount - 1
  BY DEF WithinLimit
<1> HIDE DEF V, W, P, Q
<1>4. /\ Cardinality(W) \in Nat /\ Cardinality(W) <= Cardinality(V)
      /\ Cardinality(Q) \in Nat /\ Cardinality(Q) <= Cardinality(P)
  BY <1>1, <1>2, FS_Subset, FS_CardinalityType
<1>5. Cardinality(W) + Cardinality(Q) <= MAX_AUTHENTICATORS + SlotCount - 1
  BY <1>1, <1>3, <1>4, TotpAssumption, HandlersAssumption
<1> QED
  BY <1>5 DEF W, Q

(* Only confirm() puts an authenticator in use.                            *)
LEMMA OnlyConfirmVerifies ==
    ASSUME TotpInv, TotpNext, \A s \in Slots : ~ CommitConfirm(s), NEW u \in Users
    PROVE  Verified(u)' \subseteq Verified(u)
<1> SUFFICES ASSUME NEW c \in Verified(u)' PROVE c \in Verified(u)
  OBVIOUS
<1>1. c \in Creds /\ creds'[c] \notin {None, Deleted} /\ creds'[c].user = u /\ creds'[c].verified
  BY DEF Verified, Rows
<1>2. CASE creds'[c] = creds[c]
  BY <1>1, <1>2 DEF Verified, Rows
<1>3. ASSUME NEW s \in Slots, CommitEnrollment(s)
      PROVE  creds'[c] = creds[c]
  BY <1>1, <1>3 DEF CommitEnrollment
<1>4. ASSUME NEW s \in Slots, Consume(s)
      PROVE  c \in Verified(u)
  <2>1. CASE /\ creds' = [creds EXCEPT ![call[s].cred].last_used_step = call[s].step]
             /\ call[s].cred \in Verified(call[s].user) /\ c = call[s].cred
    <3>1. c \in Verified(call[s].user)
      BY <2>1
    <3>2. creds[c] \in Row
      BY <3>1 DEF Verified, Rows, TotpInv, TotpTypeOK
    <3>3. creds'[c].user = creds[c].user
      BY <1>1, <2>1, <3>2 DEF Row, TotpInv, TotpTypeOK
    <3> QED
      BY <1>1, <3>1, <3>3 DEF Verified
  <2>2. CASE creds' = [creds EXCEPT ![call[s].cred].last_used_step = call[s].step] /\ c # call[s].cred
    BY <1>1, <1>2, <2>2 DEF TotpInv, TotpTypeOK
  <2>3. CASE UNCHANGED creds
    BY <1>2, <2>3
  <2> QED
    BY <1>4, <2>1, <2>2, <2>3 DEF Consume, ConsumeIf
<1>5. ASSUME NEW v \in Users, NEW d \in Creds, delete(v, d)
      PROVE  creds'[c] = creds[c]
  BY <1>1, <1>5 DEF delete, TotpInv, TotpTypeOK
<1>6. \/ UNCHANGED creds
      \/ \E s \in Slots : CommitEnrollment(s) \/ Consume(s)
      \/ \E v \in Users, d \in Creds : delete(v, d)
  BY DEF TotpNext, Advance, StartEnrollment, StartConfirm, StartVerify, SelectPending,
         ClearPending, InsertPending, load_pending_secret, count_verified, confirm,
         MatchStep, TotpFail, totp
<1> QED
  BY <1>2, <1>3, <1>4, <1>5, <1>6

(* Only count_verified lets a handler pass.                                *)
LEMMA OnlyCountPasses ==
    ASSUME TotpInv, TotpNext, \A s \in Slots : ~ count_verified(s), NEW u \in Users
    PROVE  Passed(u)' \subseteq Passed(u)
<1> USE DEF Step, Finish, Arrive
<1>1. CASE UNCHANGED call
  BY <1>1 DEF Passed, At, Busy
<1>2. ASSUME NEW s \in Slots, NEW h, call' = [call EXCEPT ![s] = h],
             \/ h = None
             \/ h.op # "confirm" \/ h.pc = "load"
             \/ s \in Passed(h.user) /\ h.user = call[s].user
             \/ call[s].op = "confirm" /\ call[s].pc = "load" /\ h.pc = "count"
             \/ s \in Passed(call[s].user) /\ h.user = call[s].user
      PROVE  Passed(u)' \subseteq Passed(u)
  BY <1>2 DEF Passed, At, Busy, TotpInv, TotpTypeOK, HandlersOK
<1>3. ASSUME NEW s \in Slots, load_pending_secret(s)
      PROVE  Passed(u)' \subseteq Passed(u)
  <2>1. call[s] \in Confirming /\ call[s].pc = "load"
    BY <1>3, HandlerKinds DEF load_pending_secret, At, TotpInv, TotpTypeOK
  <2>2. [call[s] EXCEPT !.pc = "count"].pc = "count" /\ call[s].op = "confirm"
    BY <2>1 DEF Confirming
  <2> QED
    BY <1>2, <1>3, <2>1, <2>2 DEF load_pending_secret
<1>4. ASSUME NEW s \in Slots, confirm(s)
      PROVE  Passed(u)' \subseteq Passed(u)
  <2>1. call[s] \in Confirming /\ call[s].pc = "confirm" /\ s \in Busy
    BY <1>4, HandlerKinds DEF confirm, At, TotpInv, TotpTypeOK
  <2>2. [call[s] EXCEPT !.pc = "commit"].user = call[s].user /\ s \in Passed(call[s].user)
    BY <2>1 DEF Confirming, Passed, At
  <2> QED
    BY <1>2, <1>4, <2>2 DEF confirm
<1>5. ASSUME NEW s \in Slots, SelectPending(s) \/ ClearPending(s) \/ InsertPending(s)
      PROVE  Passed(u)' \subseteq Passed(u)
  <2>1. call[s] \in Enrolling
    BY <1>5, HandlerKinds DEF SelectPending, ClearPending, InsertPending, At, TotpInv, TotpTypeOK
  <2>2. /\ [call[s] EXCEPT !.pc = "clearing", !.rows = Pending(call[s].user)].op = "enroll"
        /\ [call[s] EXCEPT !.pc = "insert", !.rows = @ \cap Pending(call[s].user)].op = "enroll"
        /\ \A c \in Creds : [call[s] EXCEPT !.pc = "commit", !.cred = c].op = "enroll"
    BY <2>1 DEF Enrolling
  <2> QED
    BY <1>2, <1>5, <2>2 DEF SelectPending, ClearPending, InsertPending
<1>6. ASSUME NEW s \in Slots, MatchStep(s)
      PROVE  Passed(u)' \subseteq Passed(u)
  <2>1. call[s] \in Verifying
    BY <1>6, HandlerKinds DEF MatchStep, At, TotpInv, TotpTypeOK
  <2>2. \A c, n : [call[s] EXCEPT !.pc = "consume", !.cred = c, !.step = n].op = "verify"
    BY <2>1 DEF Verifying
  <2> QED
    BY <1>2, <1>6, <2>2 DEF MatchStep
<1>7. ASSUME NEW s \in Slots, \/ CommitEnrollment(s) \/ CommitConfirm(s) \/ Consume(s) \/ TotpFail(s)
      PROVE  Passed(u)' \subseteq Passed(u)
  BY <1>2, <1>7 DEF CommitEnrollment, CommitConfirm, Consume, ConsumeIf, TotpFail
<1>8. ASSUME NEW s \in Slots, NEW v \in Users,
             \/ StartEnrollment(s, v)
             \/ \E c \in Rows : StartConfirm(s, v, c)
             \/ \E code \in Digits : StartVerify(s, v, code)
      PROVE  Passed(u)' \subseteq Passed(u)
  <2>1. CASE StartEnrollment(s, v)
    BY <1>2, <2>1 DEF StartEnrollment
  <2>2. ASSUME NEW c \in Rows, StartConfirm(s, v, c) PROVE Passed(u)' \subseteq Passed(u)
    BY <1>2, <2>2 DEF StartConfirm
  <2>3. ASSUME NEW code \in Digits, StartVerify(s, v, code) PROVE Passed(u)' \subseteq Passed(u)
    BY <1>2, <2>3 DEF StartVerify
  <2> QED
    BY <1>8, <2>1, <2>2, <2>3
<1>9. ASSUME Advance \/ \E v \in Users, c \in Creds : delete(v, c)
      PROVE  UNCHANGED call
  BY <1>9 DEF Advance, delete, handlers
<1> QED
  BY <1>1, <1>3, <1>4, <1>5, <1>6, <1>7, <1>8, <1>9 DEF TotpNext

(* count_verified and confirm: who counts below the limit is one more that *)
(* has passed, who commits is one less.                                    *)
LEMMA LimitStep ==
    ASSUME TotpInv, WithinLimit, TotpNext
    PROVE  WithinLimit'
<1> USE DEF Step, Finish
<1> SUFFICES ASSUME NEW u \in Users
             PROVE  Cardinality(Verified(u)') + Cardinality(Passed(u)')
                       <= MAX_AUTHENTICATORS + SlotCount - 1
  BY DEF WithinLimit
<1>1. CASE \A s \in Slots : ~ CommitConfirm(s) /\ ~ count_verified(s)
  BY <1>1, OnlyConfirmVerifies, OnlyCountPasses, ShrinkKeepsLimit
<1>2. ASSUME NEW s \in Slots, count_verified(s)
      PROVE  Cardinality(Verified(u)') + Cardinality(Passed(u)')
                <= MAX_AUTHENTICATORS + SlotCount - 1
  <2>1. call[s] \in Confirming /\ UNCHANGED creds
    BY <1>2, HandlerKinds DEF count_verified, At, TotpInv, TotpTypeOK, totp
  <2>2. Verified(u)' = Verified(u)
    BY <2>1 DEF Verified, Rows
  <2>3. CASE Cardinality(Verified(call[s].user)) < MAX_AUTHENTICATORS /\ call[s].user = u
    <3>1. Cardinality(Passed(u)') <= SlotCount /\ Cardinality(Passed(u)') \in Nat
      <4>1. Passed(u)' \subseteq 1..SlotCount
        BY DEF Passed, Slots
      <4> DEFINE Q == Passed(u)'
      <4>2. Q \subseteq 1..SlotCount
        BY <4>1
      <4> HIDE DEF Q
      <4>3. IsFiniteSet(1..SlotCount) /\ Cardinality(1..SlotCount) = SlotCount
        BY FS_Interval, HandlersAssumption
      <4>4. IsFiniteSet(Q) /\ Cardinality(Q) <= SlotCount /\ Cardinality(Q) \in Nat
        BY <4>2, <4>3, FS_Subset, FS_CardinalityType
      <4> QED
        BY <4>4 DEF Q
    <3>2. Cardinality(Verified(u)) \in Nat
      BY CountsAreFinite
    <3>3. Cardinality(Verified(u)) + Cardinality(Passed(u)') <= MAX_AUTHENTICATORS + SlotCount - 1
      BY <2>3, <3>1, <3>2, TotpAssumption, HandlersAssumption
    <3> QED
      BY <2>2, <3>3
  <2>4. CASE call[s].user # u \/ ~ (Cardinality(Verified(call[s].user)) < MAX_AUTHENTICATORS)
    <3>1. Passed(u)' \subseteq Passed(u)
      <4>1. [call[s] EXCEPT !.pc = "confirm"].user = call[s].user
        BY <2>1 DEF Confirming
      <4> QED
        BY <1>2, <2>4, <4>1 DEF count_verified, Passed, At, Busy, TotpInv, TotpTypeOK, HandlersOK
    <3> QED
      BY <2>2, <3>1, ShrinkKeepsLimit
  <2> QED
    BY <2>3, <2>4
<1>3. ASSUME NEW s \in Slots, CommitConfirm(s)
      PROVE  Cardinality(Verified(u)') + Cardinality(Passed(u)')
                <= MAX_AUTHENTICATORS + SlotCount - 1
  <2>1. call[s] \in Confirming /\ LockedBy(s) = {call[s].cred} /\ call[s].pc = "commit"
    BY <1>3, HandlerKinds DEF CommitConfirm, At, TotpInv, TotpTypeOK, LockedBy
  <2>2. /\ call[s].cred \in Creds /\ creds[call[s].cred] \in Row
        /\ creds[call[s].cred].user = call[s].user
    BY <2>1 DEF TotpInv, LocksHeld, Pending, Rows, TotpTypeOK
  <2>3. \A d \in Creds : creds'[d] = IF d = call[s].cred THEN [creds[d] EXCEPT !.verified = TRUE]
                                     ELSE creds[d]
    BY <1>3, <2>2 DEF CommitConfirm, TotpInv, TotpTypeOK
  <2>4. \A t \in Slots : call'[t] = IF t = s THEN None ELSE call[t]
    BY <1>3 DEF CommitConfirm, TotpInv, TotpTypeOK, HandlersOK
  <2>5. [creds[call[s].cred] EXCEPT !.verified = TRUE].user = call[s].user
    BY <2>2 DEF Row
  <2>6. Passed(u)' \subseteq Passed(u) \ {s}
    BY <2>4 DEF Passed, At, Busy
  <2>7. CASE call[s].user # u
    <3>1. Verified(u)' \subseteq Verified(u)
      BY <2>3, <2>5, <2>7 DEF Verified, Rows
    <3> QED
      BY <2>6, <3>1, ShrinkKeepsLimit
  <2>8. CASE call[s].user = u
    <3> DEFINE V == Verified(u) W == Verified(u)' P == Passed(u) Q == Passed(u)'
               c == call[s].cred
    <3>1. W \subseteq V \cup {c}
      BY <2>3 DEF Verified, Rows
    <3>2. s \in P /\ Q \subseteq P \ {s}
      BY <1>3, <2>6, <2>8 DEF Passed, CommitConfirm, At
    <3>3. /\ IsFiniteSet(V) /\ Cardinality(V) \in Nat /\ IsFiniteSet(P) /\ Cardinality(P) \in Nat
      BY CountsAreFinite
    <3>4. Cardinality(V) + Cardinality(P) <= MAX_AUTHENTICATORS + SlotCount - 1
      BY DEF WithinLimit
    <3> HIDE DEF V, W, P, Q, c
    <3>5. IsFiniteSet(V \cup {c}) /\ Cardinality(V \cup {c}) <= Cardinality(V) + 1
          /\ Cardinality(V \cup {c}) \in Nat
      <4>1. /\ IsFiniteSet(V \cup {c})
            /\ \/ Cardinality(V \cup {c}) = Cardinality(V)
               \/ Cardinality(V \cup {c}) = Cardinality(V) + 1
        BY <3>3, FS_AddElement
      <4> QED
        BY <3>3, <4>1
    <3>6. Cardinality(W) <= Cardinality(V \cup {c}) /\ Cardinality(W) \in Nat
      BY <3>1, <3>5, FS_Subset, FS_CardinalityType
    <3>7. IsFiniteSet(P \ {s}) /\ Cardinality(P \ {s}) = Cardinality(P) - 1
          /\ Cardinality(P \ {s}) \in Nat
      BY <3>2, <3>3, FS_RemoveElement, FS_CardinalityType
    <3>8. Cardinality(Q) <= Cardinality(P \ {s}) /\ Cardinality(Q) \in Nat
      BY <3>2, <3>7, FS_Subset, FS_CardinalityType
    <3>9. Cardinality(W) + Cardinality(Q) <= MAX_AUTHENTICATORS + SlotCount - 1
      BY <3>3, <3>4, <3>5, <3>6, <3>7, <3>8, TotpAssumption, HandlersAssumption
    <3> QED
      BY <3>9 DEF W, Q
  <2> QED
    BY <2>7, <2>8
<1> QED
  BY <1>1, <1>2, <1>3

(* A step that lets nobody pass and puts nothing in use keeps the limit:   *)
(* hard_remove, and every handler of another kind.                         *)
LEMMA OtherKeepsLimit ==
    ASSUME TotpInv, WithinLimit,
           \A u \in Users : Verified(u)' \subseteq Verified(u),
           \/ UNCHANGED call
           \/ \E s \in Slots, h \in OtherHandler \cup {None} : call' = [call EXCEPT ![s] = h]
    PROVE  WithinLimit'
<1>1. ASSUME NEW u \in Users PROVE Passed(u)' \subseteq Passed(u)
  <2>1. CASE UNCHANGED call
    BY <2>1 DEF Passed, At, Busy
  <2>2. ASSUME NEW s \in Slots, NEW h \in OtherHandler \cup {None}, call' = [call EXCEPT ![s] = h]
        PROVE  Passed(u)' \subseteq Passed(u)
    <3>1. h # None => h.op # "confirm"
      BY DEF OtherHandler, Joining, Bootstrapping, Rotating, Resetting
    <3> QED
      BY <2>2, <3>1 DEF Passed, At, Busy, TotpInv, TotpTypeOK, HandlersOK
  <2> QED
    BY <2>1, <2>2
<1> QED
  BY <1>1, ShrinkKeepsLimit DEF WithinLimit

(* At the start at most one authenticator is in use, and the limit is one  *)
(* at least.                                                               *)
LEMMA InitLimit ==
    ASSUME InitTotp, InitHandlers
    PROVE  WithinLimit
<1> SUFFICES ASSUME NEW u \in Users
             PROVE  Cardinality(Verified(u)) + Cardinality(Passed(u))
                       <= MAX_AUTHENTICATORS + SlotCount - 1
  BY DEF WithinLimit
<1> DEFINE one == CHOOSE c \in Creds : TRUE
           V == Verified(u)
           P == Passed(u)
<1>1. V \subseteq {one}
  BY DEF InitTotp, Verified, Rows
<1>2. P = {}
  BY DEF InitHandlers, Passed, At, Busy
<1> HIDE DEF V, P, one
<1>3. IsFiniteSet({one}) /\ Cardinality({one}) = 1
  BY FS_Singleton
<1>4. Cardinality(V) \in Nat /\ Cardinality(V) <= 1
  BY <1>1, <1>3, FS_Subset, FS_CardinalityType
<1>5. Cardinality(P) = 0
  BY <1>2, FS_EmptySet
<1>6. Cardinality(V) + Cardinality(P) <= MAX_AUTHENTICATORS + SlotCount - 1
  BY <1>4, <1>5, TotpAssumption, HandlersAssumption
<1> QED
  BY <1>6 DEF V, P

(* What the limit says of the authenticators in use.                       *)
LEMMA LimitImplies == WithinLimit => AuthenticatorLimit
<1> SUFFICES ASSUME WithinLimit, NEW u \in Users
             PROVE  Cardinality(Verified(u)) <= MAX_AUTHENTICATORS + SlotCount - 1
  BY DEF AuthenticatorLimit
<1>1. Cardinality(Verified(u)) \in Nat /\ Cardinality(Passed(u)) \in Nat
  BY CountsAreFinite
<1>2. Cardinality(Verified(u)) + Cardinality(Passed(u)) <= MAX_AUTHENTICATORS + SlotCount - 1
  BY DEF WithinLimit
<1> QED
  BY <1>1, <1>2, TotpAssumption, HandlersAssumption
=============================================================================
