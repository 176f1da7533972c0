--------------------------- MODULE AccountProofs ---------------------------
(* Proofs of the safety properties of Account, for any number of requests, *)
(* accounts, passwords and sessions.                                       *)
EXTENDS Account, TLAPS

USE DEF Exists, In, Locked, Locking, Goto, Return

(* Before the first Bootstrap there are no rows and no running handlers. *)
LEMMA InitIInv == Init => IInv
  BY AccountAssumption
     DEF Init, IInv, TypeOK, UserRow, Session, PCs, Lifecycles, OnlySpentIds,
         CallerKnown, LocksOfPhase, IdleForNobody, ClosedHasNoPassword,
         VerifierMatchesWrap, SessionHasUser

(* The handlers that only read, or give up, leave the database alone.      *)
LEMMA ReadersKeepIInv ==
  ASSUME IInv, NEW s \in Slots,
         \/ BootstrapGate(s) \/ HasSecondFactor(s) \/ FindById(s)
         \/ VerifyUserPassword(s) \/ Fail(s)
         \/ \E u \in UserIds : VerifyCredentials(s, u)
         \/ \E t \in Tokens : FindActive(s, t)
  PROVE  IInv'
<1>t. TypeOK'
  <2>1. UNCHANGED dbvars
    BY DEF BootstrapGate, HasSecondFactor, FindById, VerifyUserPassword, Fail,
           VerifyCredentials, FindActive
  <2>2. /\ pc' \in [Slots -> PCs]
        /\ new' \in [Slots -> Passwords \cup {None}]
        /\ locks' \in [Slots -> SUBSET {"credentials", "user_keys"}]
    BY DEF IInv, TypeOK, PCs, BootstrapGate, HasSecondFactor, FindById,
           VerifyUserPassword, Fail, VerifyCredentials, FindActive
  <2>3. user' \in [Slots -> UserIds \cup {None}]
    BY DEF IInv, TypeOK, Session, BootstrapGate, HasSecondFactor, FindById,
           VerifyUserPassword, Fail, VerifyCredentials, FindActive
  <2> QED BY <2>1, <2>2, <2>3 DEF IInv, TypeOK, dbvars
<1>c. (CallerKnown /\ IdleForNobody)'
  BY AccountAssumption
     DEF IInv, TypeOK, PCs, Session, CallerKnown, IdleForNobody, OnlySpentIds, BootstrapGate,
         HasSecondFactor, FindById, VerifyUserPassword, Fail,
         VerifyCredentials, FindActive, dbvars
<1>l. LocksOfPhase'
  BY DEF IInv, TypeOK, PCs, LocksOfPhase, BootstrapGate, HasSecondFactor,
         FindById, VerifyUserPassword, Fail, VerifyCredentials, FindActive, dbvars
<1>r. (OnlySpentIds /\ ClosedHasNoPassword /\ VerifierMatchesWrap /\ SessionHasUser)'
  <2>1. UNCHANGED dbvars
    BY DEF BootstrapGate, HasSecondFactor, FindById, VerifyUserPassword, Fail,
           VerifyCredentials, FindActive
  <2> QED BY <2>1 DEF IInv, dbvars, OnlySpentIds, ClosedHasNoPassword,
                      VerifierMatchesWrap, SessionHasUser
<1> QED BY <1>t, <1>c, <1>l, <1>r DEF IInv

(* Bootstrap writes the rows of an id nobody has used.  *)
LEMMA BootstrapKeepsIInv ==
  ASSUME IInv, NEW s \in Slots, NEW u \in UserIds, NEW e \in Emails,
         NEW p \in Passwords, NEW t \in Tokens, Bootstrap(s, u, e, p, t)
  PROVE  IInv'
<1> USE DEF Bootstrap
<1>0. ~Exists(u) /\ cred[u] = None /\ wrap[u] = None
  BY DEF IInv, TypeOK, OnlySpentIds
<1>1. /\ [email |-> e, name |-> "chosen", lifecycle |-> "active"] \in UserRow
      /\ [user |-> u, state |-> "live"] \in Session
  BY DEF UserRow, Session, Lifecycles
<1>2. \A v \in UserIds : Exists(v)' <=> Exists(v) \/ v = u
  BY <1>1, NoneIsNoRow DEF IInv, TypeOK
<1>t. TypeOK'
  BY <1>1 DEF IInv, TypeOK, PCs
<1>o. OnlySpentIds'
  BY <1>2 DEF IInv, TypeOK, OnlySpentIds
<1>c. (CallerKnown /\ IdleForNobody)'
  BY DEF IInv, TypeOK, CallerKnown, IdleForNobody
<1>l. LocksOfPhase'
  BY DEF IInv, TypeOK, LocksOfPhase, CallerKnown, PCs
<1>r. (ClosedHasNoPassword /\ VerifierMatchesWrap)'
  BY <1>2 DEF IInv, TypeOK, ClosedHasNoPassword, VerifierMatchesWrap
<1>s. SessionHasUser'
  BY <1>1, <1>2 DEF IInv, TypeOK, Session, SessionHasUser
<1> QED BY <1>t, <1>o, <1>c, <1>l, <1>r, <1>s DEF IInv

(* Revoking all sessions of an account neither adds nor moves one.         *)
LEMMA RevokeKeepsSessions ==
  ASSUME IInv, NEW u \in UserIds
  PROVE  /\ revoke_all_for_user(u) \in [Tokens -> Session \cup {None}]
         /\ \A t \in Tokens : revoke_all_for_user(u)[t] # None =>
               /\ sessions[t] # None
               /\ revoke_all_for_user(u)[t].user = sessions[t].user
<1>1. ASSUME NEW t \in Tokens, sessions[t] # None
      PROVE  /\ [sessions[t] EXCEPT !.state = "revoked"] \in Session
             /\ [sessions[t] EXCEPT !.state = "revoked"].user = sessions[t].user
  BY <1>1 DEF IInv, TypeOK, Session
<1> QED BY <1>1 DEF IInv, TypeOK, revoke_all_for_user

(* An update of a user row that is there keeps every row a row, and what   *)
(* is said about whether rows exist.                                       *)
LEMMA UserWriteKeepsIInv ==
  ASSUME IInv, NEW u \in UserIds, Exists(u), NEW row \in UserRow,
         row.lifecycle = "anonymized" => users[u].lifecycle = "anonymized",
         users' = [users EXCEPT ![u] = row],
         UNCHANGED <<spent, cred, wrap>>
  PROVE  /\ users' \in [UserIds -> UserRow \cup {None}]
         /\ \A v \in UserIds : Exists(v)' <=> Exists(v)
         /\ (OnlySpentIds /\ ClosedHasNoPassword /\ VerifierMatchesWrap)'
<1>1. users' \in [UserIds -> UserRow \cup {None}]
  BY DEF IInv, TypeOK
<1>2. \A v \in UserIds : Exists(v)' <=> Exists(v)
  BY NoneIsNoRow DEF IInv, TypeOK
<1>3. OnlySpentIds' /\ VerifierMatchesWrap'
  BY <1>2 DEF IInv, OnlySpentIds, VerifierMatchesWrap
<1>4. ClosedHasNoPassword'
  BY <1>2 DEF IInv, TypeOK, ClosedHasNoPassword
<1> QED BY <1>1, <1>2, <1>3, <1>4

(* The profile updates change one row of an account that is there.         *)
LEMMA ProfileKeepsIInv ==
  ASSUME IInv, NEW s \in Slots,
         UpdateDisplayName(s) \/ \E e \in Emails : UpdateEmail(s, e)
  PROVE  IInv'
<1> USE DEF UpdateDisplayName, UpdateEmail
<1>u. user[s] \in UserIds /\ Exists(user[s])
  BY DEF IInv, TypeOK, CallerKnown, PCs
<1>w. users[user[s]] \in UserRow
  BY <1>u DEF IInv, TypeOK
<1>r. PICK row \in UserRow : /\ row.lifecycle = users[user[s]].lifecycle
                            /\ users' = [users EXCEPT ![user[s]] = row]
  <2>1. CASE UpdateDisplayName(s)
    <3>1. [users[user[s]] EXCEPT !.name = "chosen"] \in UserRow
      BY <1>w DEF UserRow
    <3> QED BY <2>1, <3>1, <1>w DEF UserRow
  <2>2. ASSUME NEW e \in Emails, UpdateEmail(s, e)
        PROVE  \E row \in UserRow : /\ row.lifecycle = users[user[s]].lifecycle
                                    /\ users' = [users EXCEPT ![user[s]] = row]
    <3>1. [users[user[s]] EXCEPT !.email = e] \in UserRow
      BY <1>w DEF UserRow
    <3> QED BY <2>2, <3>1, <1>w DEF UserRow
  <2> QED BY <2>1, <2>2
<1>k. UNCHANGED <<spent, cred, wrap, sessions>>
  OBVIOUS
<1>1. /\ users' \in [UserIds -> UserRow \cup {None}]
      /\ \A v \in UserIds : Exists(v)' <=> Exists(v)
      /\ (OnlySpentIds /\ ClosedHasNoPassword /\ VerifierMatchesWrap)'
  BY <1>u, <1>r, <1>k, UserWriteKeepsIInv
<1>t. TypeOK'
  BY <1>1, <1>k DEF IInv, TypeOK, PCs
<1>c. (CallerKnown /\ IdleForNobody)' /\ LocksOfPhase'
  BY <1>k DEF IInv, TypeOK, CallerKnown, IdleForNobody, LocksOfPhase, PCs
<1>s. SessionHasUser'
  BY <1>1, <1>k DEF IInv, TypeOK, Session, SessionHasUser
<1> QED BY <1>1, <1>t, <1>c, <1>s DEF IInv

(* Deactivation and reactivation change a lifecycle, and deactivation the  *)
(* state of sessions.                                                      *)
LEMMA LifecycleKeepsIInv ==
  ASSUME IInv, NEW u \in UserIds, Deactivate(u) \/ Reactivate(u)
  PROVE  IInv'
<1> USE DEF Deactivate, Reactivate, revoke_all_for_user
<1>w. Exists(u) /\ users[u] \in UserRow
  BY DEF IInv, TypeOK
<1>r. PICK row \in UserRow : /\ row.lifecycle # "anonymized"
                            /\ users' = [users EXCEPT ![u] = row]
  <2>1. CASE Deactivate(u)
    <3>1. [users[u] EXCEPT !.lifecycle = "deactivated"] \in UserRow
      BY <1>w DEF UserRow, Lifecycles
    <3> QED BY <2>1, <3>1, <1>w DEF UserRow
  <2>2. CASE Reactivate(u)
    <3>1. [users[u] EXCEPT !.lifecycle = "active"] \in UserRow
      BY <1>w DEF UserRow, Lifecycles
    <3> QED BY <2>2, <3>1, <1>w DEF UserRow
  <2> QED BY <2>1, <2>2
<1>k. UNCHANGED <<spent, cred, wrap, pc, user, new, locks>>
  OBVIOUS
<1>1. /\ users' \in [UserIds -> UserRow \cup {None}]
      /\ \A v \in UserIds : Exists(v)' <=> Exists(v)
      /\ (OnlySpentIds /\ ClosedHasNoPassword /\ VerifierMatchesWrap)'
  BY <1>w, <1>r, <1>k, UserWriteKeepsIInv
<1>2. /\ sessions' \in [Tokens -> Session \cup {None}]
      /\ \A t \in Tokens : sessions'[t] # None =>
            sessions[t] # None /\ sessions'[t].user = sessions[t].user
  BY DEF IInv, TypeOK, Session
<1>t. TypeOK'
  BY <1>1, <1>2, <1>k DEF IInv, TypeOK
<1>c. (CallerKnown /\ IdleForNobody)' /\ LocksOfPhase'
  BY <1>k DEF IInv, CallerKnown, IdleForNobody, LocksOfPhase
<1>s. SessionHasUser'
  BY <1>1, <1>2 DEF IInv, TypeOK, Session, SessionHasUser
<1> QED BY <1>1, <1>t, <1>c, <1>s DEF IInv

(* A login mints a session only for an account that is still there; time   *)
(* only ends sessions.                                                     *)
LEMMA SessionWritesKeepIInv ==
  ASSUME IInv, NEW t \in Tokens,
         Expire(t) \/ \E s \in Slots : NewSession(s, t)
  PROVE  IInv'
<1> USE DEF Expire, NewSession
<1>1. PICK x \in Session : /\ sessions' = [sessions EXCEPT ![t] = x]
                          /\ Exists(x.user)
  <2>1. CASE Expire(t)
    <3>1. sessions[t] \in Session /\ Exists(sessions[t].user)
      BY <2>1 DEF IInv, TypeOK, SessionHasUser
    <3>2. [sessions[t] EXCEPT !.state = "expired"] \in Session
      BY <3>1 DEF Session
    <3> QED BY <2>1, <3>1, <3>2 DEF Session
  <2>2. ASSUME NEW s \in Slots, NewSession(s, t)
        PROVE  \E x \in Session : /\ sessions' = [sessions EXCEPT ![t] = x]
                                  /\ Exists(x.user)
    <3>1. user[s] \in UserIds
      BY <2>2 DEF IInv, TypeOK, CallerKnown
    <3>2. [user |-> user[s], state |-> "live"] \in Session
      BY <3>1 DEF Session
    <3> QED BY <2>2, <3>2
  <2> QED BY <2>1, <2>2
<1>k. UNCHANGED <<users, spent, cred, wrap>>
  OBVIOUS
<1>t. TypeOK'
  BY <1>1, <1>k DEF IInv, TypeOK, PCs
<1>c. (CallerKnown /\ IdleForNobody)' /\ LocksOfPhase'
  BY <1>k DEF IInv, TypeOK, CallerKnown, IdleForNobody, LocksOfPhase, PCs
<1>s. SessionHasUser'
  BY <1>1, <1>k DEF IInv, TypeOK, SessionHasUser
<1>r. (OnlySpentIds /\ ClosedHasNoPassword /\ VerifierMatchesWrap)'
  BY <1>k DEF IInv, OnlySpentIds, ClosedHasNoPassword, VerifierMatchesWrap
<1> QED BY <1>t, <1>c, <1>s, <1>r DEF IInv

(* change_password: the commit finds its row locks in place, so it writes  *)
(* the verifier exactly if there is one, and then the wrap as well.        *)
LEMMA ChangePasswordKeepsIInv ==
  ASSUME IInv, NEW s \in Slots,
         \/ \E p \in Passwords : UpdatePasswordHash(s, p)
         \/ UpdateUserKeys(s) \/ CommitPassword(s)
  PROVE  IInv'
<1> USE DEF UpdatePasswordHash, UpdateUserKeys, CommitPassword
<1>u. user[s] \in UserIds /\ user[s] \in spent
  BY DEF IInv, TypeOK, CallerKnown, PCs
<1>t. TypeOK'
  BY <1>u DEF IInv, TypeOK, PCs, dbvars
<1>c. OnlySpentIds' /\ (CallerKnown /\ IdleForNobody)'
  BY <1>u, AccountAssumption
     DEF IInv, TypeOK, OnlySpentIds, CallerKnown, IdleForNobody, LocksOfPhase, dbvars
<1>l. LocksOfPhase'
  BY <1>u, AccountAssumption
     DEF IInv, TypeOK, LocksOfPhase, CallerKnown, PCs, dbvars
<1>r. (ClosedHasNoPassword /\ VerifierMatchesWrap /\ SessionHasUser)'
  BY <1>u DEF IInv, TypeOK, ClosedHasNoPassword, VerifierMatchesWrap,
              SessionHasUser, LocksOfPhase, dbvars
<1> QED BY <1>t, <1>c, <1>l, <1>r DEF IInv

(* Closing or removing an account waits for whoever has locked its rows.   *)
LEMMA ClosingKeepsIInv ==
  ASSUME IInv, NEW u \in UserIds, Anonymize(u) \/ HardRemove(u)
  PROVE  IInv'
<1> USE DEF Anonymize, HardRemove, revoke_all_for_user, RedactedEmail
<1>k. UNCHANGED <<spent, pc, user, new, locks>> /\ Exists(u)
  OBVIOUS
<1>1. [email |-> u, name |-> "[deleted user]", lifecycle |-> "anonymized"] \in UserRow
  BY DEF UserRow, Lifecycles
<1>2. /\ users' \in [UserIds -> UserRow \cup {None}]
      /\ cred' \in [UserIds -> Passwords \cup {None}]
      /\ wrap' \in [UserIds -> Passwords \cup {None}]
      /\ cred'[u] = None
      /\ wrap'[u] # None => wrap'[u] = wrap[u] /\ Exists(u)'
      /\ \A v \in UserIds \ {u} : /\ users'[v] = users[v] /\ cred'[v] = cred[v]
                                  /\ wrap'[v] = wrap[v]
  <2>1. CASE Anonymize(u)
    BY <2>1, <1>1, NoneIsNoRow DEF IInv, TypeOK
  <2>2. CASE HardRemove(u)
    BY <2>2 DEF IInv, TypeOK
  <2> QED BY <2>1, <2>2
<1>3. /\ sessions' \in [Tokens -> Session \cup {None}]
      /\ \A t \in Tokens : sessions'[t] # None =>
            sessions[t] # None /\ sessions'[t].user = sessions[t].user
  <2>1. CASE Anonymize(u)
    BY <2>1, RevokeKeepsSessions
  <2>2. CASE HardRemove(u)
    BY <2>2 DEF IInv, TypeOK
  <2> QED BY <2>1, <2>2
<1>4. ASSUME NEW t \in Tokens, sessions'[t] # None
      PROVE  users'[sessions'[t].user] # None
  <2> DEFINE v == sessions[t].user
  <2>1. sessions'[t].user = v /\ v \in UserIds /\ users[v] # None
    BY <1>3, <1>4 DEF IInv, TypeOK, Session, SessionHasUser
  <2>2. CASE v # u
    BY <2>1, <2>2, <1>2
  <2>3. CASE v = u
    <3>1. ~HardRemove(u)
      BY <1>4, <2>3
    <3>2. users'[u] # None
      BY <3>1, <1>1, NoneIsNoRow DEF IInv, TypeOK
    <3> QED BY <2>1, <2>3, <3>2
  <2> QED BY <2>2, <2>3
<1>t. TypeOK'
  BY <1>k, <1>2, <1>3 DEF IInv, TypeOK
<1>c. OnlySpentIds' /\ (CallerKnown /\ IdleForNobody)'
  BY <1>k, <1>2 DEF IInv, TypeOK, OnlySpentIds, CallerKnown, IdleForNobody
<1>l. LocksOfPhase'
  <2>1. \A s \in Slots : pc[s] \in Locking => user[s] \in UserIds
    BY DEF IInv, TypeOK, CallerKnown
  <2>2. \A s \in Slots : pc[s] \in Locking => cred'[user[s]] = cred[user[s]]
    BY <2>1, <1>2 DEF IInv, LocksOfPhase
  <2>3. \A s \in Slots : pc[s] = "rewrapped" => wrap'[user[s]] = wrap[user[s]]
    BY <2>1, <1>2 DEF IInv, LocksOfPhase
  <2> QED BY <1>k, <2>2, <2>3 DEF IInv, LocksOfPhase
<1>r. (ClosedHasNoPassword /\ VerifierMatchesWrap)'
  BY <1>2 DEF IInv, TypeOK, ClosedHasNoPassword, VerifierMatchesWrap
<1>s. SessionHasUser'
  BY <1>4 DEF SessionHasUser
<1> QED BY <1>t, <1>c, <1>l, <1>r, <1>s DEF IInv

(* Every step of the service or of an operator keeps the invariant. *)
LEMMA NextIInv == IInv /\ [Next]_vars => IInv'
<1> SUFFICES ASSUME IInv, [Next]_vars PROVE IInv' OBVIOUS
<1>1. CASE UNCHANGED vars
  BY <1>1 DEF vars, dbvars, IInv, TypeOK, OnlySpentIds, CallerKnown,
              LocksOfPhase, IdleForNobody, ClosedHasNoPassword,
              VerifierMatchesWrap, SessionHasUser
<1>2. CASE Next
  BY <1>1, <1>2, ReadersKeepIInv, BootstrapKeepsIInv, ProfileKeepsIInv,
     LifecycleKeepsIInv, SessionWritesKeepIInv, ChangePasswordKeepsIInv, ClosingKeepsIInv DEF Next, Exhausted
<1> QED BY <1>1, <1>2

(* The inductive invariant of accounts, credentials and sessions holds.    *)
THEOREM AccountInvariant == Spec => []IInv
  BY InitIInv, NextIInv, PTL DEF Spec

(* Whoever can sign in can unwrap the master key with the same password:   *)
(* change_password keeps the verifier and the wrap in step.                *)
THEOREM VerifierAlwaysMatchesWrap == Spec => []VerifierMatchesWrap
<1>1. IInv => VerifierMatchesWrap BY DEF IInv
<1> QED BY <1>1, AccountInvariant, PTL

(* No session outlives its account, also not one minted by a late login.   *)
THEOREM SessionAlwaysHasUser == Spec => []SessionHasUser
<1>1. IInv => SessionHasUser BY DEF IInv
<1> QED BY <1>1, AccountInvariant, PTL

(* Deleted credentials stay deleted: change_password updates a row it has  *)
(* locked, and Bootstrap writes under an id that is new.                   *)
LEMMA StepKeepsDeleted ==
  ASSUME IInv, Next, NEW u \in spent, cred[u] = None
  PROVE  cred'[u] = None
<1>0. u \in UserIds
  BY DEF IInv, TypeOK
<1>1. ASSUME NEW s \in Slots, CommitPassword(s) PROVE cred'[u] = None
  BY <1>0, <1>1 DEF IInv, TypeOK, LocksOfPhase, CommitPassword
<1>2. ASSUME NEW s \in Slots, NEW v \in UserIds, NEW e \in Emails,
             NEW p \in Passwords, NEW t \in Tokens, Bootstrap(s, v, e, p, t)
      PROVE  cred'[u] = None
  BY <1>0, <1>2 DEF IInv, TypeOK, Bootstrap
<1> QED
  BY <1>0, <1>1, <1>2
     DEF IInv, TypeOK, Next, BootstrapGate, VerifyCredentials, NewSession,
         FindActive, UpdateEmail, UpdatePasswordHash, HasSecondFactor,
         FindById, UpdateDisplayName, VerifyUserPassword, UpdateUserKeys,
         Fail, Expire, Deactivate, Reactivate, Anonymize, HardRemove,
         Exhausted, dbvars, vars

(* Only Login and authenticate begin to act for an account, and both want  *)
(* it active.                                                              *)
LEMMA StepStartsForActive ==
  ASSUME IInv, Next, NEW u \in spent, ~In(u, "active"),
         NEW s \in Slots, pc[s] = "idle"
  PROVE  user'[s] # u
<1>u. u \in UserIds
  BY DEF IInv, TypeOK
<1>0. user[s] # u
  BY <1>u, AccountAssumption DEF IInv, IdleForNobody
<1>1. ASSUME NEW q \in Slots, NEW v \in UserIds, VerifyCredentials(q, v)
      PROVE  user'[s] # u
  BY <1>0, <1>1 DEF IInv, TypeOK, VerifyCredentials
<1>2. ASSUME NEW q \in Slots, NEW t \in Tokens, FindActive(q, t)
      PROVE  user'[s] # u
  BY <1>0, <1>2 DEF IInv, TypeOK, FindActive
<1>3. ASSUME NEW q \in Slots, Return(q) PROVE user'[s] # u
  BY <1>0, <1>3, AccountAssumption DEF IInv, TypeOK
<1>4. \/ UNCHANGED user
      \/ \E q \in Slots : \/ Return(q)
                          \/ \E v \in UserIds : VerifyCredentials(q, v)
                          \/ \E t \in Tokens : FindActive(q, t)
  <2>1. ASSUME NEW q \in Slots,
               \/ UpdateDisplayName(q) \/ CommitPassword(q) \/ Fail(q)
               \/ HasSecondFactor(q) /\ ~UNCHANGED user
        PROVE  Return(q)
    BY <2>1 DEF UpdateDisplayName, CommitPassword, Fail, HasSecondFactor
  <2>2. ASSUME NEW q \in Slots,
               \/ BootstrapGate(q) \/ FindById(q) \/ VerifyUserPassword(q)
               \/ UpdateUserKeys(q)
               \/ \E p \in Passwords : UpdatePasswordHash(q, p)
        PROVE  UNCHANGED user
    BY <2>2 DEF BootstrapGate, FindById, VerifyUserPassword, UpdateUserKeys,
                UpdatePasswordHash
  <2>3. ASSUME \/ \E t \in Tokens : Expire(t)
               \/ \E v \in UserIds : \/ Deactivate(v) \/ Reactivate(v)
                                     \/ Anonymize(v) \/ HardRemove(v)
               \/ Exhausted
        PROVE  UNCHANGED user
    BY <2>3 DEF Expire, Deactivate, Reactivate, Anonymize, HardRemove,
                Exhausted, vars
  <2>4. CASE \E q \in Slots :
               \/ \E v \in UserIds, e \in Emails, p \in Passwords, t \in Tokens :
                     Bootstrap(q, v, e, p, t)
               \/ \E t \in Tokens : NewSession(q, t)
               \/ \E e \in Emails : UpdateEmail(q, e)
    BY <2>4 DEF Bootstrap, NewSession, UpdateEmail
  <2> QED BY <2>1, <2>2, <2>3, <2>4 DEF Next
<1> QED BY <1>0, <1>1, <1>2, <1>3, <1>4

(* Closing an account locks out: no password comes back and no call starts *)
(* for it while it is not active, whatever was in flight.                  *)
THEOREM ClosedLockedOut == Spec => ClosingLocksOut
<1>1. IInv /\ [Next]_vars =>
        [\A u \in spent :
          /\ cred[u] = None => cred'[u] = None
          /\ ~In(u, "active") => \A s \in Slots : pc[s] = "idle" => user'[s] # u]_vars
  BY StepKeepsDeleted, StepStartsForActive
<1> QED BY <1>1, AccountInvariant, PTL DEF Spec, ClosingLocksOut
=============================================================================
