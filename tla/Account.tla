------------------------------ MODULE Account ------------------------------
(***************************************************************************)
(* Accounts, their credentials and their sessions: the Account service     *)
(* (crates/platform/src/account.rs) over the repositories of crates/auth   *)
(* and crates/identity.  A handler reads on the pool, statement by         *)
(* statement, and then writes in a transaction; between two of its steps   *)
(* any other handler, or an operator's lifecycle transaction on the same   *)
(* account, may commit.  A transaction whose rows nobody else reads or     *)
(* locks is one step, taken when it commits.  Two-factor state is left     *)
(* open: has_second_factor may answer either way.                          *)
(***************************************************************************)
EXTENDS Integers, FiniteSets

CONSTANTS Slots,      \* requests in flight at a time
          UserIds,    \* ids of user rows, never used twice
          Emails,     \* addresses
          Passwords,
          Tokens,     \* bearer tokens
          None        \* no row, no password, nobody

ASSUME AccountAssumption ==
    None \notin UserIds \cup Passwords \cup Emails

VARIABLES users,     \* identity.users
          spent,     \* ids handed out so far
          cred,      \* auth.credentials: the password the verifier accepts
          wrap,      \* identity.user_keys: the password that unwraps the key
          sessions,  \* auth.sessions, by token
          pc,        \* pc[s]: where the handler in slot s is
          user,      \* user[s]: the account it acts for
          new,       \* new[s]: the password a change_password is writing
          locks      \* locks[s]: tables whose row of user[s] it has locked

dbvars == <<users, spent, cred, wrap, sessions>>
vars == <<dbvars, pc, user, new, locks>>

(* anonymize writes 'deleted+<id>@purged.invalid': an address of its own   *)
(* per account, identified here with the id.                               *)
RedactedEmail(u) == u

Lifecycles == {"active", "deactivated", "anonymized"}
UserRow == [email : Emails \cup UserIds, name : {"chosen", "[deleted user]"},
            lifecycle : Lifecycles]
Session == [user : UserIds, state : {"live", "revoked", "expired"}]
Locking == {"rehashed", "rewrapped"}
ASSUME NoneIsNoRow == None \notin UserRow /\ None \notin Session

PCs == {"idle", "bootstrap", "mfa", "mint", "session", "authed", "reauthed"}
         \cup Locking

Exists(u) == users[u] # None
In(u, L) == Exists(u) /\ users[u].lifecycle = L

Init == /\ users = [u \in UserIds |-> None]
        /\ spent = {}
        /\ cred = [u \in UserIds |-> None]
        /\ wrap = [u \in UserIds |-> None]
        /\ sessions = [t \in Tokens |-> None]
        /\ pc = [s \in Slots |-> "idle"]
        /\ user = [s \in Slots |-> None]
        /\ new = [s \in Slots |-> None]
        /\ locks = [s \in Slots |-> {}]

Locked(table, u) == \E s \in Slots : user[s] = u /\ table \in locks[s]

Goto(s, l) == pc' = [pc EXCEPT ![s] = l]

(* The handler in slot s returns. *)
Return(s) ==
    /\ Goto(s, "idle")
    /\ user' = [user EXCEPT ![s] = None]
    /\ new' = [new EXCEPT ![s] = None]
    /\ locks' = [locks EXCEPT ![s] = {}]

(* An error before the commit: an argument is missing, a password does not *)
(* match, a row is not found, a statement fails, the server dies.  What    *)
(* the transaction wrote is rolled back.                                   *)
Fail(s) ==
    /\ pc[s] # "idle"
    /\ Return(s)
    /\ UNCHANGED dbvars

-----------------------------------------------------------------------------
(* Bootstrap. *)

(* users.count() on the pool: the first-owner gate. *)
BootstrapGate(s) ==
    /\ pc[s] = "idle"
    /\ \A u \in UserIds : ~Exists(u)
    /\ Goto(s, "bootstrap")
    /\ UNCHANGED <<dbvars, user, new, locks>>

EmailFree(e) == \A u \in UserIds : Exists(u) => users[u].email # e

(* The transaction: user, credentials, key bundle and session.  The client *)
(* wrapped the key under the password it sends.                            *)
Bootstrap(s, u, e, p, t) ==
    /\ pc[s] = "bootstrap"
    /\ u \notin spent
    /\ EmailFree(e)
    /\ sessions[t] = None
    /\ users' = [users EXCEPT ![u] =
          [email |-> e, name |-> "chosen", lifecycle |-> "active"]]
    /\ spent' = spent \cup {u}
    /\ cred' = [cred EXCEPT ![u] = p]
    /\ wrap' = [wrap EXCEPT ![u] = p]
    /\ sessions' = [sessions EXCEPT ![t] = [user |-> u, state |-> "live"]]
    /\ Return(s)

-----------------------------------------------------------------------------
(* Login. *)

(* verify_credentials: the row of an active user and a password it accepts. *)
VerifyCredentials(s, u) ==
    /\ pc[s] = "idle"
    /\ In(u, "active")
    /\ cred[u] # None
    /\ user' = [user EXCEPT ![s] = u]
    /\ Goto(s, "mfa")
    /\ UNCHANGED <<dbvars, new, locks>>

(* has_second_factor: mfa_required ends the call, no factor goes on. *)
HasSecondFactor(s) ==
    /\ pc[s] = "mfa"
    /\ \/ Return(s)
       \/ Goto(s, "mint") /\ UNCHANGED <<user, new, locks>>
    /\ UNCHANGED dbvars

(* new_session, in its own transaction: the foreign key wants the user. *)
NewSession_NoForeignKey(s, t) ==
    /\ pc[s] = "mint"
    /\ sessions[t] = None
    /\ sessions' = [sessions EXCEPT ![t] = [user |-> user[s], state |-> "live"]]
    /\ Return(s)
    /\ UNCHANGED <<users, spent, cred, wrap>>
NewSession(s, t) ==
    /\ pc[s] = "mint"
    /\ Exists(user[s])
    /\ sessions[t] = None
    /\ sessions' = [sessions EXCEPT ![t] = [user |-> user[s], state |-> "live"]]
    /\ Return(s)
    /\ UNCHANGED <<users, spent, cred, wrap>>

Expire(t) ==
    /\ sessions[t] # None
    /\ sessions[t].state = "live"
    /\ sessions' = [sessions EXCEPT ![t].state = "expired"]
    /\ UNCHANGED <<users, spent, cred, wrap, pc, user, new, locks>>

-----------------------------------------------------------------------------
(* Authenticated calls. *)

(* authenticate: find_active joins the session with its user ... *)
FindActive_AnyLifecycle(s, t) ==
    /\ pc[s] = "idle"
    /\ sessions[t] # None
    /\ sessions[t].state = "live"
    /\ user' = [user EXCEPT ![s] = sessions[t].user]
    /\ Goto(s, "session")
    /\ UNCHANGED <<dbvars, new, locks>>
FindActive(s, t) ==
    /\ pc[s] = "idle"
    /\ sessions[t] # None
    /\ sessions[t].state = "live"
    /\ In(sessions[t].user, "active")
    /\ user' = [user EXCEPT ![s] = sessions[t].user]
    /\ Goto(s, "session")
    /\ UNCHANGED <<dbvars, new, locks>>

(* ... and find_by_id reads the user again. *)
FindById(s) ==
    /\ pc[s] = "session"
    /\ In(user[s], "active") \/ In(user[s], "deactivated")
    /\ Goto(s, "authed")
    /\ UNCHANGED <<dbvars, user, new, locks>>

(* update_profile: WHERE id, whatever the lifecycle has become. *)
UpdateDisplayName(s) ==
    /\ pc[s] = "authed"
    /\ Exists(user[s])
    /\ users' = [users EXCEPT ![user[s]].name = "chosen"]
    /\ Return(s)
    /\ UNCHANGED <<spent, cred, wrap, sessions>>

(* verify_user_password, on the pool: the re-auth of the two below. *)
VerifyUserPassword(s) ==
    /\ pc[s] = "authed"
    /\ cred[user[s]] # None
    /\ Goto(s, "reauthed")
    /\ UNCHANGED <<dbvars, user, new, locks>>

UpdateEmail(s, e) ==
    /\ pc[s] = "reauthed"
    /\ Exists(user[s])
    /\ EmailFree(e) \/ users[user[s]].email = e
    /\ users' = [users EXCEPT ![user[s]].email = e]
    /\ Return(s)
    /\ UNCHANGED <<spent, cred, wrap, sessions>>

(* change_password, first statement: an UPDATE that locks the credentials  *)
(* row, or that finds none and goes on.                                    *)
UpdatePasswordHash_OnPool(s, p) ==
    LET u == user[s] IN
    /\ pc[s] = "reauthed"
    /\ ~Locked("credentials", u)
    /\ new' = [new EXCEPT ![s] = p]
    /\ cred' = [cred EXCEPT ![u] = IF @ # None THEN p ELSE None]
    /\ Goto(s, "rehashed")
    /\ UNCHANGED <<users, spent, wrap, sessions, user, locks>>
UpdatePasswordHash(s, p) ==
    LET u == user[s] IN
    /\ pc[s] = "reauthed"
    /\ ~Locked("credentials", u)
    /\ new' = [new EXCEPT ![s] = p]
    /\ locks' = [locks EXCEPT ![s] = IF cred[u] # None THEN {"credentials"} ELSE {}]
    /\ Goto(s, "rehashed")
    /\ UNCHANGED <<dbvars, user>>

(* Second statement: the re-wrapped master key. *)
UpdateUserKeys(s) ==
    LET u == user[s] IN
    /\ pc[s] = "rehashed"
    /\ ~Locked("user_keys", u)
    /\ locks' = [locks EXCEPT ![s] = @ \cup IF wrap[u] # None THEN {"user_keys"} ELSE {}]
    /\ Goto(s, "rewrapped")
    /\ UNCHANGED <<dbvars, user, new>>

CommitPassword_Upsert(s) ==
    LET u == user[s] IN
    /\ pc[s] = "rewrapped"
    /\ cred' = [cred EXCEPT ![u] = new[s]]
    /\ wrap' = [wrap EXCEPT ![u] = IF "user_keys" \in locks[s] THEN new[s] ELSE @]
    /\ Return(s)
    /\ UNCHANGED <<users, spent, sessions>>
CommitPassword(s) ==
    LET u == user[s] IN
    /\ pc[s] = "rewrapped"
    /\ cred' = [cred EXCEPT ![u] = IF "credentials" \in locks[s] THEN new[s] ELSE @]
    /\ wrap' = [wrap EXCEPT ![u] = IF "user_keys" \in locks[s] THEN new[s] ELSE @]
    /\ Return(s)
    /\ UNCHANGED <<users, spent, sessions>>

-----------------------------------------------------------------------------
(* Lifecycle transactions, with the session and credential work that their *)
(* doc comments oblige the caller to do in the same transaction.  Each is  *)
(* an UPDATE or DELETE WHERE id, whatever the lifecycle has become: one    *)
(* that was decided earlier also takes an anonymized row back.             *)

revoke_all_for_user(u) ==
    [t \in Tokens |->
       IF sessions[t] # None /\ sessions[t].user = u /\ sessions[t].state = "live"
         THEN [sessions[t] EXCEPT !.state = "revoked"] ELSE sessions[t]]

Deactivate(u) ==
    /\ Exists(u)
    /\ users' = [users EXCEPT ![u].lifecycle = "deactivated"]
    /\ sessions' = revoke_all_for_user(u)
    /\ UNCHANGED <<spent, cred, wrap, pc, user, new, locks>>

Reactivate(u) ==
    /\ Exists(u)
    /\ users' = [users EXCEPT ![u].lifecycle = "active"]
    /\ UNCHANGED <<spent, cred, wrap, sessions, pc, user, new, locks>>

Anonymize(u) ==
    /\ Exists(u)
    /\ ~Locked("credentials", u)
    /\ users' = [users EXCEPT ![u] =
          [email |-> RedactedEmail(u), name |-> "[deleted user]",
           lifecycle |-> "anonymized"]]
    /\ sessions' = revoke_all_for_user(u)
    /\ cred' = [cred EXCEPT ![u] = None]
    /\ UNCHANGED <<spent, wrap, pc, user, new, locks>>

(* DELETE FROM identity.users; the foreign keys cascade. *)
HardRemove(u) ==
    /\ Exists(u)
    /\ \A table \in {"credentials", "user_keys"} : ~Locked(table, u)
    /\ users' = [users EXCEPT ![u] = None]
    /\ cred' = [cred EXCEPT ![u] = None]
    /\ wrap' = [wrap EXCEPT ![u] = None]
    /\ sessions' = [t \in Tokens |->
          IF sessions[t] # None /\ sessions[t].user = u THEN None ELSE sessions[t]]
    /\ UNCHANGED <<spent, pc, user, new, locks>>

-----------------------------------------------------------------------------
(* Every id has been handed out and every account is gone. *)
Exhausted == /\ spent = UserIds
             /\ \A u \in UserIds : ~Exists(u)
             /\ UNCHANGED vars

Next ==
    \/ \E s \in Slots :
          \/ BootstrapGate(s)
          \/ \E u \in UserIds, e \in Emails, p \in Passwords, t \in Tokens :
                Bootstrap(s, u, e, p, t)
          \/ \E u \in UserIds : VerifyCredentials(s, u)
          \/ \E t \in Tokens : NewSession(s, t) \/ FindActive(s, t)
          \/ \E e \in Emails : UpdateEmail(s, e)
          \/ \E p \in Passwords : UpdatePasswordHash(s, p)
          \/ HasSecondFactor(s) \/ FindById(s) \/ UpdateDisplayName(s)
          \/ VerifyUserPassword(s) \/ UpdateUserKeys(s) \/ CommitPassword(s)
          \/ Fail(s)
    \/ \E t \in Tokens : Expire(t)
    \/ \E u \in UserIds :
          Deactivate(u) \/ Reactivate(u) \/ Anonymize(u) \/ HardRemove(u)
    \/ Exhausted

Spec == Init /\ [][Next]_vars

-----------------------------------------------------------------------------
(* Every variable has its type. *)
TypeOK ==
    /\ users \in [UserIds -> UserRow \cup {None}]
    /\ spent \in SUBSET UserIds
    /\ cred \in [UserIds -> Passwords \cup {None}]
    /\ wrap \in [UserIds -> Passwords \cup {None}]
    /\ sessions \in [Tokens -> Session \cup {None}]
    /\ pc \in [Slots -> PCs]
    /\ user \in [Slots -> UserIds \cup {None}]
    /\ new \in [Slots -> Passwords \cup {None}]
    /\ locks \in [Slots -> SUBSET {"credentials", "user_keys"}]

(* "Server-side verifier + the client's re-wrap of the master key go       *)
(* together": whoever can sign in can unwrap the key with the same         *)
(* password, also when several change_password calls, failures and         *)
(* lifecycle transactions on one account interleave.                       *)
VerifierMatchesWrap == \A u \in UserIds : cred[u] # None => wrap[u] = cred[u]

(* A session belongs to an account that exists: one minted by a login that *)
(* was verified before the account was removed is refused.                 *)
SessionHasUser ==
    \A t \in Tokens : sessions[t] # None => Exists(sessions[t].user)

(* Closing an account locks out.  Credentials that anonymize or a removal  *)
(* deleted never come back, also not from a change_password that had       *)
(* begun, and also not when a late reactivate takes the row out of its     *)
(* terminal state.  And no call starts to act for an account while it is   *)
(* not active, also not with a session that a login verified before the    *)
(* closing minted after the revocation.                                    *)
ClosingLocksOut ==
    [][\A u \in spent :
          /\ cred[u] = None => cred'[u] = None
          /\ ~In(u, "active") => \A s \in Slots : pc[s] = "idle" => user'[s] # u]_vars

(* The strengthening behind the three above. *)
OnlySpentIds ==
    \A u \in UserIds : /\ Exists(u) => u \in spent
                       /\ cred[u] # None => Exists(u)
                       /\ wrap[u] # None => Exists(u)
CallerKnown ==
    \A s \in Slots : /\ pc[s] \notin {"idle", "bootstrap"} => user[s] \in spent
                     /\ pc[s] \in Locking => new[s] \in Passwords
(* Who holds a row lock is past the statement that took it, and holds it   *)
(* exactly if the row is there: nobody can delete a locked row.            *)
LocksOfPhase ==
    \A s \in Slots :
       /\ pc[s] \notin Locking => locks[s] = {}
       /\ pc[s] = "rehashed" => "user_keys" \notin locks[s]
       /\ pc[s] \in Locking =>
            ("credentials" \in locks[s] <=> cred[user[s]] # None)
       /\ pc[s] = "rewrapped" =>
            ("user_keys" \in locks[s] <=> wrap[user[s]] # None)
IdleForNobody == \A s \in Slots : pc[s] = "idle" => user[s] = None
ClosedHasNoPassword == \A u \in UserIds : In(u, "anonymized") => cred[u] = None

(* The inductive invariant of accounts, credentials and sessions. *)
IInv == /\ TypeOK /\ OnlySpentIds /\ CallerKnown /\ LocksOfPhase
        /\ IdleForNobody /\ ClosedHasNoPassword /\ VerifierMatchesWrap /\ SessionHasUser

(* "First-owner gate: refuse once any user exists": Bootstrap, the only    *)
(* way to create an account, makes one owner.                              *)
OneOwner == Cardinality({u \in UserIds : Exists(u)}) <= 1
=============================================================================
