----------------------------- MODULE Enrollment -----------------------------
(***************************************************************************)
(* How people and their devices come and go: invitations (crates/identity/ *)
(* src/lib.rs), devices (enrollment.rs, the Account service), and what     *)
(* hangs on an account, the second factors of Totp and the codes of        *)
(* Recovery, up to the removal of the user that takes all of it along.     *)
(***************************************************************************)
EXTENDS Totp, Recovery

CONSTANTS Invites,    \* identity.invitations ids the database may draw
          EmailOf,    \* the address each one is for
          Devices     \* identity.devices ids the database may draw

ASSUME EnrollmentAssumption ==
    /\ EmailOf \in [Invites -> Emails]
    /\ None \notin Invites \cup Devices /\ Deleted \notin Devices \cup Invites

VARIABLES invites,   \* identity.invitations
          devices,   \* identity.devices
          told       \* devices an owner was told are revoked or not found

enrollment == <<invites, devices, told>>
vars == <<handlers, users, totp, codes, enrollment>>

(* The token is a counter: a reissue makes the earlier ones worthless. *)
Invitation == [token : Nat, invited_by : Users, expired : BOOLEAN, revoked : BOOLEAN,
               accepted : BOOLEAN, accepted_user_id : Users \cup {None}]
Device == [user : Users, revoked : BOOLEAN]

ASSUME DeviceAssumption == None \notin Device /\ Deleted \notin Device

IsInvitation(i) == invites[i] \notin {None, Deleted}
IsActive(i) == IsInvitation(i) /\ ~ (invites[i].expired \/ invites[i].revoked \/ invites[i].accepted)

(* One account exists from the start, the owner. *)
Init ==
    /\ InitHandlers /\ InitTotp /\ InitRecovery
    /\ users \in {[u \in Users |-> IF u = owner THEN e ELSE None] : owner \in Users, e \in Emails}
    /\ \A c \in Rows : Exists(creds[c].user)
    /\ invites = [i \in Invites |-> None]
    /\ devices = [d \in Devices |-> None]
    /\ told = {}

(***************************************************************************)
(* Invitations.                                                            *)
(***************************************************************************)
AdminCall == calls < MaxCalls /\ calls' = calls + 1 /\ call' = call
KeepsInvites == UNCHANGED <<users, totp, codes, devices, told>>

create(i, inviter) ==
    /\ AdminCall /\ invites[i] = None /\ Exists(inviter)
    /\ invites' = [invites EXCEPT ![i] = [token |-> 0, invited_by |-> inviter, expired |-> FALSE, revoked |-> FALSE,
                                          accepted |-> FALSE, accepted_user_id |-> None]]
    /\ KeepsInvites
Expire(i) ==
    /\ IsInvitation(i) /\ ~ invites[i].expired
    /\ invites' = [invites EXCEPT ![i].expired = TRUE]
    /\ UNCHANGED handlers /\ KeepsInvites
revoke(i) ==
    /\ AdminCall /\ IsInvitation(i)
    /\ invites' = [invites EXCEPT ![i].revoked = TRUE]
    /\ KeepsInvites
reissue_AnyAge(i) ==
    /\ AdminCall /\ IsInvitation(i) /\ ~ invites[i].revoked /\ ~ invites[i].accepted
    /\ invites' = [invites EXCEPT ![i].token = @ + 1, ![i].expired = FALSE]
    /\ KeepsInvites
reissue(i) ==
    /\ AdminCall /\ IsActive(i)
    /\ invites' = [invites EXCEPT ![i].token = @ + 1]
    /\ KeepsInvites

(* Accepting: find_active on the pool, then one transaction that makes the *)
(* user, marks the invitation and stores the first recovery code.  The     *)
(* invitation may be gone by then, with the user who sent it.              *)
StartAccept(s, i, token) ==
    /\ Arrive(s, [op |-> "accept", pc |-> "find", invite |-> i, token |-> token, user |-> None])
    /\ UNCHANGED <<users, totp, codes, enrollment>>
find_active(s) ==
    /\ At(s, "find")
    /\ IF IsActive(call[s].invite) /\ invites[call[s].invite].token = call[s].token
       THEN Step(s, [call[s] EXCEPT !.pc = "create"]) ELSE Finish(s)
    /\ UNCHANGED <<users, totp, codes, enrollment>>

(* The unique address: an insert waits for one that is not committed.      *)
Accepting(s) == At(s, "accept")
CreateUser(s) ==
    /\ At(s, "create")
    /\ LET email == EmailOf[call[s].invite] IN
       /\ \A t \in Slots : Accepting(t) => EmailOf[call[t].invite] # email
       /\ IF \E u \in Users : users[u] = email THEN Finish(s)
          ELSE \E u \in Users : /\ users[u] = None /\ \A t \in Slots : Accepting(t) => call[t].user # u
                                /\ Step(s, [call[s] EXCEPT !.pc = "accept", !.user = u])
    /\ UNCHANGED <<users, totp, codes, enrollment>>
mark_accepted(s) ==
    /\ Accepting(s)
    /\ users' = [users EXCEPT ![call[s].user] = EmailOf[call[s].invite]]
    /\ invites' = IF IsInvitation(call[s].invite)
                  THEN [invites EXCEPT ![call[s].invite].accepted = TRUE,
                                       ![call[s].invite].accepted_user_id = call[s].user]
                  ELSE invites
    /\ \E code \in Codes : Mint(code)
                           /\ user_code' = [user_code EXCEPT ![call[s].user] = hash_code(code)]
    /\ Finish(s)
    /\ UNCHANGED <<totp, recovery, rotations, resets, devices, told>>
AcceptFail(s) == /\ s \in Busy /\ call[s].op = "accept" /\ Finish(s)
                 /\ UNCHANGED <<users, totp, codes, enrollment>>

(***************************************************************************)
(* Devices.                                                                *)
(***************************************************************************)

(* RegisterDevice's transaction; nothing in it names an earlier enrolment, *)
(* so a retry after a lost answer enrols once more.  The thin machine row  *)
(* it makes, which only this device refers to, and its audit event (see    *)
(* AuditChain) are left out.                                               *)
EnrollAs(u, d) ==
    /\ AdminCall /\ Exists(u)
    /\ devices' = [devices EXCEPT ![d] = [user |-> u, revoked |-> FALSE]]
    /\ UNCHANGED <<users, totp, codes, invites, told>>
enroll_device_Revives(u, d) ==
    /\ devices[d] \in {None} \cup [user : {u}, revoked : BOOLEAN]
    /\ EnrollAs(u, d)
enroll_device(u, d) ==
    /\ devices[d] = None
    /\ EnrollAs(u, d)

(* RevokeDevice: one owner-scoped UPDATE, whose zero rows are not_found;   *)
(* the owner is told, unless the answer is lost.                           *)
revoke_owned(u, d, answered) ==
    /\ AdminCall /\ Exists(u)
    /\ devices[d] \notin {None, Deleted}
    /\ devices' = IF devices[d].user = u THEN [devices EXCEPT ![d].revoked = TRUE] ELSE devices
    /\ told' = IF answered /\ devices[d].user = u THEN told \cup {d} ELSE told
    /\ UNCHANGED <<users, totp, codes, invites>>

(***************************************************************************)
(* hard_remove, and the cascades of the tables.  It waits for transactions *)
(* that have written a row of the user's, or one that refers to the user.  *)
(***************************************************************************)
hard_remove(u) ==
    /\ AdminCall /\ Exists(u)
    /\ \A s \in Slots : /\ \A c \in LockedBy(s) : creds[c].user # u
                        /\ DrawnBy(s) # {} => call[s].user # u
                        /\ ~ HoldsUserCode(s, u)
    /\ users' = [users EXCEPT ![u] = Deleted]
    /\ creds' = [c \in Creds |-> IF c \in Verified(u) \cup Pending(u) THEN Deleted ELSE creds[c]]
    /\ removed' = removed \cup Verified(u)
    /\ user_code' = [user_code EXCEPT ![u] = None]
    /\ devices' = [d \in Devices |-> IF devices[d] \in Device /\ devices[d].user = u THEN Deleted
                                     ELSE devices[d]]
    /\ invites' = [i \in Invites |->
                     CASE IsInvitation(i) /\ invites[i].invited_by = u -> Deleted
                       [] IsInvitation(i) /\ invites[i].invited_by # u /\ invites[i].accepted_user_id = u ->
                             [invites[i] EXCEPT !.accepted_user_id = None]
                       [] OTHER -> invites[i]]
    /\ UNCHANGED <<now, accepted, recovery, minted, rotations, resets, told>>

InvitationNext ==
    \/ \E i \in Invites :
          \/ Expire(i) \/ revoke(i) \/ reissue(i) \/ \E u \in Users : create(i, u)
          \/ IsInvitation(i) /\ \E s \in Slots, token \in 0..invites[i].token : StartAccept(s, i, token)
    \/ \E s \in Slots : find_active(s) \/ CreateUser(s) \/ mark_accepted(s) \/ AcceptFail(s)

DeviceNext ==
    \E u \in Users, d \in Devices :
       \/ enroll_device(u, d)
       \/ \E answered \in BOOLEAN : revoke_owned(u, d, answered)

Next ==
    \/ TotpNext /\ UNCHANGED <<users, codes, enrollment>>
    \/ RecoveryNext /\ UNCHANGED <<users, totp, enrollment>>
    \/ InvitationNext
    \/ DeviceNext
    \/ \E u \in Users : hard_remove(u)
    \/ Exhausted /\ UNCHANGED vars

Spec == Init /\ [][Next]_vars

-----------------------------------------------------------------------------
(* A link that no longer works never works again: an invitation that was   *)
(* accepted, revoked or has expired is not made active by a reissue, an    *)
(* accept or a revoke that was under way.                                  *)
InviteStaysClosed ==
    [][\A i \in Invites : IsInvitation(i) /\ ~ IsActive(i) => ~ IsActive(i)']_vars

(* A device its owner was told is revoked or not found is never an active  *)
(* device again, and none outlives its user (revoke_owned, the cascade of  *)
(* identity.devices).                                                      *)
RevokedForGood ==
    \A d \in Devices : devices[d] \in Device =>
        Exists(devices[d].user) /\ (d \in told => devices[d].revoked)
=============================================================================
