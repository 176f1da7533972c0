---------------------------- MODULE ResourceSync ----------------------------
(***************************************************************************)
(* App content: the registration of an app, the owner-scoped resources     *)
(* stored under it, and the incremental sync that clients run over the     *)
(* change clock (crates/platform: registry.rs, resources.rs and the        *)
(* handlers in lib.rs).  A write is one statement on the pool: it draws    *)
(* change_seq and locks its row when it executes, and becomes visible when *)
(* it commits.  What a version of a resource contains is identified with   *)
(* the change_seq that was stamped on it.                                  *)
(***************************************************************************)
EXTENDS Integers, FiniteSets

CONSTANTS Writers,       \* requests that create, update or delete resources
          Owners,        \* users that own resources
          Keys,          \* app_resource_ids
          Types,         \* resource types
          TypeOf,        \* TypeOf[k]: the type k is created with
          Clients,       \* syncing clients
          UserOf,        \* UserOf[c]: the user client c signs in as
          Limits,        \* limits a client may ask for; 0 is "unset"
          DefaultLimit,  \* DEFAULT_CHANGES_LIMIT, 500 in the code
          MaxLimit,      \* MAX_CHANGES_LIMIT, 2000 in the code
          Declarations,  \* sets of types a registration may declare
          MaxSeq,        \* bound: change_seq values drawn
          MaxAppId,      \* bound: registrations that create a row
          NoApp, NoRow

ASSUME SyncAssumption ==
    /\ TypeOf \in [Keys -> Types]
    /\ UserOf \in [Clients -> Owners]
    /\ Limits \subseteq Nat
    /\ DefaultLimit \in Nat \ {0} /\ MaxLimit \in Nat \ {0}
    /\ Declarations \subseteq SUBSET Types
    /\ MaxSeq \in Nat /\ MaxAppId \in Nat

VARIABLES trusted,      \* whether the app's publisher is in trusted_publishers
          registering,  \* declarations that passed the publisher check
          app,          \* the app's row in registered_apps
          appIds,       \* ids handed out to app rows
          rows,         \* rows[k]: the committed resource with that key
          creating,     \* creating[w]: a create that passed the app check
          pending,      \* pending[w]: row versions written, not yet committed
          nextSeq,      \* platform.resource_change_seq
          cursor,       \* cursor[c]: the change_seq client c persisted
          replica       \* replica[c][k]: the version of k that c holds; 0 none

regvars == <<trusted, registering, app, appIds>>
resvars == <<rows, creating, pending, nextSeq>>
clvars == <<cursor, replica>>
vars == <<regvars, resvars, clvars>>

App == [id : 1..MaxAppId, types : SUBSET Types, status : {"enabled", "disabled"}]
Row == [app : 1..MaxAppId, owner : Owners, seq : 1..MaxSeq, deleted : BOOLEAN]
Write == [key : Keys, row : Row]
Create == [app : 1..MaxAppId, key : Keys, owner : Owners]

ASSUME NoAppAssumption == NoApp \notin App

Init == /\ trusted = TRUE
        /\ registering = {}
        /\ app = NoApp
        /\ appIds = 0
        /\ rows = [k \in Keys |-> NoRow]
        /\ creating = [w \in Writers |-> {}]
        /\ pending = [w \in Writers |-> {}]
        /\ nextSeq = 1
        /\ cursor = [c \in Clients |-> 0]
        /\ replica = [c \in Clients |-> [k \in Keys |-> 0]]

-----------------------------------------------------------------------------
(* Registration of the app. *)

(* add_trusted_publisher, remove_trusted_publisher: registered apps stay. *)
SetTrust(t) ==
    /\ trusted # t
    /\ trusted' = t
    /\ UNCHANGED <<registering, app, appIds, resvars, clvars>>

(* register_app up to the verified signature, on the pool. *)
RegisterCheck(decl) ==
    /\ trusted
    /\ registering' = registering \cup {decl}
    /\ UNCHANGED <<trusted, app, appIds, resvars, clvars>>

(* upsert_app: a new row is enabled; a re-registration keeps id and status. *)
RegisterUpsert(decl) ==
    /\ decl \in registering
    /\ registering' = registering \ {decl}
    /\ \/ /\ app = NoApp
          /\ appIds < MaxAppId
          /\ appIds' = appIds + 1
          /\ app' = [id |-> appIds + 1, types |-> decl, status |-> "enabled"]
       \/ /\ app # NoApp
          /\ app' = [app EXCEPT !.types = decl]
          /\ UNCHANGED appIds
    /\ UNCHANGED <<trusted, resvars, clvars>>

set_app_status(s) ==
    /\ app # NoApp
    /\ app.status # s
    /\ app' = [app EXCEPT !.status = s]
    /\ UNCHANGED <<trusted, registering, appIds, resvars, clvars>>

(* ON DELETE CASCADE reaps the resources; the delete waits for writes that *)
(* hold a lock on one of them or a key-share lock on the app row.          *)
delete_app_SetNull ==
    /\ app # NoApp
    /\ \A w \in Writers : pending[w] = {}
    /\ app' = NoApp
    /\ rows' = [k \in Keys |-> IF rows[k] = NoRow THEN NoRow
                              ELSE [rows[k] EXCEPT !.app = NoApp]]
    /\ UNCHANGED <<trusted, registering, appIds, creating, pending, nextSeq, clvars>>
delete_app ==
    /\ app # NoApp
    /\ \A w \in Writers : pending[w] = {}
    /\ app' = NoApp
    /\ rows' = [k \in Keys |-> NoRow]
    /\ UNCHANGED <<trusted, registering, appIds, creating, pending, nextSeq, clvars>>

-----------------------------------------------------------------------------
(* Resources. *)

Idle(w) == creating[w] = {} /\ pending[w] = {}

(* The row lock, or the unique index entry, of k is free. *)
Free(k) == \A v \in Writers : \A x \in pending[v] : x.key # k

DrawSeq_Peeks == nextSeq <= MaxSeq /\ UNCHANGED nextSeq
DrawSeq == nextSeq <= MaxSeq /\ nextSeq' = nextSeq + 1

(* create_resource: the app is registered, enabled and declares the type. *)
CreateCheck(w, k, o) ==
    /\ Idle(w)
    /\ app # NoApp
    /\ app.status = "enabled"
    /\ TypeOf[k] \in app.types
    /\ creating' = [creating EXCEPT ![w] = {[app |-> app.id, key |-> k, owner |-> o]}]
    /\ UNCHANGED <<regvars, rows, pending, nextSeq, clvars>>

(* The INSERT of a create: the foreign key and the unique index decide. *)
Insertable_NoForeignKey(cr) == rows[cr.key] = NoRow
Insertable(cr) == /\ app # NoApp
                  /\ app.id = cr.app
                  /\ rows[cr.key] = NoRow

CreateInsert(w) ==
    \E cr \in creating[w] :
       /\ Free(cr.key)
       /\ Insertable(cr)
       /\ DrawSeq
       /\ pending' = [pending EXCEPT ![w] =
             {[key |-> cr.key, row |-> [app |-> cr.app, owner |-> cr.owner,
                                        seq |-> nextSeq, deleted |-> FALSE]]}]
       /\ creating' = [creating EXCEPT ![w] = {}]
       /\ UNCHANGED <<regvars, rows, clvars>>

(* AlreadyExists or FailedPrecondition; the default drew a value anyway. *)
CreateReject(w) ==
    \E cr \in creating[w] :
       /\ Free(cr.key)
       /\ ~Insertable(cr)
       /\ DrawSeq
       /\ creating' = [creating EXCEPT ![w] = {}]
       /\ UNCHANGED <<regvars, rows, pending, clvars>>

(* update_owned and soft_delete_owned: WHERE owner AND deleted_at IS NULL, *)
(* evaluated on the latest committed version once the row lock is held.    *)
(* They do not look at the app's status.                                   *)
Modify_Undeletes(w, k, o, del) ==
    /\ Idle(w)
    /\ Free(k)
    /\ rows[k] # NoRow /\ rows[k].owner = o
    /\ DrawSeq
    /\ pending' = [pending EXCEPT ![w] =
          {[key |-> k, row |-> [rows[k] EXCEPT !.seq = nextSeq, !.deleted = del]]}]
    /\ UNCHANGED <<regvars, rows, creating, clvars>>
Modify(w, k, o, del) ==
    /\ Idle(w)
    /\ Free(k)
    /\ rows[k] # NoRow /\ rows[k].owner = o /\ ~rows[k].deleted
    /\ DrawSeq
    /\ pending' = [pending EXCEPT ![w] =
          {[key |-> k, row |-> [rows[k] EXCEPT !.seq = nextSeq, !.deleted = del]]}]
    /\ UNCHANGED <<regvars, rows, creating, clvars>>

Commit(w) ==
    \E x \in pending[w] :
       /\ rows' = [rows EXCEPT ![x.key] = x.row]
       /\ pending' = [pending EXCEPT ![w] = {}]
       /\ UNCHANGED <<regvars, creating, nextSeq, clvars>>

(* The statement, its commit or the connection fails. *)
Abort(w) ==
    /\ ~Idle(w)
    /\ creating' = [creating EXCEPT ![w] = {}]
    /\ pending' = [pending EXCEPT ![w] = {}]
    /\ UNCHANGED <<regvars, rows, nextSeq, clvars>>

(* The operator purges a row: no tombstone is left. *)
admin_hard_delete(k) ==
    /\ rows[k] # NoRow
    /\ Free(k)
    /\ rows' = [rows EXCEPT ![k] = NoRow]
    /\ UNCHANGED <<regvars, creating, pending, nextSeq, clvars>>

-----------------------------------------------------------------------------
(* Sync. *)

clamp_changes_limit_NoDefault(n) == IF n <= MaxLimit THEN n ELSE MaxLimit
clamp_changes_limit(n) == IF n = 0 THEN DefaultLimit
                          ELSE IF n <= MaxLimit THEN n ELSE MaxLimit

(* The keys of the rows list_changes selects for client c. *)
list_changes(c) ==
    {k \in Keys : /\ rows[k] # NoRow
                  /\ rows[k].owner = UserOf[c]
                  /\ rows[k].seq > cursor[c]}

(* ORDER BY change_seq ASC: what has been received is below what has not. *)
IsPrefix_NewestFirst(B, S) == \A k \in B, l \in S \ B : rows[k].seq > rows[l].seq
IsPrefix(B, S) == \A k \in B, l \in S \ B : rows[k].seq < rows[l].seq

(* stream_changes and the client's side of it: it applies what it received *)
(* of the batch, which a broken stream may cut short, and persists the     *)
(* highest change_seq it saw.                                              *)
StreamChanges(c, n) ==
    \E B \in (SUBSET list_changes(c)) \ {{}} :
       /\ Cardinality(B) <= clamp_changes_limit(n)
       /\ IsPrefix(B, list_changes(c))
       /\ replica' = [replica EXCEPT ![c] =
             [k \in Keys |-> IF k \in B THEN rows[k].seq ELSE @[k]]]
       /\ cursor' = [cursor EXCEPT ![c] =
             CHOOSE s \in {rows[k].seq : k \in B} : \A k \in B : rows[k].seq <= s]
       /\ UNCHANGED <<regvars, resvars>>

Exhausted == nextSeq > MaxSeq /\ UNCHANGED vars

Next ==
    \/ \E t \in BOOLEAN : SetTrust(t)
    \/ \E d \in Declarations : RegisterCheck(d) \/ RegisterUpsert(d)
    \/ \E s \in {"enabled", "disabled"} : set_app_status(s)
    \/ delete_app
    \/ \E w \in Writers :
          \/ \E k \in Keys, o \in Owners :
                \/ CreateCheck(w, k, o)
                \/ \E del \in BOOLEAN : Modify(w, k, o, del)
          \/ CreateInsert(w) \/ CreateReject(w) \/ Commit(w) \/ Abort(w)
    \/ \E k \in Keys : admin_hard_delete(k)
    \/ \E c \in Clients, n \in Limits : StreamChanges(c, n)
    \/ Exhausted

Spec == Init /\ [][Next]_vars

(* A client re-calls StreamChanges until a call yields nothing, and a      *)
(* statement that was executed is committed or fails.                      *)
FairSpec ==
    /\ Spec
    /\ \A c \in Clients : WF_vars(\E n \in Limits : StreamChanges(c, n))
    /\ \A w \in Writers : WF_vars(Commit(w))

-----------------------------------------------------------------------------
(* Every variable has its type; a row names an app id that was handed out. *)
TypeOK ==
    /\ trusted \in BOOLEAN
    /\ registering \in SUBSET Declarations
    /\ app \in App \cup {NoApp}
    /\ appIds \in 0..MaxAppId
    /\ rows \in [Keys -> Row \cup {NoRow}]
    /\ creating \in [Writers -> SUBSET Create]
    /\ pending \in [Writers -> SUBSET Write]
    /\ nextSeq \in 1..(MaxSeq + 1)
    /\ cursor \in [Clients -> 0..MaxSeq]
    /\ replica \in [Clients -> [Keys -> 0..MaxSeq]]

(* A resource always belongs to the app row that exists now: neither a     *)
(* create that passed its check before the app was deleted, nor one that   *)
(* raced a delete and a new registration, leaves an orphan.                *)
ResourceHasApp ==
    \A k \in Keys : rows[k] # NoRow => app # NoApp /\ rows[k].app = app.id

(* Two committed rows never carry the same change_seq, and a client never  *)
(* holds a version newer than the row it was read from.                    *)
ClockOrdersVersions ==
    /\ \A k, l \in Keys :
          k # l /\ rows[k] # NoRow /\ rows[l] # NoRow => rows[k].seq # rows[l].seq
    /\ \A c \in Clients, k \in Keys :
          rows[k] # NoRow => replica[c][k] <= rows[k].seq

(* Every change to a stored row stamps a higher change_seq on it, its      *)
(* owner never changes, and a tombstone is final: of a concurrent update   *)
(* and delete the loser sees deleted_at and changes nothing.               *)
VersionsAdvance ==
    [][\A k \in Keys :
          LET old == rows[k] new == rows'[k] IN
          old # NoRow /\ new # NoRow /\ new # old =>
             /\ new.seq > old.seq
             /\ new.owner = old.owner
             /\ ~old.deleted]_rows

(* What a client that has caught up is missing: nothing.  Each row of its  *)
(* user is either still ahead of its cursor or in its replica.             *)
NothingSkipped ==
    \A c \in Clients, k \in Keys :
       rows[k] # NoRow /\ rows[k].owner = UserOf[c] =>
          rows[k].seq > cursor[c] \/ replica[c][k] = rows[k].seq

(* What a call moves the cursor past, it has delivered, wherever the batch *)
(* was cut: only a version that was still in flight can be skipped.        *)
SkipsOnlyInFlight ==
    [][\A c \in Clients, k \in Keys :
          rows[k] # NoRow /\ rows[k].owner = UserOf[c]
          /\ rows[k].seq > cursor[c] /\ rows[k].seq <= cursor'[c] =>
             replica'[c][k] = rows[k].seq]_clvars

(* A client that keeps calling with its cursor catches up, whatever the    *)
(* limit: the feed has always been drained at some later time.             *)
EventuallyDrained == \A c \in Clients : []<>(list_changes(c) = {})

(* create_resource: "a resource must belong to a registered, enabled app   *)
(* and carry one of that app's declared resource_types".                   *)
CreatedAsDeclared ==
    [][\A k \in Keys :
          rows[k] = NoRow /\ rows'[k] # NoRow =>
             app.status = "enabled" /\ TypeOf[k] \in app.types]_rows
=============================================================================
