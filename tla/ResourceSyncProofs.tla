------------------------- MODULE ResourceSyncProofs -------------------------
(***************************************************************************)
(* Proofs about app content and its sync for any number of writers,        *)
(* owners, resources, types and clients, any limits and any bound on the   *)
(* change clock.  IInv is inductive; what it adds to the properties is     *)
(* what a version that is written but not yet committed may rely on.       *)
(***************************************************************************)
EXTENDS ResourceSync, WellFoundedInduction, TLAPS

(* A write in flight belongs to the app row that exists: delete_app waits. *)
WritesHaveApp ==
    \A w \in Writers : \A x \in pending[w] : app # NoApp /\ x.row.app = app.id

(* At most one write in flight holds the row lock of a key. *)
LocksExclude ==
    \A v, w \in Writers : \A x \in pending[v], y \in pending[w] :
       x.key = y.key => v = w /\ x = y

(* change_seq values are drawn before they are seen anywhere. *)
ClockAhead ==
    /\ \A k \in Keys : rows[k] # NoRow => rows[k].seq < nextSeq
    /\ \A w \in Writers : \A x \in pending[w] : x.row.seq < nextSeq
    /\ \A c \in Clients, k \in Keys : replica[c][k] < nextSeq

(* No write in flight carries the change_seq of a row or of another write. *)
WritesDistinct ==
    \A w \in Writers : \A x \in pending[w] :
       /\ \A k \in Keys : rows[k] # NoRow => rows[k].seq # x.row.seq
       /\ \A v \in Writers : \A y \in pending[v] : x.key # y.key => x.row.seq # y.row.seq

(* A write in flight still applies to the row it was computed from, and is *)
(* newer than anything a client holds of it.                               *)
WritesAdvance ==
    \A w \in Writers : \A x \in pending[w] :
       /\ rows[x.key] # NoRow => /\ rows[x.key].seq < x.row.seq
                                 /\ rows[x.key].owner = x.row.owner
                                 /\ ~ rows[x.key].deleted
       /\ \A c \in Clients : replica[c][x.key] < x.row.seq

Content == /\ ResourceHasApp /\ ClockOrdersVersions /\ WritesHaveApp /\ LocksExclude
           /\ ClockAhead /\ WritesDistinct /\ WritesAdvance
IInv == TypeOK /\ Content

-----------------------------------------------------------------------------
(* A set of change_seq values below a bound that is not empty has a largest *)
(* one: what ORDER BY change_seq returns last (stream_changes).            *)
LEMMA MaximumExists ==
    ASSUME NEW n \in Nat, NEW T \in SUBSET (0..n), T # {}
    PROVE  \E x \in T : \A y \in T : y <= x
<1> DEFINE R == OpToRel(<, Nat)
           U == {i \in Nat : \E y \in T : i = n - y}
<1>1. IsWellFoundedOn(R, Nat)
  BY NatLessThanWellFounded
<1>2. U \subseteq Nat /\ U # {}
  <2>1. PICK y \in T : TRUE
    OBVIOUS
  <2>2. n - y \in U
    BY <2>1
  <2> QED
    BY <2>2
<1>3. \A i, j \in Nat : i < j => <<i, j>> \in R
  BY DEF OpToRel
<1> HIDE DEF R
<1>4. PICK i \in U : \A j \in U : ~ (<<j, i>> \in R)
  <2> HIDE DEF U
  <2> QED
    BY <1>1, <1>2, WFMin
<1>5. PICK x \in T : i = n - x
  BY <1>4
<1>6. \A y \in T : y <= x
  <2> TAKE y \in T
  <2>1. n - y \in U
    OBVIOUS
  <2>2. ~ (n - y < i)
    BY <1>2, <1>3, <1>4, <2>1
  <2> QED
    BY <1>5, <2>2
<1> QED
  BY <1>5, <1>6

-----------------------------------------------------------------------------
(* The inductive step, one lemma per group of actions. *)

(* What a registration, an enabling or a change of trust does keeps the app *)
(* row of the resources and touches neither them nor a client.             *)
LEMMA RegistrationKeepsContent ==
    ASSUME IInv, UNCHANGED <<resvars, clvars>>,
           app # NoApp => app' # NoApp /\ app'.id = app.id
    PROVE  Content'
<1>1. ResourceHasApp' /\ WritesHaveApp'
  BY DEF IInv, Content, ResourceHasApp, WritesHaveApp, resvars
<1>2. (ClockOrdersVersions /\ LocksExclude /\ ClockAhead /\ WritesDistinct /\ WritesAdvance)'
  BY DEF IInv, Content, ClockOrdersVersions, LocksExclude, ClockAhead, WritesDistinct,
         WritesAdvance, resvars, clvars
<1> QED
  BY <1>1, <1>2 DEF Content

(* The actions of the registry keep the invariant. *)
LEMMA RegistryStep ==
    ASSUME IInv,
           \/ \E t \in BOOLEAN : SetTrust(t)
           \/ \E d \in Declarations : RegisterCheck(d) \/ RegisterUpsert(d)
           \/ \E s \in {"enabled", "disabled"} : set_app_status(s)
    PROVE  IInv'
<1> USE DEF resvars, clvars
<1>1. ASSUME NEW t \in BOOLEAN, SetTrust(t)
      PROVE  IInv'
  <2>1. TypeOK'
    BY <1>1 DEF SetTrust, IInv, TypeOK
  <2> QED
    BY <1>1, <2>1, RegistrationKeepsContent DEF SetTrust, IInv
<1>2. ASSUME NEW d \in Declarations, RegisterCheck(d)
      PROVE  IInv'
  <2>1. TypeOK'
    BY <1>2 DEF RegisterCheck, IInv, TypeOK
  <2> QED
    BY <1>2, <2>1, RegistrationKeepsContent DEF RegisterCheck, IInv
<1>3. ASSUME NEW d \in Declarations, RegisterUpsert(d)
      PROVE  IInv'
  <2>1. /\ app' \in App /\ appIds' \in 0..MaxAppId
        /\ app # NoApp => app'.id = app.id
    <3>1. d \in SUBSET Types
      BY SyncAssumption
    <3>2. CASE app = NoApp
      BY <1>3, <3>1, <3>2, SyncAssumption DEF RegisterUpsert, IInv, TypeOK, App
    <3>3. CASE app # NoApp
      BY <1>3, <3>1, <3>3 DEF RegisterUpsert, IInv, TypeOK, App
    <3> QED
      BY <3>2, <3>3
  <2>2. app' # NoApp
    BY <2>1, NoAppAssumption
  <2>3. TypeOK'
    BY <1>3, <2>1 DEF RegisterUpsert, IInv, TypeOK
  <2> QED
    BY <1>3, <2>1, <2>2, <2>3, RegistrationKeepsContent DEF RegisterUpsert, IInv
<1>4. ASSUME NEW s \in {"enabled", "disabled"}, set_app_status(s)
      PROVE  IInv'
  <2>1. app' \in App /\ app'.id = app.id
    BY <1>4 DEF set_app_status, IInv, TypeOK, App
  <2>2. app' # NoApp
    BY <2>1, NoAppAssumption
  <2>3. TypeOK'
    BY <1>4, <2>1 DEF set_app_status, IInv, TypeOK
  <2> QED
    BY <1>4, <2>1, <2>2, <2>3, RegistrationKeepsContent DEF set_app_status, IInv
<1> QED
  BY <1>1, <1>2, <1>3, <1>4

(* delete_app leaves no resource and no write in flight behind. *)
LEMMA DeleteStep ==
    ASSUME IInv, delete_app
    PROVE  IInv'
<1>1. TypeOK'
  BY DEF delete_app, IInv, TypeOK, clvars
<1>2. (ResourceHasApp /\ ClockOrdersVersions /\ ClockAhead)'
  BY DEF delete_app, IInv, Content, ResourceHasApp, ClockOrdersVersions, ClockAhead, clvars
<1>3. (WritesHaveApp /\ LocksExclude /\ WritesDistinct /\ WritesAdvance)'
  BY DEF delete_app, WritesHaveApp, LocksExclude, WritesDistinct, WritesAdvance
<1> QED
  BY <1>1, <1>2, <1>3 DEF IInv, Content

(* A step that draws no change_seq, or one that no row gets, and leaves    *)
(* rows, writes and clients alone.                                         *)
LEMMA CreatePhaseKeepsInvariant ==
    ASSUME IInv, UNCHANGED <<regvars, rows, pending, clvars>>,
           nextSeq' \in 1..(MaxSeq + 1), nextSeq <= nextSeq',
           creating' \in [Writers -> SUBSET Create]
    PROVE  IInv'
<1>1. UNCHANGED <<regvars, rows, pending, clvars>> /\ nextSeq <= nextSeq'
  OBVIOUS
<1>3. TypeOK'
  BY DEF IInv, TypeOK, regvars, clvars
<1>4. ClockAhead'
  <2>1. /\ \A l \in Keys : rows[l] # NoRow => rows[l].seq \in Nat
        /\ \A v \in Writers : \A x \in pending[v] : x.row.seq \in Nat
        /\ \A c \in Clients, l \in Keys : replica[c][l] \in Nat
        /\ nextSeq \in Nat /\ nextSeq' \in Nat
    BY <1>1, SyncAssumption DEF IInv, TypeOK, Row, Write
  <2> QED
    BY <1>1, <2>1 DEF IInv, Content, ClockAhead, clvars
<1>5. (ResourceHasApp /\ ClockOrdersVersions /\ WritesHaveApp)'
  BY <1>1 DEF IInv, Content, ResourceHasApp, ClockOrdersVersions, WritesHaveApp, regvars, clvars
<1>6. (LocksExclude /\ WritesDistinct /\ WritesAdvance)'
  BY <1>1 DEF IInv, Content, LocksExclude, WritesDistinct, WritesAdvance, clvars
<1> QED
  BY <1>3, <1>4, <1>5, <1>6 DEF IInv, Content

(* The check of a create only notes the app that it saw.                   *)
LEMMA CheckStep ==
    ASSUME IInv, NEW w \in Writers, NEW k \in Keys, NEW o \in Owners,
           CreateCheck(w, k, o)
    PROVE  IInv'
<1>1. app.id \in 1..MaxAppId
  BY DEF CreateCheck, IInv, TypeOK, App
<1>2. creating' \in [Writers -> SUBSET Create]
  BY <1>1 DEF CreateCheck, IInv, TypeOK, Create
<1>3. nextSeq' = nextSeq /\ nextSeq \in 1..(MaxSeq + 1) /\ nextSeq <= nextSeq'
  BY SyncAssumption DEF CreateCheck, IInv, TypeOK
<1> QED
  BY <1>2, <1>3, CreatePhaseKeepsInvariant DEF CreateCheck

(* A refused create wastes the change_seq it drew.                         *)
LEMMA RejectStep ==
    ASSUME IInv, NEW w \in Writers, CreateReject(w)
    PROVE  IInv'
<1>1. creating' \in [Writers -> SUBSET Create]
  BY DEF CreateReject, IInv, TypeOK
<1>2. nextSeq' \in 1..(MaxSeq + 1) /\ nextSeq <= nextSeq'
  BY SyncAssumption DEF CreateReject, DrawSeq, IInv, TypeOK
<1> QED
  BY <1>1, <1>2, CreatePhaseKeepsInvariant DEF CreateReject

(* The statement of a create, an update or a delete: it draws a change_seq *)
(* above every other and takes the lock of a row nobody else writes.       *)
LEMMA WriteKeepsInvariant ==
    ASSUME IInv, NEW w \in Writers, NEW x \in Write,
           Free(x.key), DrawSeq,
           x.row.seq = nextSeq, app # NoApp, x.row.app = app.id,
           rows[x.key] # NoRow => rows[x.key].owner = x.row.owner /\ ~ rows[x.key].deleted,
           pending' = [pending EXCEPT ![w] = {x}],
           creating' \in [Writers -> SUBSET Create],
           UNCHANGED <<regvars, rows, clvars>>
    PROVE  IInv'
<1>1. TypeOK'
  <2>1. pending' \in [Writers -> SUBSET Write]
    BY DEF IInv, TypeOK
  <2>2. nextSeq' \in 1..(MaxSeq + 1)
    BY SyncAssumption DEF IInv, TypeOK, DrawSeq
  <2> QED
    BY <2>1, <2>2 DEF IInv, TypeOK, regvars, clvars
<1>2. /\ nextSeq \in Nat /\ nextSeq' = nextSeq + 1
      /\ \A k \in Keys : rows[k] # NoRow => rows[k].seq \in Nat
      /\ \A v \in Writers : \A y \in pending[v] : y.row.seq \in Nat /\ y \in Write
      /\ \A c \in Clients, k \in Keys : replica[c][k] \in Nat
  BY SyncAssumption DEF IInv, TypeOK, Row, Write, DrawSeq
<1>3. \A v \in Writers : pending'[v] = IF v = w THEN {x} ELSE pending[v]
  BY DEF IInv, TypeOK
<1>4. /\ \A k \in Keys : rows[k] # NoRow => rows[k].seq < nextSeq
      /\ \A v \in Writers : \A y \in pending[v] : y.row.seq < nextSeq
      /\ \A c \in Clients, k \in Keys : replica[c][k] < nextSeq
  BY DEF IInv, Content, ClockAhead
<1>5. x.key \in Keys
  BY DEF Write
<1>6. (ResourceHasApp /\ ClockOrdersVersions)'
  BY DEF IInv, Content, ResourceHasApp, ClockOrdersVersions, regvars, clvars
<1>7. WritesHaveApp'
  BY <1>3 DEF IInv, Content, WritesHaveApp, regvars
<1>8. LocksExclude'
  BY <1>3 DEF IInv, Content, LocksExclude, Free
<1>9. ClockAhead'
  BY <1>2, <1>3, <1>4 DEF ClockAhead, clvars
<1>10. WritesDistinct'
  <2> SUFFICES ASSUME NEW v \in Writers, NEW y \in pending'[v]
               PROVE  /\ \A k \in Keys : rows[k] # NoRow => rows[k].seq # y.row.seq
                      /\ \A u \in Writers : \A z \in pending'[u] :
                            y.key # z.key => y.row.seq # z.row.seq
    BY DEF WritesDistinct
  <2>1. \A k \in Keys : rows[k] # NoRow => rows[k].seq # y.row.seq
    BY <1>2, <1>3, <1>4 DEF IInv, Content, WritesDistinct
  <2>2. ASSUME NEW u \in Writers, NEW z \in pending'[u], y.key # z.key
        PROVE  y.row.seq # z.row.seq
    BY <1>2, <1>3, <1>4, <2>2 DEF IInv, Content, WritesDistinct
  <2> QED
    BY <2>1, <2>2
<1>11. WritesAdvance'
  <2> SUFFICES ASSUME NEW v \in Writers, NEW y \in pending'[v]
               PROVE  /\ rows[y.key] # NoRow => /\ rows[y.key].seq < y.row.seq
                                                /\ rows[y.key].owner = y.row.owner
                                                /\ ~ rows[y.key].deleted
                      /\ \A c \in Clients : replica[c][y.key] < y.row.seq
    BY DEF WritesAdvance, clvars
  <2>1. CASE y = x
    BY <1>4, <1>5, <2>1
  <2>2. CASE y # x
    BY <1>3, <2>2 DEF IInv, Content, WritesAdvance
  <2> QED
    BY <2>1, <2>2
<1> QED
  BY <1>1, <1>6, <1>7, <1>8, <1>9, <1>10, <1>11 DEF IInv, Content

(* The INSERT of a create keeps the invariant: the foreign key makes the   *)
(* app the one that exists.                                                *)
LEMMA InsertStep ==
    ASSUME IInv, NEW w \in Writers, CreateInsert(w)
    PROVE  IInv'
<1>1. PICK cr \in creating[w] :
         /\ Free(cr.key) /\ Insertable(cr) /\ DrawSeq
         /\ pending' = [pending EXCEPT ![w] =
               {[key |-> cr.key, row |-> [app |-> cr.app, owner |-> cr.owner,
                                          seq |-> nextSeq, deleted |-> FALSE]]}]
         /\ creating' = [creating EXCEPT ![w] = {}]
         /\ UNCHANGED <<regvars, rows, clvars>>
  BY DEF CreateInsert
<1> DEFINE x == [key |-> cr.key, row |-> [app |-> cr.app, owner |-> cr.owner,
                                         seq |-> nextSeq, deleted |-> FALSE]]
<1>2. cr \in Create
  BY DEF IInv, TypeOK
<1>3. nextSeq \in 1..MaxSeq
  BY <1>1, SyncAssumption DEF DrawSeq, IInv, TypeOK
<1>4. /\ x \in Write /\ x.row.seq = nextSeq /\ x.key = cr.key
      /\ x.row.app = app.id /\ app # NoApp /\ rows[x.key] = NoRow
  BY <1>1, <1>2, <1>3 DEF Write, Row, Create, Insertable
<1>5. creating' \in [Writers -> SUBSET Create]
  BY <1>1 DEF IInv, TypeOK
<1>6. /\ Free(x.key) /\ DrawSeq
      /\ pending' = [pending EXCEPT ![w] = {x}]
      /\ UNCHANGED <<regvars, rows, clvars>>
  BY <1>1
<1> HIDE DEF x
<1> QED
  BY <1>4, <1>5, <1>6, WriteKeepsInvariant

(* The UPDATE of update_owned and soft_delete_owned keeps the invariant.   *)
LEMMA ModifyStep ==
    ASSUME IInv, NEW w \in Writers, NEW k \in Keys, NEW o \in Owners,
           NEW del \in BOOLEAN, Modify(w, k, o, del)
    PROVE  IInv'
<1> DEFINE x == [key |-> k, row |-> [rows[k] EXCEPT !.seq = nextSeq, !.deleted = del]]
<1>1. rows[k] # NoRow /\ rows[k] \in Row /\ ~ rows[k].deleted
  BY DEF Modify, IInv, TypeOK
<1>2. nextSeq \in 1..MaxSeq
  BY SyncAssumption DEF Modify, DrawSeq, IInv, TypeOK
<1>3. /\ x \in Write /\ x.key = k /\ x.row.seq = nextSeq
      /\ x.row.owner = rows[k].owner /\ x.row.app = rows[k].app
  BY <1>1, <1>2 DEF Write, Row
<1>4. app # NoApp /\ x.row.app = app.id
  BY <1>1, <1>3 DEF IInv, Content, ResourceHasApp
<1>5. /\ Free(x.key) /\ DrawSeq
      /\ pending' = [pending EXCEPT ![w] = {x}]
      /\ creating' \in [Writers -> SUBSET Create]
      /\ UNCHANGED <<regvars, rows, clvars>>
  BY DEF Modify, IInv, TypeOK
<1>6. rows[x.key] # NoRow => rows[x.key].owner = x.row.owner /\ ~ rows[x.key].deleted
  BY <1>1, <1>3
<1> HIDE DEF x
<1> QED
  BY <1>3, <1>4, <1>5, <1>6, WriteKeepsInvariant

(* A commit publishes the version in flight, which is newer than the one   *)
(* it replaces; nothing else was written to that row meanwhile.            *)
LEMMA CommitStep ==
    ASSUME IInv, NEW w \in Writers, Commit(w)
    PROVE  IInv'
<1>1. PICK x \in pending[w] : /\ rows' = [rows EXCEPT ![x.key] = x.row]
                              /\ pending' = [pending EXCEPT ![w] = {}]
                              /\ UNCHANGED <<regvars, creating, nextSeq, clvars>>
  BY DEF Commit
<1>2. x \in Write /\ x.key \in Keys /\ x.row \in Row
  BY DEF IInv, TypeOK, Write
<1>3. \A k \in Keys : rows'[k] = IF k = x.key THEN x.row ELSE rows[k]
  BY <1>1, <1>2 DEF IInv, TypeOK
<1>4. \A v \in Writers : \A y \in pending'[v] : v # w /\ y \in pending[v] /\ y.key # x.key
  BY <1>1 DEF IInv, TypeOK, Content, LocksExclude
<1>5. TypeOK'
  <2>1. rows' \in [Keys -> Row \cup {NoRow}]
    BY <1>1, <1>2 DEF IInv, TypeOK
  <2>2. pending' \in [Writers -> SUBSET Write]
    BY <1>1 DEF IInv, TypeOK
  <2> QED
    BY <1>1, <2>1, <2>2 DEF IInv, TypeOK, regvars, clvars
<1>6. ResourceHasApp'
  BY <1>1, <1>3 DEF IInv, Content, ResourceHasApp, WritesHaveApp, regvars
<1>7. ClockOrdersVersions'
  <2>1. ASSUME NEW k \in Keys, NEW l \in Keys, k # l, rows'[k] # NoRow, rows'[l] # NoRow
        PROVE  rows'[k].seq # rows'[l].seq
    BY <1>3, <2>1 DEF IInv, Content, ClockOrdersVersions, WritesDistinct
  <2>2. ASSUME NEW c \in Clients, NEW k \in Keys, rows'[k] # NoRow
        PROVE  replica[c][k] <= rows'[k].seq
    <3>1. CASE k = x.key
      <4>1. replica[c][k] < x.row.seq
        BY <3>1 DEF IInv, Content, WritesAdvance
      <4>2. replica[c][k] \in 0..MaxSeq /\ x.row.seq \in 1..MaxSeq
        BY <1>2 DEF IInv, TypeOK, Row
      <4> QED
        BY <1>3, <3>1, <4>1, <4>2, SyncAssumption
    <3>2. CASE k # x.key
      BY <1>3, <2>2, <3>2 DEF IInv, Content, ClockOrdersVersions
    <3> QED
      BY <3>1, <3>2
  <2> QED
    BY <1>1, <2>1, <2>2 DEF ClockOrdersVersions, clvars
<1>8. (WritesHaveApp /\ LocksExclude)'
  BY <1>1, <1>4 DEF IInv, Content, WritesHaveApp, LocksExclude, regvars
<1>9. ClockAhead'
  BY <1>1, <1>3, <1>4 DEF IInv, Content, ClockAhead, clvars
<1>10. WritesDistinct'
  BY <1>3, <1>4 DEF IInv, Content, WritesDistinct
<1>11. WritesAdvance'
  <2> SUFFICES ASSUME NEW v \in Writers, NEW y \in pending'[v]
               PROVE  /\ rows'[y.key] # NoRow => /\ rows'[y.key].seq < y.row.seq
                                                 /\ rows'[y.key].owner = y.row.owner
                                                 /\ ~ rows'[y.key].deleted
                      /\ \A c \in Clients : replica[c][y.key] < y.row.seq
    BY <1>1 DEF WritesAdvance, clvars
  <2>1. y \in pending[v] /\ y.key \in Keys /\ rows'[y.key] = rows[y.key]
    BY <1>3, <1>4 DEF IInv, TypeOK, Write
  <2> QED
    BY <2>1 DEF IInv, Content, WritesAdvance
<1> QED
  BY <1>5, <1>6, <1>7, <1>8, <1>9, <1>10, <1>11 DEF IInv, Content

(* A rollback, and the operator's purge, only take away.                   *)
LEMMA AbortStep ==
    ASSUME IInv, NEW w \in Writers, Abort(w)
    PROVE  IInv'
<1>1. \A v \in Writers : pending'[v] \subseteq pending[v]
  BY DEF Abort, IInv, TypeOK
<1>2. TypeOK'
  <2>1. /\ pending' \in [Writers -> SUBSET Write]
        /\ creating' \in [Writers -> SUBSET Create]
    BY DEF Abort, IInv, TypeOK
  <2> QED
    BY <2>1 DEF Abort, IInv, TypeOK, regvars, clvars
<1>3. (ResourceHasApp /\ ClockOrdersVersions /\ WritesHaveApp /\ ClockAhead)'
  BY <1>1 DEF Abort, IInv, Content, ResourceHasApp, ClockOrdersVersions, WritesHaveApp,
              ClockAhead, regvars, clvars
<1>4. (LocksExclude /\ WritesDistinct)'
  BY <1>1 DEF Abort, IInv, Content, LocksExclude, WritesDistinct
<1>5. WritesAdvance'
  BY <1>1 DEF Abort, IInv, Content, WritesAdvance, clvars
<1> QED
  BY <1>2, <1>3, <1>4, <1>5 DEF IInv, Content

(* A purge waits for the write that holds the row's lock.                  *)
LEMMA PurgeStep ==
    ASSUME IInv, NEW k \in Keys, admin_hard_delete(k)
    PROVE  IInv'
<1>1. \A l \in Keys : rows'[l] = IF l = k THEN NoRow ELSE rows[l]
  BY DEF admin_hard_delete, IInv, TypeOK
<1>2. TypeOK'
  <2>1. rows' \in [Keys -> Row \cup {NoRow}]
    BY DEF admin_hard_delete, IInv, TypeOK
  <2> QED
    BY <2>1 DEF admin_hard_delete, IInv, TypeOK, regvars, clvars
<1>3. (ResourceHasApp /\ WritesHaveApp /\ LocksExclude)'
  BY <1>1 DEF admin_hard_delete, IInv, Content, ResourceHasApp, WritesHaveApp, LocksExclude, regvars
<1>4. (ClockOrdersVersions /\ ClockAhead)'
  BY <1>1 DEF admin_hard_delete, IInv, Content, ClockOrdersVersions, ClockAhead, clvars
<1>5. WritesDistinct'
  BY <1>1 DEF admin_hard_delete, IInv, Content, WritesDistinct
<1>6. WritesAdvance'
  <2>1. \A w \in Writers : \A x \in pending[w] : x.key \in Keys
    BY DEF IInv, TypeOK, Write
  <2> QED
    BY <1>1, <2>1 DEF admin_hard_delete, IInv, Content, WritesAdvance, clvars
<1> QED
  BY <1>2, <1>3, <1>4, <1>5, <1>6 DEF IInv, Content

(* What a call of StreamChanges does: the batch goes into the replica, the *)
(* cursor to the newest of it, and whatever the call passed it delivered.  *)
LEMMA StreamDelivers ==
    ASSUME TypeOK, NEW c \in Clients, NEW n \in Limits, StreamChanges(c, n)
    PROVE  /\ cursor' \in [Clients -> 0..MaxSeq]
           /\ \A d \in Clients : d # c => cursor'[d] = cursor[d] /\ replica'[d] = replica[d]
           /\ \A k \in Keys : \/ replica'[c][k] = replica[c][k]
                              \/ rows[k] # NoRow /\ replica'[c][k] = rows[k].seq
           /\ \A k \in list_changes(c) :
                 rows[k].seq <= cursor'[c] => replica'[c][k] = rows[k].seq
           /\ replica' \in [Clients -> [Keys -> 0..MaxSeq]]
<1>1. PICK B \in (SUBSET list_changes(c)) \ {{}} :
         /\ IsPrefix(B, list_changes(c))
         /\ replica' = [replica EXCEPT ![c] =
               [k \in Keys |-> IF k \in B THEN rows[k].seq ELSE @[k]]]
         /\ cursor' = [cursor EXCEPT ![c] =
               CHOOSE s \in {rows[k].seq : k \in B} : \A k \in B : rows[k].seq <= s]
  BY DEF StreamChanges
<1>2. \A k \in list_changes(c) : k \in Keys /\ rows[k] # NoRow /\ rows[k].seq \in 1..MaxSeq
  BY DEF list_changes, TypeOK, Row
<1>3. /\ cursor'[c] \in 0..MaxSeq
      /\ \E k \in B : cursor'[c] = rows[k].seq
  <2> DEFINE T == {rows[k].seq : k \in B}
  <2>1. T \in SUBSET (0..MaxSeq) /\ T # {} /\ MaxSeq \in Nat
    BY <1>2, SyncAssumption
  <2>2. \E x \in T : \A y \in T : y <= x
    <3> HIDE DEF T
    <3> QED
      BY <2>1, MaximumExists
  <2>3. \E s \in T : \A k \in B : rows[k].seq <= s
    BY <2>2
  <2>4. cursor'[c] = CHOOSE s \in T : \A k \in B : rows[k].seq <= s
    BY <1>1 DEF TypeOK
  <2>5. cursor'[c] \in T
    BY <2>3, <2>4
  <2> QED
    BY <2>1, <2>5
<1>4. cursor' \in [Clients -> 0..MaxSeq]
  <2>1. \E v : cursor' = [cursor EXCEPT ![c] = v]
    BY <1>1
  <2> QED
    BY <1>3, <2>1 DEF TypeOK
<1>5. \A k \in Keys : replica'[c][k] = IF k \in B THEN rows[k].seq ELSE replica[c][k]
  BY <1>1 DEF TypeOK
<1>6. \A d \in Clients : d # c => cursor'[d] = cursor[d] /\ replica'[d] = replica[d]
  <2>1. \E v : cursor' = [cursor EXCEPT ![c] = v]
    BY <1>1
  <2> QED
    BY <1>1, <2>1 DEF TypeOK
<1>7. ASSUME NEW k \in list_changes(c), rows[k].seq <= cursor'[c]
      PROVE  replica'[c][k] = rows[k].seq
  <2>1. CASE k \in B
    BY <1>2, <1>5, <2>1
  <2>2. CASE k \notin B
    <3>1. PICK b \in B : cursor'[c] = rows[b].seq
      BY <1>3
    <3>2. rows[b].seq < rows[k].seq
      BY <1>1, <2>2 DEF IsPrefix
    <3>3. rows[b].seq \in Int /\ rows[k].seq \in Int
      BY <1>2, SyncAssumption
    <3> QED
      BY <1>7, <3>1, <3>2, <3>3
  <2> QED
    BY <2>1, <2>2
<1>8. replica' \in [Clients -> [Keys -> 0..MaxSeq]]
  <2>1. [k \in Keys |-> IF k \in B THEN rows[k].seq ELSE replica[c][k]] \in [Keys -> 0..MaxSeq]
    BY <1>2, SyncAssumption DEF TypeOK
  <2> QED
    BY <1>1, <2>1 DEF TypeOK
<1> QED
  BY <1>2, <1>4, <1>5, <1>6, <1>7, <1>8

(* A client only ever copies committed rows.                               *)
LEMMA StreamStep ==
    ASSUME IInv, NEW c \in Clients, NEW n \in Limits, StreamChanges(c, n)
    PROVE  IInv'
<1>1. /\ cursor' \in [Clients -> 0..MaxSeq] /\ replica' \in [Clients -> [Keys -> 0..MaxSeq]]
      /\ \A d \in Clients, k \in Keys :
            \/ replica'[d][k] = replica[d][k]
            \/ rows[k] # NoRow /\ replica'[d][k] = rows[k].seq
  BY StreamDelivers DEF IInv
<1>2. UNCHANGED <<regvars, resvars>>
  BY DEF StreamChanges
<1>3. TypeOK'
  BY <1>1, <1>2 DEF IInv, TypeOK, regvars, resvars
<1>4. ClockOrdersVersions'
  <2>1. \A k \in Keys : rows[k] # NoRow => rows[k].seq <= rows[k].seq
    BY SyncAssumption DEF IInv, TypeOK, Row
  <2> QED
    BY <1>1, <1>2, <2>1 DEF IInv, Content, ClockOrdersVersions, resvars
<1>5. ClockAhead'
  BY <1>1, <1>2 DEF IInv, Content, ClockAhead, resvars
<1>6. WritesAdvance'
  <2>1. \A w \in Writers : \A x \in pending[w] : x.key \in Keys
    BY DEF IInv, TypeOK, Write
  <2> QED
    BY <1>1, <1>2, <2>1 DEF IInv, Content, WritesAdvance, resvars
<1>7. (ResourceHasApp /\ WritesHaveApp /\ LocksExclude /\ WritesDistinct)'
  BY <1>2 DEF IInv, Content, ResourceHasApp, WritesHaveApp, LocksExclude, WritesDistinct,
              regvars, resvars
<1> QED
  BY <1>3, <1>4, <1>5, <1>6, <1>7 DEF IInv, Content

-----------------------------------------------------------------------------
(* The invariant is inductive, and the properties follow. *)

(* A fresh database: nothing is registered, stored or replicated.          *)
LEMMA InitInv == Init => IInv
<1> SUFFICES ASSUME Init PROVE IInv
  OBVIOUS
<1>1. TypeOK
  BY SyncAssumption DEF Init, TypeOK
<1>2. Content
  BY DEF Init, Content, ResourceHasApp, ClockOrdersVersions, WritesHaveApp, LocksExclude,
         ClockAhead, WritesDistinct, WritesAdvance
<1> QED
  BY <1>1, <1>2 DEF IInv

(* Every step of the registry, a writer, the operator or a client keeps it. *)
LEMMA NextInv == IInv /\ [Next]_vars => IInv'
<1> SUFFICES ASSUME IInv, [Next]_vars PROVE IInv'
  OBVIOUS
<1>1. CASE \/ \E t \in BOOLEAN : SetTrust(t)
           \/ \E d \in Declarations : RegisterCheck(d) \/ RegisterUpsert(d)
           \/ \E s \in {"enabled", "disabled"} : set_app_status(s)
  BY <1>1, RegistryStep
<1>2. CASE delete_app
  BY <1>2, DeleteStep
<1>3. ASSUME NEW w \in Writers, NEW k \in Keys, NEW o \in Owners, CreateCheck(w, k, o)
      PROVE  IInv'
  BY <1>3, CheckStep
<1>4. ASSUME NEW w \in Writers, NEW k \in Keys, NEW o \in Owners, NEW del \in BOOLEAN,
             Modify(w, k, o, del)
      PROVE  IInv'
  BY <1>4, ModifyStep
<1>5. ASSUME NEW w \in Writers, CreateReject(w)
      PROVE  IInv'
  BY <1>5, RejectStep
<1>6. ASSUME NEW w \in Writers, CreateInsert(w) \/ Commit(w) \/ Abort(w)
      PROVE  IInv'
  BY <1>6, InsertStep, CommitStep, AbortStep
<1>7. ASSUME NEW k \in Keys, admin_hard_delete(k)
      PROVE  IInv'
  BY <1>7, PurgeStep
<1>8. ASSUME NEW c \in Clients, NEW n \in Limits, StreamChanges(c, n)
      PROVE  IInv'
  BY <1>8, StreamStep
<1>9. CASE UNCHANGED vars
  BY <1>9 DEF IInv, TypeOK, Content, ResourceHasApp, ClockOrdersVersions, WritesHaveApp,
              LocksExclude, ClockAhead, WritesDistinct, WritesAdvance, vars, regvars,
              resvars, clvars
<1> QED
  BY <1>1, <1>2, <1>3, <1>4, <1>5, <1>6, <1>7, <1>8, <1>9 DEF Next, Exhausted

(* IInv holds in every state a server can reach.                           *)
THEOREM SpecIInv == Spec => []IInv
<1>1. Init => IInv
  BY InitInv
<1>2. IInv /\ [Next]_vars => IInv'
  BY NextInv
<1> QED
  BY <1>1, <1>2, PTL DEF Spec

(* Every variable keeps its type: no app id, change_seq, cursor or replica *)
(* leaves its range, and a row is a row or absent.                         *)
THEOREM TypeCorrect == Spec => []TypeOK
<1>1. IInv => TypeOK
  BY DEF IInv
<1> QED
  BY <1>1, SpecIInv, PTL

(* No create leaves a resource without the app row that exists, however    *)
(* checks, inserts, deletes and new registrations of the app interleave.   *)
THEOREM NoOrphans == Spec => []ResourceHasApp
<1>1. IInv => ResourceHasApp
  BY DEF IInv, Content
<1> QED
  BY <1>1, SpecIInv, PTL

(* The change clock orders the committed versions of all keys, and no      *)
(* client is ahead of the row it copied.                                   *)
THEOREM ClockOrders == Spec => []ClockOrdersVersions
<1>1. IInv => ClockOrdersVersions
  BY DEF IInv, Content
<1> QED
  BY <1>1, SpecIInv, PTL

(* A row only moves forward: update_owned and soft_delete_owned of any     *)
(* number of writers never lower change_seq, move a resource to another    *)
(* owner or bring back a tombstone.                                        *)
THEOREM RowsAdvance == Spec => VersionsAdvance
<1> DEFINE A == \A k \in Keys :
                   LET old == rows[k] new == rows'[k] IN
                   old # NoRow /\ new # NoRow /\ new # old =>
                      /\ new.seq > old.seq
                      /\ new.owner = old.owner
                      /\ ~old.deleted
<1>1. IInv /\ [Next]_vars => [A]_rows
  <2> SUFFICES ASSUME IInv, [Next]_vars, rows' # rows, NEW k \in Keys,
                      rows[k] # NoRow, rows'[k] # NoRow, rows'[k] # rows[k]
               PROVE  /\ rows'[k].seq > rows[k].seq
                      /\ rows'[k].owner = rows[k].owner
                      /\ ~ rows[k].deleted
    OBVIOUS
  <2>1. CASE delete_app
    BY <2>1 DEF delete_app
  <2>2. ASSUME NEW l \in Keys, admin_hard_delete(l)
        PROVE  FALSE
    BY <2>2 DEF admin_hard_delete, IInv, TypeOK
  <2>3. ASSUME NEW w \in Writers, Commit(w)
        PROVE  /\ rows'[k].seq > rows[k].seq
               /\ rows'[k].owner = rows[k].owner
               /\ ~ rows[k].deleted
    <3>1. PICK x \in pending[w] : rows' = [rows EXCEPT ![x.key] = x.row]
      BY <2>3 DEF Commit
    <3>2. x.key = k /\ rows'[k] = x.row
      BY <3>1 DEF IInv, TypeOK
    <3>3. rows[k].seq < x.row.seq /\ rows[k].owner = x.row.owner /\ ~ rows[k].deleted
      BY <3>2 DEF IInv, Content, WritesAdvance
    <3>4. rows[k].seq \in Int /\ x.row.seq \in Int
      <4>1. rows[k] \in Row /\ x.row \in Row
        BY DEF IInv, TypeOK, Write
      <4> QED
        BY <4>1, SyncAssumption DEF Row
    <3> QED
      BY <3>2, <3>3, <3>4
  <2>4. \/ delete_app
        \/ \E l \in Keys : admin_hard_delete(l)
        \/ \E w \in Writers : Commit(w)
    BY DEF Next, SetTrust, RegisterCheck, RegisterUpsert, set_app_status, CreateCheck, Modify,
           CreateInsert, CreateReject, Abort, StreamChanges, Exhausted, vars, resvars
  <2> QED
    BY <2>1, <2>2, <2>3, <2>4
<1> QED
  BY <1>1, SpecIInv, PTL DEF Spec, VersionsAdvance

(* No call of StreamChanges moves a cursor past a committed change it did  *)
(* not deliver, for any limit and wherever the stream broke.               *)
THEOREM NothingCommittedIsSkipped == Spec => SkipsOnlyInFlight
<1> DEFINE A == \A c \in Clients, k \in Keys :
                   rows[k] # NoRow /\ rows[k].owner = UserOf[c]
                   /\ rows[k].seq > cursor[c] /\ rows[k].seq <= cursor'[c] =>
                      replica'[c][k] = rows[k].seq
<1>1. IInv /\ [Next]_vars => [A]_clvars
  <2> SUFFICES ASSUME IInv, [Next]_vars, clvars' # clvars, NEW c \in Clients, NEW k \in Keys,
                      rows[k] # NoRow, rows[k].owner = UserOf[c],
                      rows[k].seq > cursor[c], rows[k].seq <= cursor'[c]
               PROVE  replica'[c][k] = rows[k].seq
    OBVIOUS
  <2>1. PICK d \in Clients, n \in Limits : StreamChanges(d, n)
    BY DEF Next, SetTrust, RegisterCheck, RegisterUpsert, set_app_status, delete_app,
           CreateCheck, Modify, CreateInsert, CreateReject, Commit, Abort, admin_hard_delete,
           Exhausted, vars
  <2>2. CASE d = c
    <3>1. k \in list_changes(c)
      BY DEF list_changes
    <3> QED
      BY <2>1, <2>2, <3>1, StreamDelivers DEF IInv
  <2>3. CASE d # c
    <3>1. cursor'[c] = cursor[c]
      BY <2>1, <2>3, StreamDelivers DEF IInv
    <3>2. rows[k].seq \in Int /\ cursor[c] \in Int
      BY SyncAssumption DEF IInv, TypeOK, Row
    <3> QED
      BY <3>1, <3>2
  <2> QED
    BY <2>2, <2>3
<1> QED
  BY <1>1, SpecIInv, PTL DEF Spec, SkipsOnlyInFlight
=============================================================================
