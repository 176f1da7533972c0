# A verification project for sylva-server

sylva-server is a self-hosted, single-process Rust server (tonic gRPC and a
small HTTP surface, tokio, sqlx) in front of a Postgres database it may manage
itself. This directory holds TLA+ models of the parts that carry its own logic,
TLC configurations that check them on small instances, and TLAPS proofs about
them. `PROJECT.json` lists the runs, the source lines each definition models,
the mutants that show every property can fail, the findings and the hazards.

Run a check with `tlc -config X.cfg M` and a proof with `tlapm M.tla`, in this
directory.

## Inventory

| Component | State | Operations | Interacts through |
|---|---|---|---|
| audit log (`crates/audit`) | `audit.events`, its sequence, one advisory lock | `append` in the caller's transaction; read-only queries | every audited handler's transaction |
| account service (`platform/account.rs`) | none of its own | Bootstrap, Login, key material, devices, profile, email, password, avatar | pool reads, then one transaction; limiter; audit |
| users (`identity/lib.rs`) | `identity.users`, invitations | create, profile, email, lifecycle, removal; invitations | foreign keys cascade to `auth.*`, keys, devices, resources |
| devices and machines (`identity/enrollment.rs`, `machine_telemetry.rs`) | machines, sessions, devices, telemetry | register, check in, report, revoke | machine service |
| credentials and sessions (`auth/lib.rs`) | `auth.credentials`, `auth.sessions` | verify, update, delete; create, find, revoke | account service, `authenticate` |
| rate limiter (`auth/ratelimit.rs`) | in-memory map of token buckets behind a mutex | `allowed`, `record_failure` | Login, Bootstrap, RegisterMachine |
| second factors, recovery codes (`auth/*totp*`, `auth/*recovery*`) | secrets, last step, code hashes | enroll, confirm, verify, rotate | Login reads `has_second_factor`; provision |
| app registry (`platform/registry.rs`) | trusted publishers, registered apps | trust, register, enable, disable, delete | resources by foreign key |
| resources and sync (`platform/resources.rs`) | `platform.resources`, change clock | create, update, soft delete, purge, list, stream changes | clients keep a cursor |
| machine service (`platform/machine.rs`) | timers of Subscribe streams | register, check in, telemetry, subscribe | limiter, audit |
| server (`crates/server`) | process, managed Postgres, `secret.key`, identity | start, serve, shut down | all |
| tools (`provision`, `clean`, `bootstrap`) | directories, files, database | one-shot, each step may be the last | operator, server |

What is hard here is concurrency on the database. Handlers run concurrently at
READ COMMITTED; most of them *check on the pool and write later in a
transaction*, so what they checked can be stale. Sequences are not
transactional. Row locks, foreign keys, unique indexes and one advisory lock are
all that orders them. A handler may fail, or the server die, between any two
statements. Around that, agents and clients call over a network that loses
answers and breaks streams, and on the host programs are killed between writing
a file and writing the row that depends on it. `hazards` in `PROJECT.json` lists
each such place.

What makes each component correct: the log verifies as a hash chain and says
what happened; whoever signs in can unwrap their key, and nobody gets into a
closed account; a syncing client misses nothing; content belongs to a registered app;
a client is throttled after its burst and not before; a second factor or a
recovery code serves once; an acknowledged telemetry batch is stored; and a host
that was interrupted anywhere comes up again with the identity its clients have
pinned.

## Modules

| Module | Models | Kind |
|---|---|---|
| `AuditLog` | the promise of the audit log: one sequence that only grows, written together with the actions it records | abstract specification |
| `AuditChain` | `audit::append` inside the handlers' transactions | component |
| `Account` | Account service, users, credentials, sessions | component |
| `ResourceSync` | app registry, resources, StreamChanges and its client | component |
| `RateLimiter` | token buckets and the handlers' check and charge | component |
| `Handlers` | handlers of the async runtime: slots, arrival, steps, end | shared |
| `Machines` (on `Handlers`) | Machine service, its repositories, the agents and the network | component |
| `UserTable` (on `Handlers`) | `identity.users` as other tables see it | shared |
| `Totp` (on `UserTable`) | authenticators: `user_totp.rs`, `totp.rs` | component |
| `Recovery` (on `UserTable`) | recovery codes of the server and of users | component |
| `Enrollment` (on `Totp`, `Recovery`) | invitations, devices, and the removal of a user that cascades over all of it | composition |
| `Installation` | the directories, files and database of a host, `bootstrap` and `clean` | component |
| `Deployment` (on `Installation`) | `provision`, `sylva-server` and the managed Postgres, next to the tools | composition |
| `AuditChainProofs`, `AccountProofs`, `RateLimiterProofs`, `ResourceSyncProofs`, `MachinesProofs`, `DeploymentProofs` | theorems about the module of that name | proofs |
| `TotpProofs`, `EnrollmentProofs` | lemmas about second factors; theorems about `Enrollment` with all it is made of | proofs |
| `MC...` | constants for TLC | instances |

Definitions named like another with a suffix (`Fail_KeepsLock`) are mutants:
a plausible bug in that definition's code. No specification uses them.

### AuditChain

A request goes through the statements of a handler: `WriteInTx` (business rows,
row lock), then `append` as `AcquireLock`, `DrawSeqno`, `ReadPrev`, `Insert`,
then `Commit` and `Reply`. RevokeDevice (`BestEffort`) commits its write first
(`WriteAndCommit`) and audits afterwards. `Fail` is an error at any statement of
the transaction, `Crash` the death of the server, `HardRemove` the physical
removal of a user. `DrawSeqno` is never undone, so rollbacks leave gaps.
A hash is identified with what was hashed: the sequence of canonical records
from genesis (SHA-256 taken as collision free). Instants have nanoseconds and
the column keeps microseconds, so whether a verifier can recompute a hash from
the stored row depends on `truncate_to_micros`.

`AuditLog` is implemented under the mapping `log <- HeadHash(events)`: the log is
what the newest hash commits to.

### Account

One step per statement that another transaction can come before: the gate and
the transaction of Bootstrap; `VerifyCredentials`, `HasSecondFactor`,
`NewSession` of Login; `FindActive` and `FindById` of `authenticate`; the re-auth
`VerifyUserPassword`; the two updates and the commit of change_password, with
their row locks. A transaction that touches one row is one step. The lifecycle
operations (`deactivate`, `reactivate`, `anonymize`, `hard_remove`) have no caller
in the repository; each is taken with the session and credential work that its doc
comment obliges a caller to do in the same transaction. They name a transition, but
their statements are `UPDATE ... WHERE id` whatever the lifecycle is, and so are their
actions: one that was decided earlier may commit after `anonymize`. A password stands for the
verifier that accepts it and for the key derived from it. `Fail` covers every
error return and a crash, since both roll back and answer nothing.

### ResourceSync

One app identifier, whose row may be created, re-registered, disabled, deleted
and created again under a new id. A resource write draws `change_seq` and locks
its row when it executes (`CreateInsert`, `Modify`) and is visible at `Commit`:
each is a single auto-committed statement, and the two moments are what a
concurrent reader can tell apart. A version is identified with its `change_seq`.
`StreamChanges` includes the client: it applies a prefix of the batch (a stream
may break), persists the highest value and calls again. Clients do not use the
resource type filter.

### RateLimiter

`now_ms` is read before the mutex (`Arrive`, `VerifyFailed`), the bucket is
touched under it (`allowed_at`, `record_failure_at`). Tokens are integers, `Unit`
to a token, `Rate` per millisecond, so that fractions are exact.

### Machines

A handler of `Handlers` is a slot with a record, its place in `pc`, and runs one
statement per step. `register_or_update` is the upsert: it holds the key's index
entry, or the row, until `CommitRegister`, and a second one waits. `insert` is one
turn of the telemetry loop on the pool. Subscribe reads the toggle
(`location_enabled`) and the group (`ReadGroup`), then owns a channel: `SendConfig`
and `KeepAlive` wait for room and fail when the receiver is gone, which `Disconnect`
brings about without telling the task. `Send`, `Reply`, `Receive` are the agent, which
repeats a call as it likes; `Fail` is a lost answer, an error or an unknown session
(so the expiry of sessions is in it), `Crash` the death of the server.
`create_group(TRUE)` is a group that takes its `created_at` and commits later.

### UserTable, Totp, Recovery, Enrollment

Nothing in the repository calls these repositories yet, except RegisterDevice,
RevokeDevice and `provision`. The functions are modelled statement by statement; the order in
which a handler calls them is the one their doc comments oblige it to: count, then
confirm in a transaction; find the invitation on the pool, then create the user and
mark it in one transaction; verify a user's code and rotate it in one transaction.

A DELETE or UPDATE picks its rows from a snapshot (`SelectPending`), waits for rows
that are being written, and looks at them again (`ClearPending`, `confirm`, `Consume`).
`hotp` gives the digits of a credential at a step; the instance makes the digits of
two credentials and of two neighbouring steps collide. A recovery code is a sequence
of characters, and `canonicalize` is the code's: upper case, separators dropped,
look-alikes read as digits; hashing is injective. `hard_remove` is one step that waits
for locks on the user's rows and then cascades: factors, codes, devices, invitations
the user sent; the link from an invitation the user accepted is set null.

### Installation, Deployment

Every program is a process with a `pc`; `Launch` starts one, `Kill` and `Reboot` end it
anywhere, and `Fail` is an error return. `disk` is the data directory, with a key file
that `load_secret_key` has begun to write and `write_secret_key` has not finished being
`Torn`, and the cluster directory that `initdb` makes before it fills it. `db` is
the database: the meta schema, the schema sqlx put its journal in, migrations
applied, identity, recovery code. `postgres` is whose child runs; a kill leaves an
orphan unless the job object takes it along, and `stop` (pg_ctl) stops whatever runs
on the directory. A server goes through the readiness probe, pool, migrations,
key, identity, ports, `serving`, and on a signal `DrainHttp`, `JoinGrpc`, `ClosePool`,
`stop`. `past` is what people remember: the identity that was pinned and the code that
was printed.

`past.overlap` records that two programs have worked side by side. The tools look for
a running Postgres and not for each other, so two that start together can each draw
a key; the properties about keys, identity and the printed code are stated for the
case without overlap, which is what the tools' messages ask for. The safety of
shutdown is stated for every case.

## Runs

| Run | Shows |
|---|---|
| `audit_append` | chain verifies, actions and events commit together, rows appear in order, the table implements `AuditLog`, every request that has begun ends |
| `audit_unaudited` (violation) | RevokeDevice succeeds unaudited |
| `account_races` | verifier and key wrap agree, sessions have users, deleted credentials never come back, no call starts for an account that is not active |
| `account_twoowners` (violation) | two concurrent Bootstraps make two owners |
| `sync_registry` | no orphan resource, one change_seq per version, tombstones final, a call skips at most what was in flight, a client that keeps calling drains the feed |
| `sync_overtaken` (violation) | with overlapping writers a client skips a change for good |
| `sync_declared` (violation) | a create lands in a disabled or re-declared app |
| `limiter` | bucket in range, nobody throttled early, refill neither lost nor given twice, overlap bounded |
| `machines_plane` | one row per key, acknowledged batches are stored whole, configs are fresh, groups never go back, tasks of closed streams end |
| `enrollment_races` | steps and codes serve once, one server code is active, the authenticator limit is exceeded by at most the other handlers in flight, what was revoked or closed stays so |
| `deployment_restarts` | the key file opens the identity, the identity is stable, the printed code works, calls have their pool, a shutdown that was asked for completes unless an agent's stream stays open |
| `deployment_halfsetup` (violation) | a bootstrap interrupted before its last step is never finished |

`SkipsOnlyInFlight` delimits `sync_overtaken`: what a client passes over was still
uncommitted when it called, so the overlap of writers is the only cause.

What follows from `deployment_halfsetup`: without `sylva_meta` sqlx makes its journal in
`public`; migration 0006 then creates `sylva_meta`, and the next start finds an empty
journal there, in front of tables that exist, and fails in its first migration
(`OpenJournal`). Until both directories are deleted the instance does not start.

More remarks met while modelling, which no run is spent on. `update_profile` and
`update_email` write whatever the account's lifecycle is, so a request authenticated
before `anonymize` puts a name or an address back into a redacted row. A TOTP code
that collides with one already used on another authenticator of the user is
refused, although a comment says no other credential could match. The doc of
`hard_remove` calls the audit actor link `ON DELETE SET NULL`; the migration makes
the column no foreign key, on purpose, and the mutant of `AppendOnly` shows what
nulling it would break. The doc of `reactivate` says sessions are not restored; a
login that was verified before `deactivate` and mints its session after it leaves a
session that works again after `reactivate`. The doc of `anonymize` calls its state
terminal, but `deactivate` and `reactivate` do not look at the lifecycle: one that was
decided while the account was open and commits after `anonymize` turns the redacted
row into `deactivated` or `active`, and after the latter a session minted late works for
the closed account. `ClosingLocksOut` is what does hold: the deleted credentials never
come back, so no login begins again, and while the account is not active no call starts.

### Bounds

* `AuditChain`: three requests are enough for a holder, a waiter on its row and
  an independent best-effort one; a microsecond is two nanoseconds, with one
  reading on the boundary and one off it; one user, who may be removed.
* `Account`: two account ids, two addresses and two passwords; three requests at
  a time, so that a change_password, a login and a second change can overlap;
  two tokens. Requests repeat without bound. Ids are never reused, so the model
  ends when both accounts are gone (`Exhausted`).
* `ResourceSync`: two keys, two owners, two writers, three change_seq values and
  two app ids: one delete and re-registration, and one overtaking. `MaxSeq` and
  `MaxAppId` are the bounds; `Exhausted` is the stuttering at the bound.
* `RateLimiter`: a token is two units and a burst two tokens, four
  milliseconds: the bucket empties, refills by half tokens and fills up.
  `MaxNow` and `MaxFailures` are the bounds.
* `Machines`: two agents, two machine rows, three calls of which two at a time, so a
  retry meets its predecessor; one batch of two seq values in a column that holds
  the first only; a channel of one message, so the task meets a full one; two
  administrative acts. `MaxCalls`, `MaxAdmin` are the bounds.
* `Enrollment`: two users, three authenticators (one in use, two begun) with a limit
  of one, three time steps, three codes, one invitation, one device, three calls of
  which two at a time: a pair of racing calls and one before or after them. Two
  calls are what a race needs; the third removes the user or repeats a call.
  `MaxCalls`, `MaxStep` are the bounds.
* `Deployment`: two programs at a time, four launches and one fault: install,
  provision or serve, an interruption, and the run after it. Two migrations stand
  for five: the one that makes `sylva_meta` and one after it. `MaxRuns`, `MaxFaults` are
  the bounds; at the end of the launches the host is at rest, so deadlock is not
  checked.

Symmetry is used for safety runs only, over sets whose members nothing tells
apart.

### Fairness

`AuditChain!FairSpec` is weak fairness of every request's own steps: the runtime
polls a handler that can proceed, and Postgres grants a lock that is free.
Failures, crashes and removals are never owed. Weak fairness is enough because a
request that waits for a lock waits for finitely many others.
`ResourceSync!FairSpec` assumes the client of the doc comment, which calls until a
call yields nothing, and that an executed statement commits or fails.
`Machines!FairSpec` is weak fairness of the server's own step in every slot: a
statement ends with a result or an error, and the interval of a Subscribe task
ticks; agents, connections and administrators owe nothing. `Deployment!FairSpec` is
weak fairness of `ServeStep`: the steps of a started server, and the end of a unary
call, happen; nobody has to launch or stop one, and no agent has to end its stream,
which is why `ShutdownCompletes` excepts a stream that stays open.

## Proofs

All theorems hold for every value of the constants. Every safety invariant and every
action property of the passing runs is the statement of a theorem. Each module below
has one inductive invariant (named `IInv`, or `BurstInv` and `FlightInv` for the rate
limiter), proved to hold initially and to be kept by every action; TLC checked it on the module's
run before. The properties follow from it.

`AuditChainProofs`. `IInv` (in `AuditChain`) is inductive. `ChainIntact` alone is not:
that the next row extends the chain depends on what the appender drew and read
earlier still being current when it commits. So `IInv` adds: whoever is inside
`append` holds the lock (`LockHeld`); its seqno exceeds every committed one
(`SeqnoCurrent`), its prev is still the newest hash (`PrevCurrent`), its pending row
is the one it computed (`PendingRow`); the newest row exists (`NewestExists`), which
needs no finiteness because each commit adds a maximum; what has happened to a
request follows from its phase (`EffectOfPhase`); and the newest hash names exactly
the logged requests (`HeadNamesLogged`), which the refinement needs. The proof has
one lemma per conjunct; only `Commit` writes the table (`OnlyCommitWrites`), so most
of the work is `CommitKeepsChain`. `TruncationRoundTrips` is the arithmetic fact that
makes stored rows recompute. `ChainImplementsLog` proves that every step is a step
of `AuditLog` or a stutter.

`AccountProofs`. `IInv` (in `Account`) adds to the properties: rows only under ids
that were handed out, a running handler acts for such an id, and
`LocksOfPhase`: inside change_password a row is locked exactly if it is there, and
stays so, because closing or removing an account waits for the lock. That is why
the commit writes either both verifier and wrap, or no verifier at all, and why it
brings no deleted one back. `ClosingLocksOut` needs of the lifecycle operations only that
they leave credentials alone or delete them, not that they come in any order.

`RateLimiterProofs`. `refilled` is characterised once (`RefilledIsBucket`,
`RefilledGains`): the result is a bucket, not older than the stored one, with all that
has elapsed paid in up to the capacity. Type, monotone time and `RefillAccrues` follow
from it step by step. `ThrottledOnlyAfterBurst` is not inductive: a failure is counted
when the verification returns and paid for when its handler reaches the mutex again.
`BurstInv` therefore counts the *settled* failures, those no handler is still carrying
to the mutex, and says that a bucket has spent no more than these
(`SpentOnFailures`); refilling only lowers what is spent, a charge settles one failure
for at most one token, and a check is refused only when less than a token is left.

`InFlightBound` is not inductive either: what a client can still fail depends on the
tokens that are left and on the requests that have passed their check. `FlightInv`
bounds both, per bucket and as of its `last_ms`: settled failures and requests in flight
stay below the ceiling, and so do settled failures and `Reach`, all that can be failed on
the tokens that are there - each token but the last once, and the last by as many
requests as can be in flight. A refill raises the ceiling by at least what it adds to
`Reach`; a check passes only on a whole token, whose `Reach` already counts every slot;
a charge that finds less than a token is one of those counted there.

`ResourceSyncProofs`. The properties are about committed rows; a row is committed by a
write that was executed earlier. So `IInv` says what a write in flight relies on: its
app row is there (`WritesHaveApp`), it alone has the row lock (`LocksExclude`), its
change_seq was drawn below the sequence (`ClockAhead`) and nobody else's
(`WritesDistinct`), and it is newer than the row it replaces and than any replica
(`WritesAdvance`). `NothingCommittedIsSkipped` needs, besides, that a batch is cut at its
limit in change_seq order.

`TotpProofs`, `EnrollmentProofs`. Totp, recovery codes, invitations and devices run in one
table of handlers, so `IInv` is the conjunction of what each keeps: `TotpInv` (a
transaction locks only pending enrolments, no two the same; a drawn id is in no table;
`last_used_step` is not below any accepted step), `WithinLimit` (verified authenticators
and the handlers that have passed the count), `RecoveryInv` (exactly one active row, and
whoever holds its index entry holds it for the code that was presented; codes that have
served are nobody's) and `EnrollInv` (an id an owner was told of is never drawn again). A
step of one part is shown to leave the others alone once, by what it writes.

`MachinesProofs`. `IInv` says of every handler which statements lie behind it, that its
token names a session of its agent's own machine, and what it has already stored
(`Progress`) or read (`Watched`); of every agent that what it was told is registered to it
and that its stream does not carry an older group than it has. An upsert under way
either updates the key's row or there is none, and no other upsert has the same key or
id (`Upserting`, `Upserts`). Sessions and registrations under way are counted against
calls (`Counted`), so a token never runs out.

`DeploymentProofs`. As long as programs do not overlap, at most one is past its first
check (`Alone`), so its step has to keep no more than its own part of the invariant
(`Holds`) and what is stored (`Stored`): while the key is being written, no identity is
sealed; from loading it on, the key in memory is the one on disk; while the identity is
being sealed, none is stored; a server that binds or serves has the stored one; a code
about to be printed is the one in the database. A program that ends anywhere (`Ends`)
takes nothing stored with it, which covers every kill and error. `InFlightHavePool` is
proved without the restriction on overlap.

Assumptions. `AuditAssumption`, `AccountAssumption`, `LimiterAssumption`, `SyncAssumption`,
`HandlersAssumption`, `UserTableAssumption`, `TotpAssumption`, `EnrollmentAssumption`,
`MachinesAssumption`, `InstallationAssumption` and `DeploymentAssumption` type the constants
(requests in flight and authenticators are finitely many, at least one request can be
in flight, telemetry batches are not empty, a migration makes the meta schema).
`NoneIsNoRow`, `NoAppAssumption`, `TotpRowAssumption`, `DeviceAssumption`,
`MachineRowAssumption`, `MachineHandlerAssumption` and `RowAssumption` keep the null value
apart from the records it stands next to. `HashAssumption` is the one with content: two
generated recovery codes have different canonical spellings, because `generate_code`
draws from an alphabet without the characters that are read as others.

Model-checked only: liveness (`EveryRequestEnds`, `EventuallyDrained`, `StreamTaskEnds`,
`ShutdownCompletes`), which is outside the prover's reach, and the five findings, which
are counterexamples. No module of the project declares a RECURSIVE operator.

## Not modelled

Cryptography (hashing, signatures, AEAD, Argon2) is ideal, and with it `secretbox`.
Read-only queries, paging of lists, the health and discovery endpoints, wire formats
and logging are left out, and so is what is only displayed: labels, `last_seen_at`,
avatars, `rename`, `stamp_used`. `config.rs` is environment parsing apart from the secret key;
a key given in the environment, which is never written, is not modelled. VerifyMfa is
unimplemented in the code. The thin machine row of a device enrolment refers to
nothing else and is left out. The expiry of machine sessions is one of the failing
lookups of `Machines`. Removing a user also removes the resources they own;
`ResourceSync` keeps its owners. The download, checksum and trimming of `bootstrap` are one
step that may fail.

Some limits of what the properties say. `ConfigIsFresh` is about the toggle as Subscribe
reads it: one that is changed while a stream is open reaches the agent with its next
Subscribe. `EventuallyDrained` is checked with a request limit of zero, which the clamp
turns into the default. `CreateInsert` draws its change_seq when it inserts, after any
wait for the unique index; Postgres evaluates the default before the wait, so that a
create which waited may carry a smaller value. `DrainHttp` is one step: an HTTP client
that holds its connection open and keeps the drain waiting is outside
`ShutdownCompletes`. `Reboot` leaves the disk as it was: `secret.key` is written without
fsync, and a power failure that loses a completed write is not covered.

The components with status `partly` lack only what this section names.

## Plan

1. An abstract change feed for `ResourceSync`, refined as long as no write is in flight
   when a client calls; `SkipsOnlyInFlight` is the step of it that is proved.
2. The composition of `Account` with `AuditChain`: the lock order of hard_remove, once a
   caller exists.
3. Canonical encodings (`canonical_declaration_bytes`, discovery document):
   injectivity over bounded inputs.
