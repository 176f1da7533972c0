----------------------------- MODULE Deployment -----------------------------
(***************************************************************************)
(* The programs that run the bundled Postgres: provision, which readies a  *)
(* database once, and sylva-server, from its start through its calls and   *)
(* streams to its graceful shutdown - launched, killed and relaunched next *)
(* to the tools of Installation, on the same directories.                  *)
(***************************************************************************)
EXTENDS Installation

CONSTANTS Migrations,       \* their number: 0001, 0002, 0003, 0006, 0007
          MetaMigration     \* the one that creates sylva_meta, where the identity is: 0006

ASSUME DeploymentAssumption == Migrations \in Nat /\ MetaMigration \in 1..Migrations

(***************************************************************************)
(* The managed Postgres.                                                   *)
(***************************************************************************)
Database(p) == Runs(p, "provision") \/ Runs(p, "server")
AfterReady(p) == IF Runs(p, "server") THEN "ready" ELSE "connect"
MayStart(p) == At(p, "spawn") \/ (At(p, "start") /\ Runs(p, "server"))

(* The child runs when nothing else runs on the directory.  The probe only *)
(* asks whether something accepts connections on the port.                 *)
start(p) ==
    /\ MayStart(p) /\ IsSetUp
    /\ \/ /\ postgres = None /\ disk.cluster = "configured"
          /\ postgres' = p /\ disk' = [disk EXCEPT !.lock = TRUE]
       \/ /\ postgres # None /\ UNCHANGED <<disk, postgres>>
    /\ Enter(p, AfterReady(p))
    /\ UNCHANGED db

(* No binaries or data; the child exits; or the probe runs out of time and *)
(* the child is killed, its lock file left behind.                         *)
NotStarted(p) ==
    /\ MayStart(p) /\ (postgres = None => disk.cluster # "configured" \/ ~ IsSetUp)
    /\ disk' = [disk EXCEPT !.lock = @ \/ (IsSetUp /\ disk.cluster = "default")]
    /\ Exit(p)
    /\ UNCHANGED <<db, postgres, past>>

(* kill_on_drop, and the kill that follows a failed start.                 *)
DropChild(p) == postgres' = IF postgres = p THEN None ELSE postgres

(* pg_ctl stops the Postgres of the directory, whoever started it; when it *)
(* does not, the child is killed.                                          *)
stop(p) ==
    /\ At(p, "stop")
    /\ \/ postgres' = None /\ disk' = [disk EXCEPT !.lock = FALSE]
       \/ DropChild(p) /\ UNCHANGED disk
    /\ Exit(p)
    /\ UNCHANGED <<db, past>>

(* The end of serve() and of init_infrastructure(), by an error as well:   *)
(* the pool is closed or dropped, then Postgres is stopped.                *)
Leave(p) == proc' = [proc EXCEPT ![p].pc = "stop", ![p].pool = FALSE]

(***************************************************************************)
(* The way to a ready database, and to the keys.                           *)
(***************************************************************************)
Sql(p, pc) == At(p, pc) /\ postgres # None /\ db # None
Quiet == UNCHANGED <<disk, postgres, past>>

wait_until_ready(p) ==
    /\ At(p, "ready")
    /\ \/ Sql(p, "ready") /\ Goto(p, "connect") /\ UNCHANGED postgres
       \/ ~ Sql(p, "ready") /\ Exit(p) /\ DropChild(p)
    /\ UNCHANGED <<disk, db, past>>

connect(p) ==
    /\ Sql(p, "connect")
    /\ proc' = [proc EXCEPT ![p].pc = "migrate", ![p].pool = TRUE]
    /\ UNCHANGED db /\ Quiet

(* sqlx's journal is made in the first schema of the search path that      *)
(* exists.  A journal found empty next to tables that are there makes the  *)
(* first migration fail.  One migrator runs at a time.                     *)
OpenJournal(p) ==
    /\ Sql(p, "migrate") /\ \A q \in Procs : ~ At(q, "apply")
    /\ LET target == IF db.schema THEN "sylva_meta" ELSE "public"
       IN  /\ IF db.applied = 0 \/ db.journal = target THEN Goto(p, "apply") ELSE Leave(p)
           /\ db' = [db EXCEPT !.journal = target]
    /\ Quiet

run_migrations(p) ==
    /\ Sql(p, "apply")
    /\ IF db.applied < Migrations
       THEN /\ db' = [db EXCEPT !.applied = @ + 1, !.schema = @ \/ db.applied + 1 = MetaMigration]
            /\ UNCHANGED proc
       ELSE Goto(p, IF Runs(p, "server") THEN "key" ELSE "count") /\ UNCHANGED db
    /\ Quiet

CountCodes(p) ==
    /\ Sql(p, "count")
    /\ IF db.code = None THEN Goto(p, "key") ELSE Leave(p)
    /\ UNCHANGED db /\ Quiet

Drawn == past.drawn + 1
Draw == past' = [past EXCEPT !.drawn = Drawn]

load_secret_key_InMemory(p) ==
    /\ At(p, "key")
    /\ \/ /\ disk.key = Torn /\ Leave(p) /\ UNCHANGED <<disk, past>>
       \/ /\ disk.key \notin {None, Torn}
          /\ proc' = [proc EXCEPT ![p].pc = "identity", ![p].key = disk.key]
          /\ UNCHANGED <<disk, past>>
       \/ /\ disk.key = None
          /\ Draw /\ proc' = [proc EXCEPT ![p].pc = "identity", ![p].key = Drawn]
          /\ UNCHANGED disk
    /\ UNCHANGED <<db, postgres>>

(* Read secret.key; when there is none, write one, which is not atomic.    *)
load_secret_key(p) ==
    /\ At(p, "key")
    /\ \/ /\ disk.key = Torn /\ Leave(p) /\ UNCHANGED <<disk, past>>
       \/ /\ disk.key \notin {None, Torn}
          /\ proc' = [proc EXCEPT ![p].pc = "identity", ![p].key = disk.key]
          /\ UNCHANGED <<disk, past>>
       \/ /\ disk.key = None
          /\ Draw /\ proc' = [proc EXCEPT ![p].pc = "write", ![p].key = Drawn]
          /\ disk' = [disk EXCEPT !.key = Torn]
    /\ UNCHANGED <<db, postgres>>

write_secret_key(p) ==
    /\ At(p, "write")
    /\ disk' = [disk EXCEPT !.key = proc[p].key]
    /\ Goto(p, "identity")
    /\ UNCHANGED <<db, postgres, past>>

(* Load the identity and open it, or draw one and overwrite the row.       *)
AfterIdentity(p) == IF Runs(p, "server") THEN "bind" ELSE "mint"
LoadIdentity(p) ==
    /\ Sql(p, "identity")
    /\ \/ /\ db.identity # None /\ db.identity.key = proc[p].key
          /\ proc' = [proc EXCEPT ![p].pc = AfterIdentity(p), ![p].id = db.identity.public]
          /\ UNCHANGED past
       \/ /\ db.identity # None /\ db.identity.key # proc[p].key
          /\ Leave(p) /\ UNCHANGED past
       \/ /\ db.identity = None
          /\ Draw /\ proc' = [proc EXCEPT ![p].pc = "seal", ![p].id = Drawn]
    /\ UNCHANGED <<disk, db, postgres>>

ensure_server_identity_Unstored(p) ==
    Sql(p, "seal") /\ Goto(p, AfterIdentity(p)) /\ UNCHANGED db /\ Quiet

ensure_server_identity(p) ==
    /\ Sql(p, "seal")
    /\ db' = [db EXCEPT !.identity = [public |-> proc[p].id, key |-> proc[p].key]]
    /\ Goto(p, AfterIdentity(p))
    /\ Quiet

SqlFails(p) ==
    /\ \E pc \in {"connect", "migrate", "apply", "count", "identity", "seal", "mint"} :
          At(p, pc) /\ ~ Sql(p, pc)
    /\ Leave(p)
    /\ UNCHANGED <<disk, db, postgres, past>>

(***************************************************************************)
(* provision: the code is committed, then shown, once.                     *)
(***************************************************************************)
ProvisionCheck(p) ==
    /\ Runs(p, "provision")
    /\ refuse_if_postgres_running(p) \/ NoPostgresRunning(p, "spawn")
    /\ UNCHANGED <<db, postgres>>

MintCode_Uncommitted(p) ==
    /\ Sql(p, "mint")
    /\ IF db.code # None
       THEN Leave(p) /\ UNCHANGED past
       ELSE /\ Draw
            /\ proc' = [proc EXCEPT ![p].pc = "print", ![p].code = Drawn, ![p].pool = FALSE]
    /\ UNCHANGED <<disk, db, postgres>>

MintCode(p) ==
    /\ Sql(p, "mint")
    /\ IF db.code # None
       THEN Leave(p) /\ UNCHANGED <<db, past>>
       ELSE /\ Draw
            /\ db' = [db EXCEPT !.code = Drawn]
            /\ proc' = [proc EXCEPT ![p].pc = "print", ![p].code = Drawn, ![p].pool = FALSE]
    /\ UNCHANGED <<disk, postgres>>

PrintCode(p) ==
    /\ At(p, "print")
    /\ past' = [past EXCEPT !.printed = proc[p].code]
    /\ Goto(p, "stop")
    /\ UNCHANGED <<disk, db, postgres>>

(***************************************************************************)
(* sylva-server: ports, calls, shutdown.                                   *)
(***************************************************************************)
BindPorts_LateReceiver(p) ==
    /\ At(p, "bind")
    /\ proc' = [proc EXCEPT ![p].pc = "serving", ![p].signalled = FALSE]
    /\ UNCHANGED <<disk, db, postgres, past>>

BindPorts(p) ==
    /\ At(p, "bind")
    /\ IF \E q \in Procs : At(q, "serving") THEN Leave(p) ELSE Goto(p, "serving")
    /\ UNCHANGED <<disk, db, postgres, past>>

(* A client sees the discovery document and pins the first one.            *)
Discover(p) ==
    /\ At(p, "serving") /\ past.pinned = None
    /\ past' = [past EXCEPT !.pinned = proc[p].id]
    /\ UNCHANGED <<disk, db, postgres, proc>>

(* New calls are taken until the signal; a unary handler ends by itself, a *)
(* Subscribe stream when its agent goes.                                   *)
Open(p, kind) ==
    /\ At(p, "serving") /\ ~ proc[p].signalled /\ proc[p][kind] = 0
    /\ proc' = [proc EXCEPT ![p][kind] = 1]
    /\ UNCHANGED <<disk, db, postgres, past>>

Close(p, kind) ==
    /\ p \in Running /\ proc[p][kind] > 0
    /\ proc' = [proc EXCEPT ![p][kind] = @ - 1]
    /\ UNCHANGED <<disk, db, postgres, past>>

(* The bridge task listens from the identity on; before, and in the other  *)
(* programs, Ctrl+C kills.  The signal stays in the watch channel.         *)
Listening == {"identity", "seal", "bind", "serving"}
signal(p) ==
    /\ Runs(p, "server") /\ proc[p].pc \in Listening /\ ~ proc[p].signalled
    /\ proc' = [proc EXCEPT ![p].signalled = TRUE]
    /\ UNCHANGED <<disk, db, postgres, past>>

DrainHttp_ClosesPool(p) ==
    /\ At(p, "serving") /\ proc[p].signalled
    /\ proc' = [proc EXCEPT ![p].pc = "joining", ![p].pool = FALSE]
    /\ UNCHANGED <<disk, db, postgres, past>>

DrainHttp(p) ==
    /\ At(p, "serving") /\ proc[p].signalled
    /\ Goto(p, "joining")
    /\ UNCHANGED <<disk, db, postgres, past>>

JoinGrpc(p) ==
    /\ At(p, "joining") /\ proc[p].calls + proc[p].streams = 0
    /\ Goto(p, "close")
    /\ UNCHANGED <<disk, db, postgres, past>>

ClosePool(p) ==
    /\ At(p, "close")
    /\ Leave(p)
    /\ UNCHANGED <<disk, db, postgres, past>>

(***************************************************************************)
(* Faults.                                                                 *)
(***************************************************************************)
(* A job object takes the server's child along, when it was installed.     *)
Kill(p) ==
    /\ p \in Running /\ Fault /\ Exit(p)
    /\ \/ Runs(p, "server") /\ DropChild(p)
       \/ postgres' = IF postgres = p THEN Orphan ELSE postgres
    /\ UNCHANGED <<disk, db>>
Reboot ==
    /\ Fault
    /\ proc' = [p \in Procs |-> None] /\ postgres' = None
    /\ UNCHANGED <<disk, db>>
(* Any call that may fail with an error, and does.                         *)
Fail(p) ==
    /\ Database(p) /\ Fault
    /\ \/ proc[p].pc = "ready" /\ Exit(p) /\ DropChild(p)
       \/ /\ proc[p].pc \in {"connect", "migrate", "apply", "count", "key", "write",
                             "identity", "seal", "mint", "bind"}
          /\ Leave(p) /\ UNCHANGED postgres
    /\ UNCHANGED <<disk, db>>

(***************************************************************************)
StartStep(p) ==
    \/ ProvisionCheck(p) \/ start(p) \/ NotStarted(p) \/ wait_until_ready(p) \/ connect(p)
    \/ OpenJournal(p) \/ run_migrations(p) \/ CountCodes(p) \/ load_secret_key(p)
    \/ write_secret_key(p) \/ MintCode(p) \/ PrintCode(p)
ServeStep(p) ==
    \/ LoadIdentity(p) \/ ensure_server_identity(p) \/ SqlFails(p) \/ BindPorts(p)
    \/ DrainHttp(p) \/ JoinGrpc(p) \/ ClosePool(p) \/ stop(p) \/ Close(p, "calls")

Client(p) == Discover(p) \/ Close(p, "streams") \/ \E kind \in {"calls", "streams"} : Open(p, kind)
Operator == DeleteTornKey \/ DeleteBothDirectories \/ \E p \in Procs, tool \in Tools : Launch(p, tool)

Next ==
    \/ Operator \/ Reboot
    \/ \E p \in Procs : \/ InstallStep(p) \/ StartStep(p) \/ ServeStep(p)
                        \/ Client(p) \/ signal(p) \/ Kill(p) \/ Fail(p)

Spec == Init /\ [][Next]_vars

(* A server's own steps happen.  Nobody has to launch or to stop one, and   *)
(* no agent has to end its stream.                                         *)
FairSpec == Spec /\ \A p \in Procs : WF_vars(ServeStep(p))

(***************************************************************************)
(* Properties.                                                             *)
(***************************************************************************)
(* The key file opens the stored identity: whatever is killed, rebooted or *)
(* cleaned between drawing the key, writing it and sealing with it, the    *)
(* next start is not refused with "decrypting server identity key".  Two   *)
(* programs started side by side can each write a key of their own.        *)
KeyOpensIdentity ==
    ~ past.overlap /\ db # None => (db.identity # None => disk.key = db.identity.key)

(* instance.rs: "the server keeps its identity across restarts".  A server *)
(* that serves shows what clients have pinned since the database was made. *)
IdentityIsStable ==
    ~ past.overlap =>
        \A p \in Procs : At(p, "serving") /\ past.pinned # None => proc[p].id = past.pinned

(* The recovery code on the operator's paper is the one in the database.   *)
PrintedCodeWorks ==
    ~ past.overlap /\ past.printed # None => db # None /\ db.code = past.printed

(* serve(): "in-flight RPCs borrow the pool, which must be closed LAST".   *)
InFlightHavePool ==
    \A p \in Running : proc[p].calls + proc[p].streams > 0 => proc[p].pool

(* A shutdown that was asked for, however early in the start, is carried   *)
(* out and frees the data directory, unless an agent's stream stays open.  *)
ShutdownCompletes ==
    \A p \in Procs :
        (p \in Running /\ proc[p].signalled ~> p \notin Running)
        \/ <>[](p \in Running /\ proc[p].streams > 0)

(* bootstrap's main.rs: the meta schema is "Created at bootstrap time so   *)
(* the schema always exists by the time server makes its first connection".*)
SchemaBeforeConnection ==
    \A p \in Running : proc[p].pool /\ past.installed => db # None /\ db.schema
=============================================================================
