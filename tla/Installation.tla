---------------------------- MODULE Installation ----------------------------
(***************************************************************************)
(* What one host keeps of a Sylva instance - the directories postgres and  *)
(* postgres-data, the file secret.key, the database - and the two tools    *)
(* that work on it while Postgres is down: bootstrap and clean.  Every     *)
(* process can be killed between two steps.  Deployment adds the programs  *)
(* that run Postgres.                                                      *)
(***************************************************************************)
EXTENDS Integers

CONSTANTS ProcCount,    \* programs that run at a time
          MaxRuns,      \* bound: programs launched
          MaxFaults,    \* bound: kills, reboots and failing calls
          None          \* absence

ASSUME InstallationAssumption ==
    /\ ProcCount \in Nat \ {0} /\ MaxRuns \in Nat /\ MaxFaults \in Nat
    /\ None \notin Nat

VARIABLES disk,        \* [binaries, cluster, lock, key]: the data directory
          db,          \* the database, or None
          postgres,    \* the process whose child is the running Postgres, Orphan, or None
          proc,        \* the running programs, each with its place in "pc"
          past         \* what the operator and the clients remember, and the bounds

vars == <<disk, db, postgres, proc, past>>

Procs == 1..ProcCount
Orphan == 0            \* Postgres survived the program that started it
Torn == 0              \* secret.key exists and is not 32 bytes long
Running == {p \in Procs : proc[p] # None}
At(p, pc) == p \in Running /\ proc[p].pc = pc
Runs(p, tool) == p \in Running /\ proc[p].tool = tool

EmptyDb == [schema |-> FALSE,      \* sylva_meta exists
            journal |-> None,      \* the schema _sqlx_migrations is in
            applied |-> 0,         \* migrations applied
            identity |-> None,     \* [public, key]: key seals the private half
            code |-> None]         \* the server recovery code
(* The server identity, and what a program or a query finds of a database. *)
Identity == [public : Nat \cup {None}, key : Nat \cup {None}]
Db == [schema : BOOLEAN, journal : {None, "public", "sylva_meta"}, applied : Nat,
       identity : Identity \cup {None}, code : Nat \cup {None}]
ASSUME RowAssumption == None \notin Identity \cup Db

Init ==
    /\ disk = [binaries |-> FALSE, cluster |-> "absent", lock |-> FALSE, key |-> None]
    /\ db = None /\ postgres = None
    /\ proc = [p \in Procs |-> None]
    /\ past = [drawn |-> 0, pinned |-> None, printed |-> None, installed |-> FALSE,
               overlap |-> FALSE, runs |-> 0, faults |-> 0]

(***************************************************************************)
(* Programs come and go.                                                   *)
(***************************************************************************)
Tools == {"bootstrap", "clean", "provision", "server"}

Launch(p, tool) ==
    /\ p \notin Running /\ \A q \in 1..(p - 1) : q \in Running
    /\ past.runs < MaxRuns
    /\ past' = [past EXCEPT !.runs = @ + 1]
    /\ proc' = [proc EXCEPT ![p] = [tool |-> tool, pc |-> "start", key |-> None, id |-> None,
                                    code |-> None, pool |-> FALSE, calls |-> 0, streams |-> 0,
                                    signalled |-> FALSE]]
    /\ UNCHANGED <<disk, db, postgres>>

Goto(p, pc) == proc' = [proc EXCEPT ![p].pc = pc]
Exit(p) == proc' = [proc EXCEPT ![p] = None]

(* The first check is passed; two programs may now work side by side.      *)
Enter(p, pc) ==
    /\ Goto(p, pc)
    /\ past' = [past EXCEPT !.overlap = @ \/ \E q \in Running \ {p} : proc[q].pc # "start"]

Fault == past.faults < MaxFaults /\ past' = [past EXCEPT !.faults = @ + 1]

(***************************************************************************)
(* bootstrap.                                                              *)
(***************************************************************************)
AlreadySetUp(p) ==
    /\ At(p, "start") /\ Runs(p, "bootstrap")
    /\ disk.binaries /\ disk.cluster # "absent"
    /\ Exit(p)
    /\ past' = [past EXCEPT !.installed = TRUE]
    /\ UNCHANGED <<disk, db, postgres>>
Fetch(p) ==
    /\ At(p, "start") /\ Runs(p, "bootstrap")
    /\ ~ (disk.binaries /\ disk.cluster # "absent")
    /\ Enter(p, "install")
    /\ UNCHANGED <<disk, db, postgres>>

(* A download that fails or is not the pinned one ends the run, and so     *)
(* does a postgres directory that is already in the way of the rename.     *)
Install(p) ==
    /\ At(p, "install")
    /\ \/ ~ disk.binaries /\ disk' = [disk EXCEPT !.binaries = TRUE] /\ Goto(p, "initdb")
       \/ Exit(p) /\ UNCHANGED disk
    /\ UNCHANGED <<db, postgres, past>>

(* initdb makes the directory first.  It refuses one that is not empty.    *)
initdb(p) ==
    /\ \/ At(p, "initdb") /\ disk.cluster = "absent"
          /\ disk' = [disk EXCEPT !.cluster = "partial"] /\ Goto(p, "initializing")
       \/ At(p, "initdb") /\ disk.cluster # "absent" /\ Exit(p) /\ UNCHANGED disk
       \/ At(p, "initializing")
          /\ disk' = [disk EXCEPT !.cluster = "default"] /\ Goto(p, "configure")
    /\ UNCHANGED <<db, postgres, past>>

configure_postgres(p) ==
    /\ At(p, "configure")
    /\ disk' = [disk EXCEPT !.cluster = "configured"]
    /\ Goto(p, "create")
    /\ UNCHANGED <<db, postgres, past>>

(* postgres --single refuses a data directory that a Postgres runs on, and *)
(* a database that does not exist.                                         *)
SingleUser(p, pc) == At(p, pc) /\ postgres = None

create_database(p) ==
    /\ SingleUser(p, "create")
    /\ db' = IF db = None THEN EmptyDb ELSE db
    /\ Goto(p, "schema")
    /\ UNCHANGED <<disk, postgres, past>>

create_meta_schema(p) ==
    /\ SingleUser(p, "schema") /\ db # None
    /\ db' = [db EXCEPT !.schema = TRUE]
    /\ past' = [past EXCEPT !.installed = @ \/ Runs(p, "bootstrap")]
    /\ Exit(p)
    /\ UNCHANGED <<disk, postgres>>

SingleUserRefused(p) ==
    /\ \E pc \in {"drop", "create", "schema"} :
          At(p, pc) /\ (postgres # None \/ (pc = "schema" /\ db = None))
    /\ Exit(p)
    /\ UNCHANGED <<disk, db, postgres, past>>

(***************************************************************************)
(* clean.                                                                  *)
(***************************************************************************)
IsSetUp == disk.binaries /\ disk.cluster # "absent"

(* The lock file names a process that runs: Postgres, or after a reboot    *)
(* any process that was given the same id.                                 *)
refuse_if_postgres_running(p) == At(p, "start") /\ disk.lock /\ Exit(p) /\ UNCHANGED <<disk, past>>
NoPostgresRunning(p, pc) ==
    /\ At(p, "start") /\ (disk.lock => postgres = None)
    /\ disk' = [disk EXCEPT !.lock = FALSE]
    /\ Enter(p, pc)

CleanCheck(p) ==
    /\ Runs(p, "clean")
    /\ \/ At(p, "start") /\ ~ IsSetUp /\ Exit(p) /\ UNCHANGED <<disk, past>>
       \/ IsSetUp /\ refuse_if_postgres_running(p)
       \/ IsSetUp /\ NoPostgresRunning(p, "drop")
    /\ UNCHANGED <<db, postgres>>

(* Whatever was printed about the database, or pinned of it, is void.      *)
reset_database(p) ==
    /\ SingleUser(p, "drop") /\ disk.cluster # "partial"
    /\ db' = None
    /\ past' = [past EXCEPT !.pinned = None, !.printed = None]
    /\ Goto(p, "create")
    /\ UNCHANGED <<disk, postgres>>

(* Not typing yes, or a cluster that was never finished.                   *)
CleanAborted(p) ==
    /\ At(p, "drop") /\ Exit(p)
    /\ UNCHANGED <<disk, db, postgres, past>>

(***************************************************************************)
(* What the operator does when told to by an error message.                *)
(***************************************************************************)
DeleteTornKey ==
    /\ Running = {} /\ disk.key = Torn
    /\ disk' = [disk EXCEPT !.key = None]
    /\ UNCHANGED <<db, postgres, proc, past>>
DeleteBothDirectories ==
    /\ Running = {} /\ postgres = None /\ disk.binaries
    /\ disk' = [disk EXCEPT !.binaries = FALSE, !.cluster = "absent", !.lock = FALSE]
    /\ db' = None
    /\ past' = [past EXCEPT !.pinned = None, !.printed = None, !.installed = FALSE]
    /\ UNCHANGED <<postgres, proc>>

InstallStep(p) ==
    \/ AlreadySetUp(p) \/ Fetch(p) \/ Install(p) \/ initdb(p) \/ configure_postgres(p)
    \/ create_database(p) \/ create_meta_schema(p) \/ SingleUserRefused(p)
    \/ CleanCheck(p) \/ reset_database(p) \/ CleanAborted(p)
=============================================================================
