-------------------------- MODULE DeploymentProofs --------------------------
(***************************************************************************)
(* One host, proved for any number of programs, launches, faults and       *)
(* migrations.  As long as programs do not overlap at most one of them is  *)
(* past its first check; what that one holds - a key, an identity, a code  *)
(* - agrees with the disk and the database at every step, so a kill at any *)
(* of them leaves what the next start needs.                               *)
(***************************************************************************)
EXTENDS Deployment, TLAPS

Disk == [binaries : BOOLEAN, cluster : {"absent", "partial", "default", "configured"},
         lock : BOOLEAN, key : Nat \cup {None}]
Places == {"start", "install", "initdb", "initializing", "configure", "create", "schema", "drop",
           "spawn", "ready", "connect", "migrate", "apply", "count", "key", "write", "identity",
           "seal", "mint", "print", "bind", "serving", "joining", "close", "stop"}
Program == [tool : Tools, pc : Places,
            key : Nat \cup {None}, id : Nat \cup {None}, code : Nat \cup {None},
            pool : BOOLEAN, calls : Nat, streams : Nat, signalled : BOOLEAN]
Past == [drawn : Nat, pinned : Nat \cup {None}, printed : Nat \cup {None}, installed : BOOLEAN,
         overlap : BOOLEAN, runs : Nat, faults : Nat]
Types ==
    /\ disk \in Disk /\ db \in Db \cup {None} /\ past \in Past
    /\ proc \in [Procs -> Program \cup {None}]

(* From the connection to the drained shutdown a program has its pool, and *)
(* calls and streams there are only while a server serves or drains.       *)
Pooled == {"migrate", "apply", "count", "key", "write", "identity", "seal", "mint", "bind",
           "serving", "joining"}
PoolOK(p) ==
    /\ proc[p].pc \in Pooled => proc[p].pool
    /\ proc[p].pc \in {"serving", "joining"} \/ proc[p].calls + proc[p].streams = 0

Idle(p) == p \in Running => proc[p].pc = "start"
Alone == \A p, q \in Procs : p # q => Idle(p) \/ Idle(q)

(* The key on disk opens the identity; what is pinned and what is printed  *)
(* are in the database.                                                    *)
Whole(key) == key \notin {None, Torn}
Stored ==
    /\ db # None /\ db.identity # None => disk.key = db.identity.key /\ Whole(disk.key)
    /\ past.pinned # None =>
          db # None /\ db.identity # None /\ db.identity.public = past.pinned
    /\ past.printed # None => db # None /\ db.code = past.printed

(* What the one program that is under way holds. *)
Holds(p) ==
    /\ At(p, "write") => disk.key = Torn /\ Whole(proc[p].key)
    /\ At(p, "identity") \/ At(p, "seal") => disk.key = proc[p].key /\ Whole(disk.key)
    /\ At(p, "seal") => db # None /\ db.identity = None
    /\ At(p, "bind") \/ At(p, "serving") =>
          db # None /\ db.identity # None /\ db.identity.public = proc[p].id
    /\ At(p, "print") => db # None /\ db.code = proc[p].code

Consistent == Alone /\ Stored /\ \A p \in Procs : Holds(p)
IInv ==
    /\ Types
    /\ \A p \in Running : PoolOK(p)
    /\ ~ past.overlap => Consistent

-----------------------------------------------------------------------------
(* The initial state. *)
LEMMA InitIInv == Init => IInv
<1> SUFFICES ASSUME Init PROVE IInv
  OBVIOUS
<1>1. Running = {}
  BY DEF Init, Running
<1>2. Types
  BY InstallationAssumption DEF Init, Types, Disk, Past, Db
<1>3. Consistent
  BY <1>1, InstallationAssumption DEF Init, Consistent, Alone, Idle, Stored, Holds, At, Whole
<1> QED  BY <1>1, <1>2, <1>3 DEF IInv

-----------------------------------------------------------------------------
(* What moving a program does to it: the others stay as they are, and of   *)
(* the program itself no more changes than its place says.                 *)
Others(p) == \A q \in Procs \ {p} : proc'[q] = proc[q]
Moved(p, pc) ==
    /\ proc' \in [Procs -> Program \cup {None}] /\ Others(p)
    /\ proc'[p] \in Program /\ proc'[p].pc = pc
    /\ proc'[p].calls = proc[p].calls /\ proc'[p].streams = proc[p].streams

LEMMA RunningProgram ==
    ASSUME Types, NEW p \in Running
    PROVE  p \in Procs /\ proc[p] \in Program /\ proc[p] # None
  BY DEF Types, Running

LEMMA Going ==
    ASSUME Types, NEW p \in Running, NEW pc \in Places, Goto(p, pc)
    PROVE  /\ Moved(p, pc) /\ proc'[p].key = proc[p].key /\ proc'[p].id = proc[p].id
           /\ proc'[p].code = proc[p].code /\ proc'[p].pool = proc[p].pool
<1> DEFINE h == [proc[p] EXCEPT !.pc = pc]
<1>1. p \in Procs /\ proc[p] \in Program
  BY RunningProgram
<1>2. /\ h \in Program /\ h.pc = pc /\ h.key = proc[p].key /\ h.id = proc[p].id
      /\ h.code = proc[p].code /\ h.pool = proc[p].pool
      /\ h.calls = proc[p].calls /\ h.streams = proc[p].streams
  BY <1>1 DEF Program
<1>3. proc' = [proc EXCEPT ![p] = h]
  BY DEF Goto
<1> HIDE DEF h
<1> QED  BY <1>1, <1>2, <1>3 DEF Types, Moved, Others

LEMMA Leaving ==
    ASSUME Types, NEW p \in Running, Leave(p)
    PROVE  Moved(p, "stop")
<1> DEFINE h == [proc[p] EXCEPT !.pc = "stop", !.pool = FALSE]
<1>1. p \in Procs /\ proc[p] \in Program
  BY RunningProgram
<1>2. h \in Program /\ h.pc = "stop" /\ h.calls = proc[p].calls /\ h.streams = proc[p].streams
  BY <1>1 DEF Program, Places
<1>3. proc' = [proc EXCEPT ![p] = h]
  BY DEF Leave
<1> HIDE DEF h
<1> QED  BY <1>1, <1>2, <1>3 DEF Types, Moved, Others

LEMMA Exiting ==
    ASSUME Types, NEW p \in Running, Exit(p)
    PROVE  proc' \in [Procs -> Program \cup {None}] /\ Others(p) /\ proc'[p] = None
  BY DEF Types, Exit, Others, Running

-----------------------------------------------------------------------------
(* A program past its first check is alone while programs do not overlap:  *)
(* its step needs to keep no more than its own part and what is stored.    *)
LEMMA Solo ==
    ASSUME IInv, Types', NEW p \in Running, proc[p].pc # "start", Others(p),
           past'.overlap = past.overlap, p \in Running' => PoolOK(p)',
           Consistent /\ ~ past.overlap => Stored' /\ Holds(p)'
    PROVE  IInv'
<1> USE DEF Others
<1>1. p \in Procs
  BY DEF Running
<1>2. \A q \in Running' : PoolOK(q)'
  BY <1>1 DEF IInv, PoolOK, Running
<1>3. ASSUME ~ past.overlap PROVE Consistent'
  <2>1. Consistent /\ Stored' /\ Holds(p)'
    BY <1>3 DEF IInv
  <2>2. ~ Idle(p)
    BY DEF Idle
  <2>3. \A q \in Procs \ {p} : Idle(q)
    BY <1>1, <2>1, <2>2 DEF Consistent, Alone
  <2>4. \A q \in Procs \ {p} : Idle(q)'
    BY <2>3 DEF Idle, Running
  <2>5. \A q \in Procs \ {p} : Holds(q)'
    BY <2>4 DEF Idle, Holds, At
  <2> QED  BY <1>1, <2>1, <2>4, <2>5 DEF Consistent, Alone
<1> QED  BY <1>2, <1>3 DEF IInv

(* Such a step that leaves alone what is stored, and ends where the program *)
(* holds nothing that matters.                                             *)
Held == <<disk.key, db, past.pinned, past.printed>>
Bearing == {"write", "identity", "seal", "bind", "serving", "print"}

LEMMA StoredStays == ASSUME Stored, UNCHANGED Held PROVE Stored'
  BY DEF Stored, Held, Whole

LEMMA Plain ==
    ASSUME IInv, disk' \in Disk, past' \in Past, UNCHANGED Held, past'.overlap = past.overlap,
           NEW p \in Running, proc[p].pc # "start",
           NEW pc \in Places, Moved(p, pc), pc \notin Bearing \cup {"joining"},
           proc[p].pc \notin {"serving", "joining"} \/ proc[p].calls + proc[p].streams = 0,
           pc \in Pooled => proc'[p].pool
    PROVE  IInv'
<1>1. Types'
  BY DEF IInv, Types, Moved, Held
<1>2. PoolOK(p)'
  BY DEF IInv, PoolOK, Moved, Bearing
<1>3. Consistent => Stored' /\ Holds(p)'
  BY StoredStays DEF Consistent, Holds, At, Moved, Bearing
<1> QED  BY <1>1, <1>2, <1>3, Solo DEF Moved

(* A program that ends, by itself or killed, takes nothing with it.        *)
LEMMA Ends ==
    ASSUME IInv, disk' \in Disk, past' \in Past, UNCHANGED Held, past'.overlap = past.overlap,
           NEW p \in Running, Exit(p)
    PROVE  IInv'
<1>1. proc' \in [Procs -> Program \cup {None}] /\ Others(p) /\ proc'[p] = None
  BY Exiting DEF IInv
<1>2. Types'
  BY <1>1 DEF IInv, Types, Held
<1>3. p \in Procs /\ p \notin Running'
  BY <1>1 DEF Running
<1>4. CASE proc[p].pc # "start"
  <2>1. Consistent => Stored' /\ Holds(p)'
    BY <1>3, StoredStays DEF Consistent, Holds, At
  <2> QED  BY <1>1, <1>2, <1>3, <1>4, <2>1, Solo
<1>5. CASE proc[p].pc = "start"
  <2>1. \A q \in Running' : q \in Running /\ q # p /\ proc'[q] = proc[q]
    BY <1>1, <1>3 DEF Running, Others
  <2>2. \A q \in Running' : PoolOK(q)'
    BY <2>1 DEF IInv, PoolOK
  <2>3. ASSUME Consistent PROVE Consistent'
    <3>1. Alone'
      BY <2>1, <2>3 DEF Consistent, Alone, Idle
    <3>2. Stored'
      BY <2>3, StoredStays DEF Consistent
    <3>3. \A q \in Procs : Holds(q)'
      BY <2>1, <2>3 DEF Consistent, Holds, At, Held, Whole
    <3> QED  BY <3>1, <3>2, <3>3 DEF Consistent
  <2> QED  BY <1>2, <2>2, <2>3 DEF IInv
<1> QED  BY <1>4, <1>5

(* A check is passed: either nobody else is past their first, or from here *)
(* on programs overlap.                                                    *)
LEMMA Enters ==
    ASSUME IInv, disk' \in Disk, disk'.key = disk.key, UNCHANGED db,
           NEW p \in Running, proc[p].pc \notin {"serving", "joining"},
           NEW pc \in Places, Enter(p, pc), pc \notin Bearing \cup Pooled
    PROVE  IInv'
<1> USE DEF IInv
<1>1. Moved(p, pc) /\ p \in Procs
  BY Going, RunningProgram DEF Enter
<1>2. /\ past' \in Past /\ past'.pinned = past.pinned /\ past'.printed = past.printed
      /\ past'.overlap = (past.overlap \/ \E q \in Running \ {p} : proc[q].pc # "start")
  BY DEF Enter, Types, Past
<1>3. Types'
  BY <1>1, <1>2 DEF Types, Moved
<1>4. PoolOK(p)'
  BY <1>1 DEF PoolOK, Moved, Pooled
<1>5. \A q \in Running' : PoolOK(q)'
  BY <1>1, <1>4 DEF PoolOK, Running, Moved, Others
<1>6. ASSUME ~ past'.overlap PROVE Consistent'
  <2>1. Consistent /\ \A q \in Running \ {p} : proc[q].pc = "start"
    BY <1>2, <1>6
  <2>2. \A q \in Procs \ {p} : Idle(q)'
    BY <1>1, <2>1 DEF Moved, Others, Idle, Running
  <2>3. Alone'
    BY <2>2 DEF Alone
  <2>4. Stored'
    BY <1>2, <2>1, StoredStays DEF Consistent, Held
  <2>5. \A q \in Procs \ {p} : Holds(q)'
    BY <2>2 DEF Holds, At, Idle
  <2>6. Holds(p)'
    BY <1>1 DEF Holds, At, Moved, Bearing
  <2> QED  BY <2>3, <2>4, <2>5, <2>6 DEF Consistent
<1> QED  BY <1>3, <1>5, <1>6

-----------------------------------------------------------------------------
(* bootstrap and clean. *)
LEMMA DiskFields ==
    ASSUME disk \in Disk, NEW c \in {"partial", "default", "configured"}, NEW b \in BOOLEAN
    PROVE  /\ \A d \in {[disk EXCEPT !.binaries = TRUE], [disk EXCEPT !.cluster = c],
                        [disk EXCEPT !.lock = b]} : d \in Disk /\ d.key = disk.key
  BY DEF Disk

LEMMA AwayIsRunning ==
    ASSUME NEW p, NEW pc, At(p, pc) PROVE p \in Running /\ proc[p].pc = pc
  BY DEF At

LEMMA InstallMoves ==
    ASSUME IInv, NEW p \in Procs, Install(p) \/ initdb(p) \/ configure_postgres(p)
    PROVE  IInv'
<1>0. /\ p \in Running /\ proc[p].pc \in {"install", "initdb", "initializing", "configure"}
      /\ UNCHANGED <<db, past>> /\ past \in Past
  BY DEF Install, initdb, configure_postgres, At, IInv, Types
<1>1. disk' \in Disk /\ disk'.key = disk.key
  BY DiskFields DEF Install, initdb, configure_postgres, IInv, Types
<1>2. Exit(p) \/ \E pc \in {"initdb", "initializing", "configure", "create"} : Goto(p, pc)
  BY DEF Install, initdb, configure_postgres
<1>3. CASE Exit(p)
  BY <1>0, <1>1, <1>3, Ends DEF Held
<1>4. ASSUME NEW pc \in {"initdb", "initializing", "configure", "create"}, Goto(p, pc)
      PROVE  IInv'
  <2>1. pc \in Places \ (Bearing \cup Pooled)
    BY DEF Places, Bearing, Pooled
  <2>2. Moved(p, pc)
    BY <1>0, <1>4, <2>1, Going DEF IInv
  <2> QED  BY <1>0, <1>1, <2>1, <2>2, Plain DEF Held, Pooled
<1> QED  BY <1>2, <1>3, <1>4

(* A database keeps its rows, and a new one has none.                      *)
KeepsRows ==
    /\ db' \in Db
    /\ db # None => db'.identity = db.identity /\ db'.code = db.code
    /\ db = None => db'.identity = None

LEMMA RowsStay ==
    ASSUME Stored, KeepsRows, disk'.key = disk.key,
           past'.pinned = past.pinned, past'.printed = past.printed
    PROVE  Stored'
<1>1. db' # None
  BY RowAssumption DEF KeepsRows
<1> QED  BY <1>1 DEF Stored, KeepsRows, Whole

LEMMA CreateDatabase ==
    ASSUME IInv, NEW p \in Procs, create_database(p)
    PROVE  IInv'
<1>1. p \in Running /\ proc[p].pc = "create" /\ Goto(p, "schema") /\ UNCHANGED <<disk, past>>
  BY DEF create_database, SingleUser, At
<1>2. Moved(p, "schema")
  BY <1>1, Going DEF IInv, Places
<1>3. KeepsRows
  BY InstallationAssumption DEF create_database, KeepsRows, EmptyDb, Db, IInv, Types
<1>4. Types'
  BY <1>1, <1>2, <1>3 DEF IInv, Types, Moved, KeepsRows
<1>5. PoolOK(p)'
  BY <1>1, <1>2 DEF PoolOK, Moved, IInv, Pooled
<1>6. Consistent => Stored' /\ Holds(p)'
  BY <1>1, <1>2, <1>3, RowsStay DEF Consistent, Holds, At, Moved
<1> QED  BY <1>1, <1>2, <1>4, <1>5, <1>6, Solo DEF Moved

LEMMA CreateMetaSchema ==
    ASSUME IInv, NEW p \in Procs, create_meta_schema(p)
    PROVE  IInv'
<1>1. p \in Running /\ proc[p].pc = "schema" /\ Exit(p) /\ UNCHANGED disk /\ db # None
  BY DEF create_meta_schema, SingleUser, At
<1>2. proc' \in [Procs -> Program \cup {None}] /\ Others(p) /\ p \notin Running'
  BY <1>1, Exiting DEF IInv, Running
<1>3. /\ past' \in Past /\ past'.pinned = past.pinned /\ past'.printed = past.printed
      /\ past'.overlap = past.overlap
  BY DEF create_meta_schema, IInv, Types, Past, Runs
<1>4. KeepsRows
  BY <1>1 DEF create_meta_schema, KeepsRows, Db, IInv, Types
<1>5. Types'
  BY <1>1, <1>2, <1>3, <1>4 DEF IInv, Types, KeepsRows
<1>6. Consistent => Stored' /\ Holds(p)'
  BY <1>1, <1>2, <1>3, <1>4, RowsStay DEF Consistent, Holds, At
<1> QED  BY <1>1, <1>2, <1>3, <1>5, <1>6, Solo

LEMMA ResetDatabase ==
    ASSUME IInv, NEW p \in Procs, reset_database(p)
    PROVE  IInv'
<1>1. p \in Running /\ proc[p].pc = "drop" /\ Goto(p, "create") /\ UNCHANGED disk /\ db' = None
  BY DEF reset_database, SingleUser, At
<1>2. Moved(p, "create")
  BY <1>1, Going DEF IInv, Places
<1>3. /\ past' \in Past /\ past'.pinned = None /\ past'.printed = None
      /\ past'.overlap = past.overlap
  BY DEF reset_database, IInv, Types, Past
<1>4. Types'
  BY <1>1, <1>2, <1>3 DEF IInv, Types, Moved
<1>5. PoolOK(p)'
  BY <1>1, <1>2 DEF PoolOK, Moved, IInv, Pooled
<1>6. Stored' /\ Holds(p)'
  BY <1>1, <1>2, <1>3 DEF Stored, Holds, At, Moved
<1> QED  BY <1>1, <1>2, <1>3, <1>4, <1>5, <1>6, Solo DEF Moved

LEMMA CleanChecks ==
    ASSUME IInv, NEW p \in Procs, CleanCheck(p)
    PROVE  IInv'
<1>1. p \in Running /\ proc[p].pc = "start" /\ UNCHANGED db /\ disk \in Disk /\ past \in Past
  BY DEF CleanCheck, refuse_if_postgres_running, NoPostgresRunning, At, IInv, Types
<1>2. CASE Exit(p) /\ UNCHANGED <<disk, past>>
  BY <1>1, <1>2, Ends DEF Held
<1>3. CASE disk' = [disk EXCEPT !.lock = FALSE] /\ Enter(p, "drop")
  <2>1. disk' \in Disk /\ disk'.key = disk.key
    BY <1>1, <1>3, DiskFields
  <2> QED  BY <1>1, <1>3, <2>1, Enters DEF Places, Bearing, Pooled
<1> QED  BY <1>2, <1>3 DEF CleanCheck, refuse_if_postgres_running, NoPostgresRunning

LEMMA InstallSteps ==
    ASSUME IInv, NEW p \in Procs, InstallStep(p)
    PROVE  IInv'
<1>0. disk \in Disk /\ past \in Past
  BY DEF IInv, Types
<1>1. CASE AlreadySetUp(p)
  <2>1. /\ p \in Running /\ Exit(p) /\ UNCHANGED <<disk, db>>
        /\ past' = [past EXCEPT !.installed = TRUE]
    BY <1>1 DEF AlreadySetUp, At
  <2>2. past' \in Past /\ UNCHANGED Held /\ past'.overlap = past.overlap
    BY <1>0, <2>1 DEF Past, Held
  <2> QED  BY <1>0, <2>1, <2>2, Ends
<1>2. CASE Fetch(p)
  <2>1. p \in Running /\ proc[p].pc = "start" /\ Enter(p, "install") /\ UNCHANGED <<disk, db>>
    BY <1>2 DEF Fetch, At
  <2> QED  BY <1>0, <2>1, Enters DEF Places, Bearing, Pooled
<1>3. CASE SingleUserRefused(p) \/ CleanAborted(p)
  BY <1>0, <1>3, Ends DEF SingleUserRefused, CleanAborted, At, Held
<1> QED
  BY <1>1, <1>2, <1>3, InstallMoves, CreateDatabase, CreateMetaSchema, ResetDatabase, CleanChecks
  DEF InstallStep

-----------------------------------------------------------------------------
(* The way to a ready database. *)
LEMMA Starts ==
    ASSUME IInv, NEW p \in Procs, ProvisionCheck(p) \/ start(p) \/ NotStarted(p)
    PROVE  IInv'
<1>1. /\ p \in Running /\ proc[p].pc \in {"start", "spawn"} /\ UNCHANGED db
      /\ disk \in Disk /\ past \in Past
  BY DEF ProvisionCheck, refuse_if_postgres_running, NoPostgresRunning, start, NotStarted,
         MayStart, At, IInv, Types
<1>2. \/ disk' = disk
      \/ \E b \in BOOLEAN : disk' = [disk EXCEPT !.lock = b]
  BY <1>1 DEF ProvisionCheck, refuse_if_postgres_running, NoPostgresRunning, start, NotStarted, Disk
<1>3. disk' \in Disk /\ disk'.key = disk.key
  BY <1>1, <1>2, DiskFields
<1>4. (Exit(p) /\ UNCHANGED past) \/ \E pc \in {"spawn", "ready", "connect"} : Enter(p, pc)
  BY DEF ProvisionCheck, refuse_if_postgres_running, NoPostgresRunning, start, NotStarted,
         AfterReady
<1>5. CASE Exit(p) /\ UNCHANGED past
  BY <1>1, <1>3, <1>5, Ends DEF Held
<1>6. ASSUME NEW pc \in {"spawn", "ready", "connect"}, Enter(p, pc) PROVE IInv'
  <2>1. pc \in Places \ (Bearing \cup Pooled)
    BY DEF Places, Bearing, Pooled
  <2> QED  BY <1>1, <1>3, <1>6, <2>1, Enters
<1> QED  BY <1>4, <1>5, <1>6

(* Giving up closes the pool first, from any step of the start. *)
LEMMA GivesUp ==
    ASSUME IInv, UNCHANGED <<disk, db>>, past' \in Past, past'.pinned = past.pinned,
           past'.printed = past.printed, past'.overlap = past.overlap,
           NEW p \in Running, proc[p].pc \notin {"start", "serving", "joining"}, Leave(p)
    PROVE  IInv'
<1>1. Moved(p, "stop")
  BY Leaving DEF IInv
<1>2. disk' \in Disk
  BY DEF IInv, Types
<1> QED  BY <1>1, <1>2, Plain DEF Held, Places, Bearing, Pooled

LEMMA Advances ==
    ASSUME IInv, UNCHANGED <<disk, db, past>>, NEW p \in Running,
           proc[p].pc \notin {"start", "serving", "joining"},
           NEW pc \in Places, Goto(p, pc), pc \notin Bearing \cup {"joining"},
           pc \in Pooled => proc[p].pool
    PROVE  IInv'
<1>1. Moved(p, pc) /\ proc'[p].pool = proc[p].pool
  BY Going DEF IInv
<1> QED  BY <1>1, Plain DEF Held, IInv, Types

LEMMA Connects ==
    ASSUME IInv, NEW p \in Procs, wait_until_ready(p) \/ connect(p)
    PROVE  IInv'
<1>0. disk' \in Disk /\ past' \in Past /\ UNCHANGED <<disk, db, past>> /\ UNCHANGED Held
  BY DEF wait_until_ready, connect, Quiet, IInv, Types, Held
<1>1. CASE wait_until_ready(p)
  <2>1. p \in Running /\ proc[p].pc = "ready"
    BY <1>1 DEF wait_until_ready, At
  <2>2. CASE Goto(p, "connect")
    BY <1>0, <2>1, <2>2, Advances DEF Places, Bearing, Pooled
  <2>3. CASE Exit(p)
    BY <1>0, <2>1, <2>3, Ends
  <2> QED  BY <1>1, <2>2, <2>3 DEF wait_until_ready
<1>2. CASE connect(p)
  <2> DEFINE h == [proc[p] EXCEPT !.pc = "migrate", !.pool = TRUE]
  <2>1. p \in Running /\ proc[p].pc = "connect" /\ proc[p] \in Program
    BY <1>2, RunningProgram DEF connect, Sql, At, IInv
  <2>2. /\ h \in Program /\ h.pc = "migrate" /\ h.pool = TRUE
        /\ h.calls = proc[p].calls /\ h.streams = proc[p].streams
    BY <2>1 DEF Program, Places
  <2>3. proc' = [proc EXCEPT ![p] = h]
    BY <1>2 DEF connect
  <2> HIDE DEF h
  <2>4. Moved(p, "migrate") /\ proc'[p].pool
    BY <2>2, <2>3 DEF IInv, Types, Moved, Others
  <2> QED  BY <1>0, <2>1, <2>4, Plain DEF Places, Bearing
<1> QED  BY <1>1, <1>2

(* A step that changes the database and none of its rows. *)
LEMMA Migrates ==
    ASSUME IInv, UNCHANGED <<disk, past>>, KeepsRows, NEW p \in Running,
           proc[p].pc \notin {"start", "serving", "joining"},
           NEW pc \in Places, Moved(p, pc), pc \notin Bearing \cup {"joining"},
           pc \in Pooled => proc'[p].pool
    PROVE  IInv'
<1>1. Types'
  BY DEF IInv, Types, Moved, KeepsRows
<1>2. PoolOK(p)'
  BY DEF IInv, PoolOK, Moved, Bearing
<1>3. Consistent => Stored' /\ Holds(p)'
  BY RowsStay DEF Consistent, Holds, At, Moved, Bearing
<1> QED  BY <1>1, <1>2, <1>3, Solo DEF Moved

LEMMA OpensJournal ==
    ASSUME IInv, NEW p \in Procs, OpenJournal(p)
    PROVE  IInv'
<1>1. /\ p \in Running /\ proc[p].pc = "migrate" /\ db # None /\ UNCHANGED <<disk, past>>
      /\ proc[p].pool
  BY DEF OpenJournal, Sql, At, Quiet, IInv, PoolOK, Pooled
<1>2. /\ \E j \in {"public", "sylva_meta"} : db' = [db EXCEPT !.journal = j]
      /\ Goto(p, "apply") \/ Leave(p)
  BY DEF OpenJournal
<1>3. KeepsRows
  BY <1>1, <1>2 DEF KeepsRows, Db, IInv, Types
<1>4. CASE Goto(p, "apply")
  <2>1. Moved(p, "apply") /\ proc'[p].pool
    BY <1>1, <1>4, Going DEF IInv, Places
  <2> QED  BY <1>1, <1>3, <2>1, Migrates DEF Places, Bearing
<1>5. CASE Leave(p)
  <2>1. Moved(p, "stop")
    BY <1>1, <1>5, Leaving DEF IInv
  <2> QED  BY <1>1, <1>3, <2>1, Migrates DEF Places, Bearing, Pooled
<1> QED  BY <1>2, <1>4, <1>5

LEMMA RunsMigrations ==
    ASSUME IInv, NEW p \in Procs, run_migrations(p)
    PROVE  IInv'
<1>1. /\ p \in Running /\ proc[p].pc = "apply" /\ db # None /\ UNCHANGED <<disk, past>>
      /\ proc[p].pool
  BY DEF run_migrations, Sql, At, Quiet, IInv, PoolOK, Pooled
<1>2. CASE db.applied < Migrations
  <2> DEFINE a == db.applied + 1
             s == db.schema \/ db.applied + 1 = MetaMigration
  <2>1. db' = [db EXCEPT !.applied = a, !.schema = s] /\ UNCHANGED proc
    BY <1>2 DEF run_migrations
  <2>2. db \in Db /\ a \in Nat /\ s \in BOOLEAN
    BY <1>1 DEF Db, IInv, Types
  <2> HIDE DEF a, s
  <2>3. KeepsRows
    BY <1>1, <2>1, <2>2 DEF KeepsRows, Db
  <2>4. Moved(p, "apply") /\ proc'[p].pool
    BY <1>1, <2>1, RunningProgram DEF Moved, Others, IInv, Types
  <2> QED  BY <1>1, <2>3, <2>4, Migrates DEF Places, Bearing
<1>3. CASE ~ (db.applied < Migrations)
  <2>1. UNCHANGED db /\ \E pc \in {"key", "count"} : Goto(p, pc)
    BY <1>3 DEF run_migrations
  <2> QED  BY <1>1, <2>1, Advances DEF Places, Bearing, Pooled
<1> QED  BY <1>2, <1>3

LEMMA CountsCodes ==
    ASSUME IInv, NEW p \in Procs, CountCodes(p)
    PROVE  IInv'
<1>1. /\ p \in Running /\ proc[p].pc = "count" /\ UNCHANGED <<disk, db, past>>
      /\ proc[p].pool /\ past' \in Past
  BY DEF CountCodes, Sql, At, Quiet, IInv, PoolOK, Pooled, Types
<1>2. Goto(p, "key") \/ Leave(p)
  BY DEF CountCodes
<1>3. CASE Goto(p, "key")
  BY <1>1, <1>3, Advances DEF Places, Bearing, Pooled
<1>4. CASE Leave(p)
  BY <1>1, <1>4, GivesUp
<1> QED  BY <1>2, <1>3, <1>4

-----------------------------------------------------------------------------
(* The key, the identity, the code. *)
LEMMA Draws ==
    ASSUME Types, Draw
    PROVE  /\ past' \in Past /\ Drawn \in Nat /\ Drawn \notin {None, Torn}
           /\ past'.pinned = past.pinned /\ past'.printed = past.printed
           /\ past'.overlap = past.overlap
  BY InstallationAssumption DEF Types, Past, Draw, Drawn, Torn

(* A program goes on with something in its hand. *)
Grips(p, pc, key, id, code) ==
    /\ Moved(p, pc)
    /\ proc'[p].key = key /\ proc'[p].id = id /\ proc'[p].code = code

LEMMA Gripping ==
    ASSUME Types, NEW p \in Running, NEW pc \in Places, NEW h \in Nat \cup {None}
    PROVE  /\ proc' = [proc EXCEPT ![p].pc = pc, ![p].key = h] =>
                 Grips(p, pc, h, proc[p].id, proc[p].code)
           /\ proc' = [proc EXCEPT ![p].pc = pc, ![p].id = h] =>
                 Grips(p, pc, proc[p].key, h, proc[p].code) /\ proc'[p].pool = proc[p].pool
           /\ proc' = [proc EXCEPT ![p].pc = pc, ![p].code = h, ![p].pool = FALSE] =>
                 Grips(p, pc, proc[p].key, proc[p].id, h)
           /\ proc' = [proc EXCEPT ![p].pc = pc, ![p].key = h] => proc'[p].pool = proc[p].pool
<1> DEFINE k == [proc[p] EXCEPT !.pc = pc, !.key = h]
           i == [proc[p] EXCEPT !.pc = pc, !.id = h]
           c == [proc[p] EXCEPT !.pc = pc, !.code = h, !.pool = FALSE]
<1>1. p \in Procs /\ proc[p] \in Program
  BY RunningProgram
<1>2. /\ k \in Program /\ k.pc = pc /\ k.key = h /\ k.id = proc[p].id /\ k.code = proc[p].code
      /\ k.calls = proc[p].calls /\ k.streams = proc[p].streams /\ k.pool = proc[p].pool
  BY <1>1 DEF Program
<1>3. /\ i \in Program /\ i.pc = pc /\ i.key = proc[p].key /\ i.id = h /\ i.code = proc[p].code
      /\ i.calls = proc[p].calls /\ i.streams = proc[p].streams /\ i.pool = proc[p].pool
  BY <1>1 DEF Program
<1>4. /\ c \in Program /\ c.pc = pc /\ c.key = proc[p].key /\ c.id = proc[p].id /\ c.code = h
      /\ c.calls = proc[p].calls /\ c.streams = proc[p].streams
  BY <1>1 DEF Program
<1>5. /\ proc' = [proc EXCEPT ![p].pc = pc, ![p].key = h] => proc' = [proc EXCEPT ![p] = k]
      /\ proc' = [proc EXCEPT ![p].pc = pc, ![p].id = h] => proc' = [proc EXCEPT ![p] = i]
      /\ proc' = [proc EXCEPT ![p].pc = pc, ![p].code = h, ![p].pool = FALSE] =>
            proc' = [proc EXCEPT ![p] = c]
  OBVIOUS
<1> HIDE DEF k, i, c
<1> QED  BY <1>1, <1>2, <1>3, <1>4, <1>5 DEF Types, Grips, Moved, Others

LEMMA LoadsKey ==
    ASSUME IInv, NEW p \in Procs, load_secret_key(p)
    PROVE  IInv'
<1>1. /\ p \in Running /\ proc[p].pc = "key" /\ UNCHANGED db /\ proc[p].pool /\ Types
      /\ proc[p].calls + proc[p].streams = 0 /\ disk \in Disk
  BY DEF load_secret_key, At, IInv, PoolOK, Pooled, Types
<1>2. CASE Leave(p) /\ UNCHANGED <<disk, past>>
  <2>1. past' \in Past
    BY <1>1, <1>2 DEF Types
  <2> QED  BY <1>1, <1>2, <2>1, GivesUp
<1>3. CASE /\ disk.key \notin {None, Torn} /\ UNCHANGED <<disk, past>>
           /\ proc' = [proc EXCEPT ![p].pc = "identity", ![p].key = disk.key]
  <2>1. disk.key \in Nat \cup {None}
    BY <1>1 DEF Disk
  <2>2. Grips(p, "identity", disk.key, proc[p].id, proc[p].code) /\ proc'[p].pool
    BY <1>1, <1>3, <2>1, Gripping DEF Places
  <2>3. Types' /\ PoolOK(p)'
    BY <1>1, <1>3, <2>2 DEF Types, Grips, Moved, PoolOK
  <2>4. Consistent => Stored' /\ Holds(p)'
    BY <1>1, <1>3, <2>2, StoredStays DEF Consistent, Holds, At, Grips, Moved, Whole, Held
  <2> QED  BY <1>1, <1>3, <2>2, <2>3, <2>4, Solo DEF Grips, Moved
<1>4. CASE /\ disk.key = None /\ Draw /\ disk' = [disk EXCEPT !.key = Torn]
           /\ proc' = [proc EXCEPT ![p].pc = "write", ![p].key = Drawn]
  <2>1. /\ past' \in Past /\ Drawn \in Nat /\ Drawn \notin {None, Torn}
        /\ past'.pinned = past.pinned /\ past'.printed = past.printed
        /\ past'.overlap = past.overlap
    BY <1>1, <1>4, Draws
  <2>2. Grips(p, "write", Drawn, proc[p].id, proc[p].code) /\ proc'[p].pool
    BY <1>1, <1>4, <2>1, Gripping DEF Places
  <2>3. disk' \in Disk /\ disk'.key = Torn
    BY <1>1, <1>4 DEF Disk, Torn
  <2>4. Types' /\ PoolOK(p)'
    BY <1>1, <2>1, <2>2, <2>3 DEF Types, Grips, Moved, PoolOK
  <2>5. Stored => Stored'
    BY <1>1, <1>4, <2>1 DEF Stored, Whole
  <2>6. Holds(p)'
    BY <2>1, <2>2, <2>3 DEF Holds, At, Grips, Moved, Whole
  <2> QED  BY <1>1, <2>1, <2>2, <2>4, <2>5, <2>6, Solo DEF Grips, Moved, Consistent
<1> QED  BY <1>2, <1>3, <1>4 DEF load_secret_key

LEMMA WritesKey ==
    ASSUME IInv, NEW p \in Procs, write_secret_key(p)
    PROVE  IInv'
<1>1. /\ p \in Running /\ proc[p].pc = "write" /\ UNCHANGED <<db, past>> /\ proc[p].pool /\ Types
      /\ proc[p].calls + proc[p].streams = 0 /\ disk' = [disk EXCEPT !.key = proc[p].key]
      /\ Goto(p, "identity")
  BY DEF write_secret_key, At, IInv, PoolOK, Pooled
<1>2. Moved(p, "identity") /\ proc'[p].pool /\ proc'[p].key = proc[p].key
  BY <1>1, Going DEF Places
<1>3. disk' \in Disk /\ disk'.key = proc[p].key
  BY <1>1, RunningProgram DEF Types, Disk, Program
<1>4. Types' /\ PoolOK(p)'
  BY <1>1, <1>2, <1>3 DEF Types, Moved, PoolOK
<1>5. ASSUME Consistent PROVE Stored' /\ Holds(p)'
  <2>1. Stored /\ Holds(p) /\ disk.key = Torn /\ Whole(proc[p].key)
    BY <1>1, <1>5 DEF Consistent, Holds, At
  <2>2. Stored'
    BY <1>1, <2>1 DEF Stored, Whole
  <2>3. Holds(p)'
    BY <1>1, <1>2, <1>3, <2>1 DEF Holds, At, Moved, Whole
  <2> QED  BY <2>2, <2>3
<1> QED  BY <1>1, <1>2, <1>4, <1>5, Solo DEF Moved

LEMMA LoadsIdentity ==
    ASSUME IInv, NEW p \in Procs, LoadIdentity(p)
    PROVE  IInv'
<1>1. /\ p \in Running /\ proc[p].pc = "identity" /\ UNCHANGED <<disk, db>> /\ proc[p].pool
      /\ Types /\ proc[p].calls + proc[p].streams = 0 /\ db # None /\ db \in Db
  BY DEF LoadIdentity, Sql, At, IInv, PoolOK, Pooled, Types
<1>2. CASE Leave(p) /\ UNCHANGED past
  BY <1>1, <1>2, GivesUp DEF Types
<1>3. CASE /\ db.identity # None /\ UNCHANGED past
           /\ proc' = [proc EXCEPT ![p].pc = AfterIdentity(p), ![p].id = db.identity.public]
  <2>1. PICK pc \in {"bind", "mint"} : AfterIdentity(p) = pc
    BY DEF AfterIdentity
  <2>2. db.identity.public \in Nat \cup {None}
    BY <1>1, <1>3 DEF Db, Identity
  <2>3. Grips(p, pc, proc[p].key, db.identity.public, proc[p].code) /\ proc'[p].pool
    BY <1>1, <1>3, <2>1, <2>2, Gripping DEF Places
  <2>4. Types' /\ PoolOK(p)'
    BY <1>1, <1>3, <2>1, <2>3 DEF Types, Grips, Moved, PoolOK
  <2>5. Consistent => Stored' /\ Holds(p)'
    BY <1>1, <1>3, <2>1, <2>3, StoredStays DEF Consistent, Holds, At, Grips, Moved, Held
  <2> QED  BY <1>1, <1>3, <2>3, <2>4, <2>5, Solo DEF Grips, Moved
<1>4. CASE /\ db.identity = None /\ Draw
           /\ proc' = [proc EXCEPT ![p].pc = "seal", ![p].id = Drawn]
  <2>1. /\ past' \in Past /\ Drawn \in Nat
        /\ past'.pinned = past.pinned /\ past'.printed = past.printed
        /\ past'.overlap = past.overlap
    BY <1>1, <1>4, Draws
  <2>2. Grips(p, "seal", proc[p].key, Drawn, proc[p].code) /\ proc'[p].pool
    BY <1>1, <1>4, <2>1, Gripping DEF Places
  <2>3. Types' /\ PoolOK(p)'
    BY <1>1, <2>1, <2>2 DEF Types, Grips, Moved, PoolOK
  <2>4. Consistent => Stored'
    BY <1>1, <2>1, StoredStays DEF Consistent, Held
  <2>5. Consistent => Holds(p)'
    BY <1>1, <1>4, <2>2 DEF Consistent, Holds, At, Grips, Moved, Whole
  <2> QED  BY <1>1, <2>1, <2>2, <2>3, <2>4, <2>5, Solo DEF Grips, Moved
<1> QED  BY <1>2, <1>3, <1>4 DEF LoadIdentity

LEMMA StoresIdentity ==
    ASSUME IInv, NEW p \in Procs, ensure_server_identity(p)
    PROVE  IInv'
<1> DEFINE i == [public |-> proc[p].id, key |-> proc[p].key]
<1>1. /\ p \in Running /\ proc[p].pc = "seal" /\ UNCHANGED <<disk, past>> /\ proc[p].pool
      /\ Types /\ proc[p].calls + proc[p].streams = 0 /\ db # None /\ db \in Db
      /\ db' = [db EXCEPT !.identity = i] /\ Goto(p, AfterIdentity(p))
  BY DEF ensure_server_identity, Sql, At, IInv, PoolOK, Pooled, Types, Quiet
<1>2. PICK pc \in {"bind", "mint"} : AfterIdentity(p) = pc
  BY DEF AfterIdentity
<1>3. Moved(p, pc) /\ proc'[p].pool /\ proc'[p].id = proc[p].id
  BY <1>1, <1>2, Going DEF Places
<1>4. i \in Identity /\ i # None /\ i.public = proc[p].id /\ i.key = proc[p].key
  BY <1>1, RunningProgram, RowAssumption DEF Identity, Program
<1> HIDE DEF i
<1>5. db' \in Db /\ db'.identity = i /\ db'.code = db.code /\ db' # None
  BY <1>1, <1>4, RowAssumption DEF Db
<1>6. Types' /\ PoolOK(p)'
  BY <1>1, <1>2, <1>3, <1>5 DEF Types, Moved, PoolOK
<1>7. ASSUME Consistent PROVE Stored' /\ Holds(p)'
  <2>1. Stored /\ disk.key = proc[p].key /\ Whole(disk.key) /\ db.identity = None
    BY <1>1, <1>7 DEF Consistent, Holds, At
  <2>2. Stored'
    BY <1>1, <1>4, <1>5, <2>1 DEF Stored, Whole
  <2>3. Holds(p)'
    BY <1>2, <1>3, <1>4, <1>5 DEF Holds, At, Moved
  <2> QED  BY <2>2, <2>3
<1> QED  BY <1>1, <1>3, <1>6, <1>7, Solo DEF Moved

LEMMA MintsCode ==
    ASSUME IInv, NEW p \in Procs, MintCode(p)
    PROVE  IInv'
<1>1. /\ p \in Running /\ proc[p].pc = "mint" /\ UNCHANGED disk
      /\ Types /\ proc[p].calls + proc[p].streams = 0 /\ db # None /\ db \in Db
  BY DEF MintCode, Sql, At, IInv, PoolOK, Types
<1>2. CASE Leave(p) /\ UNCHANGED <<db, past>>
  BY <1>1, <1>2, GivesUp DEF Types
<1>3. CASE /\ db.code = None /\ Draw /\ db' = [db EXCEPT !.code = Drawn]
           /\ proc' = [proc EXCEPT ![p].pc = "print", ![p].code = Drawn, ![p].pool = FALSE]
  <2>1. /\ past' \in Past /\ Drawn \in Nat
        /\ past'.pinned = past.pinned /\ past'.printed = past.printed
        /\ past'.overlap = past.overlap
    BY <1>1, <1>3, Draws
  <2>2. Grips(p, "print", proc[p].key, proc[p].id, Drawn)
    BY <1>1, <1>3, <2>1, Gripping DEF Places
  <2>3. db' \in Db /\ db' # None /\ db'.identity = db.identity /\ db'.code = Drawn
    BY <1>1, <1>3, <2>1, RowAssumption DEF Db
  <2>4. Types' /\ PoolOK(p)'
    BY <1>1, <2>1, <2>2, <2>3 DEF Types, Grips, Moved, PoolOK, Pooled
  <2>5. Stored => Stored'
    BY <1>1, <1>3, <2>1, <2>3 DEF Stored, Whole
  <2>6. Holds(p)'
    BY <2>2, <2>3 DEF Holds, At, Grips, Moved
  <2> QED  BY <1>1, <2>1, <2>2, <2>4, <2>5, <2>6, Solo DEF Grips, Moved, Consistent
<1> QED  BY <1>2, <1>3 DEF MintCode

LEMMA PrintsCode ==
    ASSUME IInv, NEW p \in Procs, PrintCode(p)
    PROVE  IInv'
<1>1. /\ p \in Running /\ proc[p].pc = "print" /\ UNCHANGED <<disk, db>> /\ Types
      /\ proc[p].calls + proc[p].streams = 0 /\ Goto(p, "stop")
      /\ past' = [past EXCEPT !.printed = proc[p].code]
  BY DEF PrintCode, At, IInv, PoolOK
<1>2. Moved(p, "stop")
  BY <1>1, Going DEF Places
<1>3. /\ past' \in Past /\ past'.pinned = past.pinned /\ past'.printed = proc[p].code
      /\ past'.overlap = past.overlap
  BY <1>1, RunningProgram DEF Types, Past, Program
<1>4. Types' /\ PoolOK(p)'
  BY <1>1, <1>2, <1>3 DEF Types, Moved, PoolOK, Pooled
<1>5. Consistent => Stored' /\ Holds(p)'
  BY <1>1, <1>2, <1>3 DEF Consistent, Stored, Holds, At, Moved, Whole
<1> QED  BY <1>1, <1>2, <1>3, <1>4, <1>5, Solo DEF Moved

LEMMA StartSteps ==
    ASSUME IInv, NEW p \in Procs, StartStep(p)
    PROVE  IInv'
  BY Starts, Connects, OpensJournal, RunsMigrations, CountsCodes, LoadsKey, WritesKey, MintsCode,
     PrintsCode
  DEF StartStep

-----------------------------------------------------------------------------
(* Serving, and the way out.  A step that stays where it is. *)
Stays(p) ==
    /\ proc' \in [Procs -> Program \cup {None}] /\ Others(p)
    /\ proc'[p].pc = proc[p].pc /\ proc'[p].key = proc[p].key /\ proc'[p].id = proc[p].id
    /\ proc'[p].code = proc[p].code /\ proc'[p].pool = proc[p].pool

LEMMA Staying ==
    ASSUME IInv, UNCHANGED <<disk, db, past>>, NEW p \in Running, proc[p].pc # "start",
           Stays(p), PoolOK(p)'
    PROVE  IInv'
<1>1. Types'
  BY DEF IInv, Types, Stays
<1>2. Consistent => Stored'
  BY StoredStays DEF Consistent, Held
<1>3. Consistent => Holds(p)'
  BY DEF Consistent, Holds, At, Stays, Whole, Running
<1> QED  BY <1>1, <1>2, <1>3, Solo DEF Stays

LEMMA Calls ==
    ASSUME IInv, NEW p \in Procs, NEW kind \in {"calls", "streams"},
           Open(p, kind) \/ Close(p, kind)
    PROVE  IInv'
<1>1. p \in Running /\ proc[p] \in Program /\ UNCHANGED <<disk, db, past>> /\ PoolOK(p)
  BY RunningProgram DEF Open, Close, At, IInv
<1>2. proc[p].pc \in {"serving", "joining"}
  BY <1>1 DEF Open, Close, At, PoolOK, Program
<1>3. PICK n \in Nat : proc' = [proc EXCEPT ![p] = [proc[p] EXCEPT ![kind] = n]]
  <2>1. CASE Open(p, kind)
    BY <2>1 DEF Open
  <2>2. CASE Close(p, kind)
    <3>1. proc[p][kind] \in Nat /\ proc[p][kind] > 0
      BY <1>1, <2>2 DEF Close, Program
    <3>2. proc[p][kind] - 1 \in Nat
      BY <3>1
    <3> QED  BY <2>2, <3>2 DEF Close
  <2> QED  BY <2>1, <2>2
<1> DEFINE h == [proc[p] EXCEPT ![kind] = n]
<1>4. /\ h \in Program /\ h.pc = proc[p].pc /\ h.key = proc[p].key /\ h.id = proc[p].id
      /\ h.code = proc[p].code /\ h.pool = proc[p].pool
  BY <1>1 DEF Program
<1>5. proc' = [proc EXCEPT ![p] = h]
  BY <1>3
<1> HIDE DEF h
<1>6. Stays(p)
  BY <1>1, <1>4, <1>5 DEF Stays, Others, IInv, Types
<1>7. PoolOK(p)'
  BY <1>1, <1>2, <1>6 DEF Stays, PoolOK
<1> QED  BY <1>1, <1>2, <1>6, <1>7, Staying

LEMMA Signals ==
    ASSUME IInv, NEW p \in Procs, signal(p)
    PROVE  IInv'
<1> DEFINE h == [proc[p] EXCEPT !.signalled = TRUE]
<1>1. /\ p \in Running /\ proc[p] \in Program /\ UNCHANGED <<disk, db, past>> /\ PoolOK(p)
      /\ proc[p].pc # "start"
  BY RunningProgram DEF signal, Runs, Listening, IInv
<1>2. /\ h \in Program /\ h.pc = proc[p].pc /\ h.key = proc[p].key /\ h.id = proc[p].id
      /\ h.code = proc[p].code /\ h.pool = proc[p].pool
      /\ h.calls = proc[p].calls /\ h.streams = proc[p].streams
  BY <1>1 DEF Program
<1>3. proc' = [proc EXCEPT ![p] = h]
  BY DEF signal
<1> HIDE DEF h
<1>4. Stays(p) /\ PoolOK(p)'
  BY <1>1, <1>2, <1>3 DEF Stays, Others, IInv, Types, PoolOK
<1> QED  BY <1>1, <1>4, Staying

(* The ports are bound and the identity goes on; the client pins it.       *)
LEMMA Binds ==
    ASSUME IInv, NEW p \in Procs, BindPorts(p)
    PROVE  IInv'
<1>1. /\ p \in Running /\ proc[p].pc = "bind" /\ UNCHANGED <<disk, db, past>> /\ Types
      /\ proc[p].pool
  BY DEF BindPorts, At, IInv, PoolOK, Pooled
<1>2. CASE Leave(p)
  BY <1>1, <1>2, GivesUp DEF Types
<1>3. CASE Goto(p, "serving")
  <2>1. Moved(p, "serving") /\ proc'[p].pool /\ proc'[p].id = proc[p].id
    BY <1>1, <1>3, Going DEF Places
  <2>2. Types' /\ PoolOK(p)'
    BY <1>1, <2>1 DEF Types, Moved, PoolOK
  <2>3. Consistent => Stored' /\ Holds(p)'
    BY <1>1, <2>1, StoredStays DEF Consistent, Holds, At, Moved, Held
  <2> QED  BY <1>1, <2>1, <2>2, <2>3, Solo DEF Moved
<1> QED  BY <1>2, <1>3 DEF BindPorts

LEMMA Discovers ==
    ASSUME IInv, NEW p \in Procs, Discover(p)
    PROVE  IInv'
<1>1. /\ p \in Running /\ proc[p].pc = "serving" /\ UNCHANGED <<disk, db, proc>> /\ Types
      /\ past' = [past EXCEPT !.pinned = proc[p].id] /\ PoolOK(p)
  BY DEF Discover, At, IInv
<1>2. /\ past' \in Past /\ past'.pinned = proc[p].id /\ past'.printed = past.printed
      /\ past'.overlap = past.overlap
  BY <1>1, RunningProgram DEF Types, Past, Program
<1>3. Types' /\ PoolOK(p)' /\ Others(p)
  BY <1>1, <1>2 DEF Types, PoolOK, Others
<1>4. Consistent => Stored' /\ Holds(p)'
  BY <1>1, <1>2 DEF Consistent, Stored, Holds, At, Running, Whole
<1> QED  BY <1>1, <1>2, <1>3, <1>4, Solo

LEMMA Drains ==
    ASSUME IInv, NEW p \in Procs, DrainHttp(p) \/ JoinGrpc(p) \/ ClosePool(p)
    PROVE  IInv'
<1>1. /\ p \in Running /\ UNCHANGED <<disk, db, past>> /\ Types /\ PoolOK(p)
      /\ disk' \in Disk /\ past' \in Past /\ UNCHANGED Held
  BY DEF DrainHttp, JoinGrpc, ClosePool, At, IInv, Types, Held
<1>2. CASE DrainHttp(p)
  <2>1. proc[p].pc = "serving" /\ Goto(p, "joining")
    BY <1>2 DEF DrainHttp, At
  <2>2. Moved(p, "joining") /\ proc'[p].pool = proc[p].pool
    BY <1>1, <2>1, Going DEF Places
  <2>3. Types' /\ PoolOK(p)'
    BY <1>1, <2>1, <2>2 DEF Types, Moved, PoolOK, Pooled
  <2>4. Consistent => Stored' /\ Holds(p)'
    BY <1>1, <2>2, StoredStays DEF Consistent, Holds, At, Moved
  <2> QED  BY <1>1, <2>1, <2>2, <2>3, <2>4, Solo DEF Moved
<1>3. CASE JoinGrpc(p)
  <2>1. /\ proc[p].pc = "joining" /\ Goto(p, "close")
        /\ proc[p].calls + proc[p].streams = 0
    BY <1>3 DEF JoinGrpc, At
  <2>2. Moved(p, "close")
    BY <1>1, <2>1, Going DEF Places
  <2> QED  BY <1>1, <2>1, <2>2, Plain DEF Places, Bearing, Pooled
<1>4. CASE ClosePool(p)
  BY <1>1, <1>4, GivesUp DEF ClosePool, At
<1> QED  BY <1>2, <1>3, <1>4

LEMMA Stops ==
    ASSUME IInv, NEW p \in Procs, stop(p)
    PROVE  IInv'
<1>1. p \in Running /\ Exit(p) /\ UNCHANGED <<db, past>> /\ disk \in Disk /\ past \in Past
  BY DEF stop, At, IInv, Types
<1>2. disk' = disk \/ disk' = [disk EXCEPT !.lock = FALSE]
  BY DEF stop
<1>3. disk' \in Disk /\ disk'.key = disk.key
  BY <1>1, <1>2, DiskFields
<1> QED  BY <1>1, <1>3, Ends DEF Held

LEMMA SqlFailures ==
    ASSUME IInv, NEW p \in Procs, SqlFails(p)
    PROVE  IInv'
  BY GivesUp DEF SqlFails, At, IInv, Types

LEMMA ServeSteps ==
    ASSUME IInv, NEW p \in Procs, ServeStep(p)
    PROVE  IInv'
  BY LoadsIdentity, StoresIdentity, SqlFailures, Binds, Drains, Stops, Calls DEF ServeStep

-----------------------------------------------------------------------------
(* Faults. *)
LEMMA Faults ==
    ASSUME Types, Fault
    PROVE  /\ past' \in Past /\ past'.pinned = past.pinned /\ past'.printed = past.printed
           /\ past'.overlap = past.overlap
  BY DEF Types, Past, Fault

LEMMA Kills ==
    ASSUME IInv, NEW p \in Procs, Kill(p)
    PROVE  IInv'
<1>1. p \in Running /\ Exit(p) /\ UNCHANGED <<disk, db>> /\ Fault /\ Types
  BY DEF Kill, IInv
<1>2. /\ past' \in Past /\ UNCHANGED Held /\ past'.overlap = past.overlap /\ disk' \in Disk
  BY <1>1, Faults DEF Held, Types
<1> QED  BY <1>1, <1>2, Ends

LEMMA Fails ==
    ASSUME IInv, NEW p \in Procs, Fail(p)
    PROVE  IInv'
<1>1. p \in Running /\ UNCHANGED <<disk, db>> /\ Fault /\ Types
  BY DEF Fail, Database, Runs, IInv
<1>2. /\ past' \in Past /\ past'.pinned = past.pinned /\ past'.printed = past.printed
      /\ past'.overlap = past.overlap /\ UNCHANGED Held /\ disk' \in Disk
  BY <1>1, Faults DEF Held, Types
<1>3. CASE Exit(p)
  BY <1>1, <1>2, <1>3, Ends
<1>4. CASE /\ proc[p].pc \in {"connect", "migrate", "apply", "count", "key", "write",
                              "identity", "seal", "mint", "bind"}
           /\ Leave(p)
  BY <1>1, <1>2, <1>4, GivesUp
<1> QED  BY <1>3, <1>4 DEF Fail

LEMMA Reboots == ASSUME IInv, Reboot PROVE IInv'
<1>1. /\ proc' = [p \in Procs |-> None] /\ UNCHANGED <<disk, db>> /\ Types
      /\ past' \in Past /\ UNCHANGED Held /\ past'.overlap = past.overlap
  BY Faults DEF Reboot, IInv, Held
<1>2. Running' = {}
  BY <1>1 DEF Running
<1>3. Types'
  BY <1>1 DEF Types
<1>4. Consistent => Consistent'
  BY <1>1, <1>2, StoredStays DEF Consistent, Alone, Idle, Holds, At
<1> QED  BY <1>1, <1>2, <1>3, <1>4 DEF IInv

-----------------------------------------------------------------------------
(* The operator. *)
LEMMA Launches ==
    ASSUME IInv, NEW p \in Procs, NEW tool \in Tools, Launch(p, tool)
    PROVE  IInv'
<1> DEFINE h == [tool |-> tool, pc |-> "start", key |-> None, id |-> None, code |-> None,
                 pool |-> FALSE, calls |-> 0, streams |-> 0, signalled |-> FALSE]
<1>1. /\ p \notin Running /\ UNCHANGED <<disk, db>> /\ Types
      /\ proc' = [proc EXCEPT ![p] = h] /\ past' = [past EXCEPT !.runs = @ + 1]
  BY DEF Launch, IInv
<1>2. h \in Program /\ h.pc = "start" /\ h.calls = 0 /\ h.streams = 0
  BY DEF Program, Places
<1> HIDE DEF h
<1>3. past' \in Past /\ UNCHANGED Held /\ past'.overlap = past.overlap
  BY <1>1 DEF Types, Past, Held
<1>4. /\ proc' \in [Procs -> Program \cup {None}] /\ Others(p) /\ proc'[p].pc = "start"
      /\ proc'[p].calls + proc'[p].streams = 0
  BY <1>1, <1>2 DEF Types, Others
<1>5. Types'
  BY <1>1, <1>3, <1>4 DEF Types
<1>6. \A q \in Running' : PoolOK(q)'
  <2>1. PoolOK(p)'
    BY <1>4 DEF PoolOK, Pooled
  <2>2. ASSUME NEW q \in Running', q # p PROVE PoolOK(q)'
    <3>1. q \in Running /\ proc'[q] = proc[q]
      BY <1>4, <2>2 DEF Running, Others
    <3> QED  BY <3>1 DEF IInv, PoolOK
  <2> QED  BY <2>1, <2>2
<1>7. ASSUME Consistent PROVE Consistent'
  <2>1. Idle(p)' /\ Holds(p)'
    BY <1>4 DEF Idle, Holds, At
  <2>2. \A q \in Procs \ {p} : Idle(q) => Idle(q)'
    BY <1>4 DEF Idle, Running, Others
  <2>3. \A q \in Procs \ {p} : Holds(q)'
    BY <1>1, <1>4, <1>7 DEF Consistent, Holds, At, Running, Others, Whole
  <2>4. Stored'
    BY <1>3, <1>7, StoredStays DEF Consistent
  <2> QED  BY <1>7, <2>1, <2>2, <2>3, <2>4 DEF Consistent, Alone
<1> QED  BY <1>3, <1>5, <1>6, <1>7 DEF IInv

LEMMA Cleanups == ASSUME IInv, DeleteTornKey \/ DeleteBothDirectories PROVE IInv'
<1>1. Running = {} /\ UNCHANGED proc /\ Types
  BY DEF DeleteTornKey, DeleteBothDirectories, IInv
<1>2. Running' = {} /\ (past'.overlap = past.overlap => Alone' /\ \A p \in Procs : Holds(p)')
  BY <1>1 DEF Running, Alone, Idle, Holds, At
<1>3. CASE DeleteTornKey
  <2>1. /\ disk.key = Torn /\ disk' = [disk EXCEPT !.key = None] /\ UNCHANGED <<db, past>>
    BY <1>3 DEF DeleteTornKey
  <2>2. Types'
    BY <1>1, <2>1 DEF Types, Disk
  <2>3. Stored => Stored'
    BY <2>1 DEF Stored, Whole
  <2> QED  BY <1>2, <2>1, <2>2, <2>3 DEF IInv, Consistent
<1>4. CASE DeleteBothDirectories
  <2>1. /\ disk' = [disk EXCEPT !.binaries = FALSE, !.cluster = "absent", !.lock = FALSE]
        /\ db' = None
        /\ past' = [past EXCEPT !.pinned = None, !.printed = None, !.installed = FALSE]
    BY <1>4 DEF DeleteBothDirectories
  <2>2. /\ disk' \in Disk /\ past' \in Past /\ past'.pinned = None /\ past'.printed = None
        /\ past'.overlap = past.overlap
    BY <1>1, <2>1 DEF Types, Disk, Past
  <2>3. Types' /\ Stored'
    BY <1>1, <2>1, <2>2 DEF Types, Stored
  <2> QED  BY <1>2, <2>2, <2>3 DEF IInv, Consistent
<1> QED  BY <1>3, <1>4

-----------------------------------------------------------------------------
LEMMA NextIInv == IInv /\ [Next]_vars => IInv'
<1> SUFFICES ASSUME IInv, [Next]_vars PROVE IInv'
  OBVIOUS
<1>1. CASE Operator
  BY <1>1, Launches, Cleanups DEF Operator
<1>2. CASE Reboot
  BY <1>2, Reboots
<1>3. ASSUME NEW p \in Procs, InstallStep(p) PROVE IInv'
  BY <1>3, InstallSteps
<1>4. ASSUME NEW p \in Procs, StartStep(p) PROVE IInv'
  BY <1>4, StartSteps
<1>5. ASSUME NEW p \in Procs, ServeStep(p) PROVE IInv'
  BY <1>5, ServeSteps
<1>6. ASSUME NEW p \in Procs, Client(p) PROVE IInv'
  BY <1>6, Discovers, Calls DEF Client
<1>7. ASSUME NEW p \in Procs, signal(p) \/ Kill(p) \/ Fail(p) PROVE IInv'
  BY <1>7, Signals, Kills, Fails
<1>8. CASE UNCHANGED vars
  BY <1>8 DEF vars, IInv, Types, Running, PoolOK, Consistent, Alone, Idle, Stored, Holds, At, Whole
<1> QED  BY <1>1, <1>2, <1>3, <1>4, <1>5, <1>6, <1>7, <1>8 DEF Next

-----------------------------------------------------------------------------
(* Whatever is launched, killed, rebooted or cleaned, in any order: as long *)
(* as no two programs overlap, what the one under way holds agrees with the *)
(* disk and the database at each of its steps.                             *)
THEOREM SpecIInv == Spec => []IInv
  BY InitIInv, NextIInv, PTL DEF Spec

(* The key file opens the stored identity after any crash between drawing  *)
(* the key, writing it and sealing with it.                                *)
THEOREM KeyOpens == Spec => []KeyOpensIdentity
<1>1. IInv => KeyOpensIdentity
  BY DEF IInv, Consistent, Stored, KeyOpensIdentity
<1> QED  BY <1>1, SpecIInv, PTL

(* A server that serves shows the identity clients have pinned.            *)
THEOREM IdentityStays == Spec => []IdentityIsStable
<1>1. IInv => IdentityIsStable
  BY DEF IInv, Consistent, Stored, Holds, At, IdentityIsStable
<1> QED  BY <1>1, SpecIInv, PTL

(* The recovery code that was printed is the one the database holds.       *)
THEOREM PrintedWorks == Spec => []PrintedCodeWorks
<1>1. IInv => PrintedCodeWorks
  BY DEF IInv, Consistent, Stored, PrintedCodeWorks
<1> QED  BY <1>1, SpecIInv, PTL

(* No call or stream is in flight on a pool that is closed.                *)
THEOREM PoolClosesLast == Spec => []InFlightHavePool
<1>1. IInv => InFlightHavePool
  <2> SUFFICES ASSUME IInv, NEW p \in Running, proc[p].calls + proc[p].streams > 0
               PROVE  proc[p].pool
    BY DEF InFlightHavePool
  <2>1. PoolOK(p) /\ proc[p] \in Program
    BY RunningProgram DEF IInv
  <2> QED  BY <2>1 DEF PoolOK, Pooled, Program
<1> QED  BY <1>1, SpecIInv, PTL
=============================================================================
