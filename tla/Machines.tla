------------------------------ MODULE Machines ------------------------------
(***************************************************************************)
(* The machine plane: the Machine gRPC service (crates/platform/src/       *)
(* machine.rs) and the machine, session, telemetry and group-key           *)
(* repositories behind it.  Agents call over a network that loses answers  *)
(* and breaks connections without telling the server, so calls of one      *)
(* agent overlap; the server may die between any two statements.  A        *)
(* signature is good (a bad one is refused before the database is touched, *)
(* see RateLimiter), and the lookup of a session may fail at any time, as  *)
(* it does once the session has expired.                                   *)
(***************************************************************************)
EXTENDS Handlers, Sequences, FiniteSets

CONSTANTS Agents,       \* agents, each with an identity key of its own
          MachineIds,   \* identity.machines ids the database may draw
          Batches,      \* telemetry each agent reports, a sequence of batches of seq values
          I64Max,       \* i64::MAX
          ChannelSize,  \* the 8 of mpsc::channel(8)
          MaxAdmin      \* bound: location toggles set and device-admin groups created

ASSUME MachinesAssumption ==
    /\ Batches \in Seq(Seq(Nat)) /\ \A b \in 1..Len(Batches) : Len(Batches[b]) > 0
    /\ ChannelSize \in Nat \ {0} /\ I64Max \in Nat /\ MaxAdmin \in Nat
    /\ None \notin Agents \cup MachineIds

VARIABLES machines,   \* identity.machines
          sessions,   \* identity.machine_sessions: the machine of every token
          telemetry,  \* identity.machine_telemetry, in insertion order
          groups,     \* identity.device_admin_group: created_at of the committed rows
          creating,   \* created_at of the row a create() has not committed, or 0
          agent,      \* what each agent keeps
          admin,      \* toggles set and groups created
          told        \* told[a]: machine ids RegisterMachine answered a with

vars == <<machines, sessions, telemetry, groups, creating, agent, admin, told, handlers>>
tables == <<machines, sessions, telemetry, groups, creating>>

(* checked_in: agent_version is set.  Label, platform and the moment seen *)
(* last, which a registration sets as well, are left out.                 *)
Machine == [key : Agents, location_enabled : BOOLEAN, checked_in : BOOLEAN]
ASSUME MachineRowAssumption == None \notin Machine
Telemetry == [machine : MachineIds, seq : 0..I64Max, agent : Agents, batch : 1..Len(Batches)]
Tokens == 1..MaxCalls
Ops == {"register", "check_in", "report", "subscribe"}

(* A handler: what it was called with, what it has read, and for Subscribe *)
(* the channel to the client.  "was" is kept for the properties: the       *)
(* toggle's values since the call was sent.                                *)
Handler == [op : Ops, pc : {"start", "upserted", "insert", "touch", "location", "group",
                            "config", "ticking", "reply"},
            agent : Agents, token : Tokens \cup {None}, machine : MachineIds \cup {None},
            batch : 0..Len(Batches), at : Nat, open : BOOLEAN, queue : Seq({"config", "keep_alive"}),
            location : BOOLEAN, group : 0..MaxAdmin, was : SUBSET BOOLEAN]
ASSUME MachineHandlerAssumption == None \notin Handler

Keeper == [id : MachineIds \cup {None}, token : Tokens \cup {None}, next : 1..(Len(Batches) + 1),
           stream : Slots \cup {None}, location : BOOLEAN \cup {None}, group : 0..MaxAdmin]

Existing == {m \in MachineIds : machines[m] # None}
Registered(a) == {m \in Existing : machines[m].key = a}
active == IF groups = {} THEN 0 ELSE CHOOSE g \in groups : \A h \in groups : h <= g

Init == /\ machines = [m \in MachineIds |-> None]
        /\ sessions = [t \in {} |-> None]
        /\ telemetry = <<>>
        /\ groups = {} /\ creating = 0
        /\ agent = [a \in Agents |-> [id |-> None, token |-> None, next |-> 1, stream |-> None,
                                      location |-> None, group |-> 0]]
        /\ InitHandlers /\ admin = 0
        /\ told = [a \in Agents |-> {}]

(***************************************************************************)
(* The agent and the network.                                              *)
(***************************************************************************)

(* An agent calls; an answer it still waits for may be late or lost.       *)
Send(s, a, op) ==
    /\ op # "register" => agent[a].token # None
    /\ op = "report" => agent[a].next <= Len(Batches)
    /\ Arrive(s,
          [op |-> op, pc |-> "start", agent |-> a, token |-> agent[a].token, machine |-> None,
           batch |-> IF op = "report" THEN agent[a].next ELSE 0, at |-> 0, open |-> TRUE,
           queue |-> <<>>, location |-> FALSE, group |-> 0,
           was |-> IF op = "subscribe" THEN {machines[m].location_enabled : m \in Registered(a)}
                   ELSE {}])
    /\ agent' = IF op = "subscribe" THEN [agent EXCEPT ![a].stream = s] ELSE agent
    /\ UNCHANGED <<tables, admin, told>>

Hangup(s) == [a \in Agents |-> IF agent[a].stream = s THEN [agent[a] EXCEPT !.stream = None]
                               ELSE agent[a]]

(* The answer of a unary call reaches the agent. *)
Reply(s) ==
    /\ At(s, "reply")
    /\ LET c == call[s] IN
       /\ told' = IF c.op = "register" THEN [told EXCEPT ![c.agent] = @ \cup {c.machine}] ELSE told
       /\ agent' = CASE c.op = "register" ->
                          [agent EXCEPT ![c.agent].id = c.machine, ![c.agent].token = c.token]
                     [] c.op = "report" /\ c.batch = agent[c.agent].next ->
                          [agent EXCEPT ![c.agent].next = @ + 1]
                     [] OTHER -> agent
    /\ Finish(s)
    /\ UNCHANGED <<tables, admin>>

(* The answer is lost, or the call fails: begin, a statement or the commit *)
(* fails, the session is not found, or the handler is dropped with its     *)
(* connection.  What it committed stays.                                   *)
Fail(s) ==
    /\ s \in Busy /\ call[s].pc \notin {"config", "ticking"}
    /\ Finish(s)
    /\ agent' = Hangup(s)
    /\ UNCHANGED <<tables, admin, told>>

(* The connection of a stream closes and with it the receiver; the task    *)
(* that fills the channel is not told.                                     *)
Disconnect(s) ==
    /\ s \in Busy /\ call[s].pc \in {"config", "ticking"} /\ call[s].open
    /\ Step(s, [call[s] EXCEPT !.open = FALSE, !.queue = <<>>])
    /\ agent' = Hangup(s)
    /\ UNCHANGED <<tables, admin, told>>

(* The agent reads its stream; a config replaces the one it has. *)
Receive(s) ==
    /\ At(s, "ticking") /\ call[s].queue # <<>> /\ agent[call[s].agent].stream = s
    /\ Step(s, [call[s] EXCEPT !.queue = Tail(@)])
    /\ agent' = IF Head(call[s].queue) = "config"
                THEN [agent EXCEPT ![call[s].agent].location = call[s].location,
                                   ![call[s].agent].group = call[s].group]
                ELSE agent
    /\ UNCHANGED <<tables, admin, told>>

(* The server process dies: open transactions roll back, handlers, tasks   *)
(* and streams are gone, the tables stay.                                  *)
Crash ==
    /\ Busy # {}
    /\ call' = [s \in Slots |-> None] /\ calls' = calls
    /\ agent' = [a \in Agents |-> [agent[a] EXCEPT !.stream = None]]
    /\ creating' = 0
    /\ UNCHANGED <<machines, sessions, telemetry, groups, admin, told>>

(***************************************************************************)
(* RegisterMachine.                                                        *)
(***************************************************************************)

(* The upsert holds the machine's row, or its entry in the unique index,   *)
(* until the transaction ends; another upsert of the same key, and an      *)
(* update of the row, wait for it.                                         *)
KeyFree(a) == \A s \in Busy : call[s].pc = "upserted" => call[s].agent # a
RowFree(m) == \A s \in Busy : call[s].pc = "upserted" => call[s].machine # m
Drawn == Existing \cup {call[s].machine : s \in {t \in Busy : call[t].pc = "upserted"}}

UpsertWith(s, ids) ==
    /\ At(s, "start") /\ call[s].op = "register"
    /\ \E m \in ids :
          Step(s, [call[s] EXCEPT !.pc = "upserted", !.machine = m])
    /\ UNCHANGED <<tables, agent, admin, told>>
register_or_update_NoWait(s) ==
    UpsertWith(s, IF Registered(call[s].agent) # {} THEN Registered(call[s].agent)
                  ELSE MachineIds \ Drawn)
register_or_update(s) ==
    /\ s \in Busy /\ KeyFree(call[s].agent)
    /\ UpsertWith(s, IF Registered(call[s].agent) # {} THEN Registered(call[s].agent)
                     ELSE MachineIds \ Drawn)

(* Session, audit event, commit: an update of the row leaves the toggle    *)
(* and the claim alone, an insert has the column defaults.                 *)
CommitRow(s, row) ==
    /\ At(s, "upserted")
    /\ machines' = [machines EXCEPT ![call[s].machine] = row]
    /\ sessions' = [t \in DOMAIN sessions \cup {Cardinality(DOMAIN sessions) + 1} |->
                       IF t \in DOMAIN sessions THEN sessions[t]
                       ELSE call[s].machine]
    /\ Step(s, [call[s] EXCEPT !.pc = "reply", !.token = Cardinality(DOMAIN sessions) + 1])
    /\ UNCHANGED <<telemetry, groups, creating, agent, admin, told>>
CommitRegister_Replace(s) ==
    CommitRow(s, [key |-> call[s].agent, location_enabled |-> FALSE, checked_in |-> FALSE])
CommitRegister(s) ==
    CommitRow(s, IF machines[call[s].machine] # None
                 THEN machines[call[s].machine]
                 ELSE [key |-> call[s].agent, location_enabled |-> FALSE, checked_in |-> FALSE])

(***************************************************************************)
(* The authenticated calls.                                                *)
(***************************************************************************)

find_active(token) == sessions[token]

authenticate_machine(s) ==
    /\ At(s, "start") /\ call[s].op # "register"
    /\ Step(s, [call[s] EXCEPT !.machine = find_active(call[s].token),
                   !.pc = CASE call[s].op = "check_in" -> "touch"
                            [] call[s].op = "report" -> "insert"
                            [] call[s].op = "subscribe" -> "location"])
    /\ UNCHANGED <<tables, agent, admin, told>>

touch_checkin(s) ==
    /\ At(s, "touch") /\ RowFree(call[s].machine)
    /\ machines' = [machines EXCEPT ![call[s].machine].checked_in = TRUE]
    /\ Step(s, [call[s] EXCEPT !.pc = "reply"])
    /\ UNCHANGED <<sessions, telemetry, groups, creating, agent, admin, told>>

(* i64::try_from(seq).unwrap_or(i64::MAX) *)
seq_of_Wraps(n) == IF n <= I64Max THEN n ELSE n - 2 * (I64Max + 1)
seq_of(n) == IF n <= I64Max THEN n ELSE I64Max

(* One INSERT of the loop, committed by itself; the call is answered after *)
(* the last one.                                                           *)
insert_AckFirst(s) ==
    /\ At(s, "insert")
    /\ telemetry' = Append(telemetry, [machine |-> call[s].machine, agent |-> call[s].agent,
                                       batch |-> call[s].batch,
                                       seq |-> seq_of(Batches[call[s].batch][call[s].at + 1])])
    /\ Step(s, [call[s] EXCEPT !.at = @ + 1, !.pc = "reply"])
    /\ UNCHANGED <<machines, sessions, groups, creating, agent, admin, told>>
insert(s) ==
    /\ At(s, "insert")
    /\ LET c == call[s]
           blobs == Batches[c.batch]
       IN /\ telemetry' = Append(telemetry, [machine |-> c.machine, agent |-> c.agent,
                                             batch |-> c.batch, seq |-> seq_of(blobs[c.at + 1])])
          /\ Step(s, [c EXCEPT !.at = @ + 1,
                               !.pc = IF c.at + 1 = Len(blobs) THEN "reply" ELSE "insert"])
    /\ UNCHANGED <<machines, sessions, groups, creating, agent, admin, told>>

(* Subscribe's two reads, on the pool; then the task owns the channel.     *)
ReadLocationAs(s, value) ==
    /\ At(s, "location")
    /\ Step(s, [call[s] EXCEPT !.location = value, !.pc = "group"])
    /\ UNCHANGED <<tables, agent, admin, told>>
location_enabled_Cached(s) ==
    LET streams == {t \in Busy : call[t].machine = call[s].machine /\ call[t].pc = "ticking"}
    IN  ReadLocationAs(s, IF streams = {} THEN machines[call[s].machine].location_enabled
                          ELSE call[CHOOSE t \in streams : TRUE].location)
location_enabled(s) ==
    ReadLocationAs(s, machines[call[s].machine].location_enabled)

ReadGroup_Unordered(s) ==
    /\ At(s, "group")
    /\ \E g \in groups \cup {active} : Step(s, [call[s] EXCEPT !.group = g, !.pc = "config"])
    /\ UNCHANGED <<tables, agent, admin, told>>
ReadGroup(s) ==
    /\ At(s, "group")
    /\ Step(s, [call[s] EXCEPT !.group = active, !.pc = "config"])
    /\ UNCHANGED <<tables, agent, admin, told>>

(* tx.send: waits for room, fails when the receiver is dropped. *)
Push(s, pc, msg) ==
    /\ At(s, pc)
    /\ \/ /\ ~ call[s].open
          /\ Finish(s)
       \/ /\ call[s].open /\ Len(call[s].queue) < ChannelSize
          /\ Step(s, [call[s] EXCEPT !.queue = Append(@, msg), !.pc = "ticking"])
    /\ UNCHANGED <<tables, agent, admin, told>>
SendConfig(s) == Push(s, "config", "config")
KeepAlive_IgnoresClose(s) ==
    /\ At(s, "ticking") /\ Len(call[s].queue) < ChannelSize
    /\ Step(s, [call[s] EXCEPT !.queue = Append(@, "keep_alive")])
    /\ UNCHANGED <<tables, agent, admin, told>>
KeepAlive(s) == Push(s, "ticking", "keep_alive")

(***************************************************************************)
(* Administration: the location toggle and the device-admin group.         *)
(***************************************************************************)

set_location_enabled(m, on) ==
    /\ admin < MaxAdmin /\ m \in Existing /\ RowFree(m)
    /\ machines[m].location_enabled # on
    /\ machines' = [machines EXCEPT ![m].location_enabled = on]
    /\ call' = [s \in Slots |-> IF s \in Busy /\ call[s].op = "subscribe" /\ machines[m].key = call[s].agent
                                THEN [call[s] EXCEPT !.was = @ \cup {on}] ELSE call[s]]
    /\ calls' = calls
    /\ admin' = admin + 1
    /\ UNCHANGED <<sessions, telemetry, groups, creating, agent, told>>

(* create() takes its created_at when it begins and is seen when it        *)
(* commits; a second one may begin and commit in between.                  *)
Newest == IF creating > active THEN creating ELSE active
create_group(hold) ==
    /\ admin < MaxAdmin
    /\ hold => creating = 0
    /\ admin' = admin + 1
    /\ creating' = IF hold THEN Newest + 1 ELSE creating
    /\ groups' = IF hold THEN groups ELSE groups \cup {Newest + 1}
    /\ UNCHANGED <<machines, sessions, telemetry, handlers, agent, told>>
commit_group ==
    /\ creating # 0
    /\ groups' = groups \cup {creating} /\ creating' = 0
    /\ UNCHANGED <<machines, sessions, telemetry, handlers, agent, admin, told>>

Handle(s) == \/ register_or_update(s) \/ CommitRegister(s) \/ authenticate_machine(s)
             \/ touch_checkin(s) \/ insert(s) \/ location_enabled(s) \/ ReadGroup(s)
             \/ SendConfig(s) \/ KeepAlive(s) \/ Reply(s) \/ Fail(s)

Next == \/ \E s \in Slots :
              \/ Handle(s) \/ Disconnect(s) \/ Receive(s)
              \/ \E a \in Agents, op \in Ops : Send(s, a, op)
        \/ \E m \in MachineIds, on \in BOOLEAN : set_location_enabled(m, on)
        \/ \E hold \in BOOLEAN : create_group(hold)
        \/ commit_group
        \/ Crash
        \/ Exhausted /\ UNCHANGED vars

Spec == Init /\ [][Next]_vars

(* The runtime drives every handler and task it has: a statement ends with *)
(* a result or an error, and the timer of a Subscribe task ticks.  Nothing *)
(* is assumed of agents, connections or administrators.                    *)
FairSpec == Spec /\ \A s \in Slots : WF_vars(Handle(s))

-----------------------------------------------------------------------------
(***************************************************************************)
(* Properties.                                                             *)
(***************************************************************************)

TypeOK ==
    /\ machines \in [MachineIds -> Machine \cup {None}]
    /\ DOMAIN sessions \subseteq Tokens /\ \A t \in DOMAIN sessions : sessions[t] \in Existing
    /\ telemetry \in Seq(Telemetry)
    /\ groups \subseteq 1..MaxAdmin /\ creating \in 0..MaxAdmin
    /\ \A s \in Busy : call[s] \in Handler
    /\ agent \in [Agents -> Keeper]
    /\ calls \in 0..MaxCalls /\ admin \in 0..MaxAdmin
    /\ told \in [Agents -> SUBSET MachineIds]

(* register_or_update is "Idempotent on the key" (enrollment.rs:248):      *)
(* however many registrations of a machine overlap, are lost, retried or   *)
(* rolled back, its key has one row, and every answer names that row.      *)
OneMachinePerKey ==
    \A a \in Agents : /\ Cardinality(Registered(a)) <= 1
                      /\ told[a] \subseteq Registered(a)

(* A batch the agent was told is stored is stored whole and in order, as   *)
(* rows of the agent's own machine, whatever was lost, repeated or cut off *)
(* on the way; a seq that fits the column is kept as it is, and one that   *)
(* does not never sorts below an earlier one (report_telemetry, insert).   *)
StoredAt(f, a, b, i) ==
    LET row == telemetry[f[i]] IN
    /\ row.batch = b /\ row.agent = a /\ row.machine \in Registered(a)
    /\ Batches[b][i] <= I64Max => row.seq = Batches[b][i]
    /\ i > 1 => /\ f[i - 1] < f[i]
                /\ Batches[b][i - 1] <= Batches[b][i] => telemetry[f[i - 1]].seq <= row.seq
Stored(a, b, n) ==
    \E f \in [1..n -> 1..Len(telemetry)] : \A i \in 1..n : StoredAt(f, a, b, i)
AckedBatchIsStored ==
    \A a \in Agents : \A b \in 1..(agent[a].next - 1) : Stored(a, b, Len(Batches[b]))

(* subscribe promises the "Effective config at subscribe-time": the toggle *)
(* it pushes held at some moment after the agent called, although it is    *)
(* read before the push and other streams of the machine may still be open *)
(* with an older value.                                                    *)
ConfigIsFresh ==
    \A s \in Busy : call[s].pc \in {"config", "ticking"} => call[s].location \in call[s].was

(* A machine keeps its row: it is never removed, never changes its key,    *)
(* and an agent that registers again, as after a reinstallation, finds the *)
(* administrator's location toggle as it was left.                         *)
MachineKeepsItsRow ==
    [][\A m \in Existing :
          /\ machines'[m] # None
          /\ machines'[m].key = machines[m].key
          /\ machines'[m].location_enabled # machines[m].location_enabled => admin' = admin + 1]_vars

(* Groups may commit in another order than they were created, yet an agent *)
(* that reconnects is never sent back to an older group key than the one   *)
(* it already seals to (DeviceAdminGroupRepository::active).               *)
GroupNeverGoesBack ==
    [][\A a \in Agents : agent'[a].group >= agent[a].group]_vars

(* "client disconnected": the task of a Subscribe stream whose connection  *)
(* is closed ends, at the latest with its next keep-alive.                 *)
StreamTaskEnds ==
    \A s \in Slots : (s \in Busy /\ ~ call[s].open) ~> (call[s] = None)

=============================================================================
