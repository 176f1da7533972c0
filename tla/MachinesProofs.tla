--------------------------- MODULE MachinesProofs ---------------------------
(***************************************************************************)
(* The machine plane, proved for any number of agents, ids, handlers and   *)
(* batches.  What a handler has read or written is said of its slot, what  *)
(* an agent was told of the agent, and both only ask for rows that stay;   *)
(* an upsert under way is the one step that needs what is not there yet.   *)
(***************************************************************************)
EXTENDS Machines, FiniteSetTheorems, WellFoundedInduction, TLAPS

(* Which function a handler is in, and how far. *)
Place(s) ==
    LET h == call[s] IN
    /\ h.pc = "start" => h.at = 0
    /\ h.pc = "upserted" => h.op = "register"
    /\ h.pc = "touch" => h.op = "check_in"
    /\ h.pc = "insert" => h.op = "report" /\ h.at < Len(Batches[h.batch])
    /\ h.pc \in {"location", "group", "config", "ticking"} => h.op = "subscribe"
    /\ h.pc = "reply" => /\ h.op # "subscribe"
                         /\ h.op = "report" => h.at = Len(Batches[h.batch])
    /\ h.op = "report" => h.batch \in 1..Len(Batches)

(* A token names a session of the agent's own machine; a handler that is   *)
(* authenticated works on that machine.                                    *)
Owns(a, t) == t \in DOMAIN sessions /\ sessions[t] \in Registered(a)
Known(s) ==
    LET h == call[s] IN
    /\ h.token # None => Owns(h.agent, h.token)
    /\ h.op # "register" \/ h.pc = "reply" => h.token # None
    /\ h.pc \notin {"start", "upserted"} => h.machine \in Registered(h.agent)

Progress(s) ==
    call[s].op = "report" /\ call[s].pc \in {"insert", "reply"} =>
       Stored(call[s].agent, call[s].batch, call[s].at)

Watched(s) ==
    call[s].op = "subscribe" =>
       /\ \A m \in Registered(call[s].agent) : machines[m].location_enabled \in call[s].was
       /\ call[s].pc \in {"group", "config", "ticking"} => call[s].location \in call[s].was

(* An upsert updates the row of the key, or inserts where there is none. *)
Upserted(s) == s \in Busy /\ call[s].pc = "upserted"
Upserting(s) ==
    Upserted(s) =>
       /\ call[s].machine \in MachineIds
       /\ \/ call[s].machine \in Registered(call[s].agent)
          \/ machines[call[s].machine] = None /\ Registered(call[s].agent) = {}

HandlerOK(s) ==
    Place(s) /\ Known(s) /\ Progress(s) /\ Watched(s) /\ Upserting(s) /\ call[s].group <= active

Upserts == \A s, t \in Slots : s # t /\ Upserted(s) /\ Upserted(t) =>
              call[s].agent # call[t].agent /\ call[s].machine # call[t].machine

(* What an agent keeps and was told; the stream it reads is its own, open, *)
(* and does not carry an older group than it has.                          *)
KeeperOK(a) ==
    /\ agent[a].token # None => Owns(a, agent[a].token)
    /\ told[a] \subseteq Registered(a)
    /\ agent[a].group <= active
    /\ \A b \in 1..(agent[a].next - 1) : Stored(a, b, Len(Batches[b]))
StreamOK(a) ==
    agent[a].stream # None =>
       LET h == call[agent[a].stream] IN
       /\ agent[a].stream \in Busy
       /\ h.op = "subscribe" /\ h.agent = a /\ h.open
       /\ h.pc \in {"config", "ticking"} => agent[a].group <= h.group

OneRow == \A a \in Agents : \A m, n \in Registered(a) : m = n

(* Sessions and registrations that will still open one are not more than   *)
(* the calls that were made.                                               *)
Registering == {s \in Slots : /\ s \in Busy /\ call[s].op = "register"
                              /\ call[s].pc \in {"start", "upserted"}}
Issued == Cardinality(DOMAIN sessions)
Counted ==
    /\ Issued \in Nat /\ DOMAIN sessions = 1..Issued
    /\ Issued + Cardinality(Registering) <= calls

GroupsOK == groups \subseteq 1..admin /\ creating \in 0..admin

Types == TypeOK /\ call \in [Slots -> Handler \cup {None}]
IInv ==
    /\ Types /\ Upserts /\ OneRow /\ Counted /\ GroupsOK
    /\ \A s \in Busy : HandlerOK(s)
    /\ \A a \in Agents : KeeperOK(a) /\ StreamOK(a)

-----------------------------------------------------------------------------
(* A set of naturals with a bound has a greatest element. *)
LEMMA GreatestExists ==
    ASSUME NEW n \in Nat, NEW T \in SUBSET (0..n), T # {}
    PROVE  \E x \in T : \A y \in T : y <= x
<1> DEFINE R == OpToRel(<, Nat)
           U == {i \in Nat : \E y \in T : i = n - y}
<1>1. IsWellFoundedOn(R, Nat)
  BY NatLessThanWellFounded
<1>2. U \subseteq Nat /\ U # {}
  <2>1. PICK y \in T : TRUE
    OBVIOUS
  <2>2. n - y \in U
    BY <2>1
  <2> QED
    BY <2>2
<1>3. \A i, j \in Nat : i < j => <<i, j>> \in R
  BY DEF OpToRel
<1> HIDE DEF R
<1>4. PICK i \in U : \A j \in U : ~ (<<j, i>> \in R)
  <2> HIDE DEF U
  <2> QED
    BY <1>1, <1>2, WFMin
<1>5. PICK x \in T : i = n - x
  BY <1>4
<1>6. \A y \in T : y <= x
  <2> TAKE y \in T
  <2>1. n - y \in U
    OBVIOUS
  <2>2. ~ (n - y < i)
    BY <1>2, <1>3, <1>4, <2>1
  <2> QED
    BY <1>5, <2>2
<1> QED
  BY <1>5, <1>6

(* The newest group is one of them, and 0 when there is none. *)
LEMMA ActiveIsNewest ==
    ASSUME NEW n \in Nat, groups \subseteq 1..n
    PROVE  /\ active \in 0..n
           /\ \A g \in groups : g <= active
           /\ groups # {} => active \in groups
<1>1. groups # {} => \E g \in groups : \A h \in groups : h <= g
  <2>1. groups \in SUBSET (0..n)
    OBVIOUS
  <2> QED
    BY <2>1, GreatestExists
<1>2. CASE groups = {}
  BY <1>2 DEF active
<1>3. CASE groups # {}
  <2>1. active \in groups /\ \A h \in groups : h <= active
    BY <1>1, <1>3 DEF active
  <2> QED
    BY <2>1
<1> QED
  BY <1>2, <1>3

LEMMA ActiveIsNewestNext ==
    ASSUME NEW n \in Nat, groups' \subseteq 1..n
    PROVE  active' \in 0..n /\ \A g \in groups' : g <= active'
<1>1. groups' # {} => \E g \in groups' : \A h \in groups' : h <= g
  <2>1. groups' \in SUBSET (0..n)
    OBVIOUS
  <2> QED
    BY <2>1, GreatestExists
<1>2. CASE groups' = {}
  BY <1>2 DEF active
<1>3. CASE groups' # {}
  <2>1. active' \in groups' /\ \A h \in groups' : h <= active'
    BY <1>1, <1>3 DEF active
  <2> QED
    BY <2>1
<1> QED
  BY <1>2, <1>3

(* Rows stay: machines keep their key, sessions their machine, telemetry   *)
(* its place, and the group in use is not replaced by an older one.        *)
Grows ==
    /\ \A a \in Agents : Registered(a) \subseteq Registered(a)'
    /\ \A t \in DOMAIN sessions : t \in DOMAIN sessions' /\ sessions'[t] = sessions[t]
    /\ Len(telemetry') \in Nat /\ Len(telemetry) <= Len(telemetry')
    /\ \A i \in 1..Len(telemetry) : telemetry'[i] = telemetry[i]
    /\ active \in Nat /\ active' \in Nat /\ active <= active'

LEMMA StoredGrows ==
    ASSUME Types, Grows, NEW a \in Agents, NEW b, NEW n \in Nat, Stored(a, b, n)
    PROVE  Stored(a, b, n)'
<1>1. PICK f \in [1..n -> 1..Len(telemetry)] :
         \A i \in 1..n :
            LET row == telemetry[f[i]] IN
            /\ row.batch = b /\ row.agent = a /\ row.machine \in Registered(a)
            /\ Batches[b][i] <= I64Max => row.seq = Batches[b][i]
            /\ i > 1 => /\ f[i - 1] < f[i]
                        /\ Batches[b][i - 1] <= Batches[b][i] => telemetry[f[i - 1]].seq <= row.seq
  BY DEF Stored, StoredAt
<1>2. Len(telemetry) \in Nat
  BY DEF Types, TypeOK
<1>3. f \in [1..n -> 1..Len(telemetry')]
  BY <1>2 DEF Grows
<1>4. \A i \in 1..n : telemetry'[f[i]] = telemetry[f[i]]
  BY <1>1 DEF Grows
<1>5. \A i \in 1..n : i > 1 => telemetry'[f[i - 1]] = telemetry[f[i - 1]]
  <2> TAKE i \in 1..n
  <2> HAVE i > 1
  <2>1. i - 1 \in 1..n
    OBVIOUS
  <2> QED
    BY <1>4, <2>1
<1>6. \A i \in 1..n :
         /\ telemetry'[f[i]].batch = b /\ telemetry'[f[i]].agent = a
         /\ telemetry'[f[i]].machine \in Registered(a)'
  BY <1>1, <1>4 DEF Grows
<1>7. \A i \in 1..n :
         /\ Batches[b][i] <= I64Max => telemetry'[f[i]].seq = Batches[b][i]
         /\ i > 1 => /\ f[i - 1] < f[i]
                     /\ Batches[b][i - 1] <= Batches[b][i] =>
                           telemetry'[f[i - 1]].seq <= telemetry'[f[i]].seq
  BY <1>1, <1>4, <1>5
<1>8. \A i \in 1..n : StoredAt(f, a, b, i)'
  BY <1>6, <1>7 DEF StoredAt
<1> QED
  BY <1>3, <1>8 DEF Stored

LEMMA Bounds ==
    ASSUME IInv
    PROVE  active \in Nat /\ active <= admin /\ admin \in Nat /\ Len(telemetry) \in Nat
<1>1. active \in 0..admin /\ admin \in Nat
  BY ActiveIsNewest DEF IInv, GroupsOK, Types, TypeOK
<1>2. Len(telemetry) \in Nat
  BY DEF IInv, Types, TypeOK
<1> QED
  BY <1>1, <1>2

(* Nothing is written. *)
LEMMA StillGrows ==
    ASSUME IInv, UNCHANGED <<machines, sessions, telemetry, groups>>
    PROVE  Grows
<1>1. active' = active
  BY DEF active
<1> QED
  BY <1>1, Bounds DEF Grows, Registered, Existing

-----------------------------------------------------------------------------
(* What the rows that stay keep true. *)

LEMMA OwnsGrows ==
    ASSUME Grows, NEW a \in Agents, NEW t, Owns(a, t)
    PROVE  Owns(a, t)'
BY DEF Grows, Owns

LEMMA BusyIsTyped ==
    ASSUME Types, NEW s \in Busy
    PROVE  s \in Slots /\ call[s] \in Handler /\ call[s].agent \in Agents
BY DEF Types, Busy, Handler

(* A report's batch is one of the agent's, and as far as it is inserted its *)
(* length is known.                                                        *)
LEMMA BatchLengths ==
    \A b \in 1..Len(Batches) : /\ Batches[b] \in Seq(Nat) /\ Len(Batches[b]) \in Nat \ {0}
                               /\ \A i \in 1..Len(Batches[b]) : Batches[b][i] \in Nat
BY MachinesAssumption

(* A handler that does not move keeps what is said of it, also when a      *)
(* toggle it is watched against is set.                                    *)
LEMMA OthersStay ==
    ASSUME IInv, Grows, NEW s \in Busy,
           call'[s] = call[s] \/ \E w : call'[s] = [call[s] EXCEPT !.was = w],
           Watched(s)', Upserting(s)'
    PROVE  HandlerOK(s)'
<1>1. HandlerOK(s) /\ s \in Slots /\ call[s] \in Handler /\ call[s].agent \in Agents
  BY BusyIsTyped DEF IInv
<1>2. LET h == call'[s] IN
      /\ h.op = call[s].op /\ h.pc = call[s].pc /\ h.agent = call[s].agent
      /\ h.token = call[s].token /\ h.machine = call[s].machine /\ h.batch = call[s].batch
      /\ h.at = call[s].at /\ h.group = call[s].group
  BY <1>1 DEF Handler
<1>3. Place(s)'
  BY <1>2, <1>1 DEF HandlerOK, Place
<1>4. Known(s)'
  <2>1. PICK a \in Agents : a = call[s].agent
    BY <1>1
  <2>2. PICK t : t = call[s].token
    OBVIOUS
  <2>3. t # None => Owns(a, t)'
    BY <1>1, <2>1, <2>2, OwnsGrows DEF HandlerOK, Known
  <2>4. Registered(a) \subseteq Registered(a)'
    BY DEF Grows
  <2> QED
    BY <1>2, <1>1, <2>1, <2>2, <2>3, <2>4 DEF HandlerOK, Known
<1>5. Progress(s)'
  <2>1. call[s].batch \in Nat /\ call[s].at \in Nat
    BY <1>1, MachinesAssumption DEF Handler
  <2>2. CASE call[s].op = "report" /\ call[s].pc \in {"insert", "reply"}
    <3>1. Stored(call[s].agent, call[s].batch, call[s].at)
      BY <1>1, <2>2 DEF HandlerOK, Progress
    <3>2. PICK a \in Agents, b \in Nat, n \in Nat :
             a = call[s].agent /\ b = call[s].batch /\ n = call[s].at
      BY <1>1, <2>1
    <3>3. Stored(a, b, n)'
      BY <3>1, <3>2, StoredGrows DEF IInv
    <3> QED
      BY <1>2, <3>2, <3>3 DEF Progress
  <2> QED
    BY <1>2, <2>2 DEF Progress
<1>6. call'[s].group <= active'
  <2>1. call[s].group \in Nat /\ call[s].group <= active
    BY <1>1, MachinesAssumption DEF HandlerOK, Handler
  <2> QED
    BY <1>2, <2>1 DEF Grows
<1> QED
  BY <1>3, <1>4, <1>5, <1>6 DEF HandlerOK

(* What was acknowledged stays stored. *)
LEMMA AckedStays ==
    ASSUME IInv, Grows, NEW a \in Agents, NEW b \in 1..(agent[a].next - 1)
    PROVE  Stored(a, b, Len(Batches[b]))'
<1>1. KeeperOK(a) /\ agent[a] \in Keeper
  BY DEF IInv, Types, TypeOK
<1>2. b \in Nat /\ Len(Batches[b]) \in Nat
  BY <1>1, MachinesAssumption, BatchLengths DEF Keeper
<1>3. Stored(a, b, Len(Batches[b]))
  BY <1>1 DEF KeeperOK
<1>4. PICK n \in Nat : n = Len(Batches[b])
  BY <1>2
<1>5. Stored(a, b, n)'
  BY <1>2, <1>3, <1>4, StoredGrows DEF IInv
<1> QED
  BY <1>4, <1>5

(* An agent that learns nothing keeps what it was told. *)
LEMMA KeeperStays ==
    ASSUME IInv, Grows, NEW a \in Agents, told'[a] = told[a],
           \/ agent'[a] = agent[a]
           \/ \E s : agent'[a] = [agent[a] EXCEPT !.stream = s]
    PROVE  KeeperOK(a)'
<1>1. KeeperOK(a) /\ agent[a] \in Keeper
  BY DEF IInv, Types, TypeOK
<1>2. /\ agent'[a].token = agent[a].token /\ agent'[a].group = agent[a].group
      /\ agent'[a].next = agent[a].next
  BY <1>1 DEF Keeper
<1>3. (agent[a].token # None => Owns(a, agent[a].token))'
  <2>1. PICK t : t = agent[a].token
    OBVIOUS
  <2>2. t # None => Owns(a, t)'
    BY <1>1, <2>1, OwnsGrows DEF KeeperOK
  <2> QED
    BY <1>2, <2>1, <2>2
<1>4. told'[a] \subseteq Registered(a)'
  BY <1>1 DEF KeeperOK, Grows
<1>5. agent[a].group <= active'
  <2>1. agent[a].group \in Nat /\ agent[a].group <= active
    BY <1>1, MachinesAssumption DEF KeeperOK, Keeper
  <2> QED
    BY <2>1 DEF Grows
<1>6. \A b \in 1..(agent[a].next - 1) : Stored(a, b, Len(Batches[b]))'
  BY AckedStays
<1> QED
  BY <1>2, <1>3, <1>4, <1>5, <1>6 DEF KeeperOK

(* One handler moves: the invariant is to be seen for it, for the agents,  *)
(* and where a row is written for those that watch it or are about to.     *)
LEMMA MoveKeepsIInv ==
    ASSUME IInv, Grows, Types', OneRow', Counted', GroupsOK',
           NEW s \in Slots, \A t \in Slots \ {s} : call'[t] = call[t],
           s \in Busy' => HandlerOK(s)',
           Upserted(s)' => \A t \in Slots \ {s} : Upserted(t) =>
              call'[s].agent # call[t].agent /\ call'[s].machine # call[t].machine,
           \A t \in Busy \ {s} : Watched(t)' /\ Upserting(t)',
           \A a \in Agents : KeeperOK(a)' /\ StreamOK(a)'
    PROVE  IInv'
<1>1. \A t \in Busy' : HandlerOK(t)'
  <2> SUFFICES ASSUME NEW t \in Slots, t \in Busy', t # s
               PROVE  HandlerOK(t)'
    BY DEF Busy
  <2>1. t \in Busy /\ call'[t] = call[t]
    BY DEF Busy
  <2> QED
    BY <2>1, OthersStay
<1>2. Upserts'
  <2>1. \A t \in Slots \ {s} : Upserted(t)' = Upserted(t)
    BY DEF Upserted, Busy
  <2> QED
    BY <2>1 DEF IInv, Upserts
<1> QED
  BY <1>1, <1>2 DEF IInv

(* No row is written. *)
LEMMA LocalMove ==
    ASSUME IInv, UNCHANGED <<tables, admin, told>>,
           NEW s \in Slots, NEW h \in Handler \cup {None}, call' = [call EXCEPT ![s] = h],
           calls' \in 0..MaxCalls, Counted', agent' \in [Agents -> Keeper],
           h # None => HandlerOK(s)',
           Upserted(s)' => \A t \in Slots \ {s} : Upserted(t) =>
              h.agent # call[t].agent /\ h.machine # call[t].machine,
           \A a \in Agents : /\ \/ agent'[a] = agent[a]
                                \/ \E v : agent'[a] = [agent[a] EXCEPT !.stream = v]
                             /\ StreamOK(a)'
    PROVE  IInv'
<1>1. Grows
  BY StillGrows DEF tables
<1>2. \A t \in Slots : call'[t] = IF t = s THEN h ELSE call[t]
  BY DEF IInv, Types
<1>3. Types'
  <2>1. call' \in [Slots -> Handler \cup {None}]
    BY DEF IInv, Types
  <2>2. \A t \in Busy' : call'[t] \in Handler
    BY <2>1 DEF Busy
  <2> QED
    BY <2>1, <2>2 DEF IInv, Types, TypeOK, tables, Existing
<1>4. OneRow' /\ GroupsOK'
  BY DEF IInv, OneRow, GroupsOK, Registered, Existing, tables
<1>5. \A t \in Busy \ {s} : Watched(t)' /\ Upserting(t)'
  <2> SUFFICES ASSUME NEW t \in Busy \ {s}
               PROVE  Watched(t)' /\ Upserting(t)'
    OBVIOUS
  <2>1. t \in Slots /\ call'[t] = call[t] /\ Watched(t) /\ Upserting(t)
    BY <1>2 DEF IInv, HandlerOK, Busy
  <2> QED
    BY <2>1 DEF Watched, Upserting, Upserted, Busy, Registered, Existing, tables
<1>6. \A a \in Agents : KeeperOK(a)'
  BY <1>1, KeeperStays
<1> QED
  BY <1>1, <1>2, <1>3, <1>4, <1>5, <1>6, MoveKeepsIInv DEF Busy

(* A registration that is not begun leaves the counts as they are.         *)
LEMMA CountsStay ==
    ASSUME IInv, UNCHANGED sessions, calls' = calls, Registering' \subseteq Registering
    PROVE  Counted'
<1>1. Issued' = Issued /\ IsFiniteSet(Registering) /\ Cardinality(Registering) \in Nat
  <2>1. IsFiniteSet(Slots)
    BY FS_Interval, HandlersAssumption DEF Slots
  <2>2. Registering \in SUBSET Slots
    BY DEF Registering
  <2> QED
    BY <2>1, <2>2, FS_Subset, FS_CardinalityType DEF Issued
<1>2. IsFiniteSet(Registering') /\ Cardinality(Registering') <= Cardinality(Registering)
  BY <1>1, FS_Subset
<1>3. Cardinality(Registering') \in Nat /\ Cardinality(Registering)' = Cardinality(Registering')
  BY <1>2, FS_CardinalityType
<1>4. calls \in Nat
  BY HandlersAssumption DEF IInv, Types, TypeOK
<1> QED
  BY <1>1, <1>2, <1>3, <1>4 DEF IInv, Counted

(* A handler goes on, for the same agent and with its channel as it was.   *)
LEMMA HandlerMove ==
    ASSUME IInv, UNCHANGED <<tables, agent, admin, told>>,
           NEW s \in Busy, NEW h \in Handler, Step(s, h),
           h.op = call[s].op, h.agent = call[s].agent, h.open = call[s].open, h.pc # "start",
           h.pc = "upserted" => call[s].pc = "start",
           h.pc \in {"config", "ticking"} =>
              \/ h.group = active
              \/ h.group = call[s].group /\ call[s].pc \in {"config", "ticking"},
           HandlerOK(s)',
           h.pc = "upserted" => \A t \in Slots \ {s} : Upserted(t) =>
              h.agent # call[t].agent /\ h.machine # call[t].machine
    PROVE  IInv'
<1>1. s \in Slots /\ h # None /\ calls' = calls /\ calls \in 0..MaxCalls
  BY MachineHandlerAssumption DEF Busy, Step, IInv, Types, TypeOK
<1>2. call' = [call EXCEPT ![s] = h]
  BY DEF Step
<1>3. \A t \in Slots : call'[t] = IF t = s THEN h ELSE call[t]
  BY <1>2 DEF IInv, Types
<1>4. Registering' \subseteq Registering
  BY <1>3 DEF Registering, Busy
<1>5. Counted'
  BY <1>1, <1>4, CountsStay DEF tables
<1>6. \A a \in Agents : StreamOK(a)'
  <2> SUFFICES ASSUME NEW a \in Agents, agent[a].stream # None
               PROVE  LET k == call'[agent[a].stream] IN
                      /\ agent[a].stream \in Busy'
                      /\ k.op = "subscribe" /\ k.agent = a /\ k.open
                      /\ k.pc \in {"config", "ticking"} => agent[a].group <= k.group
    BY DEF StreamOK
  <2>1. /\ agent[a].stream \in Slots /\ agent[a].group <= active
        /\ call[agent[a].stream].op = "subscribe" /\ call[agent[a].stream].agent = a
        /\ call[agent[a].stream].open /\ call[agent[a].stream] # None
        /\ call[agent[a].stream].pc \in {"config", "ticking"} =>
              agent[a].group <= call[agent[a].stream].group
    BY DEF IInv, StreamOK, KeeperOK, Busy
  <2>2. CASE agent[a].stream = s
    BY <1>1, <1>3, <2>1, <2>2 DEF Busy
  <2>3. CASE agent[a].stream # s
    BY <1>3, <2>1, <2>3 DEF Busy
  <2> QED
    BY <2>2, <2>3
<1>7. agent' \in [Agents -> Keeper] /\ h \in Handler \cup {None}
  BY DEF IInv, Types, TypeOK
<1>8. Upserted(s)' => h.pc = "upserted"
  BY <1>3, <1>1 DEF Upserted
<1> QED
  BY <1>1, <1>2, <1>5, <1>6, <1>7, <1>8, LocalMove

(* A handler is gone: no agent reads its stream any more. *)
LEMMA FinishMove ==
    ASSUME IInv, UNCHANGED <<tables, admin, told>>, NEW s \in Busy, Finish(s),
           \/ agent' = Hangup(s)
           \/ agent' = agent /\ \A a \in Agents : agent[a].stream # s
    PROVE  IInv'
<1>1. s \in Slots /\ call' = [call EXCEPT ![s] = None] /\ calls' = calls /\ calls \in 0..MaxCalls
  BY DEF Busy, Finish, Step, IInv, Types, TypeOK
<1>2. \A t \in Slots : call'[t] = IF t = s THEN None ELSE call[t]
  BY <1>1 DEF IInv, Types
<1>3. Counted'
  <2>1. Registering' \subseteq Registering
    BY <1>2 DEF Registering, Busy
  <2> QED
    BY <1>1, <2>1, CountsStay DEF tables
<1>4. \A a \in Agents : /\ agent[a] \in Keeper
                        /\ \/ agent'[a] = agent[a]
                           \/ agent'[a] = [agent[a] EXCEPT !.stream = None]
                        /\ agent'[a].stream # None => agent'[a] = agent[a] /\ agent[a].stream # s
  BY DEF IInv, Types, TypeOK, Hangup, Keeper
<1>5. agent' \in [Agents -> Keeper]
  <2>1. \A a \in Agents : agent'[a] \in Keeper
    BY <1>4 DEF Keeper
  <2> QED
    BY <2>1 DEF Hangup, IInv, Types, TypeOK
<1>6. \A a \in Agents : StreamOK(a)'
  <2> SUFFICES ASSUME NEW a \in Agents, agent'[a].stream # None
               PROVE  StreamOK(a)'
    BY DEF StreamOK
  <2>1. agent'[a] = agent[a] /\ agent[a].stream # s /\ StreamOK(a)
    BY <1>4 DEF IInv
  <2> QED
    BY <1>2, <2>1 DEF StreamOK, Busy
<1>7. ~ Upserted(s)' /\ None \in Handler \cup {None}
  BY <1>1, <1>2 DEF Upserted, Busy
<1> QED
  BY <1>1, <1>3, <1>4, <1>5, <1>6, <1>7, LocalMove

-----------------------------------------------------------------------------
(* The inductive step, action by action: first those that write no row.    *)

LEMMA RegisterStep ==
    ASSUME IInv, NEW s \in Slots, register_or_update(s)
    PROVE  IInv'
<1>1. s \in Busy /\ HandlerOK(s) /\ call[s] \in Handler /\ call[s].agent \in Agents
  BY BusyIsTyped DEF register_or_update, IInv
<1>2. PICK m \in IF Registered(call[s].agent) # {} THEN Registered(call[s].agent)
                 ELSE MachineIds \ Drawn :
         Step(s, [call[s] EXCEPT !.pc = "upserted", !.machine = m])
  BY DEF register_or_update, UpsertWith
<1> DEFINE h == [call[s] EXCEPT !.pc = "upserted", !.machine = m]
<1>3. m \in MachineIds
  BY <1>2 DEF Registered, Existing
<1>4. /\ h \in Handler /\ h.op = "register" /\ h.pc = "upserted" /\ h.agent = call[s].agent
      /\ h.machine = m /\ h.open = call[s].open /\ h.token = call[s].token
      /\ h.group = call[s].group
  BY <1>1, <1>3 DEF Handler, register_or_update, UpsertWith
<1>5. UNCHANGED <<tables, agent, admin, told>> /\ call[s].pc = "start" /\ call[s].op = "register"
  BY DEF register_or_update, UpsertWith, At
<1> HIDE DEF h
<1>6. call'[s] = h
  BY <1>1, <1>2 DEF Step, IInv, Types, h
<1>7. \/ m \in Registered(call[s].agent)
      \/ machines[m] = None /\ Registered(call[s].agent) = {}
  BY <1>2, <1>3 DEF Drawn, Existing
<1>8. \A t \in Slots \ {s} : Upserted(t) => call[s].agent # call[t].agent /\ m # call[t].machine
  <2> SUFFICES ASSUME NEW t \in Slots \ {s}, Upserted(t)
               PROVE  call[s].agent # call[t].agent /\ m # call[t].machine
    OBVIOUS
  <2>1. call[s].agent # call[t].agent
    BY DEF register_or_update, KeyFree, Upserted
  <2>2. Upserting(t) /\ t \in Busy
    BY DEF IInv, HandlerOK, Upserted
  <2>3. CASE Registered(call[s].agent) # {}
    <3>1. m \in Registered(call[s].agent)
      BY <1>2, <2>3
    <3>2. \/ call[t].machine \in Registered(call[t].agent)
          \/ machines[call[t].machine] = None
      BY <2>2 DEF Upserting
    <3> QED
      BY <2>1, <3>1, <3>2 DEF Registered, Existing
  <2>4. CASE Registered(call[s].agent) = {}
    BY <1>2, <2>1, <2>2, <2>4 DEF Drawn, Upserted
  <2> QED
    BY <2>1, <2>3, <2>4
<1>9. HandlerOK(s)'
  <2>1. UNCHANGED <<machines, sessions, groups>>
    BY <1>5 DEF tables
  <2>2. Place(s)' /\ Progress(s)' /\ Watched(s)'
    BY <1>1, <1>4, <1>6 DEF Place, Progress, Watched, HandlerOK, Handler
  <2>3. Known(s)'
    BY <1>1, <1>4, <1>5, <1>6, <2>1 DEF HandlerOK, Known, Owns, Registered, Existing
  <2>4. Upserting(s)'
    BY <1>3, <1>4, <1>5, <1>6, <1>7, <2>1 DEF Upserting, Registered, Existing
  <2>5. call'[s].group <= active'
    BY <1>1, <1>4, <1>6, <2>1 DEF HandlerOK, active
  <2> QED
    BY <2>2, <2>3, <2>4, <2>5 DEF HandlerOK
<1>10. Step(s, h)
  BY <1>2 DEF h
<1> QED
  BY <1>1, <1>4, <1>5, <1>8, <1>9, <1>10, HandlerMove

LEMMA AuthenticateStep ==
    ASSUME IInv, NEW s \in Slots, authenticate_machine(s)
    PROVE  IInv'
<1> DEFINE to == CASE call[s].op = "check_in" -> "touch"
                   [] call[s].op = "report" -> "insert"
                   [] call[s].op = "subscribe" -> "location"
           h == [call[s] EXCEPT !.machine = find_active(call[s].token), !.pc = to]
<1>1. /\ s \in Busy /\ HandlerOK(s) /\ call[s] \in Handler /\ call[s].agent \in Agents
      /\ call[s].pc = "start" /\ call[s].op \in {"check_in", "report", "subscribe"}
      /\ UNCHANGED <<tables, agent, admin, told>> /\ Step(s, h)
  BY BusyIsTyped DEF authenticate_machine, IInv, At, Handler, Ops
<1>2. find_active(call[s].token) \in Registered(call[s].agent) /\ call[s].token # None
  BY <1>1 DEF HandlerOK, Known, Owns, find_active
<1>3. find_active(call[s].token) \in MachineIds
  BY <1>2 DEF Registered, Existing
<1>4. /\ to \in {"touch", "insert", "location"}
      /\ to = "touch" <=> call[s].op = "check_in"
      /\ to = "insert" <=> call[s].op = "report"
      /\ to = "location" <=> call[s].op = "subscribe"
  BY <1>1
<1> HIDE DEF to
<1>5. /\ h \in Handler /\ h.op = call[s].op /\ h.pc = to /\ h.agent = call[s].agent
      /\ h.machine = find_active(call[s].token) /\ h.open = call[s].open
      /\ h.token = call[s].token /\ h.batch = call[s].batch /\ h.at = call[s].at
      /\ h.group = call[s].group /\ h.was = call[s].was
  BY <1>1, <1>3, <1>4 DEF Handler
<1> HIDE DEF h
<1>6. call'[s] = h
  BY <1>1 DEF Step, IInv, Types
<1>7. HandlerOK(s)'
  <2>1. UNCHANGED <<machines, sessions, telemetry, groups>>
    BY <1>1 DEF tables
  <2>2. call[s].at = 0 /\ (call[s].op = "report" => call[s].batch \in 1..Len(Batches))
    BY <1>1 DEF HandlerOK, Place
  <2>3. Place(s)'
    <3>1. call[s].op = "report" => 0 < Len(Batches[call[s].batch])
      BY <2>2, BatchLengths
    <3> QED
      BY <1>1, <1>4, <1>5, <1>6, <2>2, <3>1 DEF Place
  <2>4. Known(s)'
    BY <1>1, <1>2, <1>5, <1>6, <2>1 DEF HandlerOK, Known, Owns, Registered, Existing
  <2>5. Progress(s)'
    <3>1. ASSUME NEW a, NEW b PROVE Stored(a, b, 0)'
      <4> DEFINE f == [i \in 1..0 |-> 1]
      <4>1. f \in [1..0 -> 1..Len(telemetry')] /\ \A i \in 1..0 : FALSE
        OBVIOUS
      <4> HIDE DEF f
      <4> QED
        BY <4>1 DEF Stored
    <3> QED
      BY <1>5, <1>6, <2>2, <3>1 DEF Progress
  <2>6. Watched(s)'
    BY <1>1, <1>4, <1>5, <1>6, <2>1 DEF HandlerOK, Watched, Registered, Existing
  <2>7. Upserting(s)'
    BY <1>4, <1>5, <1>6 DEF Upserting, Upserted
  <2>8. call'[s].group <= active'
    BY <1>1, <1>5, <1>6, <2>1 DEF HandlerOK, active
  <2> QED
    BY <2>3, <2>4, <2>5, <2>6, <2>7, <2>8 DEF HandlerOK
<1> QED
  BY <1>1, <1>4, <1>5, <1>7, HandlerMove

LEMMA ReadLocationStep ==
    ASSUME IInv, NEW s \in Slots, location_enabled(s)
    PROVE  IInv'
<1> DEFINE h == [call[s] EXCEPT !.location = machines[call[s].machine].location_enabled,
                                !.pc = "group"]
<1>1. /\ s \in Busy /\ HandlerOK(s) /\ call[s] \in Handler /\ call[s].agent \in Agents
      /\ call[s].pc = "location" /\ call[s].op = "subscribe"
      /\ UNCHANGED <<tables, agent, admin, told>> /\ Step(s, h)
  BY BusyIsTyped DEF location_enabled, ReadLocationAs, IInv, At, HandlerOK, Place
<1>2. /\ call[s].machine \in Registered(call[s].agent)
      /\ machines[call[s].machine].location_enabled \in call[s].was
  BY <1>1 DEF HandlerOK, Known, Watched
<1>3. machines[call[s].machine].location_enabled \in BOOLEAN
  BY <1>1, <1>2 DEF Handler
<1>4. /\ h \in Handler /\ h.op = "subscribe" /\ h.pc = "group" /\ h.agent = call[s].agent
      /\ h.machine = call[s].machine /\ h.open = call[s].open /\ h.token = call[s].token
      /\ h.group = call[s].group /\ h.was = call[s].was
      /\ h.location = machines[call[s].machine].location_enabled
  BY <1>1, <1>3 DEF Handler
<1> HIDE DEF h
<1>5. call'[s] = h
  BY <1>1 DEF Step, IInv, Types
<1>6. HandlerOK(s)'
  <2>1. UNCHANGED <<machines, sessions, groups>>
    BY <1>1 DEF tables
  <2>2. Place(s)' /\ Progress(s)' /\ Upserting(s)'
    BY <1>4, <1>5 DEF Place, Progress, Upserting, Upserted
  <2>3. Known(s)'
    BY <1>1, <1>2, <1>4, <1>5, <2>1 DEF HandlerOK, Known, Owns, Registered, Existing
  <2>4. Watched(s)'
    BY <1>1, <1>2, <1>4, <1>5, <2>1 DEF HandlerOK, Watched, Registered, Existing
  <2>5. call'[s].group <= active'
    BY <1>1, <1>4, <1>5, <2>1 DEF HandlerOK, active
  <2> QED
    BY <2>2, <2>3, <2>4, <2>5 DEF HandlerOK
<1> QED
  BY <1>1, <1>4, <1>6, HandlerMove

LEMMA ReadGroupStep ==
    ASSUME IInv, NEW s \in Slots, ReadGroup(s)
    PROVE  IInv'
<1> DEFINE h == [call[s] EXCEPT !.group = active, !.pc = "config"]
<1>1. /\ s \in Busy /\ HandlerOK(s) /\ call[s] \in Handler /\ call[s].agent \in Agents
      /\ call[s].pc = "group" /\ call[s].op = "subscribe"
      /\ UNCHANGED <<tables, agent, admin, told>> /\ Step(s, h)
  BY BusyIsTyped DEF ReadGroup, IInv, At, HandlerOK, Place
<1>2. active \in 0..MaxAdmin
  BY ActiveIsNewest, MachinesAssumption DEF IInv, Types, TypeOK
<1>3. /\ h \in Handler /\ h.op = "subscribe" /\ h.pc = "config" /\ h.agent = call[s].agent
      /\ h.machine = call[s].machine /\ h.open = call[s].open /\ h.token = call[s].token
      /\ h.group = active /\ h.was = call[s].was /\ h.location = call[s].location
  BY <1>1, <1>2 DEF Handler
<1> HIDE DEF h
<1>4. call'[s] = h
  BY <1>1 DEF Step, IInv, Types
<1>5. HandlerOK(s)'
  <2>1. UNCHANGED <<machines, sessions, groups>>
    BY <1>1 DEF tables
  <2>2. Place(s)' /\ Progress(s)' /\ Upserting(s)'
    BY <1>3, <1>4 DEF Place, Progress, Upserting, Upserted
  <2>3. Known(s)'
    BY <1>1, <1>3, <1>4, <2>1 DEF HandlerOK, Known, Owns, Registered, Existing
  <2>4. Watched(s)'
    BY <1>1, <1>3, <1>4, <2>1 DEF HandlerOK, Watched, Registered, Existing
  <2>5. call'[s].group <= active'
    <3>1. active' = active
      BY <2>1 DEF active
    <3> QED
      BY <1>2, <1>3, <1>4, <3>1
  <2> QED
    BY <2>2, <2>3, <2>4, <2>5 DEF HandlerOK
<1> QED
  BY <1>1, <1>3, <1>5, HandlerMove

LEMMA PushStep ==
    ASSUME IInv, NEW s \in Slots, SendConfig(s) \/ KeepAlive(s)
    PROVE  IInv'
<1>1. PICK pc \in {"config", "ticking"}, msg \in {"config", "keep_alive"} : Push(s, pc, msg)
  BY DEF SendConfig, KeepAlive
<1>2. /\ s \in Busy /\ HandlerOK(s) /\ call[s] \in Handler /\ call[s].agent \in Agents
      /\ call[s].pc \in {"config", "ticking"} /\ call[s].op = "subscribe"
      /\ UNCHANGED <<tables, agent, admin, told>>
  BY <1>1, BusyIsTyped DEF Push, IInv, At, HandlerOK, Place
<1>3. CASE ~ call[s].open /\ Finish(s)
  <2>1. \A a \in Agents : agent[a].stream # s
    <3>1. s # None
      BY HandlersAssumption DEF Slots
    <3> QED
      BY <1>3, <3>1 DEF IInv, StreamOK
  <2> QED
    BY <1>2, <1>3, <2>1, FinishMove
<1>4. CASE Step(s, [call[s] EXCEPT !.queue = Append(@, msg), !.pc = "ticking"])
  <2> DEFINE h == [call[s] EXCEPT !.queue = Append(call[s].queue, msg), !.pc = "ticking"]
  <2>1. Append(call[s].queue, msg) \in Seq({"config", "keep_alive"})
    BY <1>2 DEF Handler
  <2>2. /\ h \in Handler /\ h.op = "subscribe" /\ h.pc = "ticking" /\ h.agent = call[s].agent
        /\ h.machine = call[s].machine /\ h.open = call[s].open /\ h.token = call[s].token
        /\ h.group = call[s].group /\ h.was = call[s].was /\ h.location = call[s].location
    BY <1>2, <2>1 DEF Handler
  <2>3. Step(s, h)
    BY <1>4
  <2> HIDE DEF h
  <2>4. call'[s] = h
    BY <1>2, <2>3 DEF Step, IInv, Types
  <2>5. HandlerOK(s)'
    <3>1. UNCHANGED <<machines, sessions, groups>>
      BY <1>2 DEF tables
    <3>2. Place(s)' /\ Progress(s)' /\ Upserting(s)'
      BY <2>2, <2>4 DEF Place, Progress, Upserting, Upserted
    <3>3. Known(s)'
      BY <1>2, <2>2, <2>4, <3>1 DEF HandlerOK, Known, Owns, Registered, Existing
    <3>4. Watched(s)'
      BY <1>2, <2>2, <2>4, <3>1 DEF HandlerOK, Watched, Registered, Existing
    <3>5. call'[s].group <= active'
      BY <1>2, <2>2, <2>4, <3>1 DEF HandlerOK, active
    <3> QED
      BY <3>2, <3>3, <3>4, <3>5 DEF HandlerOK
  <2> QED
    BY <1>2, <2>2, <2>3, <2>5, HandlerMove
<1> QED
  BY <1>1, <1>3, <1>4 DEF Push

LEMMA FailStep ==
    ASSUME IInv, NEW s \in Slots, Fail(s)
    PROVE  IInv'
BY FinishMove DEF Fail

LEMMA DisconnectStep ==
    ASSUME IInv, NEW s \in Slots, Disconnect(s)
    PROVE  IInv'
<1> DEFINE h == [call[s] EXCEPT !.open = FALSE, !.queue = <<>>]
<1>1. /\ s \in Busy /\ HandlerOK(s) /\ call[s] \in Handler /\ call[s].agent \in Agents
      /\ call[s].pc \in {"config", "ticking"} /\ call[s].op = "subscribe"
      /\ UNCHANGED <<tables, admin, told>> /\ Step(s, h) /\ agent' = Hangup(s)
  BY BusyIsTyped DEF Disconnect, IInv, At, HandlerOK, Place
<1>2. /\ h \in Handler /\ h.op = "subscribe" /\ h.pc = call[s].pc /\ h.agent = call[s].agent
      /\ h.machine = call[s].machine /\ h.token = call[s].token
      /\ h.group = call[s].group /\ h.was = call[s].was /\ h.location = call[s].location
  <2>1. <<>> \in Seq({"config", "keep_alive"})
    OBVIOUS
  <2> QED
    BY <1>1, <2>1 DEF Handler
<1> HIDE DEF h
<1>3. \A t \in Slots : call'[t] = IF t = s THEN h ELSE call[t]
  BY <1>1 DEF Step, IInv, Types
<1>4. HandlerOK(s)'
  <2>1. UNCHANGED <<machines, sessions, groups>>
    BY <1>1 DEF tables
  <2>2. Place(s)' /\ Progress(s)' /\ Upserting(s)'
    BY <1>1, <1>2, <1>3 DEF Place, Progress, Upserting, Upserted
  <2>3. Known(s)'
    BY <1>1, <1>2, <1>3, <2>1 DEF HandlerOK, Known, Owns, Registered, Existing
  <2>4. Watched(s)'
    BY <1>1, <1>2, <1>3, <2>1 DEF HandlerOK, Watched, Registered, Existing
  <2>5. call'[s].group <= active'
    BY <1>1, <1>2, <1>3, <2>1 DEF HandlerOK, active
  <2> QED
    BY <2>2, <2>3, <2>4, <2>5 DEF HandlerOK
<1>5. Counted' /\ calls' \in 0..MaxCalls
  <2>1. Registering' \subseteq Registering
    BY <1>2, <1>3 DEF Registering, Busy
  <2> QED
    BY <1>1, <2>1, CountsStay DEF tables, Step, IInv, Types, TypeOK
<1>6. \A a \in Agents : /\ agent[a] \in Keeper
                        /\ \/ agent'[a] = agent[a]
                           \/ agent'[a] = [agent[a] EXCEPT !.stream = None]
                        /\ agent'[a].stream # None => agent'[a] = agent[a] /\ agent[a].stream # s
  BY <1>1 DEF IInv, Types, TypeOK, Hangup, Keeper
<1>7. agent' \in [Agents -> Keeper]
  <2>1. \A a \in Agents : agent'[a] \in Keeper
    BY <1>6 DEF Keeper
  <2> QED
    BY <1>1, <2>1 DEF Hangup, IInv, Types, TypeOK
<1>8. \A a \in Agents : StreamOK(a)'
  <2> SUFFICES ASSUME NEW a \in Agents, agent'[a].stream # None
               PROVE  StreamOK(a)'
    BY DEF StreamOK
  <2>1. agent'[a] = agent[a] /\ agent[a].stream # s /\ StreamOK(a)
    BY <1>6 DEF IInv
  <2> QED
    BY <1>3, <2>1 DEF StreamOK, Busy
<1>9. ~ Upserted(s)'
  BY <1>1, <1>2, <1>3 DEF Upserted
<1>10. call' = [call EXCEPT ![s] = h] /\ h \in Handler \cup {None}
  BY <1>1, <1>2 DEF Step
<1> QED
  BY <1>1, <1>4, <1>5, <1>6, <1>7, <1>8, <1>9, <1>10, LocalMove

LEMMA CrashStep ==
    ASSUME IInv, Crash
    PROVE  IInv'
<1>1. /\ UNCHANGED <<machines, sessions, telemetry, groups, admin, told>> /\ calls' = calls
      /\ call' = [s \in Slots |-> None] /\ creating' = 0
      /\ agent' = [a \in Agents |-> [agent[a] EXCEPT !.stream = None]]
  BY DEF Crash
<1>2. Busy' = {} /\ \A s \in Slots : ~ Upserted(s)'
  BY <1>1 DEF Busy, Upserted
<1>3. Grows
  BY <1>1, StillGrows
<1>4. Types'
  <2>1. \A a \in Agents : agent'[a] \in Keeper
    BY <1>1 DEF IInv, Types, TypeOK, Keeper
  <2>2. agent' \in [Agents -> Keeper]
    BY <1>1, <2>1
  <2>3. creating' \in 0..MaxAdmin /\ call' \in [Slots -> Handler \cup {None}]
    BY <1>1, MachinesAssumption
  <2> QED
    BY <1>1, <1>2, <2>2, <2>3 DEF IInv, Types, TypeOK, Existing
<1>5. Counted'
  <2>1. Registering' \subseteq Registering
    BY <1>2 DEF Registering
  <2> QED
    BY <1>1, <2>1, CountsStay
<1>6. Upserts' /\ \A s \in Busy' : HandlerOK(s)'
  BY <1>2 DEF Upserts
<1>7. OneRow' /\ GroupsOK'
  BY <1>1 DEF IInv, OneRow, GroupsOK, Registered, Existing, Types, TypeOK
<1>8. \A a \in Agents : KeeperOK(a)' /\ StreamOK(a)'
  <2> TAKE a \in Agents
  <2>1. agent'[a] = [agent[a] EXCEPT !.stream = None] /\ agent[a] \in Keeper
    BY <1>1 DEF IInv, Types, TypeOK
  <2>2. KeeperOK(a)'
    BY <1>1, <1>3, <2>1, KeeperStays
  <2>3. agent'[a].stream = None
    BY <2>1 DEF Keeper
  <2> QED
    BY <2>2, <2>3 DEF StreamOK
<1> QED
  BY <1>4, <1>5, <1>6, <1>7, <1>8 DEF IInv

(* One call more pays for one registration more.                           *)
LEMMA CountsGrow ==
    ASSUME IInv, UNCHANGED sessions, calls' = calls + 1,
           NEW s, Registering' \subseteq Registering \cup {s}
    PROVE  Counted'
<1>1. Issued' = Issued /\ IsFiniteSet(Registering) /\ Cardinality(Registering) \in Nat
  <2>1. IsFiniteSet(Slots)
    BY FS_Interval, HandlersAssumption DEF Slots
  <2>2. Registering \in SUBSET Slots
    BY DEF Registering
  <2> QED
    BY <2>1, <2>2, FS_Subset, FS_CardinalityType DEF Issued
<1>2. /\ IsFiniteSet(Registering \cup {s})
      /\ Cardinality(Registering \cup {s}) <= Cardinality(Registering) + 1
      /\ Cardinality(Registering \cup {s}) \in Nat
  <2>1. /\ IsFiniteSet(Registering \cup {s})
        /\ Cardinality(Registering \cup {s}) =
              IF s \in Registering THEN Cardinality(Registering) ELSE Cardinality(Registering) + 1
    BY <1>1, FS_AddElement
  <2> QED
    BY <1>1, <2>1
<1>3. /\ IsFiniteSet(Registering')
      /\ Cardinality(Registering') <= Cardinality(Registering \cup {s})
  BY <1>2, FS_Subset
<1>4. Cardinality(Registering') \in Nat /\ Cardinality(Registering)' = Cardinality(Registering')
  BY <1>3, FS_CardinalityType
<1>5. calls \in Nat
  BY HandlersAssumption DEF IInv, Types, TypeOK
<1> QED
  BY <1>1, <1>2, <1>3, <1>4, <1>5 DEF IInv, Counted

LEMMA SendStep ==
    ASSUME IInv, NEW s \in Slots, NEW a \in Agents, NEW op \in Ops, Send(s, a, op)
    PROVE  IInv'
<1> DEFINE toggles == {machines[m].location_enabled : m \in Registered(a)}
           b == IF op = "report" THEN agent[a].next ELSE 0
           seen == IF op = "subscribe" THEN toggles ELSE {}
           h == [op |-> op, pc |-> "start", agent |-> a, token |-> agent[a].token,
                 machine |-> None, batch |-> b, at |-> 0, open |-> TRUE, queue |-> <<>>,
                 location |-> FALSE, group |-> 0, was |-> seen]
<1>1. /\ UNCHANGED <<tables, admin, told>> /\ s \notin Busy
      /\ calls < MaxCalls /\ calls' = calls + 1 /\ call' = [call EXCEPT ![s] = h]
      /\ op # "register" => agent[a].token # None
      /\ op = "report" => agent[a].next <= Len(Batches)
      /\ agent' = IF op = "subscribe" THEN [agent EXCEPT ![a].stream = s] ELSE agent
  BY DEF Send, Arrive
<1>2. agent[a] \in Keeper /\ KeeperOK(a)
  BY DEF IInv, Types, TypeOK
<1>3. toggles \subseteq BOOLEAN
  BY DEF IInv, Types, TypeOK, Registered, Existing, Machine
<1>4. seen \in SUBSET BOOLEAN
  BY <1>3
<1>5. b \in 0..Len(Batches) /\ (op = "report" => b \in 1..Len(Batches))
  BY <1>1, <1>2, MachinesAssumption DEF Keeper
<1>6. op = "subscribe" => \A m \in Registered(a) : machines[m].location_enabled \in seen
  OBVIOUS
<1> HIDE DEF toggles, b, seen
<1>7. h \in Handler
  <2>1. <<>> \in Seq({"config", "keep_alive"}) /\ 0 \in 0..MaxAdmin /\ 0 \in Nat
    BY MachinesAssumption
  <2> QED
    BY <1>2, <1>4, <1>5, <2>1 DEF Handler, Keeper
<1>8. /\ h.op = op /\ h.pc = "start" /\ h.agent = a /\ h.token = agent[a].token /\ h.at = 0
      /\ h.batch = b /\ h.open = TRUE /\ h.group = 0 /\ h.was = seen
  OBVIOUS
<1>9. call' = [call EXCEPT ![s] = h]
  BY <1>1
<1> HIDE DEF h
<1>10. \A t \in Slots : call'[t] = IF t = s THEN h ELSE call[t]
  BY <1>9 DEF IInv, Types
<1>11. HandlerOK(s)'
  <2>1. UNCHANGED <<machines, sessions, groups>>
    BY <1>1 DEF tables
  <2>2. Place(s)' /\ Progress(s)' /\ Upserting(s)'
    BY <1>5, <1>8, <1>10 DEF Place, Progress, Upserting, Upserted
  <2>3. Known(s)'
    BY <1>1, <1>2, <1>8, <1>10, <2>1 DEF KeeperOK, Known, Owns, Registered, Existing
  <2>4. Watched(s)'
    BY <1>6, <1>8, <1>10, <2>1 DEF Watched, Registered, Existing
  <2>5. call'[s].group <= active'
    <3>1. active \in 0..MaxAdmin
      BY ActiveIsNewest, MachinesAssumption DEF IInv, Types, TypeOK
    <3>2. active' = active
      BY <2>1 DEF active
    <3> QED
      BY <1>8, <1>10, <3>1, <3>2
  <2> QED
    BY <2>2, <2>3, <2>4, <2>5 DEF HandlerOK
<1>12. Counted' /\ calls' \in 0..MaxCalls
  <2>1. Registering' \subseteq Registering \cup {s}
    BY <1>10 DEF Registering, Busy
  <2>2. sessions' = sessions /\ calls' \in 0..MaxCalls
    BY <1>1, HandlersAssumption DEF tables, IInv, Types, TypeOK
  <2> QED
    BY <1>1, <2>1, <2>2, CountsGrow
<1>13. /\ agent' \in [Agents -> Keeper]
       /\ \A c \in Agents : \/ agent'[c] = agent[c]
                            \/ agent'[c] = [agent[c] EXCEPT !.stream = s] /\ c = a /\ op = "subscribe"
  BY <1>1 DEF IInv, Types, TypeOK, Keeper
<1>14. \A c \in Agents : StreamOK(c)'
  <2> TAKE c \in Agents
  <2>1. CASE agent'[c] = agent[c]
    <3>1. agent[c].stream # None => agent[c].stream # s
      BY <1>1 DEF IInv, StreamOK
    <3> QED
      BY <1>10, <2>1, <3>1 DEF IInv, StreamOK, Busy
  <2>2. CASE agent'[c] = [agent[c] EXCEPT !.stream = s] /\ c = a /\ op = "subscribe"
    <3>1. agent'[c].stream = s
      BY <1>2, <2>2 DEF Keeper
    <3>2. h # None
      BY <1>7, MachineHandlerAssumption
    <3> QED
      BY <1>8, <1>10, <2>2, <3>1, <3>2 DEF StreamOK, Busy
  <2> QED
    BY <1>13, <2>1, <2>2
<1>15. ~ Upserted(s)'
  BY <1>8, <1>10 DEF Upserted
<1>16. \A c \in Agents : agent'[c] = agent[c] \/ \E v : agent'[c] = [agent[c] EXCEPT !.stream = v]
  BY <1>13
<1> QED
  BY <1>1, <1>7, <1>9, <1>11, <1>12, <1>13, <1>14, <1>15, <1>16, LocalMove

LEMMA ReceiveStep ==
    ASSUME IInv, NEW s \in Slots, Receive(s)
    PROVE  IInv'
<1> DEFINE h == [call[s] EXCEPT !.queue = Tail(call[s].queue)]
<1>1. /\ s \in Busy /\ HandlerOK(s) /\ call[s] \in Handler /\ call[s].agent \in Agents
      /\ call[s].pc = "ticking" /\ call[s].op = "subscribe" /\ call[s].queue # <<>>
      /\ UNCHANGED <<tables, admin, told>> /\ Step(s, h)
  BY BusyIsTyped DEF Receive, IInv, At, HandlerOK, Place
<1>2. PICK a \in Agents : a = call[s].agent
  BY <1>1
<1>3. agent[a].stream = s /\ agent[a] \in Keeper
  BY <1>2 DEF Receive, IInv, Types, TypeOK
<1>4. \/ agent' = agent
      \/ agent' = [agent EXCEPT ![a] = [agent[a] EXCEPT !.location = call[s].location,
                                                        !.group = call[s].group]]
  BY <1>2 DEF Receive, IInv, Types, TypeOK, Keeper
<1>5. Tail(call[s].queue) \in Seq({"config", "keep_alive"})
  BY <1>1 DEF Handler
<1>6. /\ h \in Handler /\ h.op = "subscribe" /\ h.pc = "ticking" /\ h.agent = call[s].agent
      /\ h.machine = call[s].machine /\ h.token = call[s].token /\ h.open = call[s].open
      /\ h.group = call[s].group /\ h.was = call[s].was /\ h.location = call[s].location
  BY <1>1, <1>5 DEF Handler
<1> HIDE DEF h
<1>7. \A t \in Slots : call'[t] = IF t = s THEN h ELSE call[t]
  BY <1>1 DEF Step, IInv, Types
<1>8. HandlerOK(s)'
  <2>1. UNCHANGED <<machines, sessions, groups>>
    BY <1>1 DEF tables
  <2>2. Place(s)' /\ Progress(s)' /\ Upserting(s)'
    BY <1>6, <1>7 DEF Place, Progress, Upserting, Upserted
  <2>3. Known(s)'
    BY <1>1, <1>6, <1>7, <2>1 DEF HandlerOK, Known, Owns, Registered, Existing
  <2>4. Watched(s)'
    BY <1>1, <1>6, <1>7, <2>1 DEF HandlerOK, Watched, Registered, Existing
  <2>5. call'[s].group <= active'
    BY <1>1, <1>6, <1>7, <2>1 DEF HandlerOK, active
  <2> QED
    BY <2>2, <2>3, <2>4, <2>5 DEF HandlerOK
<1>9. Counted' /\ calls' = calls
  <2>1. Registering' \subseteq Registering
    BY <1>6, <1>7 DEF Registering, Busy
  <2> QED
    BY <1>1, <2>1, CountsStay DEF tables, Step
<1>10. Grows /\ UNCHANGED <<machines, sessions, telemetry, groups, creating>>
  BY <1>1, StillGrows DEF tables
<1>11. /\ agent' \in [Agents -> Keeper]
       /\ \A c \in Agents : \/ agent'[c] = agent[c]
                            \/ /\ c = a /\ agent'[c].group = call[s].group
                               /\ agent'[c].stream = s /\ agent'[c].token = agent[c].token
                               /\ agent'[c].next = agent[c].next
  <2>1. CASE agent' = agent
    BY <2>1 DEF IInv, Types, TypeOK
  <2>2. CASE agent' # agent
    <3> DEFINE k == [agent[a] EXCEPT !.location = call[s].location, !.group = call[s].group]
    <3>1. /\ k \in Keeper /\ k.group = call[s].group /\ k.stream = s
          /\ k.token = agent[a].token /\ k.next = agent[a].next
      BY <1>1, <1>3 DEF Keeper, Handler
    <3>2. agent' = [agent EXCEPT ![a] = k]
      BY <1>4, <2>2
    <3> HIDE DEF k
    <3> QED
      BY <3>1, <3>2 DEF IInv, Types, TypeOK
  <2> QED
    BY <2>1, <2>2
<1>12. \A c \in Agents : KeeperOK(c)'
  <2> TAKE c \in Agents
  <2>1. CASE agent'[c] = agent[c]
    BY <1>1, <1>10, <2>1, KeeperStays
  <2>2. CASE agent'[c] # agent[c]
    <3>1. /\ c = a /\ agent'[c].group = call[s].group /\ agent'[c].token = agent[c].token
          /\ agent'[c].next = agent[c].next
      BY <1>11, <2>2
    <3>2. agent'[c].group <= active'
      BY <1>1, <1>10, <3>1 DEF HandlerOK, active
    <3>3. /\ agent'[c].token # None => Owns(c, agent[c].token)
          /\ told'[c] \subseteq Registered(c)
      BY <1>1, <3>1 DEF IInv, KeeperOK
    <3>4. \A b \in 1..(agent'[c].next - 1) : Stored(c, b, Len(Batches[b]))'
      BY <1>10, <3>1, AckedStays
    <3> QED
      BY <1>10, <3>1, <3>2, <3>3, <3>4 DEF KeeperOK, Owns, Registered, Existing
  <2> QED
    BY <2>1, <2>2
<1>13. \A c \in Agents : StreamOK(c)'
  <2> TAKE c \in Agents
  <2>1. s \in Slots /\ h # None
    BY <1>6, MachineHandlerAssumption
  <2>2. CASE c = a
    <3>1. StreamOK(a) /\ agent'[a].stream = s
      BY <1>3, <1>11, <2>2 DEF IInv
    <3>2. s # None
      BY HandlersAssumption DEF Slots
    <3>3. call[s].open /\ agent[a].group <= call[s].group
      BY <1>1, <1>3, <3>1, <3>2 DEF StreamOK
    <3>4. agent'[a].group <= call[s].group
      <4>1. call[s].group \in Nat
        BY <1>1, MachinesAssumption DEF Handler
      <4> QED
        BY <1>11, <2>2, <3>3, <4>1
    <3> QED
      BY <1>2, <1>6, <1>7, <2>1, <2>2, <3>1, <3>3, <3>4 DEF StreamOK, Busy
  <2>3. CASE c # a
    <3>1. agent'[c] = agent[c] /\ StreamOK(c) /\ agent[c].stream # s
      BY <1>1, <1>2, <1>11, <2>1, <2>3, HandlersAssumption DEF IInv, StreamOK, Slots
    <3> QED
      BY <1>7, <3>1 DEF StreamOK, Busy
  <2> QED
    BY <2>2, <2>3
<1>14. Types'
  <2>1. call' \in [Slots -> Handler \cup {None}]
    BY <1>1, <1>6 DEF Step, IInv, Types
  <2>2. \A t \in Busy' : call'[t] \in Handler
    BY <2>1 DEF Busy
  <2> QED
    BY <1>1, <1>9, <1>10, <1>11, <2>1, <2>2 DEF IInv, Types, TypeOK, Existing
<1>15. OneRow' /\ GroupsOK' /\ \A t \in Busy \ {s} : Watched(t)' /\ Upserting(t)'
  <2>1. OneRow' /\ GroupsOK'
    BY <1>1, <1>10 DEF IInv, OneRow, GroupsOK, Registered, Existing
  <2> SUFFICES ASSUME NEW t \in Busy \ {s}
               PROVE  Watched(t)' /\ Upserting(t)'
    BY <2>1
  <2>2. t \in Slots /\ call'[t] = call[t] /\ Watched(t) /\ Upserting(t)
    BY <1>7 DEF IInv, HandlerOK, Busy
  <2> QED
    BY <1>10, <2>2 DEF Watched, Upserting, Upserted, Busy, Registered, Existing
<1>16. ~ Upserted(s)' /\ \A t \in Slots \ {s} : call'[t] = call[t]
  BY <1>6, <1>7 DEF Upserted
<1> QED
  BY <1>8, <1>9, <1>10, <1>12, <1>13, <1>14, <1>15, <1>16, MoveKeepsIInv

LEMMA ReplyStep ==
    ASSUME IInv, NEW s \in Slots, Reply(s)
    PROVE  IInv'
<1>1. /\ s \in Busy /\ HandlerOK(s) /\ call[s] \in Handler
      /\ call[s].pc = "reply" /\ call[s].op # "subscribe"
      /\ UNCHANGED <<tables, admin>> /\ Step(s, None)
  BY BusyIsTyped DEF Reply, IInv, At, HandlerOK, Place, Finish
<1>2. PICK a \in Agents : a = call[s].agent
  BY <1>1, BusyIsTyped DEF IInv
<1>3. agent[a] \in Keeper /\ StreamOK(a) /\ KeeperOK(a)
  BY DEF IInv, Types, TypeOK
<1>4. \A t \in Slots : call'[t] = IF t = s THEN None ELSE call[t]
  BY <1>1 DEF Step, IInv, Types
<1>5. Counted' /\ calls' = calls
  <2>1. Registering' \subseteq Registering
    BY <1>4 DEF Registering, Busy
  <2> QED
    BY <1>1, <2>1, CountsStay DEF tables, Step
<1>6. Grows /\ UNCHANGED <<machines, sessions, telemetry, groups, creating>>
  BY <1>1, StillGrows DEF tables
<1>7. /\ call[s].machine \in Registered(a) /\ call[s].token # None
      /\ Owns(a, call[s].token)
  BY <1>1, <1>2 DEF HandlerOK, Known
<1>8. call[s].op = "report" => /\ call[s].batch \in 1..Len(Batches)
                               /\ Stored(a, call[s].batch, Len(Batches[call[s].batch]))
  BY <1>1, <1>2 DEF HandlerOK, Place, Progress
<1> DEFINE registered == [agent[a] EXCEPT !.id = call[s].machine, !.token = call[s].token]
           reported == [agent[a] EXCEPT !.next = agent[a].next + 1]
<1>9. \/ agent' = [agent EXCEPT ![a] = registered] /\ call[s].op = "register"
      \/ /\ agent' = [agent EXCEPT ![a] = reported]
         /\ call[s].op = "report" /\ call[s].batch = agent[a].next
      \/ agent' = agent
  BY <1>2 DEF Reply, IInv, Types, TypeOK, Keeper
<1>10. told' \in [Agents -> SUBSET MachineIds] /\ \A c \in Agents :
          told'[c] = told[c] \/ (c = a /\ told'[c] = told[c] \cup {call[s].machine})
  BY <1>1, <1>2, <1>7 DEF Reply, IInv, Types, TypeOK, Registered, Existing
<1>11. /\ registered \in Keeper /\ registered.stream = agent[a].stream
       /\ registered.next = agent[a].next /\ registered.group = agent[a].group
       /\ registered.token = call[s].token
  BY <1>1, <1>3 DEF Keeper, Handler
<1>12. call[s].op = "report" /\ call[s].batch = agent[a].next =>
          /\ reported \in Keeper /\ reported.stream = agent[a].stream
          /\ reported.next = agent[a].next + 1 /\ reported.group = agent[a].group
          /\ reported.token = agent[a].token
  <2>1. Len(Batches) \in Nat
    BY MachinesAssumption
  <2> QED
    BY <1>3, <1>8, <2>1 DEF Keeper
<1> HIDE DEF registered, reported
<1>13. /\ agent' \in [Agents -> Keeper]
       /\ \A c \in Agents : \/ agent'[c] = agent[c]
                            \/ c = a /\ agent'[c] = registered
                            \/ /\ c = a /\ agent'[c] = reported
                               /\ call[s].op = "report" /\ call[s].batch = agent[a].next
  BY <1>9, <1>11, <1>12 DEF IInv, Types, TypeOK
<1>14. \A c \in Agents : agent'[c].group = agent[c].group /\ agent'[c].stream = agent[c].stream
  BY <1>11, <1>12, <1>13
<1>15. \A c \in Agents : KeeperOK(c)'
  <2> TAKE c \in Agents
  <2>1. told'[c] \subseteq Registered(c)' /\ agent'[c].group <= active'
    <3>1. told'[c] \subseteq Registered(c)
      BY <1>7, <1>10 DEF IInv, KeeperOK
    <3>2. Registered(c)' = Registered(c) /\ active' = active
      BY <1>6 DEF Registered, Existing, active
    <3> QED
      BY <1>14, <3>1, <3>2 DEF IInv, KeeperOK
  <2>2. agent'[c].token # None => Owns(c, agent'[c].token)
    BY <1>7, <1>11, <1>12, <1>13 DEF IInv, KeeperOK
  <2>3. \A b \in 1..(agent[c].next - 1) : Stored(c, b, Len(Batches[b]))'
    BY <1>6, AckedStays
  <2>4. \A b \in 1..(agent'[c].next - 1) : Stored(c, b, Len(Batches[b]))'
    <3>1. CASE agent'[c].next = agent[c].next
      BY <2>3, <3>1
    <3>2. CASE agent'[c].next # agent[c].next
      <4>1. /\ c = a /\ agent'[c].next = agent[c].next + 1
            /\ call[s].op = "report" /\ call[s].batch = agent[a].next
        BY <1>11, <1>12, <1>13, <3>2
      <4>2. PICK b \in Nat : b = call[s].batch
        BY <1>8, <4>1
      <4>3. PICK n \in Nat : n = Len(Batches[b])
        BY <1>8, <4>1, <4>2, BatchLengths
      <4>4. Stored(a, b, n)'
        BY <1>6, <1>8, <4>1, <4>2, <4>3, StoredGrows DEF IInv
      <4>5. \A e \in 1..(agent'[c].next - 1) : e \in 1..(agent[c].next - 1) \/ e = b
        BY <1>3, <4>1, <4>2 DEF Keeper
      <4> QED
        BY <2>3, <4>1, <4>3, <4>4, <4>5
    <3> QED
      BY <3>1, <3>2
  <2> QED
    BY <1>6, <2>1, <2>2, <2>4 DEF KeeperOK, Owns, Registered, Existing
<1>16. \A c \in Agents : StreamOK(c)'
  <2> TAKE c \in Agents
  <2>1. StreamOK(c) /\ (agent[c].stream # None => agent[c].stream # s)
    BY <1>1 DEF IInv, StreamOK
  <2> QED
    BY <1>4, <1>14, <2>1 DEF StreamOK, Busy
<1>17. Types'
  <2>1. call' \in [Slots -> Handler \cup {None}]
    BY <1>1 DEF Step, IInv, Types
  <2>2. \A t \in Busy' : call'[t] \in Handler
    BY <2>1 DEF Busy
  <2> QED
    BY <1>1, <1>5, <1>6, <1>10, <1>13, <2>1, <2>2 DEF IInv, Types, TypeOK, Existing
<1>18. OneRow' /\ GroupsOK' /\ \A t \in Busy \ {s} : Watched(t)' /\ Upserting(t)'
  <2>1. OneRow' /\ GroupsOK'
    BY <1>1, <1>6 DEF IInv, OneRow, GroupsOK, Registered, Existing
  <2> SUFFICES ASSUME NEW t \in Busy \ {s}
               PROVE  Watched(t)' /\ Upserting(t)'
    BY <2>1
  <2>2. t \in Slots /\ call'[t] = call[t] /\ Watched(t) /\ Upserting(t)
    BY <1>4 DEF IInv, HandlerOK, Busy
  <2> QED
    BY <1>6, <2>2 DEF Watched, Upserting, Upserted, Busy, Registered, Existing
<1>19. /\ s \notin Busy' /\ ~ Upserted(s)'
       /\ \A t \in Slots \ {s} : call'[t] = call[t]
  BY <1>4 DEF Upserted, Busy
<1> QED
  BY <1>5, <1>6, <1>15, <1>16, <1>17, <1>18, <1>19, MoveKeepsIInv

-----------------------------------------------------------------------------
(* Then the steps that write a row.                                        *)

(* A unary handler writes and goes on. *)
LEMMA WriteMove ==
    ASSUME IInv, Grows, UNCHANGED <<groups, creating, agent, admin, told>>,
           NEW s \in Busy, call[s].op # "subscribe",
           NEW h \in Handler, Step(s, h), h.pc # "upserted",
           machines' \in [MachineIds -> Machine \cup {None}], telemetry' \in Seq(Telemetry),
           DOMAIN sessions' \subseteq Tokens, \A t \in DOMAIN sessions' : sessions'[t] \in Existing',
           OneRow', Counted', HandlerOK(s)',
           \A t \in Busy \ {s} : Watched(t)' /\ Upserting(t)'
    PROVE  IInv'
<1>1. s \in Slots /\ calls' = calls /\ call' = [call EXCEPT ![s] = h]
  BY DEF Busy, Step
<1>2. \A t \in Slots : call'[t] = IF t = s THEN h ELSE call[t]
  BY <1>1 DEF IInv, Types
<1>3. Types'
  <2>1. call' \in [Slots -> Handler \cup {None}]
    BY <1>1 DEF IInv, Types
  <2>2. \A t \in Busy' : call'[t] \in Handler
    BY <2>1 DEF Busy
  <2> QED
    BY <1>1, <2>1, <2>2 DEF IInv, Types, TypeOK
<1>4. GroupsOK'
  BY DEF IInv, GroupsOK
<1>5. \A a \in Agents : KeeperOK(a)'
  BY KeeperStays
<1>6. \A a \in Agents : StreamOK(a)'
  <2> TAKE a \in Agents
  <2>1. StreamOK(a) /\ (agent[a].stream # None => agent[a].stream # s)
    BY DEF IInv, StreamOK
  <2> QED
    BY <1>2, <2>1 DEF StreamOK, Busy
<1>7. ~ Upserted(s)' /\ \A t \in Slots \ {s} : call'[t] = call[t]
  BY <1>1, <1>2 DEF Upserted
<1> QED
  BY <1>1, <1>3, <1>4, <1>5, <1>6, <1>7, MoveKeepsIInv

LEMMA TouchStep ==
    ASSUME IInv, NEW s \in Slots, touch_checkin(s)
    PROVE  IInv'
<1> DEFINE h == [call[s] EXCEPT !.pc = "reply"]
<1>1. /\ s \in Busy /\ HandlerOK(s) /\ call[s] \in Handler
      /\ call[s].pc = "touch" /\ call[s].op = "check_in"
      /\ UNCHANGED <<sessions, telemetry, groups, creating, agent, admin, told>> /\ Step(s, h)
      /\ machines' = [machines EXCEPT ![call[s].machine].checked_in = TRUE]
  BY BusyIsTyped DEF touch_checkin, IInv, At, HandlerOK, Place
<1>2. /\ h \in Handler /\ h.op = "check_in" /\ h.pc = "reply" /\ h.agent = call[s].agent
      /\ h.machine = call[s].machine /\ h.token = call[s].token /\ h.group = call[s].group
  BY <1>1 DEF Handler
<1> HIDE DEF h
<1>3. \A t \in Slots : call'[t] = IF t = s THEN h ELSE call[t]
  BY <1>1 DEF Step, IInv, Types
<1>4. machines \in [MachineIds -> Machine \cup {None}] /\ call[s].machine \in Existing
  BY <1>1 DEF IInv, Types, TypeOK, HandlerOK, Known, Registered
<1>5. PICK m \in MachineIds : m = call[s].machine /\ machines[m] \in Machine
  BY <1>4 DEF Existing
<1>6. /\ machines' \in [MachineIds -> Machine \cup {None}]
      /\ \A n \in MachineIds : /\ (machines'[n] = None) = (machines[n] = None)
                               /\ machines'[n].key = machines[n].key
                               /\ machines'[n].location_enabled = machines[n].location_enabled
  <2> DEFINE row == [machines[m] EXCEPT !.checked_in = TRUE]
  <2>1. /\ row \in Machine /\ row.key = machines[m].key
        /\ row.location_enabled = machines[m].location_enabled
    BY <1>5 DEF Machine
  <2>2. machines' = [machines EXCEPT ![m] = row]
    BY <1>1, <1>5
  <2>3. row # None /\ machines[m] # None
    BY <1>5, <2>1, MachineRowAssumption
  <2> HIDE DEF row
  <2> QED
    BY <1>4, <2>1, <2>2, <2>3
<1>7. Existing' = Existing /\ \A a : Registered(a)' = Registered(a)
  BY <1>6 DEF Existing, Registered
<1>8. Grows
  <2>1. active' = active
    BY <1>1 DEF active
  <2> QED
    BY <1>1, <1>7, <2>1, Bounds DEF Grows
<1>9. OneRow' /\ Counted'
  <2>1. Registering' \subseteq Registering
    BY <1>2, <1>3 DEF Registering, Busy
  <2>2. Counted'
    BY <1>1, <2>1, CountsStay DEF Step
  <2> QED
    BY <1>7, <2>2 DEF IInv, OneRow
<1>10. HandlerOK(s)'
  <2>1. Place(s)' /\ Progress(s)' /\ Watched(s)' /\ Upserting(s)'
    BY <1>2, <1>3 DEF Place, Progress, Watched, Upserting, Upserted
  <2>2. Known(s)'
    BY <1>1, <1>2, <1>3, <1>7 DEF HandlerOK, Known, Owns
  <2>3. call'[s].group <= active'
    BY <1>1, <1>2, <1>3 DEF HandlerOK, active
  <2> QED
    BY <2>1, <2>2, <2>3 DEF HandlerOK
<1>11. \A t \in Busy \ {s} : Watched(t)' /\ Upserting(t)'
  <2> SUFFICES ASSUME NEW t \in Busy \ {s}
               PROVE  Watched(t)' /\ Upserting(t)'
    OBVIOUS
  <2>1. t \in Slots /\ call'[t] = call[t] /\ Watched(t) /\ Upserting(t)
    BY <1>3 DEF IInv, HandlerOK, Busy
  <2>2. \A n \in Registered(call[t].agent) : n \in MachineIds
    BY DEF Registered, Existing
  <2> QED
    BY <1>6, <1>7, <2>1, <2>2 DEF Watched, Upserting, Upserted, Busy
<1>12. /\ telemetry' \in Seq(Telemetry) /\ DOMAIN sessions' \subseteq Tokens
       /\ \A t \in DOMAIN sessions' : sessions'[t] \in Existing'
  BY <1>1, <1>7 DEF IInv, Types, TypeOK
<1> QED
  BY <1>1, <1>2, <1>6, <1>8, <1>9, <1>10, <1>11, <1>12, WriteMove

(* One more row of the batch. *)
LEMMA StoredExtends ==
    ASSUME Types, NEW a \in Agents, NEW b \in 1..Len(Batches),
           NEW n \in Nat, n < Len(Batches[b]), Stored(a, b, n),
           NEW new \in Telemetry, telemetry' = Append(telemetry, new), machines' = machines,
           new.machine \in Registered(a), new.agent = a, new.batch = b,
           new.seq = seq_of(Batches[b][n + 1])
    PROVE  Stored(a, b, n + 1)'
<1> DEFINE len == Len(telemetry)
<1>1. PICK f \in [1..n -> 1..len] :
         \A i \in 1..n :
            LET r == telemetry[f[i]] IN
            /\ r.batch = b /\ r.agent = a /\ r.machine \in Registered(a)
            /\ Batches[b][i] <= I64Max => r.seq = Batches[b][i]
            /\ i > 1 => /\ f[i - 1] < f[i]
                        /\ Batches[b][i - 1] <= Batches[b][i] => telemetry[f[i - 1]].seq <= r.seq
  BY DEF Stored, StoredAt
<1>2. telemetry \in Seq(Telemetry) /\ len \in Nat
  BY DEF Types, TypeOK
<1>3. /\ Len(telemetry') = len + 1 /\ telemetry'[len + 1] = new
      /\ \A i \in 1..len : telemetry'[i] = telemetry[i] /\ telemetry[i].seq \in 0..I64Max
  <2>1. /\ Len(telemetry') = len + 1 /\ telemetry'[len + 1] = new
        /\ \A i \in 1..len : telemetry'[i] = telemetry[i]
    BY <1>2
  <2>2. \A i \in 1..len : telemetry[i] \in Telemetry
    BY <1>2
  <2>3. \A r \in Telemetry : r.seq \in 0..I64Max
    BY DEF Telemetry
  <2> QED
    BY <2>1, <2>2, <2>3
<1>4. \A i \in 1..(n + 1) : Batches[b][i] \in Nat
  BY BatchLengths
<1>5. I64Max \in Nat /\ new.seq \in 0..I64Max
  BY MachinesAssumption DEF Telemetry
<1>6. PICK g \in [1..(n + 1) -> 1..(len + 1)] :
         g[n + 1] = len + 1 /\ \A i \in 1..n : g[i] = f[i]
  <2> DEFINE e == [i \in 1..(n + 1) |-> IF i = n + 1 THEN len + 1 ELSE f[i]]
  <2>1. e \in [1..(n + 1) -> 1..(len + 1)]
    BY <1>2
  <2>2. e[n + 1] = len + 1 /\ \A i \in 1..n : e[i] = f[i]
    OBVIOUS
  <2> HIDE DEF e
  <2> QED
    BY <2>1, <2>2
<1>7. g[n + 1] = len + 1 /\ \A i \in 1..n : g[i] = f[i] /\ f[i] \in 1..len
  BY <1>6
<1> HIDE DEF len
<1>8. \A i \in 1..n : telemetry'[g[i]] = telemetry[f[i]]
  BY <1>3, <1>7
<1>9. telemetry'[g[n + 1]] = new
  BY <1>3, <1>7
<1>10. Registered(a)' = Registered(a)
  BY DEF Registered, Existing
<1>11. ASSUME NEW i \in 1..(n + 1)
       PROVE  StoredAt(g, a, b, i)'
  <2>1. CASE i \in 1..n
    <3>1. i > 1 => i - 1 \in 1..n
      BY <2>1
    <3>2. i > 1 => g[i - 1] = f[i - 1] /\ telemetry'[g[i - 1]] = telemetry[f[i - 1]]
      BY <1>7, <1>8, <3>1
    <3> QED
      BY <1>1, <1>7, <1>8, <1>10, <2>1, <3>2 DEF StoredAt
  <2>2. CASE i = n + 1
    <3>1. Batches[b][i] <= I64Max => new.seq = Batches[b][i]
      BY <2>2 DEF seq_of
    <3>2. telemetry'[g[i]] = new
      BY <1>9, <2>2
    <3>3. ASSUME i > 1
          PROVE  /\ g[i - 1] < g[i]
                 /\ Batches[b][i - 1] <= Batches[b][i] => telemetry'[g[i - 1]].seq <= new.seq
      <4>1. i - 1 = n /\ n \in 1..n
        BY <2>2, <3>3
      <4>2. g[n] \in 1..len /\ telemetry'[g[n]] = telemetry[f[n]]
        BY <1>7, <1>8, <4>1
      <4>3. g[n] < g[i]
        <5>1. g[i] = len + 1
          BY <1>7, <2>2
        <5>2. len \in Nat
          BY <1>2
        <5> QED
          BY <4>2, <5>1, <5>2
      <4>4. ASSUME Batches[b][n] <= Batches[b][i] PROVE telemetry[f[n]].seq <= new.seq
        <5>1. /\ Batches[b][n] \in Nat /\ Batches[b][i] \in Nat
              /\ telemetry[f[n]].seq \in 0..I64Max
              /\ Batches[b][n] <= I64Max => telemetry[f[n]].seq = Batches[b][n]
          BY <1>1, <1>3, <1>4, <1>7, <4>1
        <5>2. new.seq = Batches[b][i] \/ new.seq = I64Max
          BY <2>2 DEF seq_of
        <5>3. telemetry[f[n]].seq <= I64Max
          BY <1>5, <5>1
        <5>4. CASE new.seq = Batches[b][i]
          <6>1. Batches[b][i] <= I64Max
            BY <1>5, <5>4
          <6>2. Batches[b][n] <= I64Max
            BY <1>5, <4>4, <5>1, <6>1
          <6> QED
            BY <4>4, <5>1, <5>4, <6>2
        <5> QED
          BY <5>2, <5>3, <5>4
      <4> QED
        BY <4>1, <4>2, <4>3, <4>4
    <3> QED
      BY <1>10, <3>1, <3>2, <3>3 DEF StoredAt
  <2>3. i \in 1..n \/ i = n + 1
    OBVIOUS
  <2> QED
    BY <2>1, <2>2, <2>3
<1>12. g \in [1..(n + 1) -> 1..Len(telemetry')]
  BY <1>3, <1>6
<1> QED
  BY <1>11, <1>12 DEF Stored

LEMMA InsertStep ==
    ASSUME IInv, NEW s \in Slots, insert(s)
    PROVE  IInv'
<1> DEFINE new == [machine |-> call[s].machine, agent |-> call[s].agent, batch |-> call[s].batch,
                   seq |-> seq_of(Batches[call[s].batch][call[s].at + 1])]
           to == IF call[s].at + 1 = Len(Batches[call[s].batch]) THEN "reply" ELSE "insert"
           h == [call[s] EXCEPT !.at = call[s].at + 1, !.pc = to]
<1>1. /\ s \in Busy /\ HandlerOK(s) /\ call[s] \in Handler /\ call[s].agent \in Agents
      /\ call[s].pc = "insert" /\ call[s].op = "report"
      /\ UNCHANGED <<machines, sessions, groups, creating, agent, admin, told>>
      /\ telemetry' = Append(telemetry, new)
  BY BusyIsTyped DEF insert, IInv, At, HandlerOK, Place
<1>2. Step(s, h)
  BY DEF insert
<1>3. PICK a \in Agents, b \in 1..Len(Batches), n \in Nat :
         a = call[s].agent /\ b = call[s].batch /\ n = call[s].at
  <2>1. call[s].batch \in 1..Len(Batches) /\ call[s].at \in Nat
    BY <1>1 DEF HandlerOK, Place, Handler
  <2> QED
    BY <1>1, <2>1
<1>4. n < Len(Batches[b]) /\ Stored(a, b, n) /\ call[s].machine \in Registered(a)
  BY <1>1, <1>3 DEF HandlerOK, Place, Progress, Known
<1>5. n + 1 \in 1..Len(Batches[b]) /\ Len(Batches[b]) \in Nat /\ Batches[b][n + 1] \in Nat
  <2>1. Len(Batches[b]) \in Nat /\ n + 1 \in 1..Len(Batches[b])
    BY <1>4, BatchLengths
  <2> QED
    BY <2>1, BatchLengths
<1>6. seq_of(Batches[b][n + 1]) \in 0..I64Max
  BY <1>5, MachinesAssumption DEF seq_of
<1>7. new \in Telemetry /\ new.machine \in Registered(a) /\ new.agent = a /\ new.batch = b
      /\ new.seq = seq_of(Batches[b][n + 1])
  <2>1. call[s].machine \in MachineIds
    BY <1>4 DEF Registered, Existing
  <2> QED
    BY <1>3, <1>4, <1>6, <2>1 DEF Telemetry
<1>8. to \in {"reply", "insert"} /\ (to = "reply") = (n + 1 = Len(Batches[b]))
  BY <1>3
<1> HIDE DEF new, to
<1>9. /\ h \in Handler /\ h.op = "report" /\ h.pc = to /\ h.agent = a
      /\ h.machine = call[s].machine /\ h.token = call[s].token /\ h.group = call[s].group
      /\ h.batch = b /\ h.at = n + 1
  <2>1. call[s].at + 1 \in Nat /\ call[s].at + 1 = n + 1
    BY <1>3
  <2>2. /\ h \in Handler /\ h.op = call[s].op /\ h.pc = to /\ h.agent = call[s].agent
        /\ h.machine = call[s].machine /\ h.token = call[s].token /\ h.group = call[s].group
        /\ h.batch = call[s].batch /\ h.at = call[s].at + 1
    BY <1>1, <1>8, <2>1 DEF Handler
  <2> QED
    BY <1>1, <1>3, <2>1, <2>2
<1> HIDE DEF h
<1>10. \A t \in Slots : call'[t] = IF t = s THEN h ELSE call[t]
  BY <1>2 DEF Step, IInv, Types
<1>11. Types /\ telemetry \in Seq(Telemetry)
  BY DEF IInv, Types, TypeOK
<1>12. PICK row \in Telemetry : row = new
  BY <1>7
<1>13. Stored(a, b, n + 1)'
  <2>1. telemetry' = Append(telemetry, row) /\ machines' = machines
    BY <1>1, <1>12
  <2> QED
    BY <1>4, <1>7, <1>11, <1>12, <2>1, StoredExtends
<1>14. Existing' = Existing /\ \A c : Registered(c)' = Registered(c)
  BY <1>1 DEF Existing, Registered
<1>15. /\ telemetry' \in Seq(Telemetry) /\ Len(telemetry') = Len(telemetry) + 1
       /\ \A i \in 1..Len(telemetry) : telemetry'[i] = telemetry[i]
  BY <1>1, <1>7, <1>11
<1>16. Grows
  <2>1. active' = active
    BY <1>1 DEF active
  <2> QED
    BY <1>1, <1>14, <1>15, <2>1, Bounds DEF Grows
<1>17. OneRow' /\ Counted'
  <2>1. Registering' \subseteq Registering
    BY <1>9, <1>10 DEF Registering, Busy
  <2>2. Counted'
    BY <1>1, <1>2, <2>1, CountsStay DEF Step
  <2> QED
    BY <1>14, <2>2 DEF IInv, OneRow
<1>18. HandlerOK(s)'
  <2>1. Place(s)'
    <3>1. n + 1 # Len(Batches[b]) => n + 1 < Len(Batches[b])
      BY <1>5
    <3> QED
      BY <1>8, <1>9, <1>10, <3>1 DEF Place
  <2>2. Known(s)'
    BY <1>1, <1>3, <1>4, <1>9, <1>10, <1>14 DEF HandlerOK, Known, Owns
  <2>3. Progress(s)'
    BY <1>9, <1>10, <1>13 DEF Progress
  <2>4. Watched(s)' /\ Upserting(s)'
    BY <1>8, <1>9, <1>10 DEF Watched, Upserting, Upserted
  <2>5. call'[s].group <= active'
    BY <1>1, <1>9, <1>10 DEF HandlerOK, active
  <2> QED
    BY <2>1, <2>2, <2>3, <2>4, <2>5 DEF HandlerOK
<1>19. \A t \in Busy \ {s} : Watched(t)' /\ Upserting(t)'
  <2> SUFFICES ASSUME NEW t \in Busy \ {s}
               PROVE  Watched(t)' /\ Upserting(t)'
    OBVIOUS
  <2>1. t \in Slots /\ call'[t] = call[t] /\ Watched(t) /\ Upserting(t)
    BY <1>10 DEF IInv, HandlerOK, Busy
  <2> QED
    BY <1>1, <1>14, <2>1 DEF Watched, Upserting, Upserted, Busy
<1>20. /\ machines' \in [MachineIds -> Machine \cup {None}] /\ DOMAIN sessions' \subseteq Tokens
       /\ \A t \in DOMAIN sessions' : sessions'[t] \in Existing'
  BY <1>1, <1>14 DEF IInv, Types, TypeOK
<1> QED
  BY <1>1, <1>2, <1>8, <1>9, <1>15, <1>16, <1>17, <1>18, <1>19, <1>20, WriteMove

(* The commit of a registration takes the session its call paid for.       *)
LEMMA CountsMove ==
    ASSUME IInv, NEW s \in Registering, Registering' \subseteq Registering \ {s},
           DOMAIN sessions' = DOMAIN sessions \cup {Issued + 1}, calls' = calls
    PROVE  Counted' /\ Issued + 1 \in Tokens /\ DOMAIN sessions' = 1..(Issued + 1)
<1>1. IsFiniteSet(Registering)
  <2>1. IsFiniteSet(Slots)
    BY FS_Interval, HandlersAssumption DEF Slots
  <2>2. Registering \in SUBSET Slots
    BY DEF Registering
  <2> QED
    BY <2>1, <2>2, FS_Subset
<1>2. /\ IsFiniteSet(Registering \ {s}) /\ Cardinality(Registering) \in Nat
      /\ Cardinality(Registering \ {s}) = Cardinality(Registering) - 1
      /\ Cardinality(Registering \ {s}) \in Nat
  <2>1. /\ IsFiniteSet(Registering \ {s})
        /\ Cardinality(Registering \ {s}) = Cardinality(Registering) - 1
    BY <1>1, FS_RemoveElement
  <2> QED
    BY <1>1, <2>1, FS_CardinalityType
<1>3. /\ IsFiniteSet(Registering')
      /\ Cardinality(Registering') <= Cardinality(Registering \ {s})
  BY <1>2, FS_Subset
<1>4. Cardinality(Registering') \in Nat /\ Cardinality(Registering)' = Cardinality(Registering')
  BY <1>3, FS_CardinalityType
<1>5. /\ calls \in Nat /\ calls <= MaxCalls /\ MaxCalls \in Nat
      /\ Issued \in Nat /\ DOMAIN sessions = 1..Issued
      /\ Issued + Cardinality(Registering) <= calls
  BY HandlersAssumption DEF IInv, Types, TypeOK, Counted
<1>6. Issued + 1 \in Tokens /\ DOMAIN sessions' = 1..(Issued + 1)
  BY <1>2, <1>5 DEF Tokens
<1>7. Issued' = Issued + 1
  <2>1. Cardinality(1..(Issued + 1)) = Issued + 1
    BY <1>5, FS_Interval
  <2>2. Issued' = Cardinality(DOMAIN sessions')
    BY DEF Issued
  <2> QED
    BY <1>6, <2>1, <2>2
<1>8. Counted'
  <2>1. Issued' + Cardinality(Registering)' <= calls'
    BY <1>2, <1>3, <1>4, <1>5, <1>7
  <2>2. Issued' \in Nat /\ DOMAIN sessions' = 1..Issued'
    BY <1>5, <1>6, <1>7
  <2> QED
    BY <2>1, <2>2 DEF Counted
<1> QED
  BY <1>6, <1>8

LEMMA CommitStep ==
    ASSUME IInv, NEW s \in Slots, CommitRegister(s)
    PROVE  IInv'
<1> DEFINE token == Issued + 1
           h == [call[s] EXCEPT !.pc = "reply", !.token = token]
<1>1. /\ s \in Busy /\ HandlerOK(s) /\ call[s] \in Handler /\ Upserted(s)
      /\ call[s].pc = "upserted" /\ call[s].op = "register"
      /\ UNCHANGED <<telemetry, groups, creating, agent, admin, told>>
      /\ Step(s, h)
      /\ sessions' = [t \in DOMAIN sessions \cup {token} |->
                         IF t \in DOMAIN sessions THEN sessions[t] ELSE call[s].machine]
  BY BusyIsTyped DEF CommitRegister, CommitRow, IInv, At, HandlerOK, Place, Issued, Upserted
<1>2. PICK a \in Agents, m \in MachineIds : /\ a = call[s].agent /\ m = call[s].machine
                                            /\ \/ m \in Registered(a)
                                               \/ machines[m] = None /\ Registered(a) = {}
  <2>1. call[s].agent \in Agents
    BY <1>1, BusyIsTyped DEF IInv
  <2> QED
    BY <1>1, <2>1 DEF HandlerOK, Upserting
<1> HIDE DEF token
<1>3. Step(s, h) /\ call' = [call EXCEPT ![s] = h]
  BY <1>1 DEF Step
<1>4. h.op = "register" /\ h.pc = "reply"
  BY <1>1 DEF Handler
<1>5. \A t \in Slots : call'[t] = IF t = s THEN h ELSE call[t]
  BY <1>3 DEF IInv, Types
<1>6. s \in Registering /\ Registering' \subseteq Registering \ {s}
  BY <1>1, <1>4, <1>5 DEF Registering, Busy
<1>7. DOMAIN sessions' = DOMAIN sessions \cup {token}
  BY <1>1
<1>8. Counted' /\ token \in Tokens
  BY <1>3, <1>6, <1>7, CountsMove DEF Step, token
<1>9. /\ h \in Handler /\ h.agent = a /\ h.machine = m /\ h.token = token
      /\ h.group = call[s].group
  BY <1>1, <1>2, <1>8 DEF Handler
<1> HIDE DEF h
<1>10. PICK row \in Machine : /\ machines' = [machines EXCEPT ![m] = row] /\ row.key = a
                              /\ machines[m] # None => row = machines[m]
  <2>1. CASE machines[m] # None
    <3>1. machines[m] \in Machine /\ machines[m].key = a
      BY <1>2, <2>1 DEF Registered, IInv, Types, TypeOK
    <3> QED
      BY <1>2, <2>1, <3>1 DEF CommitRegister, CommitRow
  <2>2. CASE machines[m] = None
    <3> DEFINE new == [key |-> a, location_enabled |-> FALSE, checked_in |-> FALSE]
    <3>1. new \in Machine /\ new.key = a
      BY DEF Machine
    <3>2. machines' = [machines EXCEPT ![m] = new]
      BY <1>2, <2>2 DEF CommitRegister, CommitRow
    <3> HIDE DEF new
    <3> QED
      BY <2>2, <3>1, <3>2
  <2> QED
    BY <2>1, <2>2
<1>11. /\ machines' \in [MachineIds -> Machine \cup {None}] /\ row # None
       /\ machines'[m] = row
       /\ \A n \in MachineIds : n # m \/ machines[m] # None => machines'[n] = machines[n]
  BY <1>10, MachineRowAssumption DEF IInv, Types, TypeOK
<1>12. /\ Existing' = Existing \cup {m}
       /\ Registered(a)' = Registered(a) \cup {m}
       /\ \A c \in Agents : c # a => Registered(c)' = Registered(c)
       /\ \A c \in Agents : \A n \in Registered(c) : machines'[n] = machines[n]
  <2>1. Existing' = Existing \cup {m}
    BY <1>11 DEF Existing
  <2>2. \A c \in Agents : \A n \in Registered(c) : machines'[n] = machines[n]
    BY <1>11 DEF Registered, Existing
  <2>3. Registered(a)' = Registered(a) \cup {m}
    BY <1>10, <1>11, <2>1, <2>2 DEF Registered, Existing
  <2>4. \A c \in Agents : c # a => Registered(c)' = Registered(c)
    BY <1>10, <1>11, <2>1, <2>2 DEF Registered, Existing
  <2> QED
    BY <2>1, <2>2, <2>3, <2>4
<1>13. OneRow'
  BY <1>2, <1>12 DEF IInv, OneRow
<1>14. Issued + 1 \notin DOMAIN sessions
  BY DEF IInv, Counted
<1>15. /\ \A t \in DOMAIN sessions : t \in DOMAIN sessions' /\ sessions'[t] = sessions[t]
       /\ token \in DOMAIN sessions' /\ sessions'[token] = m
  BY <1>1, <1>2, <1>14 DEF token
<1>16. Grows
  <2>1. active' = active
    BY <1>1 DEF active
  <2>2. \A c \in Agents : Registered(c) \subseteq Registered(c)'
    BY <1>12
  <2> QED
    BY <1>1, <1>15, <2>1, <2>2, Bounds DEF Grows
<1>17. HandlerOK(s)'
  <2>1. Place(s)' /\ Progress(s)' /\ Watched(s)' /\ Upserting(s)'
    BY <1>4, <1>5 DEF Place, Progress, Watched, Upserting, Upserted
  <2>2. Known(s)'
    <3>1. PICK t : t = token
      OBVIOUS
    <3>2. Owns(a, t)' /\ m \in Registered(a)'
      BY <1>12, <1>15, <3>1 DEF Owns
    <3> QED
      BY <1>4, <1>5, <1>8, <1>9, <3>1, <3>2, HandlersAssumption DEF Known, Tokens
  <2>3. call'[s].group <= active'
    BY <1>1, <1>5, <1>9 DEF HandlerOK, active
  <2> QED
    BY <2>1, <2>2, <2>3 DEF HandlerOK
<1>18. \A t \in Busy \ {s} : Watched(t)' /\ Upserting(t)'
  <2> SUFFICES ASSUME NEW t \in Busy \ {s}
               PROVE  Watched(t)' /\ Upserting(t)'
    OBVIOUS
  <2>1. /\ t \in Slots /\ call'[t] = call[t] /\ HandlerOK(t) /\ call[t].agent \in Agents
    BY <1>5, BusyIsTyped DEF IInv, Busy
  <2>2. Watched(t)'
    <3> SUFFICES ASSUME call[t].op = "subscribe"
                 PROVE  Watched(t)'
      BY <2>1 DEF Watched
    <3>1. Registered(call[t].agent) # {}
      BY <2>1 DEF HandlerOK, Known, Owns
    <3>2. PICK c \in Agents : c = call[t].agent
      BY <2>1
    <3>3. Registered(c)' = Registered(c)
      BY <1>2, <1>12, <3>1, <3>2
    <3> QED
      BY <1>12, <2>1, <3>2, <3>3 DEF HandlerOK, Watched
  <2>3. Upserting(t)'
    <3> SUFFICES ASSUME Upserted(t)
                 PROVE  Upserting(t)'
      BY <2>1 DEF Upserting, Upserted, Busy
    <3>1. a # call[t].agent /\ m # call[t].machine
      BY <1>1, <1>2, <2>1 DEF IInv, Upserts
    <3>2. PICK c \in Agents : c = call[t].agent
      BY <2>1
    <3>3. Registered(c)' = Registered(c)
      BY <1>12, <3>1, <3>2
    <3> QED
      BY <1>11, <2>1, <3>1, <3>2, <3>3 DEF HandlerOK, Upserting
  <2> QED
    BY <2>2, <2>3
<1>19. /\ telemetry' \in Seq(Telemetry) /\ DOMAIN sessions' \subseteq Tokens
       /\ \A t \in DOMAIN sessions' : sessions'[t] \in Existing'
  BY <1>1, <1>2, <1>7, <1>8, <1>12 DEF IInv, Types, TypeOK
<1> QED
  BY <1>1, <1>3, <1>4, <1>8, <1>9, <1>11, <1>13, <1>16, <1>17, <1>18, <1>19, WriteMove

(* A toggle is set: who watches it is shown the value it now has.          *)
LEMMA ToggleStep ==
    ASSUME IInv, NEW m \in MachineIds, NEW on \in BOOLEAN, set_location_enabled(m, on)
    PROVE  IInv'
<1> DEFINE watcher(s) == s \in Busy /\ call[s].op = "subscribe" /\ machines[m].key = call[s].agent
           row == [machines[m] EXCEPT !.location_enabled = on]
<1>1. /\ admin < MaxAdmin /\ m \in Existing /\ calls' = calls /\ admin' = admin + 1
      /\ machines' = [machines EXCEPT ![m].location_enabled = on]
      /\ call' = [s \in Slots |-> IF watcher(s) THEN [call[s] EXCEPT !.was = @ \cup {on}]
                                  ELSE call[s]]
      /\ UNCHANGED <<sessions, telemetry, groups, creating, agent, told>>
  BY DEF set_location_enabled
<1>2. machines \in [MachineIds -> Machine \cup {None}] /\ machines[m] \in Machine
  BY <1>1 DEF IInv, Types, TypeOK, Existing
<1>3. /\ row \in Machine /\ row.key = machines[m].key /\ row.location_enabled = on
      /\ row # None /\ machines' = [machines EXCEPT ![m] = row]
  BY <1>1, <1>2, MachineRowAssumption DEF Machine
<1> HIDE DEF row, watcher
<1>4. /\ machines' \in [MachineIds -> Machine \cup {None}]
      /\ machines'[m].location_enabled = on
      /\ \A n \in MachineIds : /\ (machines'[n] = None) = (machines[n] = None)
                               /\ machines'[n].key = machines[n].key
                               /\ n # m => machines'[n] = machines[n]
  BY <1>1, <1>2, <1>3 DEF Existing
<1>5. Existing' = Existing /\ \A a : Registered(a)' = Registered(a)
  BY <1>4 DEF Existing, Registered
<1>6. \A s \in Slots : call'[s] = IF watcher(s) THEN [call[s] EXCEPT !.was = call[s].was \cup {on}]
                                  ELSE call[s]
  BY <1>1
<1>7. \A s \in Busy : LET g == call'[s] IN
        /\ g \in Handler /\ g.op = call[s].op /\ g.pc = call[s].pc /\ g.agent = call[s].agent
        /\ g.open = call[s].open /\ g.group = call[s].group /\ g.location = call[s].location
        /\ g.machine = call[s].machine
        /\ g.was = IF watcher(s) THEN call[s].was \cup {on} ELSE call[s].was
  <2> TAKE s \in Busy
  <2>1. s \in Slots /\ call[s] \in Handler
    BY BusyIsTyped DEF IInv
  <2>2. CASE watcher(s)
    <3> DEFINE w == call[s].was \cup {on}
    <3>1. w \in SUBSET BOOLEAN
      BY <2>1 DEF Handler
    <3>2. call'[s] = [call[s] EXCEPT !.was = w]
      BY <1>6, <2>1, <2>2
    <3> HIDE DEF w
    <3>3. LET g == call'[s] IN
          /\ g \in Handler /\ g.op = call[s].op /\ g.pc = call[s].pc /\ g.agent = call[s].agent
          /\ g.open = call[s].open /\ g.group = call[s].group /\ g.location = call[s].location
          /\ g.machine = call[s].machine /\ g.was = w
      BY <2>1, <3>1, <3>2 DEF Handler
    <3> QED
      BY <2>2, <3>3 DEF w
  <2>3. CASE ~ watcher(s)
    BY <1>6, <2>1, <2>3
  <2> QED
    BY <2>2, <2>3
<1>8. Busy' = Busy
  <2>1. \A s \in Slots : s \in Busy => call'[s] # None
    BY <1>7, MachineHandlerAssumption
  <2>2. \A s \in Slots : s \notin Busy => call'[s] = call[s]
    BY <1>6 DEF watcher
  <2> QED
    BY <2>1, <2>2 DEF Busy
<1>9. Types'
  <2>1. \A s \in Slots : call'[s] \in Handler \cup {None}
    BY <1>6, <1>7 DEF IInv, Types, watcher
  <2>2. call' \in [Slots -> Handler \cup {None}]
    BY <1>1, <2>1
  <2>3. admin' \in 0..MaxAdmin
    BY <1>1, MachinesAssumption DEF IInv, Types, TypeOK
  <2> QED
    BY <1>1, <1>4, <1>5, <1>7, <1>8, <2>2, <2>3 DEF IInv, Types, TypeOK
<1>10. Grows
  <2>1. active' = active
    BY <1>1 DEF active
  <2> QED
    BY <1>1, <1>5, <2>1, Bounds DEF Grows
<1>11. OneRow' /\ Counted' /\ GroupsOK' /\ Upserts'
  <2>1. Registering' = Registering
    BY <1>7, <1>8 DEF Registering
  <2>2. Counted'
    BY <1>1, <2>1, CountsStay
  <2>3. OneRow'
    BY <1>5 DEF IInv, OneRow
  <2>4. GroupsOK'
    <3>1. admin \in Nat /\ admin' = admin + 1 /\ groups' = groups /\ creating' = creating
      BY <1>1, Bounds
    <3> QED
      BY <3>1 DEF IInv, GroupsOK
  <2>5. Upserts'
    <3>1. \A s \in Slots : Upserted(s)' = Upserted(s)
      BY <1>7, <1>8 DEF Upserted
    <3>2. \A s \in Slots : Upserted(s) => /\ call'[s].agent = call[s].agent
                                         /\ call'[s].machine = call[s].machine
      BY <1>7 DEF Upserted
    <3> QED
      BY <3>1, <3>2 DEF IInv, Upserts
  <2> QED
    BY <2>2, <2>3, <2>4, <2>5
<1>12. \A s \in Busy' : HandlerOK(s)'
  <2> SUFFICES ASSUME NEW s \in Busy
               PROVE  HandlerOK(s)'
    BY <1>8
  <2>1. s \in Slots /\ HandlerOK(s) /\ call[s].agent \in Agents
    BY BusyIsTyped DEF IInv
  <2>2. Watched(s)'
    <3> SUFFICES ASSUME call[s].op = "subscribe"
                 PROVE  /\ \A n \in Registered(call[s].agent) : machines'[n].location_enabled \in call'[s].was
                        /\ call[s].pc \in {"group", "config", "ticking"} =>
                              call[s].location \in call'[s].was
      BY <1>5, <1>7 DEF Watched
    <3>1. call[s].was \subseteq call'[s].was
      BY <1>7
    <3>2. ASSUME NEW n \in Registered(call[s].agent)
          PROVE  machines'[n].location_enabled \in call'[s].was
      <4>1. CASE n = m
        BY <1>4, <1>7, <3>2, <4>1 DEF Registered, watcher
      <4>2. CASE n # m
        <5>1. n \in MachineIds /\ machines'[n] = machines[n]
          BY <1>4, <4>2 DEF Registered, Existing
        <5> QED
          BY <2>1, <3>1, <5>1 DEF HandlerOK, Watched
      <4> QED
        BY <4>1, <4>2
    <3> QED
      BY <2>1, <3>1, <3>2 DEF HandlerOK, Watched
  <2>3. Upserting(s)'
    BY <1>4, <1>5, <1>7, <1>8, <2>1 DEF HandlerOK, Upserting, Upserted
  <2>4. call'[s] = call[s] \/ \E w : call'[s] = [call[s] EXCEPT !.was = w]
    BY <1>6, <2>1
  <2> QED
    BY <1>10, <2>2, <2>3, <2>4, OthersStay
<1>13. \A a \in Agents : KeeperOK(a)' /\ StreamOK(a)'
  <2> TAKE a \in Agents
  <2>1. KeeperOK(a)'
    BY <1>1, <1>10, KeeperStays
  <2>2. StreamOK(a)'
    <3> SUFFICES ASSUME agent[a].stream # None
                 PROVE  StreamOK(a)'
      BY <1>1 DEF StreamOK
    <3>1. PICK s \in Busy : s = agent[a].stream
      BY DEF IInv, StreamOK
    <3>2. StreamOK(a)
      BY DEF IInv
    <3>3. /\ call'[s].op = call[s].op /\ call'[s].agent = call[s].agent
          /\ call'[s].open = call[s].open /\ call'[s].pc = call[s].pc
          /\ call'[s].group = call[s].group
      BY <1>7
    <3>4. agent' = agent
      BY <1>1
    <3> QED
      BY <1>8, <3>1, <3>2, <3>3, <3>4 DEF StreamOK
  <2> QED
    BY <2>1, <2>2
<1> QED
  BY <1>9, <1>11, <1>12, <1>13 DEF IInv

(* A group is created or committed: the one in use gives way to a newer.   *)
LEMMA GroupStep ==
    ASSUME IInv, commit_group \/ \E hold \in BOOLEAN : create_group(hold)
    PROVE  IInv'
<1>1. UNCHANGED <<machines, sessions, telemetry, handlers, agent, told>>
  BY DEF commit_group, create_group
<1>2. /\ active \in Nat /\ active <= admin /\ admin \in Nat /\ MaxAdmin \in Nat
      /\ admin <= MaxAdmin /\ creating \in 0..admin /\ groups \subseteq 1..admin
  BY Bounds, MachinesAssumption DEF IInv, GroupsOK, Types, TypeOK
<1>3. Newest \in 0..admin
  BY <1>2 DEF Newest
<1>4. /\ groups \subseteq groups' /\ groups' \subseteq 1..admin'
      /\ creating' \in 0..admin' /\ admin' \in 0..MaxAdmin
  <2>1. CASE commit_group
    BY <1>2, <2>1 DEF commit_group
  <2>2. CASE \E hold \in BOOLEAN : create_group(hold)
    <3>1. admin' = admin + 1 /\ admin' \in 0..MaxAdmin /\ groups \subseteq groups'
      BY <1>2, <2>2 DEF create_group
    <3>2. groups' \subseteq groups \cup {Newest + 1} /\ creating' \in {creating, Newest + 1}
      BY <2>2 DEF create_group
    <3> QED
      BY <1>2, <1>3, <3>1, <3>2
  <2> QED
    BY <2>1, <2>2
<1>5. Types'
  <2>1. groups' \subseteq 1..MaxAdmin /\ creating' \in 0..MaxAdmin
    BY <1>2, <1>4
  <2> QED
    BY <1>1, <1>4, <2>1 DEF IInv, Types, TypeOK, handlers, Existing, Busy
<1>6. active' \in Nat /\ active <= active'
  <2>1. PICK A \in Nat : A = admin'
    BY <1>4, <1>2
  <2>2. groups' \subseteq 1..A
    BY <1>4, <2>1
  <2>3. active' \in 0..A /\ \A g \in groups' : g <= active'
    BY <2>2, ActiveIsNewestNext
  <2>4. active' \in Nat
    BY <2>3
  <2>5. groups # {} => active \in groups
    BY <1>2, ActiveIsNewest
  <2>6. groups = {} => active = 0
    BY DEF active
  <2>7. active <= active'
    <3>1. CASE groups = {}
      BY <2>4, <2>6, <3>1
    <3>2. CASE groups # {}
      BY <1>4, <2>3, <2>5, <3>2
    <3> QED
      BY <3>1, <3>2
  <2> QED
    BY <2>4, <2>7
<1>7. Grows
  BY <1>1, <1>6, Bounds DEF Grows, Registered, Existing
<1>8. Upserts' /\ OneRow' /\ GroupsOK'
  BY <1>1, <1>4 DEF IInv, Upserts, Upserted, OneRow, GroupsOK, Registered, Existing, Busy, handlers
<1>9. Counted'
  <2>1. Registering' \subseteq Registering
    BY <1>1 DEF Registering, Busy, handlers
  <2> QED
    BY <1>1, <2>1, CountsStay DEF handlers
<1>10. \A s \in Busy' : HandlerOK(s)'
  <2> SUFFICES ASSUME NEW s \in Busy
               PROVE  HandlerOK(s)'
    BY <1>1 DEF Busy, handlers
  <2>1. call' = call /\ HandlerOK(s)
    BY <1>1 DEF IInv, handlers
  <2>2. Watched(s)' /\ Upserting(s)'
    BY <1>1, <2>1 DEF HandlerOK, Watched, Upserting, Upserted, Registered, Existing, Busy
  <2> QED
    BY <1>7, <2>1, <2>2, OthersStay
<1>11. \A a \in Agents : KeeperOK(a)' /\ StreamOK(a)'
  <2> TAKE a \in Agents
  <2>1. KeeperOK(a)'
    BY <1>1, <1>7, KeeperStays
  <2>2. StreamOK(a)'
    BY <1>1 DEF IInv, StreamOK, Busy, handlers
  <2> QED
    BY <2>1, <2>2
<1> QED
  BY <1>5, <1>8, <1>9, <1>10, <1>11 DEF IInv

-----------------------------------------------------------------------------
LEMMA InitIInv == Init => IInv
<1> SUFFICES ASSUME Init PROVE IInv
  OBVIOUS
<1>1. /\ machines = [m \in MachineIds |-> None] /\ DOMAIN sessions = {} /\ telemetry = <<>>
      /\ groups = {} /\ creating = 0 /\ admin = 0 /\ calls = 0
      /\ call = [s \in Slots |-> None] /\ told = [a \in Agents |-> {}]
  BY DEF Init, InitHandlers
<1>2. Busy = {} /\ \A s \in Slots : ~ Upserted(s)
  BY <1>1 DEF Busy, Upserted
<1>3. \A a \in Agents : Registered(a) = {}
  BY <1>1 DEF Registered, Existing
<1>4. active = 0
  BY <1>1 DEF active
<1>5. agent \in [Agents -> Keeper] /\ \A a \in Agents :
         /\ agent[a].token = None /\ agent[a].stream = None
         /\ agent[a].next = 1 /\ agent[a].group = 0
  <2> DEFINE k == [id |-> None, token |-> None, next |-> 1, stream |-> None,
                   location |-> None, group |-> 0]
  <2>1. agent = [a \in Agents |-> k]
    BY DEF Init
  <2>2. Len(Batches) \in Nat
    BY MachinesAssumption
  <2>3. k \in Keeper /\ k.token = None /\ k.stream = None /\ k.next = 1 /\ k.group = 0
    BY <2>2, MachinesAssumption DEF Keeper
  <2> HIDE DEF k
  <2> QED
    BY <2>1, <2>3
<1>6. Types
  <2>1. telemetry \in Seq(Telemetry)
    BY <1>1
  <2>2. MaxCalls \in Nat /\ MaxAdmin \in Nat
    BY HandlersAssumption, MachinesAssumption
  <2> QED
    BY <1>1, <1>2, <1>5, <2>1, <2>2 DEF Types, TypeOK
<1>7. Counted
  <2>1. Registering = {}
    BY <1>2 DEF Registering
  <2> QED
    BY <1>1, <2>1, FS_EmptySet DEF Counted, Issued
<1>8. Upserts /\ OneRow /\ GroupsOK
  BY <1>1, <1>2, <1>3 DEF Upserts, OneRow, GroupsOK
<1>9. \A a \in Agents : KeeperOK(a) /\ StreamOK(a)
  BY <1>1, <1>4, <1>5 DEF KeeperOK, StreamOK
<1> QED
  BY <1>2, <1>6, <1>7, <1>8, <1>9 DEF IInv

LEMMA NextIInv == IInv /\ [Next]_vars => IInv'
<1> SUFFICES ASSUME IInv, [Next]_vars PROVE IInv'
  OBVIOUS
<1>1. ASSUME NEW s \in Slots, Handle(s)
      PROVE  IInv'
  BY <1>1, RegisterStep, CommitStep, AuthenticateStep, TouchStep, InsertStep, ReadLocationStep,
     ReadGroupStep, PushStep, ReplyStep, FailStep DEF Handle
<1>2. ASSUME NEW s \in Slots, Disconnect(s) \/ Receive(s)
      PROVE  IInv'
  BY <1>2, DisconnectStep, ReceiveStep
<1>3. ASSUME NEW s \in Slots, NEW a \in Agents, NEW op \in Ops, Send(s, a, op)
      PROVE  IInv'
  BY <1>3, SendStep
<1>4. ASSUME NEW m \in MachineIds, NEW on \in BOOLEAN, set_location_enabled(m, on)
      PROVE  IInv'
  BY <1>4, ToggleStep
<1>5. CASE commit_group \/ \E hold \in BOOLEAN : create_group(hold)
  BY <1>5, GroupStep
<1>6. CASE Crash
  BY <1>6, CrashStep
<1>7. CASE UNCHANGED vars
  <2>1. /\ UNCHANGED <<tables, agent, admin, told>> /\ UNCHANGED <<call, calls>>
    BY <1>7 DEF vars, tables, handlers
  <2>2. Types' /\ Upserts' /\ OneRow' /\ GroupsOK'
    BY <2>1 DEF IInv, Types, TypeOK, Upserts, Upserted, OneRow, GroupsOK, Registered, Existing,
       Busy, tables
  <2>3. Counted'
    <3>1. Registering' \subseteq Registering
      BY <2>1 DEF Registering, Busy
    <3> QED
      BY <2>1, <3>1, CountsStay DEF tables
  <2>4. Grows
    BY <2>1, StillGrows DEF tables
  <2>5. \A s \in Busy' : HandlerOK(s)'
    <3> SUFFICES ASSUME NEW s \in Busy
                 PROVE  HandlerOK(s)'
      BY <2>1 DEF Busy
    <3>1. HandlerOK(s)
      BY DEF IInv
    <3>2. Watched(s)' /\ Upserting(s)'
      BY <2>1, <3>1 DEF HandlerOK, Watched, Upserting, Upserted, Registered, Existing, Busy, tables
    <3> QED
      BY <2>1, <2>4, <3>2, OthersStay
  <2>6. \A a \in Agents : KeeperOK(a)' /\ StreamOK(a)'
    <3> TAKE a \in Agents
    <3>1. KeeperOK(a)'
      BY <2>1, <2>4, KeeperStays
    <3>2. StreamOK(a)'
      BY <2>1 DEF IInv, StreamOK, Busy
    <3> QED
      BY <3>1, <3>2
  <2> QED
    BY <2>2, <2>3, <2>5, <2>6 DEF IInv
<1> QED
  BY <1>1, <1>2, <1>3, <1>4, <1>5, <1>6, <1>7 DEF Next

(* The invariant of the machine plane, for every number of agents, ids,    *)
(* handlers, batches and calls.                                            *)
THEOREM SpecIInv == Spec => []IInv
<1> QED
  BY InitIInv, NextIInv, PTL DEF Spec

(* Tables, handlers and what agents keep have their types: no session is   *)
(* issued past the calls made, and every session has a machine's row.      *)
THEOREM TypeCorrect == Spec => []TypeOK
<1>1. IInv => TypeOK
  BY DEF IInv, Types
<1> QED
  BY <1>1, SpecIInv, PTL

(* However registrations overlap, fail and are repeated, a key has one row *)
(* and every answer named it (register_or_update).                         *)
THEOREM OneMachineEach == Spec => []OneMachinePerKey
<1>1. IInv => OneMachinePerKey
  <2> SUFFICES ASSUME IInv, NEW a \in Agents
               PROVE  Cardinality(Registered(a)) <= 1 /\ told[a] \subseteq Registered(a)
    BY DEF OneMachinePerKey
  <2>1. told[a] \subseteq Registered(a)
    BY DEF IInv, KeeperOK
  <2>2. CASE Registered(a) = {}
    <3>1. Cardinality(Registered(a)) = 0
      BY <2>2, FS_EmptySet
    <3> QED
      BY <2>1, <3>1
  <2>3. CASE Registered(a) # {}
    <3>1. PICK m : Registered(a) = {m}
      BY <2>3 DEF IInv, OneRow
    <3>2. Cardinality(Registered(a)) = 1
      BY <3>1, FS_Singleton
    <3> QED
      BY <2>1, <3>2
  <2> QED
    BY <2>2, <2>3
<1> QED
  BY <1>1, SpecIInv, PTL

(* What a batch's answer promises: all of it is in the table, in order     *)
(* (report_telemetry).                                                     *)
THEOREM AckedIsStored == Spec => []AckedBatchIsStored
<1>1. IInv => AckedBatchIsStored
  BY DEF IInv, KeeperOK, AckedBatchIsStored
<1> QED
  BY <1>1, SpecIInv, PTL

(* The toggle a stream pushes held at some moment since the agent called   *)
(* (subscribe).                                                            *)
THEOREM FreshConfig == Spec => []ConfigIsFresh
<1>1. IInv => ConfigIsFresh
  <2> SUFFICES ASSUME IInv, NEW s \in Busy, call[s].pc \in {"config", "ticking"}
               PROVE  call[s].location \in call[s].was
    BY DEF ConfigIsFresh
  <2>1. HandlerOK(s)
    BY DEF IInv
  <2> QED
    BY <2>1 DEF HandlerOK, Place, Watched
<1> QED
  BY <1>1, SpecIInv, PTL

-----------------------------------------------------------------------------
(* What a step leaves of the rows there are. *)
LEMMA RowStays ==
    ASSUME IInv, [Next]_vars, NEW m \in Existing
    PROVE  /\ machines'[m] # None /\ machines'[m].key = machines[m].key
           /\ machines'[m].location_enabled # machines[m].location_enabled => admin' = admin + 1
<1>1. m \in MachineIds /\ machines[m] \in Machine /\ machines[m] # None
  BY DEF IInv, Types, TypeOK, Existing
<1>2. CASE machines' = machines
  BY <1>1, <1>2
<1>3. ASSUME NEW s \in Slots, CommitRegister(s)
      PROVE  machines'[m] = machines[m]
  BY <1>1, <1>3 DEF CommitRegister, CommitRow, IInv, Types, TypeOK
<1>4. ASSUME NEW n, machines' = [machines EXCEPT ![n].checked_in = TRUE]
      PROVE  /\ machines'[m] # None /\ machines'[m].key = machines[m].key
             /\ machines'[m].location_enabled = machines[m].location_enabled
  <2> DEFINE row == [machines[m] EXCEPT !.checked_in = TRUE]
  <2>1. /\ row \in Machine /\ row # None /\ row.key = machines[m].key
        /\ row.location_enabled = machines[m].location_enabled
    BY <1>1, MachineRowAssumption DEF Machine
  <2>2. machines'[m] = row \/ machines'[m] = machines[m]
    BY <1>1, <1>4 DEF IInv, Types, TypeOK
  <2> HIDE DEF row
  <2> QED
    BY <1>1, <2>1, <2>2
<1>5. ASSUME NEW n \in MachineIds, NEW on \in BOOLEAN, set_location_enabled(n, on)
      PROVE  machines'[m] # None /\ machines'[m].key = machines[m].key /\ admin' = admin + 1
  <2> DEFINE row == [machines[m] EXCEPT !.location_enabled = on]
  <2>1. row \in Machine /\ row # None /\ row.key = machines[m].key
    BY <1>1, MachineRowAssumption DEF Machine
  <2>2. machines'[m] = row \/ machines'[m] = machines[m]
    BY <1>1, <1>5 DEF set_location_enabled, IInv, Types, TypeOK
  <2>3. admin' = admin + 1
    BY <1>5 DEF set_location_enabled
  <2> HIDE DEF row
  <2> QED
    BY <1>1, <2>1, <2>2, <2>3
<1>6. \/ machines' = machines
      \/ \E s \in Slots : CommitRegister(s)
      \/ \E n : machines' = [machines EXCEPT ![n].checked_in = TRUE]
      \/ \E n \in MachineIds, on \in BOOLEAN : set_location_enabled(n, on)
  <2>1. CASE \E s \in Slots : Handle(s) \/ Disconnect(s) \/ Receive(s)
    BY <2>1 DEF Handle, register_or_update, UpsertWith, authenticate_machine, touch_checkin, insert,
       location_enabled, ReadLocationAs, ReadGroup, SendConfig, KeepAlive, Push, Reply, Fail,
       Disconnect, Receive, tables
  <2>2. CASE \E s \in Slots, a \in Agents, op \in Ops : Send(s, a, op)
    BY <2>2 DEF Send, tables
  <2>3. CASE commit_group \/ Crash \/ \E hold \in BOOLEAN : create_group(hold)
    BY <2>3 DEF commit_group, Crash, create_group
  <2>4. CASE UNCHANGED vars
    BY <2>4 DEF vars
  <2> QED
    BY <2>1, <2>2, <2>3, <2>4 DEF Next
<1> QED
  BY <1>1, <1>2, <1>3, <1>4, <1>5, <1>6

(* A machine's row is never removed and keeps its key; only an             *)
(* administrator changes its toggle, no registration does                  *)
(* (register_or_update, set_location_enabled).                             *)
THEOREM RowKept == Spec => MachineKeepsItsRow
<1>1. IInv /\ [Next]_vars =>
         [\A m \in Existing :
             /\ machines'[m] # None
             /\ machines'[m].key = machines[m].key
             /\ machines'[m].location_enabled # machines[m].location_enabled => admin' = admin + 1]_vars
  BY RowStays
<1> QED
  BY <1>1, SpecIInv, PTL DEF Spec, MachineKeepsItsRow

LEMMA GroupStays ==
    ASSUME IInv, [Next]_vars, NEW a \in Agents
    PROVE  agent'[a].group >= agent[a].group
<1>1. agent \in [Agents -> Keeper] /\ agent[a] \in Keeper /\ agent[a].group \in Nat
  BY MachinesAssumption DEF IInv, Types, TypeOK, Keeper
<1>2. ASSUME NEW s \in Slots, Receive(s)
      PROVE  agent'[a].group >= agent[a].group
  <2>1. CASE agent'[a].group = agent[a].group
    BY <1>1, <2>1
  <2>2. CASE agent'[a].group # agent[a].group
    <3>1. a = call[s].agent /\ agent[a].stream = s /\ agent'[a].group = call[s].group
      BY <1>1, <1>2, <2>2 DEF Receive, Keeper
    <3>2. s \in Busy /\ call[s].pc = "ticking" /\ s # None
      BY <1>2, HandlersAssumption DEF Receive, At, Slots
    <3>3. agent[a].group <= call[s].group /\ call[s].group \in Nat
      BY <3>1, <3>2, BusyIsTyped, MachinesAssumption DEF IInv, StreamOK, Handler
    <3> QED
      BY <1>1, <3>1, <3>3
  <2> QED
    BY <2>1, <2>2
<1>3. ASSUME NEW s \in Slots, agent' = Hangup(s)
      PROVE  agent'[a].group = agent[a].group
  BY <1>1, <1>3 DEF Hangup, Keeper
<1>4. ASSUME NEW s \in Slots, Reply(s)
      PROVE  agent'[a].group = agent[a].group
  BY <1>1, <1>4 DEF Reply, Keeper
<1>5. ASSUME NEW s \in Slots, NEW c \in Agents, NEW op \in Ops, Send(s, c, op)
      PROVE  agent'[a].group = agent[a].group
  BY <1>1, <1>5 DEF Send, Keeper
<1>6. ASSUME Crash
      PROVE  agent'[a].group = agent[a].group
  BY <1>1, <1>6 DEF Crash, Keeper
<1>7. \/ agent' = agent
      \/ \E s \in Slots : Receive(s) \/ Reply(s) \/ agent' = Hangup(s)
      \/ \E s \in Slots, c \in Agents, op \in Ops : Send(s, c, op)
      \/ Crash
  <2>1. CASE \E s \in Slots : Handle(s) \/ Disconnect(s) \/ Receive(s)
    BY <2>1 DEF Handle, register_or_update, UpsertWith, CommitRegister, CommitRow,
       authenticate_machine, touch_checkin, insert, location_enabled, ReadLocationAs, ReadGroup,
       SendConfig, KeepAlive, Push, Fail, Disconnect
  <2>2. CASE \E m \in MachineIds, on \in BOOLEAN : set_location_enabled(m, on)
    BY <2>2 DEF set_location_enabled
  <2>3. CASE commit_group \/ \E hold \in BOOLEAN : create_group(hold)
    BY <2>3 DEF commit_group, create_group
  <2>4. CASE UNCHANGED vars
    BY <2>4 DEF vars
  <2> QED
    BY <2>1, <2>2, <2>3, <2>4 DEF Next
<1> QED
  BY <1>1, <1>2, <1>3, <1>4, <1>5, <1>6, <1>7

(* An agent is never sent back to an older group key: its stream reads the *)
(* newest one after the agent has opened it (active).                      *)
THEOREM GroupGoesOn == Spec => GroupNeverGoesBack
<1>1. IInv /\ [Next]_vars => [\A a \in Agents : agent'[a].group >= agent[a].group]_vars
  BY GroupStays
<1> QED
  BY <1>1, SpecIInv, PTL DEF Spec, GroupNeverGoesBack
=============================================================================
