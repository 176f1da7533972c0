-------------------------- MODULE AuditChainProofs --------------------------
(***************************************************************************)
(* Proofs about the audit log for any number of requests, users and rows.  *)
(* IInv is inductive; the safety properties and the implementation of      *)
(* AuditLog follow from it.                                                *)
(***************************************************************************)
EXTENDS AuditChain, TLAPS

(* Storing a truncated instant in a timestamptz column loses nothing, so a *)
(* verifier that reads the row back recomputes the hash that was stored    *)
(* (truncate_to_micros in append).                                         *)
LEMMA TruncationRoundTrips ==
    ASSUME NEW t \in Nat
    PROVE  /\ truncate_to_micros(t) \in Nat
           /\ Timestamptz(truncate_to_micros(t)) = truncate_to_micros(t)
<1> DEFINE K == NanosPerMicro
           q == t \div K
<1>1. K \in Nat /\ K > 0
  BY AuditAssumption
<1>2. q \in Nat
  BY <1>1
<1>3. q * K \in Nat
  BY <1>1, <1>2
<1>4. (q * K) \div K = q
  BY <1>1, <1>2, <1>3
<1> QED
  BY <1>3, <1>4 DEF truncate_to_micros, Timestamptz

(* A row with a higher seqno than every other is what ORDER BY seqno DESC  *)
(* LIMIT 1 returns.                                                        *)
LEMMA NewestIsMaximum ==
    ASSUME NEW rows \in SUBSET Row, NEW row \in Row,
           \A e \in rows : e.seqno < row.seqno
    PROVE  HeadHash(rows \cup {row}) = row.hash
<1>1. \A f \in rows \cup {row} : f.seqno <= row.seqno
  BY DEF Row
<1>2. ASSUME NEW e \in rows \cup {row},
             \A f \in rows \cup {row} : f.seqno <= e.seqno
      PROVE  e = row
  <2>1. row.seqno <= e.seqno
    BY <1>2
  <2>2. e \in rows => e.seqno < row.seqno /\ e.seqno \in Nat /\ row.seqno \in Nat
    BY DEF Row
  <2> QED
    BY <1>2, <2>1, <2>2
<1>3. Newest(rows \cup {row}) = row
  BY <1>1, <1>2 DEF Newest
<1> QED
  BY <1>3 DEF HeadHash

(* The newest hash of a table that has a newest row is a hash. *)
LEMMA HeadHashType ==
    ASSUME TypeOK, NewestExists
    PROVE  HeadHash(events) \in Hash
<1>1. CASE events = {}
  BY <1>1 DEF HeadHash, genesis_hash, Hash
<1>2. CASE events # {}
  <2>1. Newest(events) \in events
    BY <1>2 DEF NewestExists, Newest
  <2> QED
    BY <1>2, <2>1 DEF HeadHash, TypeOK, Row
<1> QED
  BY <1>1, <1>2

(* The row append inserts is well typed, carries what append drew and read *)
(* under the lock, and its hash recomputes from its stored columns.        *)
LEMMA NewRowRecomputes ==
    ASSUME TypeOK, NEW r \in Req, NEW now \in Nanos
    PROVE  /\ NewRow(r, now) \in Row
           /\ NewRow(r, now).seqno = seqno[r]
           /\ NewRow(r, now).data = r
           /\ NewRow(r, now).prev = prev[r]
           /\ NewRow(r, now).hash
                = compute_hash(prev[r], CanonicalOf(NewRow(r, now)))
           /\ CanonicalOf(NewRow(r, now)) \in Canonical
           /\ CanonicalOf(NewRow(r, now)).data = r
<1> DEFINE at == truncate_to_micros(now)
           c == [seqno |-> seqno[r], at |-> at, actor |-> actor[r], data |-> r]
<1>1. now \in Nat
  BY AuditAssumption
<1>2. at \in Nat /\ Timestamptz(at) = at
  BY <1>1, TruncationRoundTrips
<1>3. c \in Canonical
  BY <1>2 DEF TypeOK, Canonical
<1>4. compute_hash(prev[r], c) \in Hash /\ prev[r] \in Hash
  BY <1>3 DEF TypeOK, Hash, compute_hash
<1>5. NewRow(r, now) = [seqno |-> seqno[r], at |-> at, actor |-> actor[r],
                        data |-> r, prev |-> prev[r],
                        hash |-> compute_hash(prev[r], c)]
  BY <1>2 DEF NewRow
<1>6. CanonicalOf(NewRow(r, now)) = c
  BY <1>5 DEF CanonicalOf
<1>7. NewRow(r, now) \in Row
  BY <1>2, <1>4, <1>5 DEF TypeOK, Row
<1> QED
  BY <1>3, <1>5, <1>6, <1>7

(* What Commit publishes: exactly one row, above every other in seqno,     *)
(* linked to the newest one.                                               *)
LEMMA CommitPublishes ==
    ASSUME IInv, NEW r \in Req, Commit(r)
    PROVE  \E row \in Row :
              /\ events' = events \cup {row}
              /\ \A e \in events : e.seqno < row.seqno
              /\ row.seqno < nextSeqno
              /\ row.data = r
              /\ row.prev = HeadHash(events)
              /\ row.hash = compute_hash(row.prev, CanonicalOf(row))
              /\ CanonicalOf(row) \in Canonical
              /\ CanonicalOf(row).data = r
              /\ HeadHash(events') = Append(HeadHash(events), CanonicalOf(row))
<1>1. pc[r] = "commit"
  BY DEF Commit
<1>2. PICK now \in Nanos : uncommitted[r] = {NewRow(r, now)}
  BY <1>1 DEF IInv, PendingRow
<1> DEFINE row == NewRow(r, now)
<1>3. /\ row \in Row /\ row.seqno = seqno[r] /\ row.data = r
      /\ row.prev = prev[r]
      /\ row.hash = compute_hash(row.prev, CanonicalOf(row))
      /\ CanonicalOf(row) \in Canonical /\ CanonicalOf(row).data = r
  BY NewRowRecomputes DEF IInv
<1>4. events' = events \cup {row}
  BY <1>2 DEF Commit
<1>5. /\ \A e \in events : e.seqno < row.seqno
      /\ row.seqno < nextSeqno
  BY <1>1, <1>3 DEF IInv, SeqnoCurrent
<1>6. row.prev = HeadHash(events)
  BY <1>1, <1>3 DEF IInv, PrevCurrent
<1>7. events \in SUBSET Row
  BY DEF IInv, TypeOK
<1>8. HeadHash(events \cup {row}) = row.hash
  <2> HIDE DEF row
  <2>1. row \in Row /\ \A e \in events : e.seqno < row.seqno
    BY <1>3, <1>5
  <2> QED
    BY <1>7, <2>1, NewestIsMaximum
<1>9. HeadHash(events') = Append(HeadHash(events), CanonicalOf(row))
  BY <1>3, <1>4, <1>6, <1>8 DEF compute_hash
<1> QED
  <2>1. row \in Row
    BY <1>3
  <2> HIDE DEF row
  <2> QED
    BY <1>3, <1>4, <1>5, <1>6, <1>9, <2>1

(* A step that leaves the table alone keeps what only depends on the table. *)
LEMMA TableUnchanged ==
    ASSUME IInv, UNCHANGED events
    PROVE  NewestExists' /\ HeadNamesLogged' /\ ChainIntact'
<1>1. NewestExists'
  BY DEF IInv, NewestExists
<1>2. HeadNamesLogged'
  BY DEF IInv, HeadNamesLogged, Logged
<1>3. ChainIntact'
  BY DEF IInv, ChainIntact
<1> QED
  BY <1>1, <1>2, <1>3

(* An empty log with no request running satisfies the invariant. *)
LEMMA InitIInv == Init => IInv
<1> SUFFICES ASSUME Init PROVE IInv
  OBVIOUS
<1> USE AuditAssumption
<1>1. TypeOK
  BY DEF Init, TypeOK, PCs, InTx, InAppend, Finished, Actors, Hash, genesis_hash
<1>2. LockHeld /\ SeqnoCurrent /\ PrevCurrent /\ PendingRow
  BY DEF Init, LockHeld, SeqnoCurrent, PrevCurrent, PendingRow, InAppend
<1>3. NewestExists /\ EffectOfPhase
  BY DEF Init, NewestExists, EffectOfPhase, Logged, InTx, InAppend
<1>4. HeadNamesLogged
  BY DEF Init, HeadNamesLogged, Logged, HeadHash, genesis_hash
<1>5. ChainIntact /\ AuditedTogether
  BY DEF Init, ChainIntact, AuditedTogether, Logged
<1> QED
  BY <1>1, <1>2, <1>3, <1>4, <1>5 DEF IInv

(* Commit keeps the chain: older rows keep their predecessor, the new row  *)
(* links to the newest of them.                                            *)
LEMMA CommitKeepsChain ==
    ASSUME IInv, NEW r \in Req, Commit(r)
    PROVE  NewestExists' /\ HeadNamesLogged' /\ ChainIntact'
<1>1. PICK row \in Row :
         /\ events' = events \cup {row}
         /\ \A e \in events : e.seqno < row.seqno
         /\ row.data = r
         /\ row.prev = HeadHash(events)
         /\ row.hash = compute_hash(row.prev, CanonicalOf(row))
         /\ CanonicalOf(row) \in Canonical
         /\ CanonicalOf(row).data = r
         /\ HeadHash(events') = Append(HeadHash(events), CanonicalOf(row))
  BY CommitPublishes
<1>2. events \in SUBSET Row /\ HeadHash(events) \in Hash
  BY HeadHashType DEF IInv, TypeOK
<1>3. \A e \in events' : e.seqno \in Nat
  BY <1>1, <1>2 DEF Row
<1>4. NewestExists'
  BY <1>1, <1>3 DEF NewestExists
<1>5. HeadNamesLogged'
  <2> DEFINE h == HeadHash(events)
             c == CanonicalOf(row)
  <2>1. h \in Seq(Canonical) /\ c \in Canonical /\ HeadHash(events') = Append(h, c)
    BY <1>1, <1>2 DEF Hash
  <2>2. /\ DOMAIN Append(h, c) = (DOMAIN h) \cup {Len(h) + 1}
        /\ Append(h, c)[Len(h) + 1] = c
        /\ \A i \in DOMAIN h : Append(h, c)[i] = h[i]
    <3> HIDE DEF h, c
    <3> QED
      BY <2>1
  <2>3. ASSUME NEW s \in Req
        PROVE  (\E i \in DOMAIN Append(h, c) : Append(h, c)[i].data = s)
                 <=> (s = r \/ \E i \in DOMAIN h : h[i].data = s)
    <3>1. c.data = r
      BY <1>1
    <3> HIDE DEF h, c
    <3> QED
      BY <2>2, <3>1
  <2>4. ASSUME NEW s \in Req
        PROVE  Logged(s)' <=> (s = r \/ Logged(s))
    BY <1>1 DEF Logged
  <2>5. ASSUME NEW s \in Req
        PROVE  Logged(s) <=> \E i \in DOMAIN h : h[i].data = s
    BY DEF IInv, HeadNamesLogged
  <2> HIDE DEF h, c
  <2> QED
    BY <2>1, <2>3, <2>4, <2>5 DEF HeadNamesLogged
<1>6. ChainIntact'
  <2>1. \A e, f \in events' : e.seqno = f.seqno => e = f
    BY <1>1, <1>3 DEF IInv, ChainIntact
  <2>2. {f \in events' : f.seqno < row.seqno} = events
    BY <1>1, <1>3
  <2>3. ASSUME NEW e \in events
        PROVE  {f \in events' : f.seqno < e.seqno} = {f \in events : f.seqno < e.seqno}
    BY <1>1, <1>3
  <2>4. ASSUME NEW e \in events'
        PROVE  /\ e.prev = HeadHash({f \in events' : f.seqno < e.seqno})
               /\ e.hash = compute_hash(e.prev, CanonicalOf(e))
    <3>1. CASE e \in events
      BY <2>3, <3>1 DEF IInv, ChainIntact
    <3>2. CASE e = row
      BY <1>1, <2>2, <3>2
    <3> QED
      BY <1>1, <3>1, <3>2
  <2> QED
    BY <2>1, <2>4 DEF ChainIntact, HeadHash, Newest, compute_hash, CanonicalOf
<1> QED
  BY <1>4, <1>5, <1>6

(* The disciplines of a request, step by step: one lemma per part of IInv  *)
(* that the actions can disturb.                                           *)
LEMMA StepType ==
    ASSUME IInv, [Next]_vars
    PROVE  TypeOK'
<1> USE AuditAssumption DEF PCs, InTx, InAppend, Finished
<1> SUFFICES ASSUME TypeOK PROVE TypeOK'
  BY DEF IInv
<1>1. ASSUME NEW r \in Req, WriteInTx(r) PROVE TypeOK'
  BY <1>1 DEF TypeOK, WriteInTx, Goto, Actors
<1>2. ASSUME NEW r \in Req, WriteAndCommit(r) PROVE TypeOK'
  BY <1>2 DEF TypeOK, WriteAndCommit, Goto, Actors
<1>3. ASSUME NEW r \in Req, AcquireLock(r) PROVE TypeOK'
  BY <1>3 DEF TypeOK, AcquireLock, Goto
<1>4. ASSUME NEW r \in Req, DrawSeqno(r) PROVE TypeOK'
  BY <1>4 DEF TypeOK, DrawSeqno, Goto
<1>5. ASSUME NEW r \in Req, ReadPrev(r) PROVE TypeOK'
  <2>1. uncommitted[r] = {}
    BY <1>5 DEF ReadPrev, IInv, PendingRow
  <2>2. HeadHash(events \cup uncommitted[r]) \in Hash
    BY <2>1, HeadHashType DEF IInv
  <2> QED
    BY <1>5, <2>2 DEF TypeOK, ReadPrev, Goto, dbvars
<1>6. ASSUME NEW r \in Req, Insert(r) PROVE TypeOK'
  <2>1. PICK now \in Nanos :
           uncommitted' = [uncommitted EXCEPT ![r] = {NewRow(r, now)}]
    BY <1>6 DEF Insert
  <2>2. {NewRow(r, now)} \in SUBSET Row
    BY NewRowRecomputes
  <2>3. uncommitted' \in [Req -> SUBSET Row]
    BY <2>1, <2>2 DEF TypeOK
  <2> QED
    BY <1>6, <2>3 DEF TypeOK, Insert, Goto, dbvars
<1>7. ASSUME NEW r \in Req, Commit(r) PROVE TypeOK'
  BY <1>7 DEF TypeOK, Commit, Goto, Release
<1>8. ASSUME NEW r \in Req, Reply(r) PROVE TypeOK'
  BY <1>8 DEF TypeOK, Reply, Goto, dbvars
<1>9. ASSUME NEW r \in Req, Fail(r) PROVE TypeOK'
  BY <1>9 DEF TypeOK, Fail, Goto, Release
<1>10. ASSUME NEW r \in Req, Reject(r) PROVE TypeOK'
  BY <1>10 DEF TypeOK, Reject, Goto, dbvars
<1>11. CASE Crash
  BY <1>11 DEF TypeOK, Crash, Release, Running
<1>12. ASSUME NEW u \in Users, HardRemove(u) PROVE TypeOK'
  BY <1>12 DEF TypeOK, HardRemove, txvars
<1>13. CASE UNCHANGED vars
  BY <1>13 DEF TypeOK, vars, txvars, dbvars
<1> QED
  BY <1>1, <1>2, <1>3, <1>4, <1>5, <1>6, <1>7, <1>8, <1>9, <1>10, <1>11,
     <1>12, <1>13 DEF Next, Step, Quiescent

(* Mutual exclusion of append: the lock is taken when free and given back  *)
(* by commit, rollback or crash, never earlier.                            *)
LEMMA StepLock ==
    ASSUME IInv, [Next]_vars
    PROVE  LockHeld'
<1> USE AuditAssumption DEF InTx, InAppend, Finished, IInv, TypeOK, LockHeld
<1>1. ASSUME NEW r \in Req, WriteInTx(r) PROVE LockHeld'
  BY <1>1 DEF WriteInTx, Goto
<1>2. ASSUME NEW r \in Req, WriteAndCommit(r) PROVE LockHeld'
  BY <1>2 DEF WriteAndCommit, Goto
<1>3. ASSUME NEW r \in Req, AcquireLock(r) PROVE LockHeld'
  BY <1>3 DEF AcquireLock, Goto
<1>4. ASSUME NEW r \in Req, DrawSeqno(r) PROVE LockHeld'
  BY <1>4 DEF DrawSeqno, Goto
<1>5. ASSUME NEW r \in Req, ReadPrev(r) PROVE LockHeld'
  BY <1>5 DEF ReadPrev, Goto, dbvars
<1>6. ASSUME NEW r \in Req, Insert(r) PROVE LockHeld'
  BY <1>6 DEF Insert, Goto, dbvars
<1>7. ASSUME NEW r \in Req, Commit(r) PROVE LockHeld'
  BY <1>7 DEF Commit, Goto, Release
<1>8. ASSUME NEW r \in Req, Reply(r) PROVE LockHeld'
  BY <1>8 DEF Reply, Goto, dbvars
<1>9. ASSUME NEW r \in Req, Fail(r) PROVE LockHeld'
  BY <1>9 DEF Fail, Goto, Release
<1>10. ASSUME NEW r \in Req, Reject(r) PROVE LockHeld'
  BY <1>10 DEF Reject, Goto, dbvars
<1>11. CASE Crash
  BY <1>11 DEF Crash, Release, Running
<1>12. ASSUME NEW u \in Users, HardRemove(u) PROVE LockHeld'
  BY <1>12 DEF HardRemove, txvars
<1>13. CASE UNCHANGED vars
  BY <1>13 DEF vars, txvars, dbvars
<1> QED
  BY <1>1, <1>2, <1>3, <1>4, <1>5, <1>6, <1>7, <1>8, <1>9, <1>10, <1>11,
     <1>12, <1>13 DEF Next, Step, Quiescent

(* The seqno a request drew stays above every row and below the sequence:  *)
(* only the holder of the lock can add a row.                              *)
LEMMA StepSeqno ==
    ASSUME IInv, [Next]_vars
    PROVE  SeqnoCurrent'
<1> USE AuditAssumption DEF IInv, TypeOK, SeqnoCurrent, InTx, InAppend, Finished
<1>1. ASSUME NEW r \in Req, WriteInTx(r) PROVE SeqnoCurrent'
  BY <1>1 DEF WriteInTx, Goto
<1>2. ASSUME NEW r \in Req, WriteAndCommit(r) PROVE SeqnoCurrent'
  BY <1>2 DEF WriteAndCommit, Goto
<1>3. ASSUME NEW r \in Req, AcquireLock(r) PROVE SeqnoCurrent'
  BY <1>3 DEF AcquireLock, Goto
<1>4. ASSUME NEW r \in Req, DrawSeqno(r) PROVE SeqnoCurrent'
  <2>1. \A e \in events : e.seqno \in Nat /\ e.seqno < nextSeqno
    BY DEF Row
  <2> QED
    BY <1>4, <2>1 DEF DrawSeqno, Goto
<1>5. ASSUME NEW r \in Req, ReadPrev(r) PROVE SeqnoCurrent'
  BY <1>5 DEF ReadPrev, Goto, dbvars
<1>6. ASSUME NEW r \in Req, Insert(r) PROVE SeqnoCurrent'
  BY <1>6 DEF Insert, Goto, dbvars
<1>7. ASSUME NEW r \in Req, Commit(r) PROVE SeqnoCurrent'
  <2>1. \A s \in Req \ {r} : pc[s] \notin InAppend
    BY <1>7 DEF Commit, IInv, LockHeld, InAppend
  <2>2. PICK row \in Row : events' = events \cup {row} /\ row.seqno < nextSeqno
    BY <1>7, CommitPublishes
  <2> QED
    BY <1>7, <2>1, <2>2 DEF Commit, Goto
<1>8. ASSUME NEW r \in Req, Reply(r) PROVE SeqnoCurrent'
  BY <1>8 DEF Reply, Goto, dbvars
<1>9. ASSUME NEW r \in Req, Fail(r) PROVE SeqnoCurrent'
  BY <1>9 DEF Fail, Goto
<1>10. ASSUME NEW r \in Req, Reject(r) PROVE SeqnoCurrent'
  BY <1>10 DEF Reject, Goto, dbvars
<1>11. CASE Crash
  BY <1>11 DEF Crash, Running
<1>12. ASSUME NEW u \in Users, HardRemove(u) PROVE SeqnoCurrent'
  BY <1>12 DEF HardRemove, txvars
<1>13. CASE UNCHANGED vars
  BY <1>13 DEF vars, txvars, dbvars
<1> QED
  BY <1>1, <1>2, <1>3, <1>4, <1>5, <1>6, <1>7, <1>8, <1>9, <1>10, <1>11,
     <1>12, <1>13 DEF Next, Step, Quiescent

(* The hash a request read is still the newest when it inserts and commits. *)
LEMMA StepPrev ==
    ASSUME IInv, [Next]_vars
    PROVE  PrevCurrent'
<1> USE AuditAssumption DEF IInv, TypeOK, PrevCurrent, InTx, InAppend, Finished
<1>1. ASSUME NEW r \in Req, WriteInTx(r) PROVE PrevCurrent'
  BY <1>1 DEF WriteInTx, Goto
<1>2. ASSUME NEW r \in Req, WriteAndCommit(r) PROVE PrevCurrent'
  BY <1>2 DEF WriteAndCommit, Goto
<1>3. ASSUME NEW r \in Req, AcquireLock(r) PROVE PrevCurrent'
  BY <1>3 DEF AcquireLock, Goto
<1>4. ASSUME NEW r \in Req, DrawSeqno(r) PROVE PrevCurrent'
  BY <1>4 DEF DrawSeqno, Goto
<1>5. ASSUME NEW r \in Req, ReadPrev(r) PROVE PrevCurrent'
  <2>1. uncommitted[r] = {}
    BY <1>5 DEF ReadPrev, PendingRow
  <2>2. prev'[r] = HeadHash(events) /\ events' = events
    BY <1>5, <2>1 DEF ReadPrev, dbvars
  <2> QED
    BY <1>5, <2>2 DEF ReadPrev, Goto
<1>6. ASSUME NEW r \in Req, Insert(r) PROVE PrevCurrent'
  BY <1>6 DEF Insert, Goto, dbvars
<1>7. ASSUME NEW r \in Req, Commit(r) PROVE PrevCurrent'
  <2>1. \A s \in Req \ {r} : pc[s] \notin InAppend
    BY <1>7 DEF Commit, IInv, LockHeld, InAppend
  <2> QED
    BY <1>7, <2>1 DEF Commit, Goto
<1>8. ASSUME NEW r \in Req, Reply(r) PROVE PrevCurrent'
  BY <1>8 DEF Reply, Goto, dbvars
<1>9. ASSUME NEW r \in Req, Fail(r) PROVE PrevCurrent'
  BY <1>9 DEF Fail, Goto
<1>10. ASSUME NEW r \in Req, Reject(r) PROVE PrevCurrent'
  BY <1>10 DEF Reject, Goto, dbvars
<1>11. CASE Crash
  BY <1>11 DEF Crash, Running
<1>12. ASSUME NEW u \in Users, HardRemove(u) PROVE PrevCurrent'
  BY <1>12 DEF HardRemove, txvars
<1>13. CASE UNCHANGED vars
  BY <1>13 DEF vars, txvars, dbvars
<1> QED
  BY <1>1, <1>2, <1>3, <1>4, <1>5, <1>6, <1>7, <1>8, <1>9, <1>10, <1>11,
     <1>12, <1>13 DEF Next, Step, Quiescent

(* A transaction's row depends on its own request alone. *)
LEMMA OthersKeepPending ==
    ASSUME PendingRow, NEW r \in Req,
           pc[r] # "commit", pc'[r] # "commit", UNCHANGED <<seqno, prev, uncommitted>>,
           \A s \in Req \ {r} : actor'[s] = actor[s] /\ pc'[s] = pc[s]
    PROVE  PendingRow'
<1>1. ASSUME NEW s \in Req \ {r}, NEW now \in Nanos
      PROVE  NewRow(s, now)' = NewRow(s, now)
  BY DEF NewRow
<1> QED
  BY <1>1 DEF PendingRow

(* An open transaction holds exactly the row its insert computed. *)
LEMMA StepPending ==
    ASSUME IInv, [Next]_vars
    PROVE  PendingRow'
<1> USE AuditAssumption DEF IInv, TypeOK, PendingRow, NewRow, InTx, InAppend, Finished
<1>1. ASSUME NEW r \in Req, WriteInTx(r) PROVE PendingRow'
  <2>1. /\ \A s \in Req \ {r} : actor'[s] = actor[s] /\ pc'[s] = pc[s]
        /\ pc[r] = "start" /\ pc'[r] = "append"
        /\ UNCHANGED <<seqno, prev, uncommitted>>
    BY <1>1 DEF WriteInTx, Goto
  <2> QED
    BY <2>1, OthersKeepPending
<1>2. ASSUME NEW r \in Req, WriteAndCommit(r) PROVE PendingRow'
  <2>1. /\ \A s \in Req \ {r} : actor'[s] = actor[s] /\ pc'[s] = pc[s]
        /\ pc[r] = "start" /\ pc'[r] = "append"
        /\ UNCHANGED <<seqno, prev, uncommitted>>
    BY <1>2 DEF WriteAndCommit, Goto
  <2> QED
    BY <2>1, OthersKeepPending
<1>3. ASSUME NEW r \in Req, AcquireLock(r) PROVE PendingRow'
  BY <1>3 DEF AcquireLock, Goto
<1>4. ASSUME NEW r \in Req, DrawSeqno(r) PROVE PendingRow'
  BY <1>4 DEF DrawSeqno, Goto
<1>5. ASSUME NEW r \in Req, ReadPrev(r) PROVE PendingRow'
  BY <1>5 DEF ReadPrev, Goto, dbvars
<1>6. ASSUME NEW r \in Req, Insert(r) PROVE PendingRow'
  BY <1>6 DEF Insert, Goto, dbvars
<1>7. ASSUME NEW r \in Req, Commit(r) PROVE PendingRow'
  BY <1>7 DEF Commit, Goto
<1>8. ASSUME NEW r \in Req, Reply(r) PROVE PendingRow'
  BY <1>8 DEF Reply, Goto, dbvars
<1>9. ASSUME NEW r \in Req, Fail(r) PROVE PendingRow'
  BY <1>9 DEF Fail, Goto
<1>10. ASSUME NEW r \in Req, Reject(r) PROVE PendingRow'
  BY <1>10 DEF Reject, Goto, dbvars
<1>11. CASE Crash
  BY <1>11 DEF Crash, Running
<1>12. ASSUME NEW u \in Users, HardRemove(u) PROVE PendingRow'
  BY <1>12 DEF HardRemove, txvars
<1>13. CASE UNCHANGED vars
  BY <1>13 DEF vars, txvars, dbvars
<1> QED
  BY <1>1, <1>2, <1>3, <1>4, <1>5, <1>6, <1>7, <1>8, <1>9, <1>10, <1>11,
     <1>12, <1>13 DEF Next, Step, Quiescent

(* The phase of a request tells whether its action is committed and logged. *)
LEMMA StepEffect ==
    ASSUME IInv, [Next]_vars
    PROVE  EffectOfPhase'
<1> USE AuditAssumption DEF IInv, TypeOK, EffectOfPhase, Logged, InTx, InAppend, Finished
<1>1. ASSUME NEW r \in Req, WriteInTx(r) PROVE EffectOfPhase'
  BY <1>1 DEF WriteInTx, Goto, AuditedTogether
<1>2. ASSUME NEW r \in Req, WriteAndCommit(r) PROVE EffectOfPhase'
  BY <1>2 DEF WriteAndCommit, Goto, AuditedTogether
<1>3. ASSUME NEW r \in Req, AcquireLock(r) PROVE EffectOfPhase'
  BY <1>3 DEF AcquireLock, Goto
<1>4. ASSUME NEW r \in Req, DrawSeqno(r) PROVE EffectOfPhase'
  BY <1>4 DEF DrawSeqno, Goto
<1>5. ASSUME NEW r \in Req, ReadPrev(r) PROVE EffectOfPhase'
  BY <1>5 DEF ReadPrev, Goto, dbvars
<1>6. ASSUME NEW r \in Req, Insert(r) PROVE EffectOfPhase'
  BY <1>6 DEF Insert, Goto, dbvars
<1>7. ASSUME NEW r \in Req, Commit(r) PROVE EffectOfPhase'
  <2>1. PICK row \in Row : events' = events \cup {row} /\ row.data = r
    BY <1>7, CommitPublishes
  <2> QED
    BY <1>7, <2>1 DEF Commit, Goto
<1>8. ASSUME NEW r \in Req, Reply(r) PROVE EffectOfPhase'
  BY <1>8 DEF Reply, Goto, dbvars
<1>9. ASSUME NEW r \in Req, Fail(r) PROVE EffectOfPhase'
  BY <1>9 DEF Fail, Goto
<1>10. ASSUME NEW r \in Req, Reject(r) PROVE EffectOfPhase'
  BY <1>10 DEF Reject, Goto, dbvars
<1>11. CASE Crash
  BY <1>11 DEF Crash, Running
<1>12. ASSUME NEW u \in Users, HardRemove(u) PROVE EffectOfPhase'
  BY <1>12 DEF HardRemove, txvars
<1>13. CASE UNCHANGED vars
  BY <1>13 DEF vars, txvars, dbvars
<1> QED
  BY <1>1, <1>2, <1>3, <1>4, <1>5, <1>6, <1>7, <1>8, <1>9, <1>10, <1>11,
     <1>12, <1>13 DEF Next, Step, Quiescent

(* A transaction publishes its action and its event together. *)
LEMMA StepAudited ==
    ASSUME IInv, [Next]_vars
    PROVE  AuditedTogether'
<1> USE AuditAssumption DEF IInv, TypeOK, AuditedTogether, Logged
<1>1. ASSUME NEW r \in Req, WriteInTx(r) PROVE AuditedTogether'
  BY <1>1 DEF WriteInTx, Goto
<1>2. ASSUME NEW r \in Req, WriteAndCommit(r) PROVE AuditedTogether'
  BY <1>2 DEF WriteAndCommit, Goto
<1>3. ASSUME NEW r \in Req, AcquireLock(r) PROVE AuditedTogether'
  BY <1>3 DEF AcquireLock, Goto
<1>4. ASSUME NEW r \in Req, DrawSeqno(r) PROVE AuditedTogether'
  BY <1>4 DEF DrawSeqno, Goto
<1>5. ASSUME NEW r \in Req, ReadPrev(r) PROVE AuditedTogether'
  BY <1>5 DEF ReadPrev, Goto, dbvars
<1>6. ASSUME NEW r \in Req, Insert(r) PROVE AuditedTogether'
  BY <1>6 DEF Insert, Goto, dbvars
<1>7. ASSUME NEW r \in Req, Commit(r) PROVE AuditedTogether'
  <2>1. PICK row \in Row : events' = events \cup {row} /\ row.data = r
    BY <1>7, CommitPublishes
  <2> QED
    BY <1>7, <2>1 DEF Commit
<1>8. ASSUME NEW r \in Req, Reply(r) PROVE AuditedTogether'
  BY <1>8 DEF Reply, dbvars, EffectOfPhase
<1>9. ASSUME NEW r \in Req, Fail(r) PROVE AuditedTogether'
  BY <1>9 DEF Fail, Goto
<1>10. ASSUME NEW r \in Req, Reject(r) PROVE AuditedTogether'
  BY <1>10 DEF Reject, Goto, dbvars
<1>11. CASE Crash
  BY <1>11 DEF Crash, Running
<1>12. ASSUME NEW u \in Users, HardRemove(u) PROVE AuditedTogether'
  BY <1>12 DEF HardRemove, txvars
<1>13. CASE UNCHANGED vars
  BY <1>13 DEF vars, txvars, dbvars
<1> QED
  BY <1>1, <1>2, <1>3, <1>4, <1>5, <1>6, <1>7, <1>8, <1>9, <1>10, <1>11,
     <1>12, <1>13 DEF Next, Step, Quiescent

(* Only Commit changes the table. *)
LEMMA OnlyCommitWrites ==
    ASSUME Next
    PROVE  UNCHANGED events \/ \E r \in Req : Commit(r)
BY DEF Next, Step, Quiescent, WriteInTx, WriteAndCommit, AcquireLock, DrawSeqno,
       ReadPrev, Insert, Reply, Fail, Reject, Crash, HardRemove, vars, dbvars

(* Every statement, failure, crash and removal keeps the invariant. *)
LEMMA NextIInv == IInv /\ [Next]_vars => IInv'
<1> SUFFICES ASSUME IInv, [Next]_vars PROVE IInv'
  OBVIOUS
<1>1. TypeOK' /\ LockHeld' /\ SeqnoCurrent' /\ PrevCurrent' /\ PendingRow'
  BY StepType, StepLock, StepSeqno, StepPrev, StepPending
<1>2. EffectOfPhase' /\ AuditedTogether'
  BY StepEffect, StepAudited
<1>3. NewestExists' /\ HeadNamesLogged' /\ ChainIntact'
  <2>1. CASE UNCHANGED events
    BY <2>1, TableUnchanged
  <2>2. CASE \E r \in Req : Commit(r)
    BY <2>2, CommitKeepsChain
  <2> QED
    BY <2>1, <2>2, OnlyCommitWrites DEF vars, dbvars
<1> QED
  BY <1>1, <1>2, <1>3 DEF IInv

(* IInv holds in every state of the audit transactions. *)
THEOREM AuditInvariant == Spec => []IInv
<1>1. Init => IInv
  BY InitIInv
<1>2. IInv /\ [Next]_vars => IInv'
  BY NextIInv
<1> QED
  BY <1>1, <1>2, PTL DEF Spec

(* Every state is well typed: in particular prev[r], read from the newest  *)
(* row, is always a hash of the chain.                                     *)
THEOREM AuditTypeOK == Spec => []TypeOK
BY AuditInvariant, PTL DEF IInv

(* For any number of concurrent appenders, rollbacks, crashes and account  *)
(* removals, a verifier of the stored rows accepts them (append).          *)
THEOREM ChainAlwaysIntact == Spec => []ChainIntact
BY AuditInvariant, PTL DEF IInv

(* The action of an audited handler and its event are committed together,  *)
(* and success is only reported for a committed action.                    *)
THEOREM AlwaysAuditedTogether == Spec => []AuditedTogether
BY AuditInvariant, PTL DEF IInv

(* The table only grows, and grows in seqno order. *)
THEOREM TableAppendOnly == Spec => AppendOnly
<1>1. ASSUME IInv, Next
      PROVE  [/\ events \subseteq events'
              /\ \A e \in events, f \in events' \ events : e.seqno < f.seqno]_events
  <2>1. CASE UNCHANGED events
    BY <2>1
  <2>2. ASSUME NEW r \in Req, Commit(r)
        PROVE  /\ events \subseteq events'
               /\ \A e \in events, f \in events' \ events : e.seqno < f.seqno
    BY <1>1, <2>2, CommitPublishes
  <2> QED
    BY <1>1, <2>1, <2>2, OnlyCommitWrites
<1>2. UNCHANGED vars => UNCHANGED events
  BY DEF vars, dbvars
<1> QED
  BY <1>1, <1>2, AuditInvariant, PTL DEF Spec, AppendOnly

(* A commit appends one entry to the abstract log, together with the action *)
(* it records; for RevokeDevice the action is already there.                *)
LEMMA CommitRefines ==
    ASSUME IInv, NEW r \in Req, Commit(r)
    PROVE  AL!ALNext
<1> DEFINE h == HeadHash(events)
           g == HeadHash(events')
<1>1. PICK row \in Row :
         /\ CanonicalOf(row) \in Canonical
         /\ CanonicalOf(row).data = r
         /\ g = Append(h, CanonicalOf(row))
  BY CommitPublishes
<1>2. h \in Seq(Canonical)
  BY HeadHashType DEF IInv, Hash
<1>3. /\ Len(g) = Len(h) + 1
      /\ g = Append(h, g[Len(g)])
      /\ g[Len(g)].data = r
  <2> HIDE DEF h, g
  <2> QED
    BY <1>1, <1>2
<1>4. AL!Extends(r)
  BY <1>3 DEF AL!Extends
<1>5. pc[r] = "commit" /\ applied' = applied \cup {r}
  BY DEF Commit
<1>6. (r \in applied <=> r \in BestEffort) /\ ~Logged(r)
  BY <1>5 DEF IInv, EffectOfPhase, InTx, InAppend
<1>7. CASE r \notin BestEffort
  BY <1>4, <1>5, <1>6, <1>7 DEF AL!ALNext, AL!Act
<1>8. CASE r \in BestEffort
  <2>1. ~AL!Logged(r)
    BY <1>6 DEF IInv, HeadNamesLogged, AL!Logged
  <2> QED
    BY <1>4, <1>5, <1>6, <1>8, <2>1 DEF AL!ALNext, AL!RecordLate
<1> QED
  BY <1>7, <1>8

(* Every other step leaves the abstract log alone, except the one that     *)
(* commits a device revocation before it is recorded.                      *)
LEMMA NextRefines ==
    ASSUME IInv, [Next]_vars
    PROVE  [AL!ALNext]_(AL!alvars)
<1>1. ASSUME NEW r \in Req, Commit(r) PROVE AL!ALNext
  BY <1>1, CommitRefines
<1>2. ASSUME NEW r \in Req, WriteAndCommit(r) PROVE AL!ALNext
  <2>1. r \in BestEffort /\ r \notin applied /\ applied' = applied \cup {r}
    BY <1>2 DEF WriteAndCommit, IInv, EffectOfPhase
  <2>2. HeadHash(events)' = HeadHash(events)
    BY <1>2 DEF WriteAndCommit
  <2> QED
    BY <2>1, <2>2 DEF AL!ALNext, AL!ActUnrecorded
<1>3. CASE UNCHANGED <<events, applied>>
  BY <1>3 DEF AL!alvars
<1>4. \/ UNCHANGED <<events, applied>>
      \/ \E r \in Req : Commit(r) \/ WriteAndCommit(r)
  BY DEF Next, Step, Quiescent, WriteInTx, AcquireLock, DrawSeqno, ReadPrev,
         Insert, Reply, Fail, Reject, Crash, HardRemove, vars, dbvars
<1> QED
  BY <1>1, <1>2, <1>3, <1>4

(* The audit transactions implement the append-only log AuditLog: what the *)
(* newest hash commits to is extended one entry at a time, together with   *)
(* the action the entry records.                                           *)
THEOREM ChainImplementsLog == Spec => ImplementsAuditLog
<1>1. Init => AL!ALInit
  BY DEF Init, AL!ALInit, HeadHash, genesis_hash
<1>2. IInv /\ [Next]_vars => [AL!ALNext]_(AL!alvars)
  BY NextRefines
<1> QED
  BY <1>1, <1>2, AuditInvariant, PTL DEF Spec, ImplementsAuditLog, AL!ALSpec
=============================================================================
