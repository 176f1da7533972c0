-------------------------- MODULE EnrollmentProofs --------------------------
(***************************************************************************)
(* Recovery codes, invitations and devices, proved for any number of       *)
(* users, codes, invitations, devices and handlers.  With TotpInv the      *)
(* invariants of this module make IInv, which is inductive for Enrollment. *)
(***************************************************************************)
EXTENDS TotpProofs

Minted == {hash_code(code) : code \in minted}

(* The hash of a code a handler has generated and will store. *)
Unstored(s) == IF s \in Busy /\ call[s].op \in {"bootstrap", "rotate"} THEN {call[s].new} ELSE {}

RecoveryRow == [hash : Hashes, rotated : BOOLEAN]

RecoveryTypeOK ==
    /\ recovery \in Seq(RecoveryRow)
    /\ user_code \in [Users -> Hashes \cup {None}]
    /\ minted \subseteq Codes
    /\ rotations \in Seq(Hashes)
    /\ resets \in Seq(Users \X Hashes)

(* Who holds the index entry of the active code found none, or the one it  *)
(* was given the hash of.                                                  *)
HoldsRightly(s) ==
    IF call[s].op = "bootstrap" THEN recovery = <<>>
    ELSE call[s].previous \in Active /\ recovery[call[s].previous].hash = call[s].current

ActiveIsOne == recovery # <<>> => \E i \in 1..Len(recovery) : Active = {i}
CodesHeld ==
    \A s \in Slots : HoldsCodes(s) => /\ HoldsRightly(s)
                                      /\ \A t \in Slots \ {s} : ~ HoldsCodes(t)
HashesDiffer ==
    /\ \A i \in 1..Len(recovery) : recovery[i].hash \in Minted
    /\ \A i, j \in 1..Len(recovery) : i # j => recovery[i].hash # recovery[j].hash
    /\ \A s \in Slots : \A h \in Unstored(s) :
          /\ h \in Minted
          /\ \A i \in 1..Len(recovery) : recovery[i].hash # h
          /\ \A t \in Slots \ {s} : h \notin Unstored(t)
RotationsServed ==
    /\ \A i \in 1..Len(rotations) :
          \E j \in 1..Len(recovery) : recovery[j].rotated /\ recovery[j].hash = rotations[i]
    /\ \A i, j \in 1..Len(rotations) : i # j => rotations[i] # rotations[j]
ServerCodes == ActiveIsOne /\ CodesHeld /\ HashesDiffer /\ RotationsServed

(* A reset under way has verified the code that is still the user's; the   *)
(* codes that have served are nobody's any more.                           *)
UserCodeHeld ==
    \A s \in Slots, u \in Users : HoldsUserCode(s, u) =>
       /\ user_code[u] = call[s].current
       /\ Exists(u)
       /\ \A t \in Slots \ {s} : ~ HoldsUserCode(t, u)
ResetsServed ==
    /\ \A u \in Users : user_code[u] \in Minted \cup {None}
    /\ \A i \in 1..Len(resets) : /\ resets[i][2] \in Minted
                                 /\ user_code[resets[i][1]] # resets[i][2]
    /\ \A i, j \in 1..Len(resets) : i # j => resets[i] # resets[j]
CodesHaveUsers == \A u \in Users : user_code[u] # None => Exists(u)
UserCodes == UserCodeHeld /\ ResetsServed /\ CodesHaveUsers

RecoveryInv == RecoveryTypeOK /\ ServerCodes /\ UserCodes

-----------------------------------------------------------------------------
(* A code that is generated is new, and so is its hash.                    *)
LEMMA MintIsFresh ==
    ASSUME RecoveryTypeOK, NEW code, Mint(code)
    PROVE  /\ hash_code(code) \in Hashes /\ hash_code(code) # None
           /\ hash_code(code) \notin Minted
           /\ Minted' = Minted \cup {hash_code(code)}
           /\ minted' \subseteq Codes
BY HashAssumption DEF Mint, Minted, Hashes, RecoveryTypeOK

(* A handler moves and leaves the server's codes alone. *)
LEMMA MoveKeepsServerCodes ==
    ASSUME ServerCodes, UNCHANGED <<recovery, rotations>>, Minted \subseteq Minted',
           NEW s \in Slots, \A t \in Slots \ {s} : call'[t] = call[t],
           HoldsCodes(s)' => HoldsRightly(s)' /\ \A t \in Slots \ {s} : ~ HoldsCodes(t),
           \A h \in Unstored(s)' : /\ h \in Minted'
                                   /\ \A i \in 1..Len(recovery) : recovery[i].hash # h
                                   /\ \A t \in Slots \ {s} : h \notin Unstored(t)
    PROVE  ServerCodes'
<1>1. Active' = Active
  BY DEF Active
<1>2. \A t \in Slots \ {s} : /\ HoldsCodes(t)' = HoldsCodes(t)
                             /\ HoldsRightly(t)' = HoldsRightly(t)
                             /\ Unstored(t)' = Unstored(t)
  BY <1>1 DEF HoldsCodes, RecoveryHandler, HoldsRightly, Unstored, Busy
<1>3. (ActiveIsOne /\ RotationsServed)'
  BY <1>1 DEF ServerCodes, ActiveIsOne, RotationsServed
<1>4. CodesHeld'
  BY <1>2 DEF ServerCodes, CodesHeld
<1>5. HashesDiffer'
  <2> SUFFICES ASSUME NEW t \in Slots, NEW h \in Unstored(t)'
               PROVE  /\ h \in Minted'
                      /\ \A i \in 1..Len(recovery) : recovery[i].hash # h
                      /\ \A v \in Slots \ {t} : h \notin Unstored(v)'
    BY DEF ServerCodes, HashesDiffer
  <2> QED
    BY <1>2 DEF ServerCodes, HashesDiffer
<1> QED
  BY <1>3, <1>4, <1>5 DEF ServerCodes

(* A handler moves and leaves the users' codes alone. *)
LEMMA MoveKeepsUserCodes ==
    ASSUME UserCodes, UNCHANGED <<user_code, resets>>, Minted \subseteq Minted',
           NEW s \in Slots, \A t \in Slots \ {s} : call'[t] = call[t],
           \A u \in Users : Exists(u) => Exists(u)',
           \A u \in Users : HoldsUserCode(s, u)' =>
              /\ user_code[u] = call'[s].current
              /\ Exists(u)
              /\ \A t \in Slots \ {s} : ~ HoldsUserCode(t, u)
    PROVE  UserCodes'
<1>1. \A t \in Slots \ {s}, u \in Users : HoldsUserCode(t, u)' = HoldsUserCode(t, u)
  BY DEF HoldsUserCode, At, Busy
<1>2. UserCodeHeld'
  BY <1>1 DEF UserCodes, UserCodeHeld
<1>3. (ResetsServed /\ CodesHaveUsers)'
  BY DEF UserCodes, ResetsServed, CodesHaveUsers
<1> QED
  BY <1>2, <1>3 DEF UserCodes

(* A handler that is not in Recovery, or leaves it.                        *)
LEMMA OtherMoveKeepsRecovery ==
    ASSUME HandlersOK, RecoveryInv, UNCHANGED codes,
           \A u \in Users : Exists(u) => Exists(u)',
           \/ UNCHANGED call
           \/ \E s \in Slots : \E h : /\ call' = [call EXCEPT ![s] = h]
                                      /\ h = None \/ h.op \notin {"bootstrap", "rotate", "reset"}
    PROVE  RecoveryInv'
<1>1. RecoveryTypeOK' /\ Minted' = Minted
  BY DEF codes, RecoveryInv, RecoveryTypeOK, Minted
<1>2. CASE UNCHANGED call
  <2>1. ServerCodes'
    BY <1>1, <1>2 DEF codes, RecoveryInv, ServerCodes, ActiveIsOne, CodesHeld, HashesDiffer,
       RotationsServed, Active, HoldsCodes, HoldsRightly, RecoveryHandler, Unstored, Busy
  <2>2. UserCodes'
    BY <1>1, <1>2 DEF codes, RecoveryInv, UserCodes, UserCodeHeld, ResetsServed,
       CodesHaveUsers, HoldsUserCode, At, Busy
  <2> QED
    BY <1>1, <2>1, <2>2 DEF RecoveryInv
<1>3. ASSUME NEW s \in Slots, NEW h, call' = [call EXCEPT ![s] = h],
             h = None \/ h.op \notin {"bootstrap", "rotate", "reset"}
      PROVE  RecoveryInv'
  <2>1. call'[s] = h /\ \A t \in Slots \ {s} : call'[t] = call[t]
    BY <1>3 DEF HandlersOK
  <2>2. /\ ~ HoldsCodes(s)' /\ Unstored(s)' = {}
        /\ \A u \in Users : ~ HoldsUserCode(s, u)'
    BY <1>3, <2>1 DEF HoldsCodes, RecoveryHandler, Unstored, HoldsUserCode, At, Busy
  <2>3. ServerCodes'
    BY <1>1, <2>1, <2>2, MoveKeepsServerCodes DEF RecoveryInv, codes
  <2>4. UserCodes'
    BY <1>1, <2>1, <2>2, MoveKeepsUserCodes DEF RecoveryInv, codes
  <2> QED
    BY <1>1, <2>3, <2>4 DEF RecoveryInv
<1> QED
  BY <1>2, <1>3

(* A step of the server's codes concerns no user's code. *)
LEMMA ServerStepKeepsUserCodes ==
    ASSUME HandlersOK, RecoveryInv, UNCHANGED <<user_code, resets, users>>,
           Minted \subseteq Minted', NEW s \in Slots, NEW h,
           call' = [call EXCEPT ![s] = h], h = None \/ h.op # "reset"
    PROVE  UserCodes'
<1>1. call'[s] = h /\ \A t \in Slots \ {s} : call'[t] = call[t]
  BY DEF HandlersOK
<1>2. \A u \in Users : ~ HoldsUserCode(s, u)'
  BY <1>1 DEF HoldsUserCode, At, Busy
<1> QED
  BY <1>1, <1>2, MoveKeepsUserCodes DEF RecoveryInv, Exists

(* A step of the users' codes concerns no code of the server. *)
LEMMA UserStepKeepsServerCodes ==
    ASSUME HandlersOK, RecoveryInv, UNCHANGED <<recovery, rotations>>,
           Minted \subseteq Minted',
           \/ UNCHANGED call
           \/ \E s \in Slots : \E h : /\ call' = [call EXCEPT ![s] = h]
                                      /\ h = None \/ h.op \notin {"bootstrap", "rotate"}
    PROVE  ServerCodes'
<1>1. CASE UNCHANGED call
  BY <1>1 DEF RecoveryInv, ServerCodes, ActiveIsOne, CodesHeld, HashesDiffer,
     RotationsServed, Active, HoldsCodes, HoldsRightly, RecoveryHandler, Unstored, Busy
<1>2. ASSUME NEW s \in Slots, NEW h, call' = [call EXCEPT ![s] = h],
             h = None \/ h.op \notin {"bootstrap", "rotate"}
      PROVE  ServerCodes'
  <2>1. call'[s] = h /\ \A t \in Slots \ {s} : call'[t] = call[t]
    BY <1>2 DEF HandlersOK
  <2>2. ~ HoldsCodes(s)' /\ Unstored(s)' = {}
    BY <1>2, <2>1 DEF HoldsCodes, RecoveryHandler, Unstored, Busy
  <2> QED
    BY <2>1, <2>2, MoveKeepsServerCodes DEF RecoveryInv
<1> QED
  BY <1>1, <1>2

(* A code is generated for the server: bootstrap() or rotate() is called.  *)
LEMMA ServerArriveStep ==
    ASSUME HandlersOK, RecoveryInv, UNCHANGED users, NEW s \in Slots,
           StartBootstrap(s) \/ \E typed \in Typed : StartRotate(s, typed)
    PROVE  RecoveryInv'
<1>1. PICK code \in Codes : \E g :
         /\ Mint(code) /\ call' = [call EXCEPT ![s] = g] /\ calls' = calls + 1
         /\ g.pc = "start" /\ g.op \in {"bootstrap", "rotate"} /\ g.new = hash_code(code)
         /\ UNCHANGED <<recovery, user_code, rotations, resets>>
  BY DEF StartBootstrap, StartRotate, Arrive
<1>2. PICK h : /\ call' = [call EXCEPT ![s] = h]
               /\ h.pc = "start" /\ h.op \in {"bootstrap", "rotate"} /\ h.new = hash_code(code)
  BY <1>1
<1>3. /\ hash_code(code) \notin Minted /\ Minted' = Minted \cup {hash_code(code)}
      /\ minted' \subseteq Codes
  BY <1>1, MintIsFresh DEF RecoveryInv
<1>4. call'[s] = h /\ \A t \in Slots \ {s} : call'[t] = call[t]
  BY <1>2 DEF HandlersOK
<1>5. RecoveryTypeOK'
  BY <1>1, <1>3 DEF RecoveryInv, RecoveryTypeOK
<1>6. ~ HoldsCodes(s)'
  BY <1>1, <1>2, <1>4 DEF HoldsCodes, RecoveryHandler
<1>7. \A g \in Unstored(s)' : g = hash_code(code)
  BY <1>1, <1>2, <1>4 DEF Unstored
<1>8. /\ \A i \in 1..Len(recovery) : recovery[i].hash # hash_code(code)
      /\ \A t \in Slots \ {s} : hash_code(code) \notin Unstored(t)
  BY <1>3 DEF RecoveryInv, ServerCodes, HashesDiffer
<1>9. ServerCodes'
  BY <1>1, <1>2, <1>3, <1>4, <1>6, <1>7, <1>8, MoveKeepsServerCodes DEF RecoveryInv
<1>10. UserCodes'
  BY <1>1, <1>2, <1>3, ServerStepKeepsUserCodes
<1> QED
  BY <1>5, <1>9, <1>10 DEF RecoveryInv

(* The index entry of the active code is taken by one transaction, which   *)
(* then knows that there is no code, or which one it replaces.             *)
LEMMA ServerTakeStep ==
    ASSUME HandlersOK, RecoveryInv, UNCHANGED users, NEW s \in Slots,
           bootstrap(s) \/ RetireCurrent(s) \/ InsertNew(s)
    PROVE  RecoveryInv'
<1> USE DEF Step, Finish, At
<1>1. /\ s \in Busy /\ UNCHANGED codes /\ RecoveryTypeOK' /\ Minted' = Minted
      /\ UNCHANGED <<recovery, rotations, user_code, resets, users>>
  BY DEF bootstrap, RetireCurrent, InsertNew, codes, RecoveryInv, RecoveryTypeOK, Minted
<1>2. CASE call' = [call EXCEPT ![s] = None]
  BY <1>1, <1>2, OtherMoveKeepsRecovery DEF Exists
<1>3. ASSUME NEW h, call' = [call EXCEPT ![s] = h],
             h.op = call[s].op, h.op \in {"bootstrap", "rotate"}, h.new = call[s].new,
             \/ h.op = "bootstrap" /\ recovery = <<>>
             \/ h.op = "rotate" /\ h.previous \in Active /\ recovery[h.previous].hash = h.current,
             \A t \in Slots \ {s} : ~ HoldsCodes(t)
      PROVE  RecoveryInv'
  <2>1. call'[s] = h /\ \A t \in Slots \ {s} : call'[t] = call[t]
    BY <1>3 DEF HandlersOK
  <2>2. Unstored(s)' \subseteq Unstored(s)
    BY <1>1, <1>3, <2>1 DEF Unstored
  <2>3. HoldsRightly(s)'
    BY <1>1, <1>3, <2>1 DEF HoldsRightly, Active
  <2>4. ServerCodes'
    BY <1>1, <1>3, <2>1, <2>2, <2>3, MoveKeepsServerCodes DEF RecoveryInv, ServerCodes, HashesDiffer
  <2>5. UserCodes'
    BY <1>1, <1>3, ServerStepKeepsUserCodes
  <2> QED
    BY <1>1, <2>4, <2>5 DEF RecoveryInv
<1>4. CASE bootstrap(s) /\ call' = [call EXCEPT ![s] = [call[s] EXCEPT !.pc = "commit"]]
           /\ Active = {}
  <2>1. call[s] \in Bootstrapping /\ \A t \in Slots : ~ HoldsCodes(t)
    BY <1>4, HandlerKinds DEF bootstrap
  <2>2. recovery = <<>>
    BY <1>4 DEF RecoveryInv, ServerCodes, ActiveIsOne
  <2> DEFINE h == [call[s] EXCEPT !.pc = "commit"]
  <2>3. h.op = "bootstrap" /\ h.op = call[s].op /\ h.new = call[s].new
    BY <2>1 DEF Bootstrapping
  <2>4. call' = [call EXCEPT ![s] = h]
    BY <1>4
  <2> HIDE DEF h
  <2> QED
    BY <1>3, <2>1, <2>2, <2>3, <2>4
<1>5. ASSUME RetireCurrent(s), NEW i \in Active, recovery[i].hash = call[s].current,
             call' = [call EXCEPT ![s] = [call[s] EXCEPT !.pc = "insert", !.previous = i]]
      PROVE  RecoveryInv'
  <2>1. call[s] \in Rotating /\ \A t \in Slots : ~ HoldsCodes(t)
    BY <1>1, <1>5, HandlerKinds DEF RetireCurrent
  <2> DEFINE h == [call[s] EXCEPT !.pc = "insert", !.previous = i]
  <2>3. /\ h.op = "rotate" /\ h.op = call[s].op /\ h.new = call[s].new
        /\ h.previous = i /\ h.current = call[s].current
    BY <2>1 DEF Rotating
  <2>4. call' = [call EXCEPT ![s] = h]
    BY <1>5
  <2> HIDE DEF h
  <2> QED
    BY <1>3, <1>5, <2>1, <2>3, <2>4
<1>6. CASE InsertNew(s)
  <2>1. call[s] \in Rotating /\ HoldsCodes(s)
    BY <1>1, <1>6, HandlerKinds DEF InsertNew, HoldsCodes, RecoveryHandler
  <2>2. /\ call[s].previous \in Active /\ recovery[call[s].previous].hash = call[s].current
        /\ \A t \in Slots \ {s} : ~ HoldsCodes(t)
    BY <2>1 DEF RecoveryInv, ServerCodes, CodesHeld, HoldsRightly, Rotating
  <2> DEFINE h == [call[s] EXCEPT !.pc = "commit"]
  <2>3. /\ h.op = "rotate" /\ h.op = call[s].op /\ h.new = call[s].new
        /\ h.previous = call[s].previous /\ h.current = call[s].current
    BY <2>1 DEF Rotating
  <2>4. call' = [call EXCEPT ![s] = h]
    BY <1>6 DEF InsertNew
  <2> HIDE DEF h
  <2> QED
    BY <1>3, <2>2, <2>3, <2>4
<1> QED
  BY <1>2, <1>4, <1>5, <1>6 DEF bootstrap, RetireCurrent

(* The active code is replaced in one commit: the old row is retired and   *)
(* the new one is there, and what was presented was the active code.       *)
LEMMA ServerCommitStep ==
    ASSUME HandlersOK, RecoveryInv, UNCHANGED users, NEW s \in Slots,
           CommitBootstrap(s) \/ CommitRotate(s)
    PROVE  RecoveryInv'
<1> USE DEF Step, Finish, At
<1> DEFINE row == [hash |-> call[s].new, rotated |-> FALSE]
           n == Len(recovery) + 1
<1>1. /\ s \in Busy /\ HoldsCodes(s) /\ call' = [call EXCEPT ![s] = None]
      /\ UNCHANGED <<user_code, minted, resets>> /\ Unstored(s) = {call[s].new}
      /\ call[s] \in Bootstrapping \cup Rotating
  BY HandlerKinds DEF CommitBootstrap, CommitRotate, HoldsCodes, RecoveryHandler, Unstored
<1>2. HoldsRightly(s) /\ \A t \in Slots \ {s} : ~ HoldsCodes(t)
  BY <1>1 DEF RecoveryInv, ServerCodes, CodesHeld
<1>3. \A t \in Slots : call'[t] = IF t = s THEN None ELSE call[t]
  BY <1>1 DEF HandlersOK
<1>4. /\ recovery \in Seq(RecoveryRow) /\ rotations \in Seq(Hashes)
      /\ Len(recovery) \in Nat
  BY DEF RecoveryInv, RecoveryTypeOK
<1>5. row \in RecoveryRow /\ row.hash = call[s].new /\ ~ row.rotated
  BY <1>1 DEF Bootstrapping, Rotating, RecoveryRow
<1> HIDE DEF row
<1>6. /\ \A t \in Slots : ~ HoldsCodes(t)'
      /\ \A t \in Slots : Unstored(t)' \subseteq Unstored(t)
      /\ Unstored(s)' = {}
      /\ Minted' = Minted
  BY <1>1, <1>2, <1>3 DEF HoldsCodes, RecoveryHandler, Unstored, Busy, Minted
<1>7. UserCodes'
  BY <1>1, <1>6, ServerStepKeepsUserCodes
<1>8. /\ call[s].new \in Minted
      /\ \A i \in 1..Len(recovery) : recovery[i].hash # call[s].new
      /\ \A t \in Slots \ {s} : call[s].new \notin Unstored(t)
  BY <1>1 DEF RecoveryInv, ServerCodes, HashesDiffer
(* The table after the commit. *)
<1>9. ASSUME NEW retired \in SUBSET (1..Len(recovery)), Active \subseteq retired,
             recovery' \in Seq(RecoveryRow),
             Len(recovery') = n, recovery'[n] = row,
             \A i \in 1..Len(recovery) :
                /\ recovery'[i].hash = recovery[i].hash
                /\ recovery'[i].rotated <=> (i \in retired \/ recovery[i].rotated)
      PROVE  (ActiveIsOne /\ CodesHeld /\ HashesDiffer)'
  <2>1. Active' = {n}
    <3>1. n \in Active'
      BY <1>4, <1>5, <1>9 DEF Active
    <3>2. ASSUME NEW i \in Active' PROVE i = n
      <4>1. i \in 1..n /\ ~ recovery'[i].rotated
        BY <1>9 DEF Active
      <4>2. CASE i \in 1..Len(recovery)
        BY <1>9, <4>1, <4>2 DEF Active
      <4> QED
        BY <1>4, <4>1, <4>2
    <3> QED
      BY <3>1, <3>2
  <2>2. ActiveIsOne'
    BY <1>4, <1>9, <2>1 DEF ActiveIsOne
  <2>3. CodesHeld'
    BY <1>6 DEF CodesHeld
  <2>4. \A i \in 1..Len(recovery') : recovery'[i].hash \in Minted'
    <3> TAKE i \in 1..Len(recovery')
    <3>1. i = n \/ i \in 1..Len(recovery)
      BY <1>4, <1>9
    <3> QED
      BY <1>5, <1>6, <1>8, <1>9, <3>1 DEF RecoveryInv, ServerCodes, HashesDiffer
  <2>5. \A i, j \in 1..Len(recovery') : i # j => recovery'[i].hash # recovery'[j].hash
    <3> TAKE i, j \in 1..Len(recovery')
    <3>1. (i = n \/ i \in 1..Len(recovery)) /\ (j = n \/ j \in 1..Len(recovery))
      BY <1>4, <1>9
    <3> QED
      BY <1>5, <1>8, <1>9, <3>1 DEF RecoveryInv, ServerCodes, HashesDiffer
  <2>6. ASSUME NEW t \in Slots, NEW h \in Unstored(t)'
        PROVE  /\ h \in Minted'
               /\ \A i \in 1..Len(recovery') : recovery'[i].hash # h
               /\ \A v \in Slots \ {t} : h \notin Unstored(v)'
    <3>1. t # s /\ h \in Unstored(t) /\ h # call[s].new
      BY <1>6, <1>8
    <3>2. ASSUME NEW i \in 1..Len(recovery') PROVE recovery'[i].hash # h
      <4>1. i = n \/ i \in 1..Len(recovery)
        BY <1>4, <1>9
      <4> QED
        BY <1>5, <1>9, <3>1, <4>1 DEF RecoveryInv, ServerCodes, HashesDiffer
    <3> QED
      BY <1>6, <3>1, <3>2 DEF RecoveryInv, ServerCodes, HashesDiffer
  <2> QED
    BY <2>2, <2>3, <2>4, <2>5, <2>6 DEF HashesDiffer
<1>10. CASE CommitBootstrap(s)
  <2>1. recovery = <<>>
    BY <1>2, <1>10 DEF HoldsRightly, CommitBootstrap
  <2>2. recovery' = Append(recovery, row) /\ UNCHANGED rotations
    BY <1>10 DEF CommitBootstrap, row
  <2>3. /\ recovery' \in Seq(RecoveryRow) /\ Len(recovery') = n
        /\ recovery'[n] = row /\ 1..Len(recovery) = {}
    BY <1>4, <1>5, <2>1, <2>2
  <2>4. (ActiveIsOne /\ CodesHeld /\ HashesDiffer)'
    BY <1>9, <2>3 DEF Active
  <2>5. RotationsServed'
    BY <2>2, <2>3 DEF RecoveryInv, ServerCodes, RotationsServed
  <2>6. RecoveryTypeOK'
    BY <1>1, <2>2, <2>3 DEF RecoveryInv, RecoveryTypeOK
  <2> QED
    BY <1>7, <2>4, <2>5, <2>6 DEF RecoveryInv, ServerCodes
<1>11. CASE CommitRotate(s)
  <2> DEFINE p == call[s].previous
  <2>1. /\ p \in Active /\ recovery[p].hash = call[s].current /\ call[s] \in Rotating
        /\ p \in 1..Len(recovery)
    BY <1>1, <1>2, <1>11, HandlerKinds DEF HoldsRightly, CommitRotate, Active
  <2>2. /\ recovery' = Append([recovery EXCEPT ![p].rotated = TRUE], row)
        /\ rotations' = Append(rotations, call[s].current)
    BY <1>11 DEF CommitRotate, row
  <2> HIDE DEF p
  <2>3. Active = {p}
    BY <2>1 DEF RecoveryInv, ServerCodes, ActiveIsOne
  <2> DEFINE old == [recovery EXCEPT ![p].rotated = TRUE]
  <2>4. /\ old \in Seq(RecoveryRow) /\ Len(old) = Len(recovery)
        /\ \A i \in 1..Len(recovery) : /\ old[i].hash = recovery[i].hash
                                       /\ old[i].rotated <=> (i \in {p} \/ recovery[i].rotated)
    <3> DEFINE r == [recovery[p] EXCEPT !.rotated = TRUE]
    <3>0. p \in 1..Len(recovery) /\ recovery \in Seq(RecoveryRow)
      BY <1>4, <2>1
    <3>1. recovery[p] \in RecoveryRow
      BY <3>0
    <3>2. /\ r \in RecoveryRow /\ r.hash = recovery[p].hash /\ r.rotated
          /\ old = [recovery EXCEPT ![p] = r]
      BY <3>1 DEF RecoveryRow
    <3> HIDE DEF r, old
    <3>3. old \in Seq(RecoveryRow) /\ Len(old) = Len(recovery)
      BY <1>4, <2>1, <3>2
    <3>4. \A i \in 1..Len(recovery) : old[i] = IF i = p THEN r ELSE recovery[i]
      BY <1>4, <2>1, <3>2
    <3> QED
      BY <3>2, <3>3, <3>4
  <2>5. recovery' = Append(old, row)
    BY <2>2
  <2> HIDE DEF old
  <2>6. /\ recovery' \in Seq(RecoveryRow) /\ Len(recovery') = n
        /\ recovery'[n] = row /\ \A i \in 1..Len(recovery) : recovery'[i] = old[i]
    BY <1>4, <1>5, <2>4, <2>5
  <2>7. (ActiveIsOne /\ CodesHeld /\ HashesDiffer)'
    BY <1>9, <2>1, <2>3, <2>4, <2>6
  <2>8. /\ rotations' \in Seq(Hashes) /\ Len(rotations') = Len(rotations) + 1
        /\ \A i \in 1..Len(rotations) : rotations'[i] = rotations[i]
        /\ rotations'[Len(rotations) + 1] = call[s].current /\ Len(rotations) \in Nat
    BY <1>4, <2>1, <2>2 DEF Rotating
  <2>9. \A i \in 1..Len(rotations) : rotations[i] # call[s].current
    <3> TAKE i \in 1..Len(rotations)
    <3>1. PICK j \in 1..Len(recovery) : recovery[j].rotated /\ recovery[j].hash = rotations[i]
      BY DEF RecoveryInv, ServerCodes, RotationsServed
    <3>2. j # p
      BY <2>1, <3>1 DEF Active
    <3> QED
      BY <2>1, <3>1, <3>2 DEF RecoveryInv, ServerCodes, HashesDiffer
  <2>10. RotationsServed'
    <3>1. ASSUME NEW i \in 1..Len(rotations')
          PROVE  \E j \in 1..Len(recovery') : recovery'[j].rotated /\ recovery'[j].hash = rotations'[i]
      <4>1. CASE i = Len(rotations) + 1
        <5>1. recovery'[p].rotated /\ recovery'[p].hash = call[s].current /\ p \in 1..n
          BY <1>4, <2>1, <2>4, <2>6
        <5> QED
          BY <2>6, <2>8, <4>1, <5>1
      <4>2. CASE i \in 1..Len(rotations)
        <5>1. PICK j \in 1..Len(recovery) : recovery[j].rotated /\ recovery[j].hash = rotations[i]
          BY <4>2 DEF RecoveryInv, ServerCodes, RotationsServed
        <5>2. recovery'[j] = old[j] /\ j \in 1..n
          BY <1>4, <2>6
        <5>3. old[j].rotated /\ old[j].hash = rotations[i]
          BY <2>4, <5>1
        <5> QED
          BY <2>6, <2>8, <4>2, <5>2, <5>3
      <4> QED
        BY <2>8, <4>1, <4>2
    <3>2. \A i, j \in 1..Len(rotations') : i # j => rotations'[i] # rotations'[j]
      <4> TAKE i, j \in 1..Len(rotations')
      <4>1. /\ i = Len(rotations) + 1 \/ i \in 1..Len(rotations)
            /\ j = Len(rotations) + 1 \/ j \in 1..Len(rotations)
        BY <2>8
      <4> QED
        BY <2>8, <2>9, <4>1 DEF RecoveryInv, ServerCodes, RotationsServed
    <3> QED
      BY <3>1, <3>2 DEF RotationsServed
  <2>11. RecoveryTypeOK'
    BY <1>1, <2>6, <2>8 DEF RecoveryInv, RecoveryTypeOK
  <2> QED
    BY <1>7, <2>7, <2>10, <2>11 DEF RecoveryInv, ServerCodes
<1> QED
  BY <1>10, <1>11

(* A user is given a code: at the reset that presents the old one, when it *)
(* is asked for, or with the account.  Nobody is resetting that user's.    *)
LEMMA IssueKeepsRecovery ==
    ASSUME HandlersOK, RecoveryInv, NEW u \in Users, NEW code, Mint(code),
           user_code' = [user_code EXCEPT ![u] = hash_code(code)],
           UNCHANGED <<recovery, rotations>>,
           \/ UNCHANGED call
           \/ \E s \in Slots : /\ call' = [call EXCEPT ![s] = None]
                               /\ \A v \in Users : v # u => ~ HoldsUserCode(s, v),
           \A t \in Slots : call'[t] = call[t] => ~ HoldsUserCode(t, u),
           Exists(u)', \A v \in Users : Exists(v) => Exists(v)',
           \/ UNCHANGED resets
           \/ user_code[u] # None /\ resets' = Append(resets, <<u, user_code[u]>>)
    PROVE  RecoveryInv'
<1> DEFINE new == hash_code(code)
<1>1. /\ new \in Hashes /\ new # None /\ new \notin Minted
      /\ Minted' = Minted \cup {new} /\ minted' \subseteq Codes
  BY MintIsFresh DEF RecoveryInv
<1>2. ServerCodes'
  BY <1>1, UserStepKeepsServerCodes
<1>3. /\ user_code \in [Users -> Hashes \cup {None}] /\ resets \in Seq(Users \X Hashes)
      /\ Len(resets) \in Nat
      /\ \A i \in 1..Len(resets) : resets[i][1] \in Users
  BY DEF RecoveryInv, RecoveryTypeOK
<1>4. \A v \in Users : user_code'[v] = IF v = u THEN new ELSE user_code[v]
  BY <1>3
<1> HIDE DEF new
<1>5. UserCodeHeld'
  <2>1. \A t \in Slots : call'[t] = call[t] \/ call'[t] = None
    BY DEF HandlersOK
  <2>2. \A t \in Slots, v \in Users : HoldsUserCode(t, v)' =>
           call'[t] = call[t] /\ HoldsUserCode(t, v) /\ v # u
    BY <2>1 DEF HoldsUserCode, At, Busy
  <2> QED
    BY <1>4, <2>2 DEF RecoveryInv, UserCodes, UserCodeHeld
<1>6. resets' \in Seq(Users \X Hashes) /\ ResetsServed'
  <2>1. \A v \in Users : user_code'[v] \in Minted' \cup {None}
    BY <1>1, <1>4 DEF RecoveryInv, UserCodes, ResetsServed
  <2>2. \A i \in 1..Len(resets) : /\ resets[i][2] \in Minted'
                                  /\ user_code'[resets[i][1]] # resets[i][2]
    BY <1>1, <1>3, <1>4 DEF RecoveryInv, UserCodes, ResetsServed
  <2>3. \A i, j \in 1..Len(resets) : i # j => resets[i] # resets[j]
    BY DEF RecoveryInv, UserCodes, ResetsServed
  <2>4. CASE UNCHANGED resets
    BY <1>3, <2>1, <2>2, <2>3, <2>4 DEF ResetsServed
  <2>5. CASE user_code[u] # None /\ resets' = Append(resets, <<u, user_code[u]>>)
    <3> DEFINE last == <<u, user_code[u]>>
    <3>1. last \in Users \X Hashes /\ last[1] = u /\ last[2] = user_code[u]
      BY <1>3, <2>5
    <3>2. user_code[u] \in Minted
      BY <2>5 DEF RecoveryInv, UserCodes, ResetsServed
    <3> HIDE DEF last
    <3>3. /\ resets' \in Seq(Users \X Hashes) /\ Len(resets') = Len(resets) + 1
          /\ \A i \in 1..Len(resets) : resets'[i] = resets[i]
          /\ resets'[Len(resets) + 1] = last
      BY <1>3, <2>5, <3>1 DEF last
    <3>4. \A i \in 1..Len(resets) : resets[i] # last
      BY <3>1 DEF RecoveryInv, UserCodes, ResetsServed
    <3>5. \A i \in 1..Len(resets') : i = Len(resets) + 1 \/ i \in 1..Len(resets)
      BY <1>3, <3>3
    <3>6. last[2] \in Minted' /\ user_code'[last[1]] # last[2]
      BY <1>1, <1>4, <3>1, <3>2
    <3>7. \A i \in 1..Len(resets') : /\ resets'[i][2] \in Minted'
                                     /\ user_code'[resets'[i][1]] # resets'[i][2]
      BY <2>2, <3>3, <3>5, <3>6
    <3>8. \A i, j \in 1..Len(resets') : i # j => resets'[i] # resets'[j]
      BY <2>3, <3>3, <3>4, <3>5
    <3> QED
      BY <2>1, <3>3, <3>7, <3>8 DEF ResetsServed
  <2> QED
    BY <2>4, <2>5
<1>7. CodesHaveUsers'
  BY <1>4 DEF RecoveryInv, UserCodes, CodesHaveUsers
<1>8. RecoveryTypeOK'
  <2>1. user_code' \in [Users -> Hashes \cup {None}]
    BY <1>1, <1>3 DEF new
  <2> QED
    BY <1>1, <1>6, <2>1 DEF RecoveryInv, RecoveryTypeOK
<1> QED
  BY <1>2, <1>5, <1>6, <1>7, <1>8 DEF RecoveryInv, UserCodes

(* A reset is asked for, and verify_and_stamp takes the lock of the user's *)
(* row if the code is the user's.                                          *)
LEMMA ResetTakeStep ==
    ASSUME HandlersOK, RecoveryInv, UNCHANGED users, NEW s \in Slots,
           \/ \E u \in Users, typed \in Typed : StartReset(s, u, typed)
           \/ verify_and_stamp(s)
    PROVE  RecoveryInv'
<1> USE DEF Step, Finish, At
<1>1. /\ UNCHANGED codes /\ RecoveryTypeOK' /\ Minted' = Minted
      /\ UNCHANGED <<recovery, rotations, user_code, resets, users>>
  BY DEF StartReset, verify_and_stamp, codes, RecoveryInv, RecoveryTypeOK, Minted
<1>2. CASE call' = [call EXCEPT ![s] = None]
  BY <1>1, <1>2, OtherMoveKeepsRecovery DEF Exists
<1>3. ASSUME NEW h, call' = [call EXCEPT ![s] = h], h.op = "reset",
             h.pc = "rotate" => /\ user_code[h.user] = h.current /\ Exists(h.user)
                                /\ \A t \in Slots : ~ HoldsUserCode(t, h.user)
      PROVE  RecoveryInv'
  <2>1. call'[s] = h /\ \A t \in Slots \ {s} : call'[t] = call[t]
    BY <1>3 DEF HandlersOK
  <2>2. ServerCodes'
    BY <1>1, <1>3, UserStepKeepsServerCodes
  <2>3. ASSUME NEW u \in Users, HoldsUserCode(s, u)'
        PROVE  h.pc = "rotate" /\ h.user = u
    BY <2>1, <2>3 DEF HoldsUserCode
  <2>4. UserCodes'
    BY <1>1, <1>3, <2>1, <2>3, MoveKeepsUserCodes DEF RecoveryInv, Exists
  <2> QED
    BY <1>1, <2>2, <2>4 DEF RecoveryInv
<1>4. ASSUME NEW u \in Users, NEW typed \in Typed, StartReset(s, u, typed)
      PROVE  RecoveryInv'
  BY <1>3, <1>4 DEF StartReset, Arrive
<1>5. CASE verify_and_stamp(s) /\ user_code[call[s].user] = call[s].current
           /\ call' = [call EXCEPT ![s] = [call[s] EXCEPT !.pc = "rotate"]]
  <2>1. call[s] \in Resetting
    BY <1>5, HandlerKinds DEF verify_and_stamp
  <2> DEFINE h == [call[s] EXCEPT !.pc = "rotate"]
  <2>2. h.op = "reset" /\ h.user = call[s].user /\ h.current = call[s].current
    BY <2>1 DEF Resetting
  <2>3. call' = [call EXCEPT ![s] = h]
    BY <1>5
  <2>4. \A t \in Slots : ~ HoldsUserCode(t, call[s].user)
    BY <1>5 DEF verify_and_stamp
  <2> HIDE DEF h
  <2>5. user_code[h.user] = h.current
    BY <1>5, <2>2
  <2>6. Exists(h.user)
    <3>1. h.user \in Users /\ h.current # None
      BY <2>1, <2>2, HashAssumption DEF Resetting, Hashes
    <3> QED
      BY <2>5, <3>1 DEF RecoveryInv, UserCodes, CodesHaveUsers
  <2> QED
    BY <1>3, <2>2, <2>3, <2>4, <2>5, <2>6
<1> QED
  BY <1>2, <1>4, <1>5 DEF verify_and_stamp

(* A user's code is replaced, at a reset or because it is asked for; a     *)
(* handler that fails holds nothing any more.                              *)
LEMMA UserCodeStep ==
    ASSUME HandlersOK, RecoveryInv, UNCHANGED users,
           \/ \E s \in Slots : CommitReset(s) \/ RecoveryFail(s)
           \/ \E u \in Users : Renew(u)
    PROVE  RecoveryInv'
<1> USE DEF Step, Finish, At
<1>1. ASSUME NEW s \in Slots, CommitReset(s) PROVE RecoveryInv'
  <2> DEFINE u == call[s].user
  <2>1. /\ call[s] \in Resetting /\ u \in Users /\ HoldsUserCode(s, u)
        /\ \A v \in Users : v # u => ~ HoldsUserCode(s, v)
    BY <1>1, HandlerKinds DEF CommitReset, Resetting, HoldsUserCode
  <2>2. /\ user_code[u] = call[s].current /\ Exists(u) /\ call[s].current # None
        /\ \A t \in Slots \ {s} : ~ HoldsUserCode(t, u)
    BY <2>1, HashAssumption DEF RecoveryInv, UserCodes, UserCodeHeld, Resetting, Hashes
  <2>3. PICK code \in Codes : Mint(code) /\ user_code' = [user_code EXCEPT ![u] = hash_code(code)]
    BY <1>1 DEF CommitReset
  <2>4. /\ call' = [call EXCEPT ![s] = None] /\ UNCHANGED <<recovery, rotations>>
        /\ resets' = Append(resets, <<u, user_code[u]>>)
    BY <1>1, <2>2 DEF CommitReset
  <2>5. \A t \in Slots : call'[t] = call[t] => ~ HoldsUserCode(t, u)
    BY <1>1, <2>2, <2>4 DEF CommitReset, Busy, HandlersOK
  <2>6. \A v \in Users : Exists(v) => Exists(v)'
    BY DEF Exists
  <2> HIDE DEF u
  <2> QED
    BY <2>1, <2>2, <2>3, <2>4, <2>5, <2>6, IssueKeepsRecovery
<1>2. ASSUME NEW u \in Users, Renew(u) PROVE RecoveryInv'
  <2>1. PICK code \in Codes : Mint(code) /\ user_code' = [user_code EXCEPT ![u] = hash_code(code)]
    BY <1>2 DEF Renew
  <2>2. Exists(u)' /\ \A v \in Users : Exists(v) => Exists(v)'
    BY <1>2 DEF Renew, Exists
  <2> QED
    BY <1>2, <2>1, <2>2, IssueKeepsRecovery DEF Renew
<1>3. ASSUME NEW s \in Slots, RecoveryFail(s) PROVE RecoveryInv'
  BY <1>3, OtherMoveKeepsRecovery DEF RecoveryFail, Exists
<1> QED
  BY <1>1, <1>2, <1>3

(* Every step of Recovery keeps its invariant. *)
LEMMA RecoveryStep ==
    ASSUME HandlersOK, RecoveryInv, RecoveryNext, UNCHANGED users
    PROVE  RecoveryInv'
BY ServerArriveStep, ServerTakeStep, ServerCommitStep, ResetTakeStep, UserCodeStep
   DEF RecoveryNext

(* What the handlers of Recovery become. *)
LEMMA RecoveryMoves ==
    ASSUME HandlersOK, RecoveryTypeOK, RecoveryNext
    PROVE  /\ calls' \in Nat
           /\ \/ UNCHANGED call
              \/ \E s \in Slots, h \in Bootstrapping \cup Rotating \cup Resetting \cup {None} :
                    call' = [call EXCEPT ![s] = h]
<1> USE DEF Step, Finish, Arrive, At
<1>1. calls \in Nat
  BY DEF HandlersOK
<1> DEFINE Kind == Bootstrapping \cup Rotating \cup Resetting \cup {None}
           Moved == \/ UNCHANGED call
                    \/ \E s \in Slots, h \in Kind : call' = [call EXCEPT ![s] = h]
<1>2. ASSUME NEW s \in Slots, NEW h \in Kind, call' = [call EXCEPT ![s] = h] PROVE Moved
  BY <1>2
<1>0. /\ Bootstrapping \subseteq Kind /\ Rotating \subseteq Kind /\ Resetting \subseteq Kind
      /\ None \in Kind
  OBVIOUS
<1> HIDE DEF Kind, Moved
<1>3. ASSUME NEW s \in Slots, StartBootstrap(s) PROVE calls' \in Nat /\ Moved
  <2> DEFINE h(code) == [op |-> "bootstrap", pc |-> "start", new |-> hash_code(code)]
  <2>1. PICK code \in Codes : call' = [call EXCEPT ![s] = h(code)] /\ calls' = calls + 1
    BY <1>3 DEF StartBootstrap
  <2>2. h(code) \in Bootstrapping
    BY DEF Bootstrapping, Hashes
  <2> HIDE DEF h
  <2>3. h(code) \in Kind
    BY <1>0, <2>2
  <2>4. Moved
    BY <1>2, <2>1, <2>2, <2>3
  <2> QED
    BY <1>1, <2>1, <2>2, <2>4
<1>4. ASSUME NEW s \in Slots, NEW typed \in Typed, StartRotate(s, typed)
      PROVE  calls' \in Nat /\ Moved
  <2> DEFINE h(code) == [op |-> "rotate", pc |-> "start", current |-> hash_code(typed),
                         new |-> hash_code(code), previous |-> None]
  <2>1. PICK code \in Codes : call' = [call EXCEPT ![s] = h(code)] /\ calls' = calls + 1
    BY <1>4 DEF StartRotate
  <2>2. h(code) \in Rotating
    BY DEF Rotating, Hashes
  <2> HIDE DEF h
  <2>3. h(code) \in Kind
    BY <1>0, <2>2
  <2>4. Moved
    BY <1>2, <2>1, <2>2, <2>3
  <2> QED
    BY <1>1, <2>1, <2>2, <2>4
<1>5. ASSUME NEW s \in Slots, NEW u \in Users, NEW typed \in Typed, StartReset(s, u, typed)
      PROVE  calls' \in Nat /\ Moved
  <2> DEFINE h == [op |-> "reset", pc |-> "start", user |-> u, current |-> hash_code(typed)]
  <2>1. h \in Resetting
    BY DEF Resetting, Hashes
  <2>2. call' = [call EXCEPT ![s] = h] /\ calls' = calls + 1
    BY <1>5 DEF StartReset
  <2> HIDE DEF h
  <2>3. h \in Kind
    BY <1>0, <2>1
  <2>4. Moved
    BY <1>2, <2>1, <2>2, <2>3
  <2> QED
    BY <1>1, <2>1, <2>2, <2>4
<1>6. ASSUME NEW s \in Slots, bootstrap(s) PROVE calls' \in Nat /\ Moved
  <2>1. call[s] \in Bootstrapping
    BY <1>6, HandlerKinds DEF bootstrap
  <2>2. [call[s] EXCEPT !.pc = "commit"] \in Bootstrapping
    BY <2>1 DEF Bootstrapping
  <2> QED
    BY <1>0, <1>1, <1>2, <1>6, <2>2 DEF bootstrap
<1>7. ASSUME NEW s \in Slots, RetireCurrent(s) \/ InsertNew(s) PROVE calls' \in Nat /\ Moved
  <2>1. call[s] \in Rotating
    BY <1>7, HandlerKinds DEF RetireCurrent, InsertNew
  <2>0. \A i \in Active : i \in Nat
    <3>1. Len(recovery) \in Nat
      BY DEF RecoveryTypeOK
    <3> QED
      BY <3>1 DEF Active
  <2>2. \A i \in Active : [call[s] EXCEPT !.pc = "insert", !.previous = i] \in Rotating
    BY <2>0, <2>1 DEF Rotating
  <2>3. [call[s] EXCEPT !.pc = "commit"] \in Rotating
    BY <2>1 DEF Rotating
  <2> QED
    BY <1>0, <1>1, <1>2, <1>7, <2>2, <2>3 DEF RetireCurrent, InsertNew
<1>8. ASSUME NEW s \in Slots, verify_and_stamp(s) PROVE calls' \in Nat /\ Moved
  <2>1. call[s] \in Resetting
    BY <1>8, HandlerKinds DEF verify_and_stamp
  <2>2. [call[s] EXCEPT !.pc = "rotate"] \in Resetting
    BY <2>1 DEF Resetting
  <2> QED
    BY <1>0, <1>1, <1>2, <1>8, <2>2 DEF verify_and_stamp
<1>9. ASSUME NEW s \in Slots,
             CommitBootstrap(s) \/ CommitRotate(s) \/ CommitReset(s) \/ RecoveryFail(s)
      PROVE  calls' \in Nat /\ Moved
  BY <1>0, <1>1, <1>2, <1>9 DEF CommitBootstrap, CommitRotate, CommitReset, RecoveryFail
<1>10. ASSUME NEW u \in Users, Renew(u) PROVE calls' \in Nat /\ Moved
  BY <1>1, <1>10 DEF Renew, Moved
<1> QED
  BY <1>3, <1>4, <1>5, <1>6, <1>7, <1>8, <1>9, <1>10 DEF RecoveryNext, Moved, Kind

-----------------------------------------------------------------------------
(* Accounts, invitations and devices. *)
EnrollTypeOK ==
    /\ users \in [Users -> Emails \cup {None, Deleted}]
    /\ invites \in [Invites -> Invitation \cup {None, Deleted}]
    /\ devices \in [Devices -> Device \cup {None, Deleted}]
    /\ told \subseteq Devices

(* An owner is told of devices that exist, so that no id told is drawn     *)
(* again; an account that is being made is nobody's yet.                   *)
ToldKnown == \A d \in told : devices[d] # None
JoiningFresh ==
    \A s \in Slots : Accepting(s) =>
       /\ call[s].user \in Users /\ users[call[s].user] = None
       /\ \A t \in Slots \ {s} : Accepting(t) => call[t].user # call[s].user

EnrollInv == EnrollTypeOK /\ ToldKnown /\ JoiningFresh /\ RevokedForGood

(* A handler that is not about to make an account, or stops.               *)
LEMMA OtherMoveKeepsJoining ==
    ASSUME HandlersOK, JoiningFresh,
           \A u \in Users : users[u] = None => users'[u] = None,
           \/ UNCHANGED call
           \/ \E s \in Slots : \E h : /\ call' = [call EXCEPT ![s] = h]
                                      /\ h = None \/ h.pc # "accept"
    PROVE  JoiningFresh'
<1>1. CASE UNCHANGED call
  BY <1>1 DEF JoiningFresh, Accepting, At, Busy
<1>2. ASSUME NEW s \in Slots, NEW h, call' = [call EXCEPT ![s] = h], h = None \/ h.pc # "accept"
      PROVE  JoiningFresh'
  <2>1. call'[s] = h /\ \A t \in Slots \ {s} : call'[t] = call[t]
    BY <1>2 DEF HandlersOK
  <2>2. ~ Accepting(s)' /\ \A t \in Slots \ {s} : Accepting(t)' = Accepting(t)
    BY <1>2, <2>1 DEF Accepting, At, Busy
  <2> QED
    BY <2>1, <2>2 DEF JoiningFresh
<1> QED
  BY <1>1, <1>2

(* What the handlers of invitations become. *)
LEMMA InvitationMoves ==
    ASSUME HandlersOK, EnrollTypeOK, InvitationNext
    PROVE  /\ calls' \in Nat
           /\ \/ UNCHANGED call
              \/ \E s \in Slots, h \in Joining \cup {None} : call' = [call EXCEPT ![s] = h]
<1> USE DEF Step, Finish, Arrive, At
<1>1. calls \in Nat
  BY DEF HandlersOK
<1> DEFINE Moved == \/ UNCHANGED call
                    \/ \E s \in Slots, h \in Joining \cup {None} : call' = [call EXCEPT ![s] = h]
<1>2. ASSUME NEW s \in Slots, NEW h \in Joining \cup {None}, call' = [call EXCEPT ![s] = h]
      PROVE  Moved
  BY <1>2
<1>3. UNCHANGED call => Moved
  OBVIOUS
<1> HIDE DEF Moved
<1>4. ASSUME NEW i \in Invites,
             Expire(i) \/ revoke(i) \/ reissue(i) \/ \E u \in Users : create(i, u)
      PROVE  calls' \in Nat /\ Moved
  BY <1>1, <1>3, <1>4 DEF Expire, revoke, reissue, create, AdminCall, handlers
<1>5. ASSUME NEW i \in Invites, IsInvitation(i), NEW s \in Slots,
             NEW token \in 0..invites[i].token, StartAccept(s, i, token)
      PROVE  calls' \in Nat /\ Moved
  <2> DEFINE h == [op |-> "accept", pc |-> "find", invite |-> i, token |-> token, user |-> None]
  <2>1. invites[i].token \in Nat
    BY <1>5 DEF EnrollTypeOK, IsInvitation, Invitation
  <2>2. h \in Joining
    BY <2>1 DEF Joining
  <2>3. call' = [call EXCEPT ![s] = h] /\ calls' = calls + 1
    BY <1>5 DEF StartAccept
  <2> HIDE DEF h
  <2>4. Moved
    BY <1>2, <2>2, <2>3
  <2> QED
    BY <1>1, <2>3, <2>4
<1>6. ASSUME NEW s \in Slots, find_active(s) PROVE calls' \in Nat /\ Moved
  <2>1. call[s] \in Joining
    BY <1>6, HandlerKinds DEF find_active
  <2>2. [call[s] EXCEPT !.pc = "create"] \in Joining
    BY <2>1 DEF Joining
  <2> QED
    BY <1>1, <1>2, <1>6, <2>2 DEF find_active
<1>7. ASSUME NEW s \in Slots, CreateUser(s) PROVE calls' \in Nat /\ Moved
  <2>1. call[s] \in Joining
    BY <1>7, HandlerKinds DEF CreateUser
  <2>2. \A u \in Users : [call[s] EXCEPT !.pc = "accept", !.user = u] \in Joining
    BY <2>1 DEF Joining
  <2> QED
    BY <1>1, <1>2, <1>7, <2>2 DEF CreateUser
<1>8. ASSUME NEW s \in Slots, mark_accepted(s) \/ AcceptFail(s) PROVE calls' \in Nat /\ Moved
  BY <1>1, <1>2, <1>8 DEF mark_accepted, AcceptFail
<1> QED
  BY <1>4, <1>5, <1>6, <1>7, <1>8 DEF InvitationNext, Moved

(* Accepting, with the account and the code that it makes; every other     *)
(* step of an invitation leaves accounts and codes alone.                  *)
LEMMA InvitationKeepsRecovery ==
    ASSUME HandlersOK, RecoveryInv, EnrollInv, InvitationNext
    PROVE  RecoveryInv'
<1>1. CASE \E s \in Slots : mark_accepted(s)
  <2> PICK s \in Slots : mark_accepted(s)
    BY <1>1
  <2>1. PICK u \in Users : /\ u = call[s].user /\ users[u] = None /\ s \in Busy
                            /\ call[s].pc = "accept" /\ call[s] \in Joining
    BY HandlerKinds DEF mark_accepted, Accepting, At, EnrollInv, JoiningFresh
  <2>2. PICK code \in Codes : Mint(code) /\ user_code' = [user_code EXCEPT ![u] = hash_code(code)]
    BY <2>1 DEF mark_accepted
  <2>3. /\ call' = [call EXCEPT ![s] = None] /\ UNCHANGED <<recovery, rotations, resets>>
        /\ \A v \in Users : ~ HoldsUserCode(s, v)
    BY <2>1 DEF mark_accepted, Finish, Step, HoldsUserCode, At
  <2>4. \A v \in Users : users'[v] = IF v = u THEN EmailOf[call[s].invite] ELSE users[v]
    BY <2>1 DEF mark_accepted, EnrollInv, EnrollTypeOK
  <2>5. ~ Exists(u) /\ EmailOf[call[s].invite] \in Emails
    BY <2>1, UserTableAssumption, EnrollmentAssumption DEF Exists, Joining
  <2>6. Exists(u)' /\ \A v \in Users : Exists(v) => Exists(v)'
    <3>1. Exists(u)'
      BY <2>1, <2>4, <2>5 DEF Exists
    <3>2. \A v \in Users : v # u => users'[v] = users[v]
      BY <2>4
    <3> QED
      BY <2>5, <3>1, <3>2 DEF Exists
  <2>7. \A t \in Slots : ~ HoldsUserCode(t, u)
    BY <2>1, <2>5 DEF RecoveryInv, UserCodes, UserCodeHeld
  <2>8. \E t \in Slots : /\ call' = [call EXCEPT ![t] = None]
                         /\ \A v \in Users : v # u => ~ HoldsUserCode(t, v)
    BY <2>1, <2>3 DEF Busy
  <2> QED
    BY <2>1, <2>2, <2>3, <2>6, <2>7, <2>8, IssueKeepsRecovery
<1>2. CASE ~ \E s \in Slots : mark_accepted(s)
  <2>1. UNCHANGED <<users, codes>>
    BY <1>2 DEF InvitationNext, Expire, revoke, reissue, create, KeepsInvites, StartAccept,
       find_active, CreateUser, AcceptFail
  <2>2. \/ UNCHANGED call
        \/ \E s \in Slots, h \in Joining \cup {None} : call' = [call EXCEPT ![s] = h]
    BY InvitationMoves DEF EnrollInv
  <2>3. \A h \in Joining : h.op \notin {"bootstrap", "rotate", "reset"}
    BY DEF Joining
  <2> QED
    BY <2>1, <2>2, <2>3, OtherMoveKeepsRecovery DEF Exists
<1> QED
  BY <1>1, <1>2

(* The removal of a user takes the code along, which nobody is using.      *)
LEMMA RemovalKeepsRecovery ==
    ASSUME HandlersOK, RecoveryInv, EnrollTypeOK, NEW u \in Users, hard_remove(u)
    PROVE  RecoveryInv'
<1>1. /\ UNCHANGED <<call, recovery, minted, rotations, resets>>
      /\ user_code' = [user_code EXCEPT ![u] = None]
      /\ users' = [users EXCEPT ![u] = Deleted]
      /\ \A s \in Slots : ~ HoldsUserCode(s, u)
  BY DEF hard_remove, AdminCall
<1>2. /\ \A v \in Users : user_code'[v] = IF v = u THEN None ELSE user_code[v]
      /\ \A v \in Users : users'[v] = IF v = u THEN Deleted ELSE users[v]
  BY <1>1 DEF EnrollTypeOK, RecoveryInv, RecoveryTypeOK
<1>3. RecoveryTypeOK' /\ Minted' = Minted
  BY <1>1 DEF RecoveryInv, RecoveryTypeOK, Minted
<1>4. ServerCodes'
  BY <1>1, <1>3, UserStepKeepsServerCodes
<1>5. \A s \in Slots, v \in Users : HoldsUserCode(s, v)' = HoldsUserCode(s, v)
  BY <1>1 DEF HoldsUserCode, At, Busy
<1>6. UserCodeHeld'
  BY <1>1, <1>2, <1>5 DEF RecoveryInv, UserCodes, UserCodeHeld, Exists
<1>7. ResetsServed'
  <2>1. None \notin Minted
    BY HashAssumption DEF Minted, RecoveryInv, RecoveryTypeOK
  <2>2. \A v \in Users : user_code'[v] \in Minted' \cup {None}
    BY <1>2, <1>3 DEF RecoveryInv, UserCodes, ResetsServed
  <2>3. \A i \in 1..Len(resets) : resets[i][1] \in Users /\ resets[i][2] \in Minted
    BY DEF RecoveryInv, RecoveryTypeOK, UserCodes, ResetsServed
  <2>4. \A i \in 1..Len(resets) : user_code'[resets[i][1]] # resets[i][2]
    BY <1>2, <2>1, <2>3 DEF RecoveryInv, UserCodes, ResetsServed
  <2> QED
    BY <1>1, <1>3, <2>2, <2>3, <2>4 DEF RecoveryInv, UserCodes, ResetsServed
<1>8. CodesHaveUsers'
  BY <1>2 DEF RecoveryInv, UserCodes, CodesHaveUsers, Exists
<1> QED
  BY <1>3, <1>4, <1>6, <1>7, <1>8 DEF RecoveryInv, UserCodes

-----------------------------------------------------------------------------
(* An invitation whose fields are written stays one. *)
LEMMA WrittenInvitation ==
    ASSUME EnrollTypeOK, NEW i \in Invites, IsInvitation(i)
    PROVE  /\ invites[i] \in Invitation
           /\ [invites[i] EXCEPT !.expired = TRUE] \in Invitation
           /\ [invites[i] EXCEPT !.revoked = TRUE] \in Invitation
           /\ [invites[i] EXCEPT !.token = @ + 1] \in Invitation
           /\ \A u \in Users : [invites[i] EXCEPT !.accepted = TRUE, !.accepted_user_id = u] \in Invitation
           /\ [invites[i] EXCEPT !.accepted_user_id = None] \in Invitation
<1>1. invites[i] \in Invitation
  BY DEF EnrollTypeOK, IsInvitation
<1>2. invites[i].token + 1 \in Nat
  BY <1>1 DEF Invitation
<1> QED
  BY <1>1, <1>2 DEF Invitation

(* What the steps of invitations write. *)
LEMMA InvitationsWrite ==
    ASSUME EnrollInv, HandlersOK, InvitationNext
    PROVE  /\ invites' \in [Invites -> Invitation \cup {None, Deleted}]
           /\ \A i \in Invites : IsInvitation(i) /\ ~ IsActive(i) => ~ IsActive(i)'
           /\ UNCHANGED <<devices, told>>
<1> DEFINE Type == invites' \in [Invites -> Invitation \cup {None, Deleted}]
           Closed == \A i \in Invites : IsInvitation(i) /\ ~ IsActive(i) => ~ IsActive(i)'
<1>1. EnrollTypeOK
  BY DEF EnrollInv
<1>2. ASSUME UNCHANGED invites PROVE Type /\ Closed
  BY <1>1, <1>2 DEF EnrollTypeOK, IsActive, IsInvitation
(* One invitation is written, and is not made active. *)
<1>3. ASSUME NEW i \in Invites, NEW row \in Invitation,
             invites' = [invites EXCEPT ![i] = row],
             IsInvitation(i) /\ ~ IsActive(i) => row.expired \/ row.revoked \/ row.accepted
      PROVE  Type /\ Closed
  <2>1. \A j \in Invites : invites'[j] = IF j = i THEN row ELSE invites[j]
    BY <1>1, <1>3 DEF EnrollTypeOK
  <2>2. Type
    BY <1>1, <1>3 DEF EnrollTypeOK
  <2>3. Closed
    BY <1>3, <2>1 DEF IsActive, IsInvitation
  <2> QED
    BY <2>2, <2>3
<1> HIDE DEF Type, Closed
<1>4. ASSUME NEW i \in Invites, Expire(i) PROVE Type /\ Closed
  <2> DEFINE row == [invites[i] EXCEPT !.expired = TRUE]
  <2>1. row \in Invitation /\ row.expired
    BY <1>1, <1>4, WrittenInvitation DEF Expire, Invitation
  <2>2. invites' = [invites EXCEPT ![i] = row]
    BY <1>4 DEF Expire
  <2> HIDE DEF row
  <2> QED
    BY <1>3, <2>1, <2>2
<1>5. ASSUME NEW i \in Invites, revoke(i) PROVE Type /\ Closed
  <2> DEFINE row == [invites[i] EXCEPT !.revoked = TRUE]
  <2>1. row \in Invitation /\ row.revoked
    BY <1>1, <1>5, WrittenInvitation DEF revoke, Invitation
  <2>2. invites' = [invites EXCEPT ![i] = row]
    BY <1>5 DEF revoke
  <2> HIDE DEF row
  <2> QED
    BY <1>3, <2>1, <2>2
<1>6. ASSUME NEW i \in Invites, reissue(i) PROVE Type /\ Closed
  <2> DEFINE row == [invites[i] EXCEPT !.token = @ + 1]
  <2>1. row \in Invitation
    BY <1>1, <1>6, WrittenInvitation DEF reissue, IsActive
  <2>2. invites' = [invites EXCEPT ![i] = row] /\ IsActive(i)
    BY <1>6 DEF reissue
  <2> HIDE DEF row
  <2> QED
    BY <1>3, <2>1, <2>2
<1>7. ASSUME NEW i \in Invites, NEW u \in Users, create(i, u) PROVE Type /\ Closed
  <2> DEFINE row == [token |-> 0, invited_by |-> u, expired |-> FALSE, revoked |-> FALSE,
                     accepted |-> FALSE, accepted_user_id |-> None]
  <2>1. row \in Invitation
    BY DEF Invitation
  <2>2. invites' = [invites EXCEPT ![i] = row] /\ ~ IsInvitation(i)
    BY <1>7 DEF create, IsInvitation
  <2> HIDE DEF row
  <2> QED
    BY <1>3, <2>1, <2>2
<1>8. ASSUME NEW s \in Slots, mark_accepted(s) PROVE Type /\ Closed
  <2>1. call[s] \in Joining /\ call[s].user \in Users
    BY <1>8, HandlerKinds DEF mark_accepted, Accepting, At, EnrollInv, JoiningFresh
  <2>2. PICK i \in Invites, u \in Users : i = call[s].invite /\ u = call[s].user
    BY <2>1 DEF Joining
  <2>3. CASE IsInvitation(i)
    <3> DEFINE row == [invites[i] EXCEPT !.accepted = TRUE, !.accepted_user_id = u]
    <3>1. row \in Invitation
      BY <1>1, <2>3, WrittenInvitation
    <3>2. row.accepted
      BY <1>1, <2>3, WrittenInvitation DEF Invitation
    <3>3. invites' = [invites EXCEPT ![i] = row]
      BY <1>8, <2>2, <2>3 DEF mark_accepted
    <3> HIDE DEF row
    <3> QED
      BY <1>3, <3>1, <3>2, <3>3
  <2>4. CASE ~ IsInvitation(i)
    BY <1>2, <1>8, <2>2, <2>4 DEF mark_accepted
  <2> QED
    BY <2>3, <2>4
<1>9. ASSUME NEW s \in Slots,
             \/ \E i \in Invites : \E token \in 0..invites[i].token : StartAccept(s, i, token)
             \/ find_active(s) \/ CreateUser(s) \/ AcceptFail(s)
      PROVE  Type /\ Closed
  BY <1>2, <1>9 DEF StartAccept, find_active, CreateUser, AcceptFail, enrollment
<1>10. Type /\ Closed
  BY <1>4, <1>5, <1>6, <1>7, <1>8, <1>9 DEF InvitationNext
<1>11. UNCHANGED <<devices, told>>
  BY DEF InvitationNext, Expire, revoke, reissue, create, KeepsInvites, StartAccept,
     find_active, CreateUser, AcceptFail, mark_accepted, enrollment
<1> QED
  BY <1>10, <1>11 DEF Type, Closed

(* Devices that stay as they are belong to users who stay. *)
LEMMA DevicesStay ==
    ASSUME EnrollInv, UNCHANGED <<devices, told>>, \A u \in Users : Exists(u) => Exists(u)'
    PROVE  (ToldKnown /\ RevokedForGood)'
<1>1. \A d \in Devices : devices[d] \in Device => devices[d].user \in Users
  BY DEF Device
<1> QED
  BY <1>1 DEF EnrollInv, ToldKnown, RevokedForGood

(* Two who accept at the same time never make the same account. *)
LEMMA InvitationKeepsEnroll ==
    ASSUME HandlersOK, EnrollInv, InvitationNext
    PROVE  EnrollInv'
<1> USE DEF Step, Finish, Arrive, At
<1>1. /\ invites' \in [Invites -> Invitation \cup {None, Deleted}]
      /\ UNCHANGED <<devices, told>>
  BY InvitationsWrite
<1>2. ASSUME users' \in [Users -> Emails \cup {None, Deleted}],
             \A u \in Users : Exists(u) => Exists(u)', JoiningFresh'
      PROVE  EnrollInv'
  <2>1. (ToldKnown /\ RevokedForGood)'
    BY <1>1, <1>2, DevicesStay
  <2> QED
    BY <1>1, <1>2, <2>1 DEF EnrollInv, EnrollTypeOK
<1>3. ASSUME NEW s \in Slots, mark_accepted(s) PROVE EnrollInv'
  <2>1. PICK u \in Users : /\ u = call[s].user /\ users[u] = None /\ call[s] \in Joining
                            /\ \A t \in Slots \ {s} : Accepting(t) => call[t].user # u
    BY <1>3, HandlerKinds DEF mark_accepted, Accepting, EnrollInv, JoiningFresh
  <2>2. /\ users' = [users EXCEPT ![u] = EmailOf[call[s].invite]]
        /\ call' = [call EXCEPT ![s] = None]
    BY <1>3, <2>1 DEF mark_accepted
  <2>3. EmailOf[call[s].invite] \in Emails /\ ~ Exists(u)
    BY <2>1, EnrollmentAssumption, UserTableAssumption DEF Joining, Exists
  <2>4. users' \in [Users -> Emails \cup {None, Deleted}] /\ \A v \in Users : v # u => users'[v] = users[v]
    BY <2>2, <2>3 DEF EnrollInv, EnrollTypeOK
  <2>5. \A v \in Users : Exists(v) => Exists(v)'
    BY <2>3, <2>4 DEF Exists
  <2>6. \A t \in Slots : Accepting(t)' => t # s /\ Accepting(t) /\ call'[t] = call[t]
    BY <2>2 DEF HandlersOK, Accepting, Busy
  <2>7. JoiningFresh'
    <3>1. ASSUME NEW t \in Slots, Accepting(t)'
          PROVE  /\ call'[t].user \in Users /\ users'[call'[t].user] = None
                 /\ \A v \in Slots \ {t} : Accepting(v)' => call'[v].user # call'[t].user
      BY <2>1, <2>4, <2>6, <3>1 DEF EnrollInv, JoiningFresh
    <3> QED
      BY <3>1 DEF JoiningFresh
  <2> QED
    BY <1>2, <2>4, <2>5, <2>7
<1>4. ASSUME NEW s \in Slots, CreateUser(s) PROVE EnrollInv'
  <2>1. call[s] \in Joining /\ UNCHANGED users
    BY <1>4, HandlerKinds DEF CreateUser
  <2>2. JoiningFresh'
    <3>1. CASE call' = [call EXCEPT ![s] = None]
      BY <2>1, <3>1, OtherMoveKeepsJoining DEF EnrollInv
    <3>2. ASSUME NEW u \in Users, users[u] = None,
                 \A t \in Slots : Accepting(t) => call[t].user # u,
                 call' = [call EXCEPT ![s] = [call[s] EXCEPT !.pc = "accept", !.user = u]]
          PROVE  JoiningFresh'
      <4> DEFINE h == [call[s] EXCEPT !.pc = "accept", !.user = u]
      <4>1. h.user = u
        BY <2>1 DEF Joining
      <4>2. call' = [call EXCEPT ![s] = h]
        BY <3>2
      <4> HIDE DEF h
      <4>3. call'[s] = h /\ \A t \in Slots \ {s} : call'[t] = call[t]
        BY <4>2 DEF HandlersOK
      <4>4. \A t \in Slots \ {s} : Accepting(t)' = Accepting(t)
        BY <4>3 DEF Accepting, Busy
      <4>5. ASSUME NEW t \in Slots, Accepting(t)'
            PROVE  /\ call'[t].user \in Users /\ users'[call'[t].user] = None
                   /\ \A v \in Slots \ {t} : Accepting(v)' => call'[v].user # call'[t].user
        <5>1. CASE t = s
          BY <2>1, <3>2, <4>1, <4>3, <4>4, <5>1
        <5>2. CASE t # s
          BY <2>1, <3>2, <4>1, <4>3, <4>4, <4>5, <5>2 DEF EnrollInv, JoiningFresh
        <5> QED
          BY <5>1, <5>2
      <4> QED
        BY <4>5 DEF JoiningFresh
    <3> QED
      BY <1>4, <3>1, <3>2 DEF CreateUser
  <2> QED
    BY <1>2, <2>1, <2>2 DEF EnrollInv, EnrollTypeOK, Exists
<1>5. CASE \A s \in Slots : ~ mark_accepted(s) /\ ~ CreateUser(s)
  <2>1. UNCHANGED users
    BY <1>5 DEF InvitationNext, Expire, revoke, reissue, create, KeepsInvites, StartAccept,
       find_active, AcceptFail
  <2>2. \/ UNCHANGED call
        \/ \E s \in Slots : \E h : /\ call' = [call EXCEPT ![s] = h]
                                   /\ h = None \/ h.pc # "accept"
    <3>1. ASSUME NEW s \in Slots, find_active(s)
          PROVE  \E h : call' = [call EXCEPT ![s] = h] /\ (h = None \/ h.pc # "accept")
      <4>1. call[s] \in Joining
        BY <3>1, HandlerKinds DEF find_active
      <4>2. [call[s] EXCEPT !.pc = "create"].pc = "create"
        BY <4>1 DEF Joining
      <4> QED
        BY <3>1, <4>2 DEF find_active
    <3>2. ASSUME NEW s \in Slots, NEW i \in Invites, NEW token, StartAccept(s, i, token)
          PROVE  \E h : call' = [call EXCEPT ![s] = h] /\ (h = None \/ h.pc # "accept")
      <4> DEFINE h == [op |-> "accept", pc |-> "find", invite |-> i, token |-> token, user |-> None]
      <4>1. h.pc # "accept" /\ call' = [call EXCEPT ![s] = h]
        BY <3>2 DEF StartAccept
      <4> QED
        BY <4>1
    <3>3. ASSUME NEW s \in Slots, AcceptFail(s)
          PROVE  call' = [call EXCEPT ![s] = None]
      BY <3>3 DEF AcceptFail
    <3>4. ASSUME NEW i \in Invites,
                 Expire(i) \/ revoke(i) \/ reissue(i) \/ \E u \in Users : create(i, u)
          PROVE  UNCHANGED call
      BY <3>4 DEF Expire, revoke, reissue, create, AdminCall, handlers
    <3> QED
      BY <1>5, <3>1, <3>2, <3>3, <3>4 DEF InvitationNext
  <2>3. JoiningFresh'
    BY <2>1, <2>2, OtherMoveKeepsJoining DEF EnrollInv
  <2> QED
    BY <1>2, <2>1, <2>3 DEF EnrollInv, EnrollTypeOK, Exists
<1> QED
  BY <1>3, <1>4, <1>5

(* Enrolling draws an id nobody was told of; a device that its owner was   *)
(* told of is revoked, and the statement that writes it only revokes.      *)
LEMMA DeviceKeepsEnroll ==
    ASSUME HandlersOK, EnrollInv, DeviceNext
    PROVE  EnrollInv'
<1>1. UNCHANGED <<users, invites, call>>
  BY DEF DeviceNext, enroll_device, EnrollAs, revoke_owned, AdminCall
<1>2. JoiningFresh'
  BY <1>1, OtherMoveKeepsJoining DEF EnrollInv
<1>3. ASSUME NEW u \in Users, NEW d \in Devices, enroll_device(u, d) PROVE EnrollInv'
  <2> DEFINE row == [user |-> u, revoked |-> FALSE]
  <2>1. row \in Device /\ row.user = u /\ row # None /\ Exists(u)
    <3>1. row \in Device
      BY DEF Device
    <3> QED
      BY <1>3, <3>1, DeviceAssumption DEF enroll_device, EnrollAs
  <2>2. devices' = [devices EXCEPT ![d] = row] /\ devices[d] = None /\ UNCHANGED told
    BY <1>3 DEF enroll_device, EnrollAs
  <2> HIDE DEF row
  <2>3. /\ devices' \in [Devices -> Device \cup {None, Deleted}]
        /\ \A e \in Devices : devices'[e] = IF e = d THEN row ELSE devices[e]
        /\ d \notin told
    BY <2>1, <2>2 DEF EnrollInv, EnrollTypeOK, ToldKnown
  <2>4. (ToldKnown /\ RevokedForGood)'
    BY <1>1, <2>1, <2>2, <2>3 DEF EnrollInv, EnrollTypeOK, ToldKnown, RevokedForGood, Exists
  <2> QED
    BY <1>1, <1>2, <2>2, <2>3, <2>4 DEF EnrollInv, EnrollTypeOK
<1>4. ASSUME NEW u \in Users, NEW d \in Devices, NEW answered \in BOOLEAN,
             revoke_owned(u, d, answered)
      PROVE  EnrollInv'
  <2>1. devices[d] \in Device
    BY <1>4 DEF revoke_owned, EnrollInv, EnrollTypeOK
  <2> DEFINE row == [devices[d] EXCEPT !.revoked = TRUE]
  <2>2. row \in Device /\ row.user = devices[d].user /\ row.revoked /\ row # None
    BY <2>1, DeviceAssumption DEF Device
  <2>3. CASE devices[d].user = u
    <3>1. devices' = [devices EXCEPT ![d] = row] /\ told' \in {told, told \cup {d}}
      BY <1>4, <2>3 DEF revoke_owned
    <3> HIDE DEF row
    <3>2. /\ devices' \in [Devices -> Device \cup {None, Deleted}]
          /\ \A e \in Devices : devices'[e] = IF e = d THEN row ELSE devices[e]
      BY <2>2, <3>1 DEF EnrollInv, EnrollTypeOK
    <3>3. (ToldKnown /\ RevokedForGood)'
      BY <1>1, <2>1, <2>2, <3>1, <3>2
         DEF EnrollInv, EnrollTypeOK, ToldKnown, RevokedForGood, Exists
    <3> QED
      BY <1>1, <1>2, <3>1, <3>2, <3>3 DEF EnrollInv, EnrollTypeOK
  <2>4. CASE devices[d].user # u
    <3>1. UNCHANGED <<devices, told>>
      BY <1>4, <2>4 DEF revoke_owned
    <3>2. (ToldKnown /\ RevokedForGood)'
      BY <1>1, <3>1, DevicesStay DEF Exists
    <3> QED
      BY <1>1, <1>2, <3>1, <3>2 DEF EnrollInv, EnrollTypeOK
  <2> QED
    BY <2>3, <2>4
<1> QED
  BY <1>3, <1>4 DEF DeviceNext

(* With the user goes everything that hangs on the account, and only that. *)
LEMMA RemovalKeepsEnroll ==
    ASSUME HandlersOK, EnrollInv, NEW u \in Users, hard_remove(u)
    PROVE  /\ EnrollInv'
           /\ \A i \in Invites : IsInvitation(i) /\ ~ IsActive(i) => ~ IsActive(i)'
<1>1. /\ UNCHANGED <<call, told>> /\ users' = [users EXCEPT ![u] = Deleted]
      /\ devices' = [d \in Devices |-> IF devices[d] \in Device /\ devices[d].user = u THEN Deleted
                                       ELSE devices[d]]
      /\ invites' = [i \in Invites |->
                       CASE IsInvitation(i) /\ invites[i].invited_by = u -> Deleted
                         [] IsInvitation(i) /\ invites[i].invited_by # u /\ invites[i].accepted_user_id = u ->
                               [invites[i] EXCEPT !.accepted_user_id = None]
                         [] OTHER -> invites[i]]
      /\ Exists(u)
  BY DEF hard_remove, AdminCall
<1>2. EnrollTypeOK
  BY DEF EnrollInv
<1>3. \A v \in Users : users'[v] = IF v = u THEN Deleted ELSE users[v]
  BY <1>1, <1>2 DEF EnrollTypeOK
<1>4. users[u] # None
  BY <1>1, UserTableAssumption DEF Exists
<1>5. JoiningFresh'
  BY <1>1, <1>3, <1>4, OtherMoveKeepsJoining DEF EnrollInv
<1>6. /\ devices' \in [Devices -> Device \cup {None, Deleted}]
      /\ (ToldKnown /\ RevokedForGood)'
  <2>1. devices' \in [Devices -> Device \cup {None, Deleted}]
    BY <1>1, <1>2 DEF EnrollTypeOK
  <2>2. \A d \in Devices : \/ devices'[d] = Deleted
                           \/ /\ devices'[d] = devices[d]
                              /\ devices[d] \in Device => devices[d].user # u
    BY <1>1
  <2>3. \A d \in Devices : devices[d] \in Device => devices[d].user \in Users
    BY DEF Device
  <2>4. ToldKnown'
    BY <1>1, <1>2, <2>2, UserTableAssumption DEF EnrollTypeOK, EnrollInv, ToldKnown
  <2>5. RevokedForGood'
    BY <1>1, <1>3, <2>2, <2>3, DeviceAssumption DEF EnrollInv, RevokedForGood, Exists
  <2> QED
    BY <2>1, <2>4, <2>5
<1>7. ASSUME NEW i \in Invites
      PROVE  /\ invites'[i] \in Invitation \cup {None, Deleted}
             /\ IsInvitation(i) /\ ~ IsActive(i) => ~ IsActive(i)'
  <2>1. CASE IsInvitation(i) /\ invites[i].invited_by = u
    <3>1. invites'[i] = Deleted
      BY <1>1, <2>1
    <3> QED
      BY <3>1 DEF IsActive, IsInvitation
  <2>2. CASE IsInvitation(i) /\ invites[i].invited_by # u /\ invites[i].accepted_user_id = u
    <3> DEFINE row == [invites[i] EXCEPT !.accepted_user_id = None]
    <3>1. invites'[i] = row
      BY <1>1, <2>2
    <3>2. /\ row \in Invitation /\ row.expired = invites[i].expired
          /\ row.revoked = invites[i].revoked /\ row.accepted = invites[i].accepted
      BY <1>2, <2>2, WrittenInvitation DEF Invitation
    <3> HIDE DEF row
    <3> QED
      BY <3>1, <3>2 DEF IsActive, IsInvitation
  <2>3. CASE /\ ~ (IsInvitation(i) /\ invites[i].invited_by = u)
             /\ ~ (IsInvitation(i) /\ invites[i].invited_by # u /\ invites[i].accepted_user_id = u)
    <3>1. invites'[i] = invites[i]
      BY <1>1, <2>3
    <3> QED
      BY <1>2, <3>1 DEF EnrollTypeOK, IsActive, IsInvitation
  <2> QED
    BY <2>1, <2>2, <2>3
<1>8. invites' \in [Invites -> Invitation \cup {None, Deleted}]
  BY <1>1, <1>7
<1>9. users' \in [Users -> Emails \cup {None, Deleted}] /\ told' \subseteq Devices
  BY <1>1, <1>2 DEF EnrollTypeOK
<1> QED
  BY <1>5, <1>6, <1>7, <1>8, <1>9 DEF EnrollInv, EnrollTypeOK

-----------------------------------------------------------------------------
(* What the handlers of Totp become: nothing of Recovery or Enrollment.    *)
OfTotp(h) == h = None \/ (h.op \notin {"bootstrap", "rotate", "reset"} /\ h.pc # "accept")

LEMMA TotpMoves ==
    ASSUME HandlersOK, TotpNext
    PROVE  \/ UNCHANGED call
           \/ \E s \in Slots : \E h : OfTotp(h) /\ call' = [call EXCEPT ![s] = h]
<1> USE DEF Step, Finish, Arrive, At
<1> DEFINE Moved == \/ UNCHANGED call
                    \/ \E s \in Slots : \E h : OfTotp(h) /\ call' = [call EXCEPT ![s] = h]
<1>1. ASSUME NEW s \in Slots, NEW h, OfTotp(h), call' = [call EXCEPT ![s] = h]
      PROVE  Moved
  BY <1>1
<1>0. OfTotp(None)
  BY DEF OfTotp
<1>2. UNCHANGED call => Moved
  OBVIOUS
<1> HIDE DEF Moved
<1>3. ASSUME NEW s \in Slots, SelectPending(s) \/ ClearPending(s) \/ InsertPending(s)
      PROVE  Moved
  <2>1. call[s] \in Enrolling
    BY <1>3, HandlerKinds DEF SelectPending, ClearPending, InsertPending
  <2> DEFINE h1 == [call[s] EXCEPT !.pc = "clearing", !.rows = Pending(call[s].user)]
             h2 == [call[s] EXCEPT !.pc = "insert", !.rows = @ \cap Pending(call[s].user)]
             h3(c) == [call[s] EXCEPT !.pc = "commit", !.cred = c]
  <2>2. OfTotp(h1) /\ OfTotp(h2) /\ \A c : OfTotp(h3(c))
    BY <2>1 DEF Enrolling, OfTotp
  <2>3. \/ call' = [call EXCEPT ![s] = h1] \/ call' = [call EXCEPT ![s] = h2]
        \/ call' = [call EXCEPT ![s] = None]
        \/ \E c \in Creds : call' = [call EXCEPT ![s] = h3(c)]
    BY <1>3 DEF SelectPending, ClearPending, InsertPending
  <2> HIDE DEF h1, h2, h3
  <2> QED
    BY <1>0, <1>1, <2>2, <2>3
<1>4. ASSUME NEW s \in Slots, load_pending_secret(s) \/ count_verified(s) \/ confirm(s)
      PROVE  Moved
  <2>1. call[s] \in Confirming
    BY <1>4, HandlerKinds DEF load_pending_secret, count_verified, confirm
  <2> DEFINE h(pc) == [call[s] EXCEPT !.pc = pc]
  <2>2. \A pc \in {"count", "confirm", "commit"} : OfTotp(h(pc))
    BY <2>1 DEF Confirming, OfTotp
  <2>3. \/ call' = [call EXCEPT ![s] = None]
        \/ \E pc \in {"count", "confirm", "commit"} : call' = [call EXCEPT ![s] = h(pc)]
    BY <1>4 DEF load_pending_secret, count_verified, confirm
  <2> HIDE DEF h
  <2> QED
    BY <1>0, <1>1, <2>2, <2>3
<1>5. ASSUME NEW s \in Slots, MatchStep(s) PROVE Moved
  <2>1. call[s] \in Verifying
    BY <1>5, HandlerKinds DEF MatchStep
  <2> DEFINE h(c, n) == [call[s] EXCEPT !.pc = "consume", !.cred = c, !.step = n]
  <2>2. \A c, n : OfTotp(h(c, n))
    BY <2>1 DEF Verifying, OfTotp
  <2>3. \/ call' = [call EXCEPT ![s] = None]
        \/ \E c, n : call' = [call EXCEPT ![s] = h(c, n)]
    BY <1>5 DEF MatchStep
  <2> HIDE DEF h
  <2> QED
    BY <1>0, <1>1, <2>2, <2>3
<1>6. ASSUME NEW s \in Slots, CommitEnrollment(s) \/ CommitConfirm(s) \/ Consume(s) \/ TotpFail(s)
      PROVE  Moved
  BY <1>0, <1>1, <1>6 DEF CommitEnrollment, CommitConfirm, Consume, ConsumeIf, TotpFail
<1>7. ASSUME NEW s \in Slots, NEW u \in Users, StartEnrollment(s, u) PROVE Moved
  <2> DEFINE h == [op |-> "enroll", pc |-> "clear", user |-> u, rows |-> {}, cred |-> None]
  <2>1. OfTotp(h) /\ call' = [call EXCEPT ![s] = h]
    BY <1>7 DEF StartEnrollment, OfTotp
  <2> HIDE DEF h
  <2> QED
    BY <1>1, <2>1
<1>8. ASSUME NEW s \in Slots, NEW u \in Users, NEW c, StartConfirm(s, u, c) PROVE Moved
  <2> DEFINE h == [op |-> "confirm", pc |-> "load", user |-> u, cred |-> c]
  <2>1. OfTotp(h) /\ call' = [call EXCEPT ![s] = h]
    BY <1>8 DEF StartConfirm, OfTotp
  <2> HIDE DEF h
  <2> QED
    BY <1>1, <2>1
<1>9. ASSUME NEW s \in Slots, NEW u \in Users, NEW code, StartVerify(s, u, code) PROVE Moved
  <2> DEFINE h == [op |-> "verify", pc |-> "match", user |-> u, code |-> code, at |-> now,
                   cred |-> None, step |-> None]
  <2>1. OfTotp(h) /\ call' = [call EXCEPT ![s] = h]
    BY <1>9 DEF StartVerify, OfTotp
  <2> HIDE DEF h
  <2> QED
    BY <1>1, <2>1
<1>10. ASSUME Advance \/ \E u \in Users, c \in Creds : delete(u, c) PROVE Moved
  BY <1>2, <1>10 DEF Advance, delete, handlers
<1> QED
  BY <1>3, <1>4, <1>5, <1>6, <1>7, <1>8, <1>9, <1>10 DEF TotpNext, Moved

-----------------------------------------------------------------------------
(***************************************************************************)
(* The inductive invariant of the whole, and what follows from it.         *)
(***************************************************************************)
IInv == TotpInv /\ WithinLimit /\ RecoveryInv /\ EnrollInv

LEMMA InitIInv == Init => IInv
<1> SUFFICES ASSUME Init PROVE IInv
  OBVIOUS
<1>1. TotpInv /\ WithinLimit
  BY InitTotpInv, InitLimit DEF Init
<1>2. \A s \in Slots : call[s] = None
  BY DEF Init, InitHandlers
<1>3. /\ \A s \in Slots : /\ ~ HoldsCodes(s) /\ Unstored(s) = {} /\ ~ Accepting(s)
                          /\ \A u \in Users : ~ HoldsUserCode(s, u)
  BY <1>2 DEF HoldsCodes, RecoveryHandler, Unstored, HoldsUserCode, Accepting, At, Busy
<1>4. recovery = <<>> /\ rotations = <<>> /\ resets = <<>> /\ minted = {}
      /\ user_code = [u \in Users |-> None]
  BY DEF Init, InitRecovery
<1>5. RecoveryTypeOK
  BY <1>4 DEF RecoveryTypeOK
<1>6. ServerCodes
  BY <1>3, <1>4 DEF ServerCodes, ActiveIsOne, CodesHeld, HashesDiffer, RotationsServed
<1>7. UserCodes
  BY <1>3, <1>4 DEF UserCodes, UserCodeHeld, ResetsServed, CodesHaveUsers
<1>8. EnrollInv
  <2>1. EnrollTypeOK
    BY DEF Init, EnrollTypeOK
  <2>2. ToldKnown /\ JoiningFresh /\ RevokedForGood
    BY <1>3, DeviceAssumption DEF Init, ToldKnown, JoiningFresh, RevokedForGood
  <2> QED
    BY <2>1, <2>2 DEF EnrollInv
<1> QED
  BY <1>1, <1>5, <1>6, <1>7, <1>8 DEF IInv, RecoveryInv

LEMMA NextIInv == IInv /\ [Next]_vars => IInv'
<1> SUFFICES ASSUME IInv, [Next]_vars PROVE IInv'
  OBVIOUS
<1>0. HandlersOK /\ TotpInv /\ WithinLimit /\ RecoveryInv /\ EnrollInv
  BY DEF IInv, TotpInv, TotpTypeOK
<1>1. CASE TotpNext /\ UNCHANGED <<users, codes, enrollment>>
  <2>1. TotpInv' /\ WithinLimit'
    BY <1>0, <1>1, TotpStep, LimitStep
  <2>2. \/ UNCHANGED call
        \/ \E s \in Slots : \E h : /\ call' = [call EXCEPT ![s] = h]
                                   /\ h = None \/ h.op \notin {"bootstrap", "rotate", "reset"}
    BY <1>0, <1>1, TotpMoves DEF OfTotp
  <2>3. \/ UNCHANGED call
        \/ \E s \in Slots : \E h : /\ call' = [call EXCEPT ![s] = h]
                                   /\ h = None \/ h.pc # "accept"
    BY <1>0, <1>1, TotpMoves DEF OfTotp
  <2>4. RecoveryInv'
    BY <1>0, <1>1, <2>2, OtherMoveKeepsRecovery DEF Exists
  <2>5. JoiningFresh'
    BY <1>0, <1>1, <2>3, OtherMoveKeepsJoining DEF EnrollInv
  <2>6. EnrollInv'
    BY <1>0, <1>1, <2>5, DevicesStay DEF EnrollInv, EnrollTypeOK, enrollment, Exists
  <2> QED
    BY <2>1, <2>4, <2>6 DEF IInv
<1>2. CASE RecoveryNext /\ UNCHANGED <<users, totp, enrollment>>
  <2>1. RecoveryInv'
    BY <1>0, <1>2, RecoveryStep
  <2>2. /\ calls' \in Nat
        /\ \/ UNCHANGED call
           \/ \E s \in Slots, h \in Bootstrapping \cup Rotating \cup Resetting \cup {None} :
                 call' = [call EXCEPT ![s] = h]
    BY <1>0, <1>2, RecoveryMoves DEF RecoveryInv
  <2>3. \/ UNCHANGED call
        \/ \E s \in Slots, h \in OtherHandler \cup {None} : call' = [call EXCEPT ![s] = h]
    BY <2>2 DEF OtherHandler
  <2>4. TotpInv'
    BY <1>0, <1>2, <2>2, <2>3, OtherMoveKeepsTotp
  <2>5. WithinLimit'
    BY <1>0, <1>2, <2>3, OtherKeepsLimit DEF totp, Verified, Rows
  <2>6. \/ UNCHANGED call
        \/ \E s \in Slots : \E h : /\ call' = [call EXCEPT ![s] = h]
                                   /\ h = None \/ h.pc # "accept"
    BY <2>2 DEF Bootstrapping, Rotating, Resetting
  <2>7. JoiningFresh'
    BY <1>0, <1>2, <2>6, OtherMoveKeepsJoining DEF EnrollInv
  <2>8. EnrollInv'
    BY <1>0, <1>2, <2>7, DevicesStay DEF EnrollInv, EnrollTypeOK, enrollment, Exists
  <2> QED
    BY <2>1, <2>4, <2>5, <2>8 DEF IInv
<1>3. CASE InvitationNext
  <2>1. /\ calls' \in Nat
        /\ \/ UNCHANGED call
           \/ \E s \in Slots, h \in Joining \cup {None} : call' = [call EXCEPT ![s] = h]
    BY <1>0, <1>3, InvitationMoves DEF EnrollInv
  <2>2. \/ UNCHANGED call
        \/ \E s \in Slots, h \in OtherHandler \cup {None} : call' = [call EXCEPT ![s] = h]
    BY <2>1 DEF OtherHandler
  <2>3. UNCHANGED totp
    BY <1>3 DEF InvitationNext, Expire, revoke, reissue, create, KeepsInvites, StartAccept,
       find_active, CreateUser, mark_accepted, AcceptFail
  <2>4. TotpInv'
    BY <1>0, <2>1, <2>2, <2>3, OtherMoveKeepsTotp
  <2>5. WithinLimit'
    BY <1>0, <2>2, <2>3, OtherKeepsLimit DEF totp, Verified, Rows
  <2> QED
    BY <1>0, <1>3, <2>4, <2>5, InvitationKeepsRecovery, InvitationKeepsEnroll DEF IInv
<1>4. CASE DeviceNext
  <2>1. UNCHANGED <<call, users, totp, codes>> /\ calls' = calls + 1
    BY <1>4 DEF DeviceNext, enroll_device, EnrollAs, revoke_owned, AdminCall
  <2>2. calls' \in Nat
    BY <1>0, <2>1 DEF HandlersOK
  <2>3. TotpInv'
    BY <1>0, <2>1, <2>2, OtherMoveKeepsTotp
  <2>4. WithinLimit'
    BY <1>0, <2>1, OtherKeepsLimit DEF totp, Verified, Rows
  <2>5. RecoveryInv'
    BY <1>0, <2>1, OtherMoveKeepsRecovery DEF Exists
  <2> QED
    BY <1>0, <1>4, <2>3, <2>4, <2>5, DeviceKeepsEnroll DEF IInv
<1>5. ASSUME NEW u \in Users, hard_remove(u) PROVE IInv'
  <2>1. UNCHANGED call
    BY <1>5 DEF hard_remove, AdminCall
  <2>2. \A v \in Users : Verified(v)' \subseteq Verified(v)
    <3>1. \A c \in Creds : creds'[c] \in {Deleted, creds[c]}
      BY <1>5 DEF hard_remove
    <3> QED
      BY <3>1 DEF Verified, Rows
  <2>3. WithinLimit'
    BY <1>0, <2>1, <2>2, OtherKeepsLimit
  <2> QED
    BY <1>0, <1>5, <2>3, RemovalStep, RemovalKeepsRecovery, RemovalKeepsEnroll DEF IInv, EnrollInv
<1>6. CASE UNCHANGED vars
  <2>1. UNCHANGED <<call, calls, users, totp, codes, enrollment>>
    BY <1>6 DEF vars, handlers
  <2>2. TotpInv'
    BY <1>0, <2>1, OtherMoveKeepsTotp DEF HandlersOK
  <2>3. WithinLimit'
    BY <1>0, <2>1, OtherKeepsLimit DEF totp, Verified, Rows
  <2>4. RecoveryInv'
    BY <1>0, <2>1, OtherMoveKeepsRecovery DEF Exists
  <2>5. JoiningFresh'
    BY <1>0, <2>1, OtherMoveKeepsJoining DEF EnrollInv
  <2>6. EnrollInv'
    BY <1>0, <2>1, <2>5, DevicesStay DEF EnrollInv, EnrollTypeOK, enrollment, Exists
  <2> QED
    BY <2>2, <2>3, <2>4, <2>6 DEF IInv
<1> QED
  BY <1>1, <1>2, <1>3, <1>4, <1>5, <1>6 DEF Next

(* The invariant of recovery codes, invitations, devices and second        *)
(* factors together, whatever handlers overlap.                            *)
THEOREM SpecIInv == Spec => []IInv
BY InitIInv, NextIInv, PTL DEF Spec

(* Overlapping verifications accept each time step of a credential once    *)
(* (verify_and_consume's UPDATE of last_used_step).                        *)
THEOREM SingleUse == Spec => []StepsAreSingleUse
<1>1. IInv => StepsAreSingleUse
  BY DEF IInv, TotpInv
<1> QED
  BY <1>1, SpecIInv, PTL

(* Handlers that count together exceed MAX_AUTHENTICATORS by at most the   *)
(* other handlers there are (count_verified before confirm).               *)
THEOREM LimitHolds == Spec => []AuthenticatorLimit
<1>1. IInv => AuthenticatorLimit
  BY LimitImplies DEF IInv
<1> QED
  BY <1>1, SpecIInv, PTL

(* Whoever looks finds one active server code, once there is one           *)
(* (bootstrap and rotate of recovery_code.rs).                             *)
THEOREM OneActive == Spec => []OneActiveCode
<1>1. ASSUME IInv PROVE OneActiveCode
  <2> SUFFICES ASSUME recovery # <<>> PROVE Cardinality(Active) = 1
    BY DEF OneActiveCode
  <2>1. PICK i \in 1..Len(recovery) : Active = {i}
    BY <1>1 DEF IInv, RecoveryInv, ServerCodes, ActiveIsOne
  <2> QED
    BY <2>1, FS_Singleton
<1> QED
  BY <1>1, SpecIInv, PTL

(* A code opens one rotation or one reset, whoever else presents it at the *)
(* same time (rotate, verify_and_stamp).                                   *)
THEOREM ServesOnce == Spec => []EachCodeServesOnce
<1>1. IInv => EachCodeServesOnce
  BY DEF IInv, RecoveryInv, ServerCodes, RotationsServed, UserCodes, ResetsServed, EachCodeServesOnce
<1> QED
  BY <1>1, SpecIInv, PTL

(* A device the owner was told is gone stays gone, and none outlives its   *)
(* user (revoke_owned, enroll_device, hard_remove).                        *)
THEOREM RevokedStays == Spec => []RevokedForGood
<1>1. IInv => RevokedForGood
  BY DEF IInv, EnrollInv
<1> QED
  BY <1>1, SpecIInv, PTL

(* Nothing but its own user's delete, or the user's removal, takes an      *)
(* authenticator out of use (start_enrollment's DELETE, confirm, delete).  *)
THEOREM InUseStays == Spec => InUseUntilDeleted
<1>1. ASSUME IInv, [Next]_vars, NEW u \in Users, NEW c \in Verified(u)
      PROVE  c \in Verified(u)' \/ c \in removed'
  <2>1. CASE TotpNext
    BY <1>1, <2>1, VerifiedStays DEF IInv
  <2>2. ASSUME NEW v \in Users, hard_remove(v) PROVE c \in Verified(u)' \/ c \in removed'
    <3>1. /\ removed' = removed \cup Verified(v)
          /\ creds' = [d \in Creds |-> IF d \in Verified(v) \cup Pending(v) THEN Deleted ELSE creds[d]]
      BY <2>2 DEF hard_remove
    <3>2. CASE c \in Verified(v)
      BY <3>1, <3>2
    <3>3. CASE c \notin Verified(v)
      <4>1. c \in Creds /\ c \notin Pending(v)
        BY <1>1 DEF Verified, Pending, Rows
      <4> QED
        BY <1>1, <3>1, <3>3, <4>1 DEF Verified, Rows
    <3> QED
      BY <3>2, <3>3
  <2>3. CASE UNCHANGED totp
    BY <1>1, <2>3 DEF totp, Verified, Rows
  <2>4. InvitationNext \/ DeviceNext => UNCHANGED totp
    BY DEF InvitationNext, Expire, revoke, reissue, create, KeepsInvites, StartAccept,
       find_active, CreateUser, mark_accepted, AcceptFail,
       DeviceNext, enroll_device, EnrollAs, revoke_owned
  <2> QED
    BY <1>1, <2>1, <2>2, <2>3, <2>4 DEF Next, vars
<1>2. IInv /\ [Next]_vars =>
        [\A u \in Users : \A c \in Verified(u) : c \in Verified(u)' \/ c \in removed']_<<totp, handlers>>
  BY <1>1
<1> QED
  BY <1>2, SpecIInv, PTL DEF Spec, InUseUntilDeleted

(* A link that was accepted, revoked or has expired opens nothing again    *)
(* (reissue, mark_accepted, revoke).                                       *)
THEOREM LinkStaysClosed == Spec => InviteStaysClosed
<1>1. ASSUME IInv, [Next]_vars
      PROVE  [\A i \in Invites : IsInvitation(i) /\ ~ IsActive(i) => ~ IsActive(i)']_vars
  <2>1. HandlersOK /\ EnrollInv
    BY <1>1 DEF IInv, TotpInv, TotpTypeOK
  <2>2. CASE InvitationNext
    BY <2>1, <2>2, InvitationsWrite
  <2>3. CASE \E u \in Users : hard_remove(u)
    BY <2>1, <2>3, RemovalKeepsEnroll
  <2>4. CASE UNCHANGED invites
    BY <2>4 DEF IsActive, IsInvitation
  <2>5. DeviceNext => UNCHANGED invites
    BY DEF DeviceNext, enroll_device, EnrollAs, revoke_owned
  <2> QED
    BY <1>1, <2>2, <2>3, <2>4, <2>5 DEF Next, vars, enrollment
<1> QED
  BY <1>1, SpecIInv, PTL DEF Spec, InviteStaysClosed
=============================================================================
