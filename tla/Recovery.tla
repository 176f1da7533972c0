------------------------------ MODULE Recovery ------------------------------
(***************************************************************************)
(* Recovery codes: the server's (crates/auth/src/recovery_code.rs), of     *)
(* which one is active, and each user's (user_recovery_code.rs).  A code   *)
(* is a sequence of characters, stored as the hash of its canonical form   *)
(* and typed back in any spelling; hashing is injective.  The functions    *)
(* run inside their callers' transactions, statement by statement.         *)
(***************************************************************************)
EXTENDS UserTable, Sequences, FiniteSets

CONSTANTS Codes,     \* codes generate_code may return, as sequences of characters
          Typed      \* what people type

ASSUME RecoveryAssumption ==
    \A code \in Codes \cup Typed : code \in Seq(STRING)

VARIABLES recovery,    \* auth.recovery_codes in commit order: [hash, rotated]
          user_code,   \* auth.user_recovery_codes: code_hash of each user, or None
          minted,      \* codes that have been generated
          rotations,   \* hash presented at each rotation that was committed
          resets       \* <<user, hash presented>> of each reset that was committed

codes == <<recovery, user_code, minted, rotations, resets>>

(* Upper case first, then separators are dropped and look-alikes read as   *)
(* the digit they are meant for.                                           *)
Uppercase(ch) == CASE ch = "a" -> "A" [] ch = "l" -> "L" [] ch = "o" -> "O" [] OTHER -> ch
Meant(ch) == CASE ch \in {"I", "L"} -> "1" [] ch = "O" -> "0" [] OTHER -> ch
canonicalize(typed) ==
    LET kept == SelectSeq(typed, LAMBDA ch : ch \notin {"-", " "})
    IN  [i \in 1..Len(kept) |-> Meant(Uppercase(kept[i]))]
hash_code(typed) == canonicalize(typed)

(* generate_code draws from the Crockford alphabet, which has none of the  *)
(* characters that are read as another one (CROCKFORD, encode_grouped).    *)
ASSUME HashAssumption ==
    /\ \A code, other \in Codes : hash_code(code) = hash_code(other) => code = other
    /\ \A code \in Codes \cup Typed : hash_code(code) # None

Active == {i \in 1..Len(recovery) : ~ recovery[i].rotated}

InitRecovery ==
    /\ recovery = <<>> /\ user_code = [u \in Users |-> None]
    /\ minted = {} /\ rotations = <<>> /\ resets = <<>>

RecoveryHandler(s) == s \in Busy /\ call[s].op \in {"bootstrap", "rotate", "reset"}
HoldsCodes(s) == RecoveryHandler(s) /\ call[s].op # "reset" /\ call[s].pc \in {"insert", "commit"}
HoldsUserCode(s, u) == At(s, "rotate") /\ call[s].op = "reset" /\ call[s].user = u
Mint(code) == code \in Codes \ minted /\ minted' = minted \cup {code}

(***************************************************************************)
(* The server's code.                                                      *)
(***************************************************************************)
StartBootstrap(s) ==
    /\ \E code \in Codes : /\ Mint(code)
                           /\ Arrive(s, [op |-> "bootstrap", pc |-> "start", new |-> hash_code(code)])
    /\ UNCHANGED <<recovery, user_code, rotations, resets>>

(* The unique index lets one active row in; an insert waits for a          *)
(* transaction that has written one.                                       *)
bootstrap(s) ==
    /\ At(s, "start") /\ call[s].op = "bootstrap"
    /\ \A t \in Slots : ~ HoldsCodes(t)
    /\ IF Active = {} THEN Step(s, [call[s] EXCEPT !.pc = "commit"]) ELSE Finish(s)
    /\ UNCHANGED codes
CommitBootstrap(s) ==
    /\ At(s, "commit") /\ call[s].op = "bootstrap"
    /\ recovery' = Append(recovery, [hash |-> call[s].new, rotated |-> FALSE])
    /\ Finish(s)
    /\ UNCHANGED <<user_code, minted, rotations, resets>>

StartRotate(s, typed) ==
    /\ \E code \in Codes :
          /\ Mint(code)
          /\ Arrive(s, [op |-> "rotate", pc |-> "start", current |-> hash_code(typed),
                        new |-> hash_code(code), previous |-> None])
    /\ UNCHANGED <<recovery, user_code, rotations, resets>>

(* rotate()'s UPDATE: the active row, if it is the one the caller holds.   *)
RetireCurrent_VerifiedBefore(s) ==
    /\ At(s, "start") /\ call[s].op = "rotate"
    /\ \A t \in Slots : ~ HoldsCodes(t)
    /\ LET hits == {i \in Active : \E j \in 1..i : recovery[j].hash = call[s].current}
       IN  \/ hits = {} /\ Finish(s)
           \/ \E i \in hits : Step(s, [call[s] EXCEPT !.pc = "insert", !.previous = i])
    /\ UNCHANGED codes
RetireCurrent_Autocommit(s) ==
    /\ At(s, "start") /\ call[s].op = "rotate"
    /\ \A t \in Slots : ~ HoldsCodes(t)
    /\ LET hits == {i \in Active : recovery[i].hash = call[s].current}
       IN  \/ hits = {} /\ Finish(s) /\ UNCHANGED recovery
           \/ \E i \in hits : /\ Step(s, [call[s] EXCEPT !.pc = "insert", !.previous = i])
                              /\ recovery' = [recovery EXCEPT ![i].rotated = TRUE]
    /\ UNCHANGED <<user_code, minted, rotations, resets>>
RetireCurrent(s) ==
    /\ At(s, "start") /\ call[s].op = "rotate"
    /\ \A t \in Slots : ~ HoldsCodes(t)
    /\ LET hits == {i \in Active : recovery[i].hash = call[s].current}
       IN  \/ hits = {} /\ Finish(s)
           \/ \E i \in hits : Step(s, [call[s] EXCEPT !.pc = "insert", !.previous = i])
    /\ UNCHANGED codes
InsertNew(s) ==
    /\ At(s, "insert") /\ call[s].op = "rotate"
    /\ Step(s, [call[s] EXCEPT !.pc = "commit"])
    /\ UNCHANGED codes
CommitRotate(s) ==
    /\ At(s, "commit") /\ call[s].op = "rotate"
    /\ recovery' = Append([recovery EXCEPT ![call[s].previous].rotated = TRUE],
                          [hash |-> call[s].new, rotated |-> FALSE])
    /\ rotations' = Append(rotations, call[s].current)
    /\ Finish(s)
    /\ UNCHANGED <<user_code, minted, resets>>

(***************************************************************************)
(* A user's code: verify_and_stamp and rotate "commit together with        *)
(* whatever recovery action the caller takes".                             *)
(***************************************************************************)
StartReset(s, u, typed) ==
    /\ Exists(u)
    /\ Arrive(s, [op |-> "reset", pc |-> "start", user |-> u, current |-> hash_code(typed)])
    /\ UNCHANGED codes

(* verify_and_stamp is an UPDATE: it waits for another one of the row. *)
verify_and_stamp(s) ==
    /\ At(s, "start") /\ call[s].op = "reset"
    /\ \A t \in Slots : ~ HoldsUserCode(t, call[s].user)
    /\ IF user_code[call[s].user] = call[s].current THEN Step(s, [call[s] EXCEPT !.pc = "rotate"])
       ELSE Finish(s)
    /\ UNCHANGED codes

CommitReset(s) ==
    /\ At(s, "rotate") /\ call[s].op = "reset"
    /\ \E code \in Codes : /\ Mint(code)
                           /\ user_code' = [user_code EXCEPT ![call[s].user] = hash_code(code)]
    /\ resets' = Append(resets, <<call[s].user, call[s].current>>)
    /\ Finish(s)
    /\ UNCHANGED <<recovery, rotations>>

(* rotate() alone: a signed-in user asks for a new code. *)
Renew(u) ==
    /\ calls < MaxCalls /\ calls' = calls + 1
    /\ Exists(u) /\ \A s \in Slots : ~ HoldsUserCode(s, u)
    /\ \E code \in Codes : Mint(code) /\ user_code' = [user_code EXCEPT ![u] = hash_code(code)]
    /\ UNCHANGED <<call, recovery, rotations, resets>>

RecoveryFail(s) == RecoveryHandler(s) /\ Finish(s) /\ UNCHANGED codes

RecoveryNext ==
    \/ \E s \in Slots :
          \/ StartBootstrap(s) \/ bootstrap(s) \/ CommitBootstrap(s)
          \/ \E typed \in Typed : \/ StartRotate(s, typed)
                                 \/ \E u \in Users : StartReset(s, u, typed)
          \/ RetireCurrent(s) \/ InsertNew(s) \/ CommitRotate(s)
          \/ verify_and_stamp(s) \/ CommitReset(s) \/ RecoveryFail(s)
    \/ \E u \in Users : Renew(u)

-----------------------------------------------------------------------------
(* Once a server code exists there is exactly one active, at every moment  *)
(* and to every reader: two would be two keys to the server, none would    *)
(* leave it without one (recovery_codes_one_active, bootstrap, rotate).    *)
OneActiveCode ==
    recovery # <<>> => Cardinality(Active) = 1

(* "a concurrent rotation can't slip between a verify and a write": of     *)
(* those who hold a code, in whatever spelling, one replaces it and the    *)
(* others are refused; and a user's code opens one reset.                  *)
EachCodeServesOnce ==
    /\ \A i, j \in 1..Len(rotations) : i # j => rotations[i] # rotations[j]
    /\ \A i, j \in 1..Len(resets) : i # j => resets[i] # resets[j]
=============================================================================
