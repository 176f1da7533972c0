---------------------------- MODULE RateLimiter ----------------------------
(***************************************************************************)
(* The per-client token bucket in front of Login, Bootstrap and            *)
(* RegisterMachine (crates/auth/src/ratelimit.rs) and the handlers' use of *)
(* it: check before the credential work, charge after it has failed.  The  *)
(* clock is read before the mutex is taken, so the limiter sees readings   *)
(* out of order.  Tokens are counted in whole units, Unit to a token, so   *)
(* that the fractional refill of the code is exact here.                   *)
(***************************************************************************)
EXTENDS Integers, FiniteSets

CONSTANTS Slots,        \* requests a client can have in flight at a time
          Keys,         \* client addresses
          Capacity,     \* DEFAULT_AUTH_BURST, in units
          Unit,         \* units to a token
          Rate,         \* refill, in units per millisecond
          MaxNow,       \* bound: milliseconds since the limiter was made
          MaxFailures,  \* bound: failed attempts of a client
          NoBucket

ASSUME LimiterAssumption ==
    /\ Capacity \in Nat /\ Unit \in Nat \ {0} /\ Rate \in Nat
    /\ MaxNow \in Nat /\ MaxFailures \in Nat
    /\ IsFiniteSet(Slots) /\ Slots # {}
    /\ NoBucket \notin [tokens : 0..Capacity, last_ms : 0..MaxNow]

VARIABLES now,        \* origin.elapsed()
          buckets,    \* buckets[k]: [tokens, last_ms], created on first use
          pc,         \* pc[s]: where the handler in slot s is
          key,        \* key[s]: its client
          stamp,      \* stamp[s]: the clock reading it carries to the mutex
          failures,   \* failures[k]: attempts of k that were found wrong
          lastFail,   \* lastFail[k]: last_ms of k's bucket at its last charge
          throttled   \* clients that have been rejected

vars == <<now, buckets, pc, key, stamp, failures, lastFail, throttled>>

Bucket == [tokens : 0..Capacity, last_ms : 0..MaxNow]

Min(a, b) == IF a <= b THEN a ELSE b
Monus(a, b) == IF a >= b THEN a - b ELSE 0

Init == /\ now = 0
        /\ buckets = [k \in Keys |-> NoBucket]
        /\ pc = [s \in Slots |-> "idle"]
        /\ key \in [Slots -> Keys]
        /\ stamp = [s \in Slots |-> 0]
        /\ failures = [k \in Keys |-> 0]
        /\ lastFail = [k \in Keys |-> 0]
        /\ throttled = {}

Tick == /\ now < MaxNow
        /\ now' = now + 1
        /\ UNCHANGED <<buckets, pc, key, stamp, failures, lastFail, throttled>>

(* The bucket of k as of clock reading t. *)
refilled_WholeTokens(k, t) ==
    LET b == IF buckets[k] = NoBucket THEN [tokens |-> Capacity, last_ms |-> t]
             ELSE buckets[k]
        elapsed == Monus(t, b.last_ms)
    IN  IF elapsed = 0 THEN b
        ELSE [tokens |-> Min(Capacity, b.tokens + ((elapsed * Rate) \div Unit) * Unit),
              last_ms |-> t]
refilled_TimeRunsBack(k, t) ==
    LET b == IF buckets[k] = NoBucket THEN [tokens |-> Capacity, last_ms |-> t]
             ELSE buckets[k]
        elapsed == Monus(t, b.last_ms)
    IN  [tokens |-> Min(Capacity, b.tokens + elapsed * Rate), last_ms |-> t]
refilled_Uncapped(k, t) ==
    LET b == IF buckets[k] = NoBucket THEN [tokens |-> Capacity, last_ms |-> t]
             ELSE buckets[k]
        elapsed == Monus(t, b.last_ms)
    IN  IF elapsed = 0 THEN b
        ELSE [tokens |-> b.tokens + elapsed * Rate, last_ms |-> t]
refilled(k, t) ==
    LET b == IF buckets[k] = NoBucket THEN [tokens |-> Capacity, last_ms |-> t]
             ELSE buckets[k]
        elapsed == Monus(t, b.last_ms)
    IN  IF elapsed = 0 THEN b
        ELSE [tokens |-> Min(Capacity, b.tokens + elapsed * Rate), last_ms |-> t]

Goto(s, l) == pc' = [pc EXCEPT ![s] = l]

(* now_ms(), read outside the mutex, on the way to allowed_at. *)
Arrive(s) ==
    /\ pc[s] = "idle"
    /\ failures[key[s]] < MaxFailures
    /\ stamp' = [stamp EXCEPT ![s] = now]
    /\ Goto(s, "check")
    /\ UNCHANGED <<now, buckets, key, failures, lastFail, throttled>>

allowed_at_Charges(s) ==
    LET b == refilled(key[s], stamp[s]) IN
    /\ pc[s] = "check"
    /\ buckets' = [buckets EXCEPT ![key[s]] = [b EXCEPT !.tokens = Monus(@, Unit)]]
    /\ \/ b.tokens >= Unit /\ Goto(s, "verify") /\ UNCHANGED throttled
       \/ b.tokens < Unit /\ Goto(s, "idle") /\ throttled' = throttled \cup {key[s]}
    /\ UNCHANGED <<now, key, stamp, failures, lastFail>>
allowed_at(s) ==
    LET b == refilled(key[s], stamp[s]) IN
    /\ pc[s] = "check"
    /\ buckets' = [buckets EXCEPT ![key[s]] = b]
    /\ \/ b.tokens >= Unit /\ Goto(s, "verify") /\ UNCHANGED throttled
       \/ b.tokens < Unit /\ Goto(s, "idle") /\ throttled' = throttled \cup {key[s]}
    /\ UNCHANGED <<now, key, stamp, failures, lastFail>>

(* The credential work is awaited and succeeds, or ends early without a    *)
(* verdict (invalid argument, database error): nothing is charged.         *)
VerifyUncharged(s) ==
    /\ pc[s] = "verify"
    /\ Goto(s, "idle")
    /\ UNCHANGED <<now, buckets, key, stamp, failures, lastFail, throttled>>

(* It is found wrong: now_ms() is read again on the way to the charge. *)
VerifyFailed_Uncharged(s) ==
    /\ pc[s] = "verify"
    /\ failures[key[s]] < MaxFailures
    /\ failures' = [failures EXCEPT ![key[s]] = @ + 1]
    /\ Goto(s, "idle")
    /\ UNCHANGED <<now, buckets, key, stamp, lastFail, throttled>>
VerifyFailed(s) ==
    /\ pc[s] = "verify"
    /\ failures[key[s]] < MaxFailures
    /\ failures' = [failures EXCEPT ![key[s]] = @ + 1]
    /\ stamp' = [stamp EXCEPT ![s] = now]
    /\ Goto(s, "charge")
    /\ UNCHANGED <<now, buckets, key, lastFail, throttled>>

record_failure_at(s) ==
    LET b == refilled(key[s], stamp[s]) IN
    /\ pc[s] = "charge"
    /\ buckets' = [buckets EXCEPT ![key[s]] = [b EXCEPT !.tokens = Monus(@, Unit)]]
    /\ lastFail' = [lastFail EXCEPT ![key[s]] = b.last_ms]
    /\ Goto(s, "idle")
    /\ UNCHANGED <<now, key, stamp, failures, throttled>>

(* The bound on time is reached. *)
Exhausted == now = MaxNow /\ UNCHANGED vars

Next == \/ Tick \/ Exhausted
        \/ \E s \in Slots : \/ Arrive(s) \/ allowed_at(s) \/ VerifyUncharged(s)
                            \/ VerifyFailed(s) \/ record_failure_at(s)

Spec == Init /\ [][Next]_vars

-----------------------------------------------------------------------------
(* Every variable has its type; a bucket never holds less than nothing or  *)
(* more than its capacity.                                                 *)
TypeOK ==
    /\ now \in 0..MaxNow
    /\ buckets \in [Keys -> Bucket \cup {NoBucket}]
    /\ pc \in [Slots -> {"idle", "check", "verify", "charge"}]
    /\ key \in [Slots -> Keys]
    /\ stamp \in [Slots -> 0..MaxNow]
    /\ failures \in [Keys -> 0..MaxFailures]
    /\ lastFail \in [Keys -> 0..MaxNow]
    /\ throttled \in SUBSET Keys

(* A late reading never moves a bucket's time back, which would refill the *)
(* same milliseconds twice.                                                *)
TimeNeverRunsBack ==
    [][\A k \in Keys : buckets[k] # NoBucket =>
          /\ buckets'[k] # NoBucket
          /\ buckets'[k].last_ms >= buckets[k].last_ms]_buckets

(* No client is throttled before it has failed a full burst of attempts:   *)
(* checks and successes cost nothing.                                      *)
ThrottledOnlyAfterBurst ==
    \A k \in throttled : failures[k] * Unit > Capacity - Unit

(* Refill is not lost to polling: since its last charge a bucket has been  *)
(* given back all of the elapsed time, however often it was looked at.     *)
RefillAccrues ==
    \A k \in Keys : buckets[k] # NoBucket =>
       buckets[k].tokens >= Min(Capacity, Rate * (buckets[k].last_ms - lastFail[k]))

(* Check and charge are apart, so a burst of Capacity is not all a client  *)
(* can fail: each of the requests in flight may pass on the last token,    *)
(* and again on every token refilled since.  It can fail no more than that.*)
InFlightBound ==
    LET n == Cardinality(Slots) IN
    \A k \in Keys :
       failures[k] * Unit <= Capacity + (n - 1) * Unit + n * Rate * now
=============================================================================
