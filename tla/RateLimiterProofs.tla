------------------------- MODULE RateLimiterProofs -------------------------
(* Proofs of the bucket's properties in RateLimiter, for any number of     *)
(* requests and clients, any burst and any rate.                           *)
EXTENDS RateLimiter, FiniteSetTheorems, TLAPS

USE DEF Goto

(* A bucket as of a reading has the type of buckets.                       *)
LEMMA RefilledIsBucket ==
  ASSUME TypeOK, NEW k \in Keys, NEW t \in 0..MaxNow
  PROVE  refilled(k, t) \in Bucket
<1> DEFINE b == IF buckets[k] = NoBucket THEN [tokens |-> Capacity, last_ms |-> t]
                ELSE buckets[k]
<1>1. b \in Bucket
  BY LimiterAssumption DEF TypeOK, Bucket
<1>2. Monus(t, b.last_ms) \in Nat
  BY <1>1, LimiterAssumption DEF Bucket, Monus
<1>3. Monus(t, b.last_ms) * Rate \in Nat
  BY <1>2, LimiterAssumption
<1> HIDE DEF b
<1>4. Min(Capacity, b.tokens + Monus(t, b.last_ms) * Rate) \in 0..Capacity
  BY <1>1, <1>3, LimiterAssumption DEF Bucket, Min
<1>5. (IF Monus(t, b.last_ms) = 0 THEN b
       ELSE [tokens |-> Min(Capacity, b.tokens + Monus(t, b.last_ms) * Rate),
             last_ms |-> t]) \in Bucket
  BY <1>1, <1>4 DEF Bucket
<1> QED BY <1>5 DEF refilled, b

(* It is not older than the stored one, and has what that one had and all  *)
(* that has elapsed since, up to the capacity.                             *)
LEMMA RefilledGains ==
  ASSUME TypeOK, NEW k \in Keys, NEW t \in 0..MaxNow, NEW r, r = refilled(k, t)
  PROVE  /\ buckets[k] = NoBucket => r.tokens = Capacity /\ r.last_ms = t
         /\ buckets[k] # NoBucket =>
               /\ r.last_ms >= buckets[k].last_ms
               /\ r.tokens = Min(Capacity,
                               buckets[k].tokens + (r.last_ms - buckets[k].last_ms) * Rate)
<1>1. CASE buckets[k] = NoBucket
  <2>1. Monus(t, t) = 0
    BY DEF Monus
  <2> QED BY <1>1, <2>1 DEF refilled
<1>2. CASE buckets[k] # NoBucket
  <2> DEFINE b == buckets[k]
  <2>1. b \in Bucket
    BY <1>2 DEF TypeOK
  <2>2. r = IF Monus(t, b.last_ms) = 0 THEN b
            ELSE [tokens |-> Min(Capacity, b.tokens + Monus(t, b.last_ms) * Rate),
                  last_ms |-> t]
    BY <1>2 DEF refilled
  <2>3. CASE t <= b.last_ms
    <3>1. Monus(t, b.last_ms) = 0
      BY <2>1, <2>3 DEF Monus, Bucket
    <3>2. (r.last_ms - b.last_ms) * Rate = 0
      BY <2>1, <2>2, <3>1, LimiterAssumption DEF Bucket
    <3> QED BY <1>2, <2>1, <2>2, <3>1, <3>2, LimiterAssumption DEF Bucket, Min
  <2>4. CASE t > b.last_ms
    <3>1. Monus(t, b.last_ms) = t - b.last_ms /\ t - b.last_ms # 0
      BY <2>1, <2>4 DEF Monus, Bucket
    <3> QED BY <1>2, <2>1, <2>2, <2>4, <3>1 DEF Bucket
  <2> QED BY <2>1, <2>3, <2>4 DEF Bucket
<1> QED BY <1>1, <1>2

(* Only the two critical sections write a bucket.                          *)
LEMMA WhoWritesBuckets ==
  ASSUME [Next]_vars
  PROVE  \/ UNCHANGED <<buckets, lastFail>>
         \/ \E s \in Slots : allowed_at(s) \/ record_failure_at(s)
  BY DEF Next, vars, Tick, Exhausted, Arrive, VerifyUncharged, VerifyFailed

(* Init and every step keep the types.                                     *)
LEMMA TypeInitially == Init => TypeOK
  BY LimiterAssumption DEF Init, TypeOK

LEMMA TypeKept == TypeOK /\ [Next]_vars => TypeOK'
<1> SUFFICES ASSUME TypeOK, [Next]_vars PROVE TypeOK'
  OBVIOUS
<1>1. CASE Tick
  BY <1>1, LimiterAssumption DEF Tick, TypeOK
<1>2. CASE UNCHANGED vars
  BY <1>2 DEF vars, TypeOK
<1>3. ASSUME NEW s \in Slots, Arrive(s) PROVE TypeOK'
  BY <1>3 DEF Arrive, TypeOK
<1>4. ASSUME NEW s \in Slots, allowed_at(s) PROVE TypeOK'
  <2>1. refilled(key[s], stamp[s]) \in Bucket
    BY RefilledIsBucket DEF TypeOK
  <2> QED BY <1>4, <2>1 DEF allowed_at, TypeOK
<1>5. ASSUME NEW s \in Slots, VerifyUncharged(s) PROVE TypeOK'
  BY <1>5 DEF VerifyUncharged, TypeOK
<1>6. ASSUME NEW s \in Slots, VerifyFailed(s) PROVE TypeOK'
  BY <1>6, LimiterAssumption DEF VerifyFailed, TypeOK
<1>7. ASSUME NEW s \in Slots, record_failure_at(s) PROVE TypeOK'
  <2> DEFINE b == refilled(key[s], stamp[s])
  <2>1. b \in Bucket
    BY RefilledIsBucket DEF TypeOK
  <2> HIDE DEF b
  <2>2. [b EXCEPT !.tokens = Monus(@, Unit)] \in Bucket
    BY <2>1, LimiterAssumption DEF Bucket, Monus
  <2>3. b.last_ms \in 0..MaxNow
    BY <2>1 DEF Bucket
  <2>4. /\ buckets' = [buckets EXCEPT ![key[s]] = [b EXCEPT !.tokens = Monus(@, Unit)]]
        /\ lastFail' = [lastFail EXCEPT ![key[s]] = b.last_ms]
    BY <1>7 DEF record_failure_at, b
  <2>5. pc' = [pc EXCEPT ![s] = "idle"] /\ UNCHANGED <<now, key, stamp, failures, throttled>>
    BY <1>7 DEF record_failure_at
  <2> QED BY <2>2, <2>3, <2>4, <2>5 DEF TypeOK
<1> QED BY <1>1, <1>2, <1>3, <1>4, <1>5, <1>6, <1>7 DEF Next, Exhausted

(* The type invariant: a bucket stays between nothing and its capacity.    *)
THEOREM LimiterTypeOK == Spec => []TypeOK
  BY TypeInitially, TypeKept, PTL DEF Spec

(* A late clock reading never moves a bucket's time back.                  *)
LEMMA StepNeverRunsBack ==
  ASSUME TypeOK, [Next]_vars, NEW k \in Keys, buckets[k] # NoBucket
  PROVE  buckets'[k] # NoBucket /\ buckets'[k].last_ms >= buckets[k].last_ms
<1>0. buckets[k] \in Bucket
  BY DEF TypeOK
<1>1. CASE UNCHANGED <<buckets, lastFail>>
  BY <1>0, <1>1, LimiterAssumption DEF Bucket
<1>2. ASSUME NEW s \in Slots, allowed_at(s) \/ record_failure_at(s)
      PROVE  buckets'[k] # NoBucket /\ buckets'[k].last_ms >= buckets[k].last_ms
  <2> DEFINE r == refilled(key[s], stamp[s])
  <2>1. key[s] \in Keys /\ stamp[s] \in 0..MaxNow
    BY DEF TypeOK
  <2>2. r \in Bucket
    BY <2>1, RefilledIsBucket
  <2>3. buckets[key[s]] # NoBucket => r.last_ms >= buckets[key[s]].last_ms
    BY <2>1, RefilledGains
  <2>4. \E q \in {r, [r EXCEPT !.tokens = Monus(@, Unit)]} :
           buckets' = [buckets EXCEPT ![key[s]] = q]
    BY <1>2 DEF allowed_at, record_failure_at
  <2> HIDE DEF r
  <2>5. [r EXCEPT !.tokens = Monus(@, Unit)] \in Bucket
    BY <2>2, LimiterAssumption DEF Bucket, Monus
  <2>6. PICK q \in Bucket : buckets' = [buckets EXCEPT ![key[s]] = q] /\ q.last_ms = r.last_ms
    BY <2>2, <2>4, <2>5 DEF Bucket
  <2>7. q # NoBucket
    BY LimiterAssumption DEF Bucket
  <2>8. buckets'[k] = IF k = key[s] THEN q ELSE buckets[k]
    BY <2>6 DEF TypeOK
  <2> QED BY <1>0, <2>3, <2>6, <2>7, <2>8 DEF Bucket
<1> QED BY <1>1, <1>2, WhoWritesBuckets

(* The same milliseconds are never refilled twice.                         *)
THEOREM LimiterTimeNeverRunsBack == Spec => TimeNeverRunsBack
<1>1. TypeOK /\ [Next]_vars =>
        [\A k \in Keys : buckets[k] # NoBucket =>
            /\ buckets'[k] # NoBucket
            /\ buckets'[k].last_ms >= buckets[k].last_ms]_buckets
  BY StepNeverRunsBack
<1> QED BY <1>1, LimiterTypeOK, PTL DEF Spec, TimeNeverRunsBack

-----------------------------------------------------------------------------
(* Refill.  What elapses is paid out whole, in however many looks.         *)
LEMMA MinOfSums ==
  ASSUME NEW c \in Nat, NEW r \in Nat, NEW x \in Int, NEW e \in Nat,
         NEW tokens \in Nat, tokens >= Min(c, r * x)
  PROVE  Min(c, tokens + e * r) >= Min(c, r * (x + e))
<1>1. e * r \in Nat /\ r * x \in Int
  OBVIOUS
<1>2. r * (x + e) = r * x + e * r
  OBVIOUS
<1> QED BY <1>1, <1>2 DEF Min

(* The charge starts the account anew; a look at the bucket keeps it.      *)
LEMMA RefillKept == TypeOK /\ RefillAccrues /\ [Next]_vars => RefillAccrues'
<1> SUFFICES ASSUME TypeOK, RefillAccrues, [Next]_vars,
                    NEW k \in Keys, buckets'[k] # NoBucket
             PROVE  buckets'[k].tokens >= Min(Capacity, Rate * (buckets'[k].last_ms - lastFail'[k]))
  BY DEF RefillAccrues
<1>1. CASE UNCHANGED <<buckets, lastFail>>
  BY <1>1 DEF RefillAccrues
<1>2. ASSUME NEW s \in Slots, allowed_at(s) \/ record_failure_at(s)
      PROVE  buckets'[k].tokens >= Min(Capacity, Rate * (buckets'[k].last_ms - lastFail'[k]))
  <2> DEFINE r == refilled(key[s], stamp[s])
             q == [r EXCEPT !.tokens = Monus(@, Unit)]
  <2>1. key[s] \in Keys /\ stamp[s] \in 0..MaxNow
    BY DEF TypeOK
  <2>2. r \in Bucket
    BY <2>1, RefilledIsBucket
  <2>3. /\ buckets[key[s]] = NoBucket => r.tokens = Capacity
        /\ buckets[key[s]] # NoBucket =>
              /\ r.last_ms >= buckets[key[s]].last_ms
              /\ r.tokens = Min(Capacity, buckets[key[s]].tokens
                                          + (r.last_ms - buckets[key[s]].last_ms) * Rate)
    BY <2>1, RefilledGains
  <2>4. CASE k # key[s]
    <3>1. buckets'[k] = buckets[k] /\ lastFail'[k] = lastFail[k]
      BY <1>2, <2>1, <2>4 DEF allowed_at, record_failure_at, TypeOK
    <3> QED BY <3>1 DEF RefillAccrues
  <2>5. CASE k = key[s] /\ allowed_at(s)
    <3>1. buckets'[k] = r /\ lastFail'[k] = lastFail[k]
      BY <2>1, <2>5 DEF allowed_at, TypeOK
    <3> HIDE DEF r
    <3>2. CASE buckets[k] = NoBucket
      <4>1. Rate * (r.last_ms - lastFail[k]) \in Int
        BY <2>2, <2>5, LimiterAssumption DEF TypeOK, Bucket
      <4> QED BY <2>3, <2>5, <3>1, <3>2, <4>1, LimiterAssumption DEF Min
    <3>3. CASE buckets[k] # NoBucket
      <4> DEFINE b == buckets[k]
                 x == b.last_ms - lastFail[k]
                 e == r.last_ms - b.last_ms
      <4>1. b \in Bucket /\ lastFail[k] \in 0..MaxNow
        BY <3>3 DEF TypeOK
      <4>2. x \in Int /\ e \in Nat /\ b.tokens \in Nat
        BY <2>2, <2>3, <2>5, <3>3, <4>1, LimiterAssumption DEF Bucket
      <4>3. b.tokens >= Min(Capacity, Rate * x)
        BY <3>3 DEF RefillAccrues
      <4>4. Min(Capacity, b.tokens + e * Rate) >= Min(Capacity, Rate * (x + e))
        <5> HIDE DEF x, e, b
        <5> QED BY <4>2, <4>3, MinOfSums, LimiterAssumption
      <4>5. x + e = r.last_ms - lastFail[k]
        BY <2>2, <4>1, LimiterAssumption DEF Bucket
      <4> QED BY <2>3, <2>5, <3>1, <3>3, <4>4, <4>5
    <3> QED BY <3>2, <3>3
  <2>6. CASE k = key[s] /\ record_failure_at(s)
    <3>1. buckets'[k] = q /\ lastFail'[k] = r.last_ms
      BY <2>1, <2>6 DEF record_failure_at, TypeOK
    <3> HIDE DEF r
    <3>2. q.last_ms = r.last_ms /\ q.tokens = Monus(r.tokens, Unit)
      BY <2>2 DEF Bucket
    <3>3. r.last_ms - r.last_ms = 0 /\ Rate * 0 = 0
      BY <2>2, LimiterAssumption DEF Bucket
    <3>4. Monus(r.tokens, Unit) >= 0
      BY <2>2, LimiterAssumption DEF Bucket, Monus
    <3> QED BY <3>1, <3>2, <3>3, <3>4, LimiterAssumption DEF Min
  <2> QED BY <1>2, <2>4, <2>5, <2>6
<1> QED BY <1>1, <1>2, WhoWritesBuckets

(* A client that keeps asking loses nothing of its refill.                 *)
THEOREM LimiterRefillAccrues == Spec => []RefillAccrues
<1>1. Init => RefillAccrues
  BY DEF Init, RefillAccrues
<1> QED BY <1>1, LimiterTypeOK, RefillKept, PTL DEF Spec

-----------------------------------------------------------------------------
(* The burst.  A failure is paid for when the handler reaches the mutex    *)
(* again; until then it is being charged.                                  *)
Charging(k) == {s \in Slots : pc[s] = "charge" /\ key[s] = k}
Settled(k) == failures[k] - Cardinality(Charging(k))

(* Inductive, where ThrottledOnlyAfterBurst is not: a bucket has spent no  *)
(* more than the failures that were settled.                               *)
SpentOnFailures ==
    \A k \in Keys :
        /\ Settled(k) >= 0
        /\ buckets[k] # NoBucket => buckets[k].tokens + Settled(k) * Unit >= Capacity
BurstInv == SpentOnFailures /\ ThrottledOnlyAfterBurst

(* Only handlers are being charged, and there are finitely many.           *)
LEMMA ChargingFinite ==
  ASSUME NEW k
  PROVE  IsFiniteSet(Charging(k)) /\ Cardinality(Charging(k)) \in Nat
<1>1. Charging(k) \in SUBSET Slots
  BY DEF Charging
<1>2. IsFiniteSet(Charging(k))
  BY <1>1, FS_Subset, LimiterAssumption
<1> QED BY <1>2, FS_CardinalityType

(* A handler that neither enters nor leaves "charge" settles nothing.      *)
LEMMA SettledSame ==
  ASSUME TypeOK, NEW s \in Slots, NEW l, pc[s] # "charge", l # "charge",
         pc' = [pc EXCEPT ![s] = l], key' = key, failures' = failures, NEW k \in Keys
  PROVE  Settled(k)' = Settled(k)
<1>1. Charging(k)' = Charging(k)
  BY DEF Charging, TypeOK
<1> QED BY <1>1 DEF Settled

(* A failure is counted, and waits to be charged.                          *)
LEMMA FailureSettlesNothing ==
  ASSUME TypeOK, NEW s \in Slots, VerifyFailed(s), NEW k \in Keys
  PROVE  Settled(k)' = Settled(k)
<1>1. key' = key /\ pc' = [pc EXCEPT ![s] = "charge"] /\ pc[s] = "verify"
      /\ failures' = [failures EXCEPT ![key[s]] = @ + 1]
  BY DEF VerifyFailed
<1>2. CASE k = key[s]
  <2>1. Charging(k)' = Charging(k) \cup {s} /\ s \notin Charging(k)
    BY <1>1, <1>2 DEF Charging, TypeOK
  <2>2. Cardinality(Charging(k) \cup {s}) = Cardinality(Charging(k)) + 1
    BY <2>1, ChargingFinite, FS_AddElement
  <2>3. failures'[k] = failures[k] + 1 /\ failures[k] \in Nat
    BY <1>1, <1>2, LimiterAssumption DEF TypeOK
  <2>4. Cardinality(Charging(k))' = Cardinality(Charging(k)) + 1
    BY <2>1, <2>2
  <2> QED BY <2>3, <2>4, ChargingFinite DEF Settled
<1>3. CASE k # key[s]
  <2>1. Charging(k)' = Charging(k)
    BY <1>1, <1>3 DEF Charging, TypeOK
  <2>2. failures'[k] = failures[k]
    BY <1>1, <1>3 DEF TypeOK
  <2> QED BY <2>1, <2>2 DEF Settled
<1> QED BY <1>2, <1>3

(* The charge settles one failure of its client's, and nobody else's.      *)
LEMMA ChargeSettlesOne ==
  ASSUME TypeOK, NEW s \in Slots, record_failure_at(s), NEW k \in Keys
  PROVE  Settled(k)' = Settled(k) + (IF k = key[s] THEN 1 ELSE 0)
<1>1. key' = key /\ pc' = [pc EXCEPT ![s] = "idle"] /\ pc[s] = "charge" /\ failures' = failures
  BY DEF record_failure_at
<1>2. Cardinality(Charging(k)) \in Nat /\ failures[k] \in Nat
  BY ChargingFinite, LimiterAssumption DEF TypeOK
<1>3. CASE k = key[s]
  <2>1. Charging(k)' = Charging(k) \ {s} /\ s \in Charging(k)
    BY <1>1, <1>3 DEF Charging, TypeOK
  <2>2. Cardinality(Charging(k) \ {s}) = Cardinality(Charging(k)) - 1
    BY <2>1, ChargingFinite, FS_RemoveElement
  <2>3. Cardinality(Charging(k))' = Cardinality(Charging(k)) - 1
    BY <2>1, <2>2
  <2> QED BY <1>1, <1>2, <1>3, <2>3 DEF Settled
<1>4. CASE k # key[s]
  <2>1. Charging(k)' = Charging(k)
    BY <1>1, <1>4 DEF Charging, TypeOK
  <2> QED BY <1>1, <1>2, <1>4, <2>1 DEF Settled
<1> QED BY <1>3, <1>4

(* For the arithmetic.                                                     *)
LEMMA SettledIsInt == ASSUME TypeOK, NEW k \in Keys PROVE Settled(k) \in Int
  BY ChargingFinite, LimiterAssumption DEF Settled, TypeOK

(* A refilled bucket has spent no more than the stored one.                *)
LEMMA RefilledSpendsNothing ==
  ASSUME TypeOK, SpentOnFailures, NEW k \in Keys, NEW t \in 0..MaxNow
  PROVE  refilled(k, t).tokens + Settled(k) * Unit >= Capacity
<1> DEFINE r == refilled(k, t)
           paid == Settled(k) * Unit
<1>1. paid \in Nat
  BY SettledIsInt, LimiterAssumption DEF SpentOnFailures
<1>2. CASE buckets[k] = NoBucket
  <2>1. r.tokens = Capacity
    BY <1>2, RefilledGains
  <2> HIDE DEF r, paid
  <2>2. r.tokens + paid >= Capacity
    BY <1>1, <2>1, LimiterAssumption
  <2> QED BY <2>2 DEF r, paid
<1>3. CASE buckets[k] # NoBucket
  <2>1. /\ r.last_ms >= buckets[k].last_ms
        /\ r.tokens = Min(Capacity, buckets[k].tokens + (r.last_ms - buckets[k].last_ms) * Rate)
    BY <1>3, RefilledGains
  <2>2. buckets[k] \in Bucket /\ r \in Bucket
    BY <1>3, RefilledIsBucket DEF TypeOK
  <2>3. buckets[k].tokens + paid >= Capacity
    BY <1>3 DEF SpentOnFailures
  <2> HIDE DEF r, paid
  <2>4. (r.last_ms - buckets[k].last_ms) * Rate \in Nat
    <3>1. r.last_ms - buckets[k].last_ms \in Nat
      BY <2>1, <2>2, LimiterAssumption DEF Bucket
    <3> QED BY <3>1, LimiterAssumption
  <2>5. r.tokens + paid >= Capacity
    BY <1>1, <2>1, <2>2, <2>3, <2>4, LimiterAssumption DEF Bucket, Min
  <2> QED BY <2>5 DEF r, paid
<1> QED BY <1>2, <1>3

(* What was settled is at most what has failed.                            *)
LEMMA SettledPays ==
  ASSUME TypeOK, NEW k \in Keys
  PROVE  Settled(k) * Unit \in Int /\ failures[k] * Unit \in Int
         /\ Settled(k) * Unit <= failures[k] * Unit
<1> DEFINE n == Cardinality(Charging(k))
<1>1. n \in Nat /\ failures[k] \in Nat
  BY ChargingFinite, LimiterAssumption DEF TypeOK
<1>2. Settled(k) = failures[k] - n
  BY DEF Settled
<1> HIDE DEF n
<1>3. n * Unit \in Nat /\ failures[k] * Unit \in Nat
  BY <1>1, LimiterAssumption
<1>4. (failures[k] - n) * Unit = failures[k] * Unit - n * Unit
  BY <1>1, LimiterAssumption
<1> QED BY <1>2, <1>3, <1>4

(* A check is refused only when the settled failures fill the burst.       *)
LEMMA CheckKeepsBurst ==
  ASSUME TypeOK, BurstInv, NEW s \in Slots, allowed_at(s)
  PROVE  BurstInv'
<1> DEFINE r == refilled(key[s], stamp[s])
<1>1. key[s] \in Keys /\ stamp[s] \in 0..MaxNow
  BY DEF TypeOK
<1>2. r \in Bucket /\ r.tokens + Settled(key[s]) * Unit >= Capacity
  BY <1>1, RefilledIsBucket, RefilledSpendsNothing DEF BurstInv
<1>3. \A k \in Keys : Settled(k)' = Settled(k)
  <2>1. PICK l \in {"verify", "idle"} : pc' = [pc EXCEPT ![s] = l]
    BY DEF allowed_at
  <2> QED BY <2>1, SettledSame DEF allowed_at
<1>4. \A k \in Keys : buckets'[k] = IF k = key[s] THEN r ELSE buckets[k]
  BY <1>1 DEF allowed_at, TypeOK
<1>5. failures' = failures
  BY DEF allowed_at
<1>6. throttled' = throttled \/ (r.tokens < Unit /\ throttled' = throttled \cup {key[s]})
  BY DEF allowed_at
<1> HIDE DEF r
<1>7. SpentOnFailures'
  BY <1>1, <1>2, <1>3, <1>4 DEF BurstInv, SpentOnFailures
<1>8. r.tokens < Unit => failures[key[s]] * Unit > Capacity - Unit
  BY <1>1, <1>2, SettledPays, LimiterAssumption DEF Bucket
<1>9. ThrottledOnlyAfterBurst'
  BY <1>5, <1>6, <1>8 DEF BurstInv, ThrottledOnlyAfterBurst
<1> QED BY <1>7, <1>9 DEF BurstInv

(* A charge takes a token, or what is left of one, for one failure.        *)
LEMMA ChargeKeepsBurst ==
  ASSUME TypeOK, BurstInv, NEW s \in Slots, record_failure_at(s)
  PROVE  BurstInv'
<1> DEFINE r == refilled(key[s], stamp[s])
           q == [r EXCEPT !.tokens = Monus(@, Unit)]
<1>1. key[s] \in Keys /\ stamp[s] \in 0..MaxNow
  BY DEF TypeOK
<1>2. r \in Bucket /\ r.tokens + Settled(key[s]) * Unit >= Capacity
  BY <1>1, RefilledIsBucket, RefilledSpendsNothing DEF BurstInv
<1>3. \A k \in Keys : Settled(k)' = Settled(k) + (IF k = key[s] THEN 1 ELSE 0)
  BY ChargeSettlesOne
<1>4. \A k \in Keys : buckets'[k] = IF k = key[s] THEN q ELSE buckets[k]
  BY <1>1 DEF record_failure_at, TypeOK
<1>5. failures' = failures /\ throttled' = throttled
  BY DEF record_failure_at
<1> HIDE DEF r
<1>6. q.tokens = Monus(r.tokens, Unit)
  BY <1>2 DEF Bucket
<1> HIDE DEF q
<1>7. (Settled(key[s]) + 1) * Unit = Settled(key[s]) * Unit + Unit
      /\ Settled(key[s]) * Unit \in Int
  BY <1>1, SettledIsInt, LimiterAssumption
<1>8. Monus(r.tokens, Unit) + (Settled(key[s]) + 1) * Unit >= Capacity
  BY <1>2, <1>7, LimiterAssumption DEF Bucket, Monus
<1>9. SpentOnFailures'
  <2> SUFFICES ASSUME NEW k \in Keys
               PROVE  /\ Settled(k)' >= 0
                      /\ buckets'[k] # NoBucket => buckets'[k].tokens + Settled(k)' * Unit >= Capacity
    BY DEF SpentOnFailures
  <2>1. CASE k = key[s]
    BY <1>3, <1>4, <1>6, <1>8, <2>1, SettledIsInt DEF BurstInv, SpentOnFailures
  <2>2. CASE k # key[s]
    <3>1. Settled(k)' = Settled(k)
      BY <1>3, <2>2, SettledIsInt
    <3> QED BY <1>4, <2>2, <3>1 DEF BurstInv, SpentOnFailures
  <2> QED BY <2>1, <2>2
<1> QED BY <1>5, <1>9 DEF BurstInv, ThrottledOnlyAfterBurst

(* No other step writes a bucket.                                          *)
LEMMA BurstKept == TypeOK /\ BurstInv /\ [Next]_vars => BurstInv'
<1> SUFFICES ASSUME TypeOK, BurstInv, [Next]_vars PROVE BurstInv'
  OBVIOUS
<1>1. ASSUME UNCHANGED <<buckets, pc, key, failures, throttled>> PROVE BurstInv'
  BY <1>1 DEF BurstInv, SpentOnFailures, ThrottledOnlyAfterBurst, Settled, Charging
<1>2. ASSUME UNCHANGED <<buckets, throttled>>, \A k \in Keys : Settled(k)' = Settled(k),
             \A k \in Keys : failures'[k] >= failures[k], failures' \in [Keys -> Nat]
      PROVE  BurstInv'
  <2>1. SpentOnFailures'
    BY <1>2 DEF BurstInv, SpentOnFailures
  <2>2. ASSUME NEW k \in throttled PROVE failures'[k] * Unit > Capacity - Unit
    <3>1. k \in Keys
      BY <2>2 DEF TypeOK
    <3>2. failures[k] \in Nat /\ failures'[k] \in Nat /\ failures'[k] >= failures[k]
      BY <1>2, <3>1, LimiterAssumption DEF TypeOK
    <3>3. failures'[k] * Unit >= failures[k] * Unit
          /\ failures'[k] * Unit \in Int /\ failures[k] * Unit \in Int
      <4> DEFINE d == failures'[k] - failures[k]
      <4>1. d \in Nat /\ failures'[k] = failures[k] + d
        BY <3>2
      <4> HIDE DEF d
      <4>2. (failures[k] + d) * Unit = failures[k] * Unit + d * Unit
            /\ d * Unit \in Nat /\ failures[k] * Unit \in Nat
        BY <3>2, <4>1, LimiterAssumption
      <4> QED BY <4>1, <4>2
    <3>4. failures[k] * Unit > Capacity - Unit
      BY DEF BurstInv, ThrottledOnlyAfterBurst
    <3> QED BY <3>3, <3>4, LimiterAssumption
  <2> QED BY <1>2, <2>1, <2>2 DEF BurstInv, ThrottledOnlyAfterBurst
<1>3. ASSUME NEW s \in Slots, Arrive(s) \/ VerifyUncharged(s) PROVE BurstInv'
  <2>1. UNCHANGED <<buckets, throttled, failures, key>>
    BY <1>3 DEF Arrive, VerifyUncharged
  <2>2. PICK l \in {"check", "idle"} : pc' = [pc EXCEPT ![s] = l] /\ pc[s] # "charge"
    BY <1>3 DEF Arrive, VerifyUncharged
  <2>3. \A k \in Keys : Settled(k)' = Settled(k)
    BY <2>1, <2>2, SettledSame
  <2>4. failures \in [Keys -> Nat]
    BY LimiterAssumption DEF TypeOK
  <2> QED BY <1>2, <2>1, <2>3, <2>4
<1>4. ASSUME NEW s \in Slots, VerifyFailed(s) PROVE BurstInv'
  <2>1. \A k \in Keys : Settled(k)' = Settled(k)
    BY <1>4, FailureSettlesNothing
  <2>2. UNCHANGED <<buckets, throttled>> /\ failures' = [failures EXCEPT ![key[s]] = @ + 1]
    BY <1>4 DEF VerifyFailed
  <2>3. failures \in [Keys -> Nat] /\ key[s] \in Keys
    BY LimiterAssumption DEF TypeOK
  <2> QED BY <1>2, <2>1, <2>2, <2>3
<1>5. CASE UNCHANGED vars \/ Tick
  BY <1>1, <1>5 DEF vars, Tick
<1> QED BY <1>3, <1>4, <1>5, CheckKeepsBurst, ChargeKeepsBurst DEF Next, Exhausted

(* Nobody is throttled before a full burst of failures.                    *)
THEOREM LimiterThrottledOnlyAfterBurst == Spec => []ThrottledOnlyAfterBurst
<1>1. Init => BurstInv
  <2> SUFFICES ASSUME Init PROVE BurstInv
    OBVIOUS
  <2>1. \A k \in Keys : Charging(k) = {}
    BY DEF Init, Charging
  <2>2. \A k \in Keys : Settled(k) = 0
    BY <2>1, FS_EmptySet DEF Init, Settled
  <2> QED BY <2>2 DEF Init, BurstInv, SpentOnFailures, ThrottledOnlyAfterBurst
<1>2. BurstInv => ThrottledOnlyAfterBurst
  BY DEF BurstInv
<1> QED BY <1>1, <1>2, BurstKept, LimiterTypeOK, PTL DEF Spec

-----------------------------------------------------------------------------
(* What a client can fail.  A request that has passed its check may fail   *)
(* on a token that others have meanwhile spent.                            *)
Passed(k) == {s \in Slots : pc[s] \in {"verify", "charge"} /\ key[s] = k}
Width == Cardinality(Slots)
Ceiling(t) == Capacity + (Width - 1) * Unit + (Width * Rate) * t

(* What can still fail on a bucket as it is: all of its tokens but the     *)
(* last, and on that one as many as can be in flight; a part of a token is *)
(* as much of those as refill will add before it is a whole one.           *)
Reach(n) == IF n >= Unit THEN n + (Width - 1) * Unit ELSE Width * n

(* Inductive, where InFlightBound is not.                                  *)
Covers(k, n, t) ==
    /\ t <= now
    /\ (Settled(k) + Cardinality(Passed(k))) * Unit <= Ceiling(t)
    /\ Settled(k) * Unit + Reach(n) <= Ceiling(t)
FlightInv ==
    /\ \A s \in Slots : stamp[s] <= now
    /\ \A k \in Keys :
          /\ buckets[k] = NoBucket => Settled(k) = 0 /\ Passed(k) = {}
          /\ buckets[k] # NoBucket => Covers(k, buckets[k].tokens, buckets[k].last_ms)

LEMMA PassedFinite ==
  ASSUME NEW k
  PROVE  /\ IsFiniteSet(Passed(k)) /\ Cardinality(Passed(k)) \in Nat
         /\ Cardinality(Passed(k)) <= Width /\ Width \in Nat \ {0}
<1>1. Passed(k) \in SUBSET Slots
  BY DEF Passed
<1>2. IsFiniteSet(Passed(k)) /\ Cardinality(Passed(k)) <= Cardinality(Slots)
  BY <1>1, FS_Subset, LimiterAssumption
<1>3. Cardinality(Slots) \in Nat /\ Cardinality(Slots) # 0
  BY FS_CardinalityType, FS_EmptySet, LimiterAssumption
<1> QED BY <1>2, <1>3, FS_CardinalityType DEF Width

(* For the arithmetic.                                                     *)
LEMMA TimesKeepsOrder ==
  ASSUME NEW m \in Nat, NEW a \in Int, NEW b \in Int, a <= b
  PROVE  a * m \in Int /\ b * m \in Int /\ a * m <= b * m /\ m * a \in Int /\ m * a <= m * b
<1>1. PICK d \in Nat : b = a + d
  <2>1. b - a \in Nat /\ b = a + (b - a)
    OBVIOUS
  <2> QED BY <2>1
<1>2. d * m \in Nat /\ (a + d) * m = a * m + d * m /\ m * (a + d) = m * a + d * m
  OBVIOUS
<1> QED BY <1>1, <1>2

LEMMA CeilingGrows ==
  ASSUME NEW t \in Nat, NEW e \in Nat
  PROVE  /\ Ceiling(t) \in Int /\ Ceiling(t + e) = Ceiling(t) + Width * (e * Rate)
         /\ e * Rate \in Nat /\ Width * (e * Rate) \in Nat
         /\ Ceiling(t) >= Capacity + (Width - 1) * Unit
<1> DEFINE w == Width
<1>1. w \in Nat \ {0}
  BY PassedFinite
<1> HIDE DEF w
<1>2. /\ (w * Rate) * (t + e) = (w * Rate) * t + w * (e * Rate)
      /\ (w * Rate) * t \in Nat /\ w * (e * Rate) \in Nat /\ e * Rate \in Nat
      /\ (w - 1) * Unit \in Nat
  BY <1>1, LimiterAssumption
<1> QED BY <1>2, LimiterAssumption DEF Ceiling, w

LEMMA ReachGrows ==
  ASSUME NEW n \in Nat, NEW d \in Nat
  PROVE  /\ Reach(n) \in Nat /\ Reach(n + d) <= Reach(n) + Width * d
         /\ Reach(n) <= n + (Width - 1) * Unit
<1> DEFINE w == Width
<1>1. w \in Nat \ {0} /\ w - 1 \in Nat
  BY PassedFinite
<1>2. /\ w * n \in Nat /\ w * d \in Nat /\ (w - 1) * Unit \in Nat /\ w * (n + d) = w * n + w * d
      /\ w * n = n + (w - 1) * n /\ w * d = d + (w - 1) * d /\ (w - 1) * d \in Nat
      /\ (w - 1) * (n + d) = (w - 1) * n + (w - 1) * d /\ (w - 1) * n \in Nat
  <2> HIDE DEF w
  <2> QED BY <1>1, LimiterAssumption
<1>3. n + d >= Unit => (w - 1) * Unit <= (w - 1) * (n + d)
  <2> HIDE DEF w
  <2> QED BY <1>1, TimesKeepsOrder, LimiterAssumption
<1>4. n < Unit => (w - 1) * n <= (w - 1) * Unit
  <2> HIDE DEF w
  <2> QED BY <1>1, TimesKeepsOrder, LimiterAssumption
<1>5. /\ Reach(n) = IF n >= Unit THEN n + (w - 1) * Unit ELSE w * n
      /\ Reach(n + d) = IF n + d >= Unit THEN n + d + (w - 1) * Unit ELSE w * (n + d)
  BY DEF Reach
<1> HIDE DEF w
<1>6. Reach(n) \in Nat /\ Reach(n) <= n + (w - 1) * Unit
  BY <1>2, <1>4, <1>5, LimiterAssumption
<1>7. Reach(n + d) <= Reach(n) + w * d
  BY <1>2, <1>3, <1>5, LimiterAssumption
<1> QED BY <1>6, <1>7 DEF w

(* A look at the bucket keeps it covered: with the time that refills it,   *)
(* the ceiling rises by what may fail on the refill.                       *)
LEMMA RefilledIsCovered ==
  ASSUME TypeOK, FlightInv, NEW k \in Keys, NEW t \in 0..MaxNow, t <= now,
         NEW r, r = refilled(k, t)
  PROVE  Covers(k, r.tokens, r.last_ms)
<1> DEFINE held == Settled(k) + Cardinality(Passed(k))
<1>1. r \in Bucket /\ now \in Nat /\ Settled(k) \in Int /\ held \in Int /\ Capacity \in Nat
      /\ r.tokens \in Nat /\ r.last_ms \in Nat
  BY RefilledIsBucket, SettledIsInt, PassedFinite, LimiterAssumption DEF TypeOK, Bucket
<1>2. CASE buckets[k] = NoBucket
  <2>1. r.tokens = Capacity /\ r.last_ms = t
    BY <1>2, RefilledGains
  <2>2. Settled(k) = 0 /\ held = 0
    BY <1>2, FS_EmptySet DEF FlightInv
  <2>3. Ceiling(t) \in Int /\ Ceiling(t) >= Capacity + (Width - 1) * Unit
    BY <1>1, <2>1, CeilingGrows
  <2>4. Reach(Capacity) \in Nat /\ Reach(Capacity) <= Capacity + (Width - 1) * Unit
    BY <1>1, ReachGrows
  <2>5. (Width - 1) * Unit \in Nat /\ 0 * Unit = 0
    BY PassedFinite, LimiterAssumption
  <2> QED BY <1>1, <2>1, <2>2, <2>3, <2>4, <2>5 DEF Covers
<1>3. CASE buckets[k] # NoBucket
  <2> DEFINE b == buckets[k]
             e == r.last_ms - b.last_ms
             d == r.tokens - b.tokens
  <2>1. /\ r.last_ms >= b.last_ms
        /\ r.tokens = Min(Capacity, b.tokens + (r.last_ms - b.last_ms) * Rate)
    BY <1>3, RefilledGains
  <2>2. b \in Bucket /\ b.tokens \in Nat /\ b.last_ms \in Nat /\ b.tokens <= Capacity
    BY <1>3, LimiterAssumption DEF TypeOK, Bucket
  <2>3. Covers(k, b.tokens, b.last_ms)
    BY <1>3 DEF FlightInv
  <2>4. e \in Nat /\ r.last_ms = b.last_ms + e
    BY <1>1, <2>1, <2>2
  <2>5. /\ Ceiling(b.last_ms) \in Int /\ e * Rate \in Nat /\ Width * (e * Rate) \in Nat
        /\ Ceiling(r.last_ms) = Ceiling(b.last_ms) + Width * (e * Rate)
    BY <2>2, <2>4, CeilingGrows
  <2>6. d \in Nat /\ r.tokens = b.tokens + d /\ d <= e * Rate
    <3> HIDE DEF b
    <3>1. r.tokens = Min(Capacity, b.tokens + e * Rate)
      BY <2>1
    <3> HIDE DEF e
    <3> QED BY <1>1, <2>2, <2>5, <3>1 DEF Min
  <2>7. Reach(b.tokens) \in Nat /\ Reach(r.tokens) \in Nat
        /\ Reach(r.tokens) <= Reach(b.tokens) + Width * d
    BY <1>1, <2>2, <2>6, ReachGrows
  <2>8. Width * d \in Int /\ Width * d <= Width * (e * Rate)
    <3> DEFINE x == e * Rate
    <3>1. x \in Nat /\ d \in Nat /\ d <= x /\ Width \in Nat
      BY <2>5, <2>6, PassedFinite
    <3> HIDE DEF d, x
    <3>2. Width * d \in Int /\ Width * d <= Width * x
      BY <3>1, TimesKeepsOrder
    <3> QED BY <3>2 DEF x
  <2>9. r.last_ms <= now
    <3>1. r.last_ms \in {t, b.last_ms}
      BY <1>3 DEF refilled
    <3> QED BY <2>3, <3>1 DEF Covers
  <2>10. held * Unit \in Int /\ Settled(k) * Unit \in Int
    <3> HIDE DEF held
    <3> QED BY <1>1, LimiterAssumption
  <2>11. held * Unit <= Ceiling(b.last_ms) /\ Settled(k) * Unit + Reach(b.tokens) <= Ceiling(b.last_ms)
    BY <2>3 DEF Covers
  <2>12. held * Unit <= Ceiling(r.last_ms) /\ Settled(k) * Unit + Reach(r.tokens) <= Ceiling(r.last_ms)
    <3> HIDE DEF held, b, d, e
    <3> QED BY <2>5, <2>7, <2>8, <2>10, <2>11
  <2> QED BY <2>9, <2>12 DEF Covers
<1> QED BY <1>2, <1>3

(* A step that lets no request of k pass leaves its bucket covered.        *)
LEMMA CoversStays ==
  ASSUME TypeOK, TypeOK', NEW k \in Keys, NEW n \in Nat, NEW t \in Nat, Covers(k, n, t),
         Settled(k)' = Settled(k), Passed(k)' \in SUBSET Passed(k), now' >= now
  PROVE  Covers(k, n, t)'
<1> DEFINE i == Cardinality(Passed(k))
           j == Cardinality(Passed(k)')
<1>1. i \in Nat /\ IsFiniteSet(Passed(k))
  BY PassedFinite
<1>2. j \in Nat /\ j <= i /\ j = Cardinality(Passed(k))'
  <2>1. IsFiniteSet(Passed(k)') /\ j <= i
    BY <1>1, FS_Subset
  <2> QED BY <2>1, FS_CardinalityType
<1>3. Settled(k) \in Int
  BY SettledIsInt
<1> HIDE DEF i, j
<1>4. /\ (Settled(k) + j) * Unit \in Int /\ (Settled(k) + i) * Unit \in Int
      /\ (Settled(k) + j) * Unit <= (Settled(k) + i) * Unit
  BY <1>1, <1>2, <1>3, TimesKeepsOrder, LimiterAssumption
<1>5. /\ t <= now /\ (Settled(k) + i) * Unit <= Ceiling(t)
      /\ Settled(k) * Unit + Reach(n) <= Ceiling(t)
  BY DEF Covers, i
<1>6. Ceiling(t) \in Int
  BY CeilingGrows
<1>7. (Settled(k) + j) * Unit <= Ceiling(t) /\ t <= now'
  BY <1>4, <1>5, <1>6, LimiterAssumption DEF TypeOK
<1>8. Ceiling(t)' = Ceiling(t) /\ Reach(n)' = Reach(n)
  BY DEF Ceiling, Reach, Width
<1> QED BY <1>2, <1>5, <1>7, <1>8 DEF Covers

LEMMA FlightStays ==
  ASSUME TypeOK, TypeOK', FlightInv, NEW k \in Keys, buckets'[k] = buckets[k],
         Settled(k)' = Settled(k), Passed(k)' \in SUBSET Passed(k), now' >= now
  PROVE  /\ buckets'[k] = NoBucket => Settled(k)' = 0 /\ Passed(k)' = {}
         /\ buckets'[k] # NoBucket =>
               \A n, t : n = buckets'[k].tokens /\ t = buckets'[k].last_ms => Covers(k, n, t)'
<1>1. CASE buckets[k] = NoBucket
  BY <1>1 DEF FlightInv
<1>2. CASE buckets[k] # NoBucket
  <2>1. buckets[k].tokens \in Nat /\ buckets[k].last_ms \in Nat
    BY <1>2, LimiterAssumption DEF TypeOK, Bucket
  <2>2. Covers(k, buckets[k].tokens, buckets[k].last_ms)
    BY <1>2 DEF FlightInv
  <2>3. SUFFICES ASSUME NEW n, NEW t, n = buckets'[k].tokens, t = buckets'[k].last_ms
                 PROVE  Covers(k, n, t)'
    BY <1>2
  <2>4. n \in Nat /\ t \in Nat /\ Covers(k, n, t)
    BY <2>1, <2>2, <2>3
  <2> QED BY <2>4, CoversStays
<1> QED BY <1>1, <1>2

(* The invariant after a step, client by client.                           *)
LEMMA FlightByClient ==
  ASSUME \A s \in Slots : stamp'[s] <= now',
         \A k \in Keys :
            /\ buckets'[k] = NoBucket => Settled(k)' = 0 /\ Passed(k)' = {}
            /\ buckets'[k] # NoBucket =>
                  \A n, t : n = buckets'[k].tokens /\ t = buckets'[k].last_ms => Covers(k, n, t)'
  PROVE  FlightInv'
<1>1. ASSUME NEW k \in Keys, buckets'[k] # NoBucket
      PROVE  Covers(k, buckets[k].tokens, buckets[k].last_ms)'
  <2>1. PICK n, t : n = buckets'[k].tokens /\ t = buckets'[k].last_ms
    OBVIOUS
  <2>2. Covers(k, n, t)'
    BY <1>1, <2>1
  <2> QED BY <2>1, <2>2 DEF Covers, Ceiling, Reach, Width
<1> QED BY <1>1 DEF FlightInv

(* The check: a request passes on a whole token, which covers all that can *)
(* be in flight.                                                           *)
LEMMA CheckKeepsFlight ==
  ASSUME TypeOK, TypeOK', FlightInv, NEW s \in Slots, allowed_at(s)
  PROVE  FlightInv'
<1>1. key[s] \in Keys /\ stamp[s] \in 0..MaxNow /\ stamp[s] <= now
  BY DEF TypeOK, FlightInv
<1>2. PICK k \in Keys : k = key[s]
  BY <1>1
<1>3. PICK r : r = refilled(k, stamp[s])
  OBVIOUS
<1>4. r \in Bucket /\ Covers(k, r.tokens, r.last_ms)
  BY <1>1, <1>3, RefilledIsBucket, RefilledIsCovered
<1>5. /\ UNCHANGED <<now, key, stamp, failures>> /\ buckets' = [buckets EXCEPT ![k] = r]
      /\ pc[s] = "check"
  BY <1>2, <1>3 DEF allowed_at
<1>6. /\ \/ r.tokens >= Unit /\ pc' = [pc EXCEPT ![s] = "verify"]
         \/ pc' = [pc EXCEPT ![s] = "idle"]
  BY <1>2, <1>3 DEF allowed_at
<1>7. \A c \in Keys : Settled(c)' = Settled(c)
  BY <1>5, <1>6, SettledSame
<1>8. r # NoBucket /\ r.tokens \in Nat /\ r.last_ms \in Nat
  BY <1>4, LimiterAssumption DEF Bucket
<1>9. ASSUME NEW c \in Keys, c # k
      PROVE  /\ buckets'[c] = NoBucket => Settled(c)' = 0 /\ Passed(c)' = {}
             /\ buckets'[c] # NoBucket =>
                   \A n, t : n = buckets'[c].tokens /\ t = buckets'[c].last_ms => Covers(c, n, t)'
  <2>1. Passed(c)' = Passed(c)
    BY <1>2, <1>5, <1>6, <1>9 DEF Passed, TypeOK
  <2>2. buckets'[c] = buckets[c] /\ now' >= now
    BY <1>5, <1>9, LimiterAssumption DEF TypeOK
  <2> QED BY <1>7, <2>1, <2>2, FlightStays
<1>10. buckets'[k] = r
  BY <1>2, <1>5 DEF TypeOK
<1>11. ASSUME NEW n, NEW t, n = r.tokens, t = r.last_ms PROVE Covers(k, n, t)'
  <2>1. Covers(k, n, t) /\ n \in Nat /\ t \in Nat /\ now' >= now
    BY <1>4, <1>5, <1>8, <1>11, LimiterAssumption DEF TypeOK
  <2>2. CASE pc' = [pc EXCEPT ![s] = "idle"]
    <3>1. Passed(k)' \in SUBSET Passed(k)
      BY <1>5, <2>2 DEF Passed, TypeOK
    <3> QED BY <1>2, <1>7, <2>1, <3>1, CoversStays
  <2>3. CASE n >= Unit
    <3> DEFINE i == Cardinality(Passed(k)')
    <3>1. Width \in Nat \ {0} /\ Settled(k) \in Int
      BY <1>2, PassedFinite, SettledIsInt
    <3>2. i \in Nat /\ i <= Width /\ Cardinality(Passed(k))' = i
      <4>1. Passed(k)' \in SUBSET Slots
        BY DEF Passed
      <4> QED BY <4>1, FS_Subset, FS_CardinalityType, LimiterAssumption DEF Width
    <3>3. Width' = Width /\ Ceiling(t)' = Ceiling(t) /\ Reach(n)' = Reach(n)
      BY DEF Width, Ceiling, Reach
    <3>4. Reach(n) = n + (Width - 1) * Unit
      BY <2>3 DEF Reach
    <3>5. Settled(k) * Unit + Reach(n) <= Ceiling(t) /\ t <= now /\ Ceiling(t) \in Int
      BY <2>1, CeilingGrows DEF Covers
    <3> HIDE DEF i
    <3>6. (Settled(k) + i) * Unit <= (Settled(k) + Width) * Unit
      BY <3>1, <3>2, <3>3, TimesKeepsOrder, LimiterAssumption
    <3>7. /\ (Settled(k) + Width) * Unit = Settled(k) * Unit + Unit + (Width - 1) * Unit
          /\ Settled(k) * Unit \in Int /\ (Width - 1) * Unit \in Int
          /\ (Settled(k) + i) * Unit \in Int
      BY <3>1, <3>2, LimiterAssumption
    <3>8. (Settled(k) + i) * Unit <= Ceiling(t)
      BY <2>1, <2>3, <3>4, <3>5, <3>6, <3>7, LimiterAssumption
    <3> QED BY <1>5, <1>7, <3>2, <3>3, <3>5, <3>8 DEF Covers
  <2> QED BY <1>6, <1>11, <2>2, <2>3
<1> QED BY <1>5, <1>8, <1>9, <1>10, <1>11, FlightByClient DEF FlightInv

(* The charge: a whole token pays for the failure; less than one is what   *)
(* is left when others have failed on the same.                            *)
LEMMA ChargeKeepsFlight ==
  ASSUME TypeOK, TypeOK', FlightInv, NEW s \in Slots, record_failure_at(s)
  PROVE  FlightInv'
<1>1. key[s] \in Keys /\ stamp[s] \in 0..MaxNow /\ stamp[s] <= now
  BY DEF TypeOK, FlightInv
<1>2. PICK k \in Keys : k = key[s]
  BY <1>1
<1>3. PICK r : r = refilled(k, stamp[s])
  OBVIOUS
<1>4. r \in Bucket /\ Covers(k, r.tokens, r.last_ms)
  BY <1>1, <1>2, <1>3, RefilledIsBucket, RefilledIsCovered
<1>5. PICK q : q = [r EXCEPT !.tokens = Monus(@, Unit)]
  OBVIOUS
<1>6. /\ UNCHANGED <<now, key, stamp, failures>> /\ buckets' = [buckets EXCEPT ![k] = q]
      /\ pc[s] = "charge" /\ pc' = [pc EXCEPT ![s] = "idle"]
  BY <1>2, <1>3, <1>5 DEF record_failure_at
<1>7. \A c \in Keys : Settled(c)' = Settled(c) + (IF c = k THEN 1 ELSE 0)
  BY <1>2, ChargeSettlesOne
<1>8. /\ r.tokens \in Nat /\ q.tokens = Monus(r.tokens, Unit) /\ q.last_ms = r.last_ms
      /\ q.last_ms \in Nat /\ q.tokens \in Nat /\ q \in Bucket /\ q # NoBucket
  BY <1>4, <1>5, LimiterAssumption DEF Bucket, Monus
<1>9. ASSUME NEW c \in Keys, c # k
      PROVE  /\ buckets'[c] = NoBucket => Settled(c)' = 0 /\ Passed(c)' = {}
             /\ buckets'[c] # NoBucket =>
                   \A n, t : n = buckets'[c].tokens /\ t = buckets'[c].last_ms => Covers(c, n, t)'
  <2>1. Passed(c)' = Passed(c)
    BY <1>2, <1>6, <1>9 DEF Passed, TypeOK
  <2>2. buckets'[c] = buckets[c] /\ now' >= now
    BY <1>6, <1>9, LimiterAssumption DEF TypeOK
  <2>3. Settled(c)' = Settled(c)
    BY <1>7, <1>9, SettledIsInt
  <2> QED BY <2>1, <2>2, <2>3, FlightStays
<1>10. buckets'[k] = q
  BY <1>2, <1>6 DEF TypeOK
<1>11. ASSUME NEW n, NEW t, n = q.tokens, t = q.last_ms PROVE Covers(k, n, t)'
  <2> DEFINE i == Cardinality(Passed(k))
  <2>1. Passed(k)' = Passed(k) \ {s} /\ s \in Passed(k)
    BY <1>2, <1>6 DEF Passed, TypeOK
  <2>2. i \in Nat \ {0} /\ Cardinality(Passed(k) \ {s}) = i - 1
    <3>1. i \in Nat /\ IsFiniteSet(Passed(k))
      BY PassedFinite
    <3>2. Cardinality(Passed(k) \ {s}) = i - 1
      BY <2>1, <3>1, FS_RemoveElement
    <3>3. IsFiniteSet(Passed(k) \ {s})
      BY <3>1, FS_RemoveElement
    <3>4. i - 1 \in Nat
      BY <3>2, <3>3, FS_CardinalityType
    <3> HIDE DEF i
    <3> QED BY <3>1, <3>2, <3>4
  <2>3. Settled(k)' = Settled(k) + 1 /\ Settled(k) \in Int
    BY <1>7, SettledIsInt
  <2>4. Settled(k)' + Cardinality(Passed(k))' = Settled(k) + i
    BY <2>1, <2>2, <2>3
  <2>5. Width' = Width /\ Ceiling(t)' = Ceiling(t) /\ Reach(n)' = Reach(n)
    BY DEF Width, Ceiling, Reach
  <2>6. /\ t <= now /\ (Settled(k) + i) * Unit <= Ceiling(t)
        /\ Settled(k) * Unit + Reach(r.tokens) <= Ceiling(t)
    BY <1>4, <1>8, <1>11 DEF Covers
  <2>7. Ceiling(t) \in Int /\ Reach(n) \in Nat /\ Reach(n) <= n + (Width - 1) * Unit
    BY <1>8, <1>11, CeilingGrows, ReachGrows
  <2> HIDE DEF i
  <2>8. /\ (Settled(k) + 1) * Unit = Settled(k) * Unit + Unit
        /\ Settled(k) * Unit \in Int /\ (Width - 1) * Unit \in Nat /\ (Settled(k) + i) * Unit \in Int
    <3> DEFINE x == Settled(k)
               w == Width
    <3>1. x \in Int /\ i \in Nat /\ w \in Nat \ {0} /\ Unit \in Nat
      BY <2>2, <2>3, PassedFinite, LimiterAssumption
    <3> HIDE DEF x, w
    <3>2. (x + 1) * Unit = x * Unit + Unit /\ x * Unit \in Int
      BY <3>1
    <3>3. (w - 1) * Unit \in Nat /\ (x + i) * Unit \in Int
      BY <3>1
    <3> QED BY <3>2, <3>3 DEF x, w
  <2>9. (Settled(k) + 1) * Unit + Reach(n) <= Ceiling(t)
    <3>1. CASE r.tokens >= Unit
      <4>1. n = r.tokens - Unit
        BY <1>8, <1>11, <3>1 DEF Monus
      <4>2. Reach(r.tokens) = r.tokens + (Width - 1) * Unit
        BY <3>1 DEF Reach
      <4> QED BY <1>8, <2>6, <2>7, <2>8, <4>1, <4>2, LimiterAssumption
    <3>2. CASE ~ (r.tokens >= Unit)
      <4>1. n = 0
        BY <1>8, <1>11, <3>2 DEF Monus
      <4>2. Reach(n) = 0
        BY <4>1, PassedFinite, LimiterAssumption DEF Reach
      <4>3. (Settled(k) + 1) * Unit <= (Settled(k) + i) * Unit
        BY <2>2, <2>3, TimesKeepsOrder, LimiterAssumption
      <4> QED BY <2>3, <2>6, <2>7, <2>8, <4>2, <4>3, LimiterAssumption
    <3> QED BY <3>1, <3>2
  <2> QED BY <1>6, <2>3, <2>4, <2>5, <2>6, <2>9 DEF Covers
<1> QED BY <1>6, <1>8, <1>9, <1>10, <1>11, FlightByClient DEF FlightInv

(* The other steps touch no bucket and let no request pass.                *)
LEMMA FlightKept == TypeOK /\ FlightInv /\ [Next]_vars => FlightInv'
<1> SUFFICES ASSUME TypeOK, FlightInv, [Next]_vars PROVE FlightInv'
  OBVIOUS
<1>1. TypeOK'
  BY TypeKept
<1>2. ASSUME buckets' = buckets, now' >= now, \A s \in Slots : stamp'[s] <= now',
             \A k \in Keys : Settled(k)' = Settled(k) /\ Passed(k)' \in SUBSET Passed(k)
      PROVE  FlightInv'
  BY <1>1, <1>2, FlightStays, FlightByClient
<1>3. now \in Nat /\ \A s \in Slots : stamp[s] \in Nat /\ stamp[s] <= now
  BY LimiterAssumption DEF TypeOK, FlightInv
<1>4. CASE Tick \/ UNCHANGED vars
  <2>1. UNCHANGED <<buckets, pc, key, stamp, failures>> /\ now' \in {now, now + 1}
    BY <1>4 DEF Tick, vars
  <2>2. \A k \in Keys : Settled(k)' = Settled(k) /\ Passed(k)' = Passed(k)
    BY <2>1 DEF Settled, Charging, Passed
  <2> QED BY <1>2, <1>3, <2>1, <2>2
<1>5. ASSUME NEW s \in Slots, Arrive(s) \/ VerifyUncharged(s) PROVE FlightInv'
  <2>1. /\ UNCHANGED <<now, buckets, key, failures>>
        /\ stamp' = stamp \/ stamp' = [stamp EXCEPT ![s] = now]
    BY <1>5 DEF Arrive, VerifyUncharged
  <2>2. PICK l \in {"check", "idle"} : pc' = [pc EXCEPT ![s] = l] /\ pc[s] # "charge"
    BY <1>5 DEF Arrive, VerifyUncharged
  <2>3. ASSUME NEW k \in Keys PROVE Settled(k)' = Settled(k) /\ Passed(k)' \in SUBSET Passed(k)
    <3>1. Settled(k)' = Settled(k)
      BY <2>1, <2>2, SettledSame
    <3>2. Passed(k)' \in SUBSET Passed(k)
      BY <2>1, <2>2 DEF Passed, TypeOK
    <3> QED BY <3>1, <3>2
  <2>4. \A z \in Slots : stamp'[z] <= now'
    BY <1>3, <2>1 DEF TypeOK
  <2> QED BY <1>2, <1>3, <2>1, <2>3, <2>4
<1>6. ASSUME NEW s \in Slots, VerifyFailed(s) PROVE FlightInv'
  <2>1. /\ UNCHANGED <<now, buckets, key>> /\ stamp' = [stamp EXCEPT ![s] = now]
        /\ pc' = [pc EXCEPT ![s] = "charge"] /\ pc[s] = "verify"
    BY <1>6 DEF VerifyFailed
  <2>2. \A k \in Keys : Settled(k)' = Settled(k)
    BY <1>6, FailureSettlesNothing
  <2>3. \A k \in Keys : Passed(k)' \in SUBSET Passed(k)
    BY <2>1 DEF Passed, TypeOK
  <2>4. \A z \in Slots : stamp'[z] <= now'
    BY <1>3, <2>1 DEF TypeOK
  <2> QED BY <1>2, <1>3, <2>1, <2>2, <2>3, <2>4
<1> QED BY <1>1, <1>4, <1>5, <1>6, CheckKeepsFlight, ChargeKeepsFlight DEF Next, Exhausted

(* A client fails at most its burst, one more for each further request in  *)
(* flight, and on each refilled token as many as are in flight.            *)
THEOREM LimiterInFlightBound == Spec => []InFlightBound
<1>1. Init => FlightInv
  <2> SUFFICES ASSUME Init PROVE FlightInv
    OBVIOUS
  <2>1. \A k \in Keys : Charging(k) = {} /\ Passed(k) = {}
    BY DEF Init, Charging, Passed
  <2>2. \A k \in Keys : Settled(k) = 0
    BY <2>1, FS_EmptySet DEF Init, Settled
  <2> QED BY <2>1, <2>2 DEF Init, FlightInv
<1>2. TypeOK /\ FlightInv => InFlightBound
  <2> SUFFICES ASSUME TypeOK, FlightInv, NEW k \in Keys
               PROVE  failures[k] * Unit <= Ceiling(now)
    BY DEF InFlightBound, Ceiling, Width
  <2>1. now \in Nat /\ failures[k] \in Nat
    BY LimiterAssumption DEF TypeOK
  <2>2. Ceiling(0) \in Int /\ Ceiling(now) \in Int /\ (Width - 1) * Unit \in Nat
        /\ Ceiling(now) >= Capacity + (Width - 1) * Unit
    BY <2>1, CeilingGrows, PassedFinite, LimiterAssumption
  <2>3. Charging(k) \in SUBSET Passed(k)
    BY DEF Charging, Passed
  <2>4. /\ Cardinality(Charging(k)) <= Cardinality(Passed(k))
        /\ Cardinality(Charging(k)) \in Nat /\ Cardinality(Passed(k)) \in Nat
    BY <2>3, PassedFinite, ChargingFinite, FS_Subset
  <2>5. failures[k] <= Settled(k) + Cardinality(Passed(k)) /\ Settled(k) \in Int
    BY <2>1, <2>4 DEF Settled
  <2>6. CASE buckets[k] = NoBucket
    <3>1. failures[k] = 0
      BY <2>1, <2>5, <2>6, FS_EmptySet DEF FlightInv
    <3> QED BY <2>2, <3>1, LimiterAssumption
  <2>7. CASE buckets[k] # NoBucket
    <3> DEFINE t == buckets[k].last_ms
               held == Settled(k) + Cardinality(Passed(k))
    <3>1. t \in Nat /\ t <= now /\ held * Unit <= Ceiling(t)
      BY <2>7, LimiterAssumption DEF FlightInv, Covers, TypeOK, Bucket
    <3>2. held \in Int /\ failures[k] <= held
      BY <2>4, <2>5
    <3> HIDE DEF t, held
    <3>3. failures[k] * Unit <= held * Unit /\ failures[k] * Unit \in Int /\ held * Unit \in Int
      BY <2>1, <3>2, TimesKeepsOrder, LimiterAssumption
    <3>4. PICK e \in Nat : now = t + e
      <4>1. now - t \in Nat /\ now = t + (now - t)
        BY <2>1, <3>1
      <4> QED BY <4>1
    <3>5. Ceiling(t) \in Int /\ Ceiling(t) <= Ceiling(now)
      <4>1. /\ Ceiling(t) \in Int /\ Ceiling(t + e) = Ceiling(t) + Width * (e * Rate)
            /\ Width * (e * Rate) \in Nat
        BY <3>1, CeilingGrows
      <4>2. Ceiling(now) = Ceiling(t + e)
        BY <3>4
      <4> QED BY <4>1, <4>2
    <3> QED BY <2>2, <3>1, <3>3, <3>5
  <2> QED BY <2>6, <2>7
<1> QED BY <1>1, <1>2, FlightKept, LimiterTypeOK, PTL DEF Spec
=============================================================================
