------------------------- MODULE DnsRateLimiter_proofs -------------------------
(***************************************************************************)
(* TLAPS proofs about DnsRateLimiter, for every value of its constants:    *)
(* types and the bound on what retry_after overestimates, under any clock; *)
(* the two limits, and that waiting for retry_after is enough, under a     *)
(* clock that never goes back.                                             *)
(***************************************************************************)
EXTENDS DnsRateLimiter, TLAPS, WellFoundedInduction

-----------------------------------------------------------------------------
(* Arithmetic of the bucket *)

\* The bucket's size is a natural number.
LEMMA CapacityType == Capacity \in Nat
  BY LimiterAssumption DEF Capacity

\* A refill keeps the bucket between empty and full (_refill_tokens's min and max) ...
LEMMA RefilledFromType ==
  ASSUME NEW bucket \in 0..Capacity, NEW stamp \in Int, NEW now \in Int
  PROVE  RefilledFrom(bucket, stamp, now) \in 0..Capacity
<1> DEFINE elapsed == IF now > stamp THEN now - stamp ELSE 0
<1>1. elapsed \in Nat /\ RefillPerTick \in Nat
  BY LimiterAssumption
<1>2. elapsed * RefillPerTick \in Nat
  <2> HIDE DEF elapsed
  <2> QED BY <1>1
<1>3. RefilledFrom(bucket, stamp, now)
          = IF bucket + elapsed * RefillPerTick > Capacity
            THEN Capacity ELSE bucket + elapsed * RefillPerTick
  BY DEF RefilledFrom
<1> QED
  <2> HIDE DEF elapsed
  <2> QED BY <1>2, <1>3, CapacityType

\* ... and so does the one a method makes.
LEMMA RefilledType ==
  ASSUME TypeOK, NEW now \in Int
  PROVE  Refilled(now) \in 0..Capacity
BY RefilledFromType DEF Refilled, TypeOK

-----------------------------------------------------------------------------
(* Pruning a deque *)

\* StaleCount is well defined: the stale head has a length.
LEMMA StaleCountSpec ==
  ASSUME NEW ts \in Seq(Int), NEW cutoff \in Int
  PROVE  /\ StaleCount(ts, cutoff) \in 0..Len(ts)
         /\ \A i \in 1..StaleCount(ts, cutoff) : ts[i] < cutoff
         /\ StaleCount(ts, cutoff) < Len(ts) => ts[StaleCount(ts, cutoff) + 1] >= cutoff
<1> DEFINE Stops == {n \in 0..Len(ts) : n < Len(ts) => ts[n + 1] >= cutoff}
<1>1. Len(ts) \in Nat /\ Len(ts) \in Stops
  OBVIOUS
<1>2. Stops \subseteq Nat /\ Stops # {}
  BY <1>1
<1>3. PICK n \in Stops : \A m \in Stops : ~(<<m, n>> \in OpToRel(<, Nat))
  BY <1>2, NatLessThanWellFounded, WFMin
<1>4. \A m \in Stops : ~(m < n)
  BY <1>2, <1>3 DEF OpToRel
<1>5. \A i \in 1..n : ts[i] < cutoff
  <2> SUFFICES ASSUME NEW i \in 1..n PROVE ts[i] < cutoff
    OBVIOUS
  <2>1. i - 1 \in 0..Len(ts) /\ i - 1 < n /\ i - 1 < Len(ts) /\ i \in 1..Len(ts)
    BY <1>1, <1>2
  <2>2. ~(i - 1 \in Stops)
    BY <2>1, <1>4
  <2>3. ts[i] \in Int /\ ~(ts[i] >= cutoff)
    BY <2>1, <2>2
  <2> QED BY <2>3
<1>6. n \in 0..Len(ts) /\ (\A i \in 1..n : ts[i] < cutoff)
      /\ (n < Len(ts) => ts[n + 1] >= cutoff)
  BY <1>5
<1> QED
  BY <1>6 DEF StaleCount

\* Pruning keeps a suffix, and what it keeps starts with a fresh timestamp.
LEMMA RemoveStaleSpec ==
  ASSUME NEW ts \in Seq(Int), NEW cutoff \in Int
  PROVE  /\ RemoveStale(ts, cutoff) \in Seq(Int)
         /\ Len(RemoveStale(ts, cutoff)) = Len(ts) - StaleCount(ts, cutoff)
         /\ \A i \in 1..(Len(ts) - StaleCount(ts, cutoff)) :
                RemoveStale(ts, cutoff)[i] = ts[StaleCount(ts, cutoff) + i]
<1> DEFINE k == StaleCount(ts, cutoff)
<1>1. k \in 0..Len(ts)
  BY StaleCountSpec
<1>2. RemoveStale(ts, cutoff) = SubSeq(ts, k + 1, Len(ts))
  BY DEF RemoveStale
<1> HIDE DEF k
<1>3. /\ SubSeq(ts, k + 1, Len(ts)) \in Seq(Int)
      /\ Len(SubSeq(ts, k + 1, Len(ts))) = Len(ts) - k
      /\ \A i \in 1..(Len(ts) - k) : SubSeq(ts, k + 1, Len(ts))[i] = ts[k + i]
  BY <1>1
<1> QED
  BY <1>2, <1>3 DEF k

-----------------------------------------------------------------------------
(* Types, under any clock *)

\* A reading of the clock is an integer.
LEMMA ReadingsType ==
  ASSUME NEW t \in Int
  PROVE  ReadingsAfter(t) \subseteq Int /\ ReadingsSoonAfter(t) \subseteq Int
BY LimiterAssumption DEF ReadingsAfter, ReadingsSoonAfter

\* _cleanup_old_entries leaves deques of integers and no key-less deque that is not empty.
LEMMA CleanupType ==
  ASSUME NEW lookups \in [Hosts -> Seq(Int)], NEW keys \in SUBSET Hosts,
         \A h \in Hosts \ keys : lookups[h] = <<>>,
         NEW now \in Int, last_cleanup \in Int,
         CleanupOldEntries(lookups, keys, now)
  PROVE  /\ host_lookups' \in [Hosts -> Seq(Int)]
         /\ tracked' \in SUBSET Hosts
         /\ \A h \in Hosts \ tracked' : host_lookups'[h] = <<>>
         /\ last_cleanup' \in Int
<1>1. now - Window \in Int
  BY LimiterAssumption
<1>2. \A h \in Hosts : RemoveStale(lookups[h], now - Window) \in Seq(Int)
  BY <1>1, RemoveStaleSpec
<1>3. \A h \in Hosts \ keys : RemoveStale(lookups[h], now - Window) = <<>>
  <2> SUFFICES ASSUME NEW h \in Hosts \ keys
               PROVE  RemoveStale(lookups[h], now - Window) = <<>>
    OBVIOUS
  <2>1. lookups[h] = <<>> /\ lookups[h] \in Seq(Int) /\ Len(lookups[h]) = 0
    OBVIOUS
  <2>2. Len(RemoveStale(lookups[h], now - Window)) = 0
    BY <1>1, <2>1, RemoveStaleSpec, StaleCountSpec, SMTT(30)
  <2> QED BY <1>2, <2>2
<1>4. CASE now - last_cleanup < CleanupInterval
  BY <1>4, LimiterAssumption DEF CleanupOldEntries
<1>5. CASE ~(now - last_cleanup < CleanupInterval)
  <2>1. /\ host_lookups' = [h \in Hosts |-> RemoveStale(lookups[h], now - Window)]
        /\ tracked' = {h \in keys : RemoveStale(lookups[h], now - Window) # <<>>}
        /\ last_cleanup' = now
    BY <1>5 DEF CleanupOldEntries
  <2> QED BY <1>2, <1>3, <2>1
<1> QED
  BY <1>4, <1>5

\* is_allowed, every verdict of it, keeps the types.
LEMMA IsAllowedType ==
  ASSUME TypeOK, NEW h \in Hosts, IsAllowed(h)
  PROVE  TypeOK'
<1> USE DEF Verdicts
<1>0. clock \in Int /\ last_update \in Int /\ last_cleanup \in Int
      /\ tokens \in 0..Capacity /\ Capacity \in Nat /\ LookupCost \in Nat \ {0}
      /\ Window \in Nat
  BY CapacityType, LimiterAssumption DEF TypeOK
<1>1. PICK now \in ReadingsAfter(clock) :
        \/ /\ Refilled(now) < LookupCost
           /\ Refill(now)
           /\ clock' = now
           /\ answer' = [host |-> h, verdict |-> "globally_limited"]
           /\ UNCHANGED <<host_lookups, tracked, last_cleanup, history, charges>>
        \/ /\ Refilled(now) >= LookupCost
           /\ \E next \in ReadingsSoonAfter(now) : ChargeHost(h, now, next)
  BY DEF IsAllowed
<1>2. now \in Int /\ Refilled(now) \in 0..Capacity
  BY <1>0, ReadingsType, RefilledType
<1>3. CASE Refilled(now) < LookupCost
  <2>1. /\ Refill(now) /\ clock' = now
        /\ answer' = [host |-> h, verdict |-> "globally_limited"]
        /\ UNCHANGED <<host_lookups, tracked, last_cleanup, history, charges>>
    BY <1>0, <1>1, <1>2, <1>3
  <2> QED BY <1>2, <2>1 DEF TypeOK, Refill, Entry
<1>4. CASE ~(Refilled(now) < LookupCost)
  <2>1. PICK next \in ReadingsSoonAfter(now) : ChargeHost(h, now, next)
    BY <1>1, <1>4
  <2>2. next \in Int /\ next - Window \in Int
    BY <1>0, <1>2, ReadingsType
  <2> DEFINE kept  == RemoveStale(host_lookups[h], next - Window)
             fresh == [host_lookups EXCEPT ![h] = kept]
  <2>3. host_lookups \in [Hosts -> Seq(Int)] /\ host_lookups[h] \in Seq(Int)
    BY DEF TypeOK
  <2>4. kept \in Seq(Int)
    BY <2>2, <2>3, RemoveStaleSpec
  <2>5. fresh = [host_lookups EXCEPT ![h] = RemoveStale(@, next - Window)]
    OBVIOUS
  <2> HIDE DEF kept
  <2>6. fresh \in [Hosts -> Seq(Int)]
    BY <2>3, <2>4
  <2>7. \A g \in Hosts \ (tracked \cup {h}) : fresh[g] = <<>>
    BY DEF TypeOK
  <2> HIDE DEF fresh
  <2>8. CASE Len(fresh[h]) >= MaxPerHost
    <3>1. /\ Refill(now) /\ clock' = next
          /\ host_lookups' = fresh /\ tracked' = tracked \cup {h}
          /\ answer' = [host |-> h, verdict |-> "host_limited"]
          /\ UNCHANGED <<last_cleanup, history, charges>>
      BY <2>1, <2>5, <2>6, <2>8, LimiterAssumption DEF ChargeHost
    <3> QED BY <1>2, <2>2, <2>6, <2>7, <3>1 DEF TypeOK, Refill, Entry
  <2>9. CASE ~(Len(fresh[h]) >= MaxPerHost)
    <3>1. /\ tokens' = Refilled(now) - LookupCost /\ last_update' = now
          /\ answer' = [host |-> h, verdict |-> "granted"]
          /\ history' = [history EXCEPT ![h] = Append(@, [at |-> next, granted |-> TRUE])]
          /\ charges' = Append(charges, now)
      BY <2>1, <2>5, <2>9 DEF ChargeHost
    <3>2. PICK later \in ReadingsSoonAfter(next) :
            /\ clock' = later
            /\ CleanupOldEntries([fresh EXCEPT ![h] = Append(@, next)],
                                 tracked \cup {h}, later)
      BY <2>1, <2>5, <2>9 DEF ChargeHost
    <3>3. later \in Int
      BY <2>2, ReadingsType
    <3>4. [fresh EXCEPT ![h] = Append(@, next)] \in [Hosts -> Seq(Int)]
          /\ tracked \cup {h} \in SUBSET Hosts
          /\ \A g \in Hosts \ (tracked \cup {h}) :
                 [fresh EXCEPT ![h] = Append(@, next)][g] = <<>>
      BY <2>2, <2>6, <2>7 DEF TypeOK
    <3>5. /\ host_lookups' \in [Hosts -> Seq(Int)] /\ tracked' \in SUBSET Hosts
          /\ \A g \in Hosts \ tracked' : host_lookups'[g] = <<>>
          /\ last_cleanup' \in Int
      BY <1>0, <3>2, <3>3, <3>4, CleanupType
    <3>6. history' \in [Hosts -> Seq(Entry)] /\ charges' \in Seq(Int)
      BY <1>2, <2>2, <3>1 DEF TypeOK, Entry
    <3>7. tokens' \in 0..Capacity
      BY <1>0, <1>2, <1>4, <3>1
    <3> QED BY <1>2, <3>1, <3>2, <3>3, <3>5, <3>6, <3>7 DEF TypeOK
  <2> QED BY <2>8, <2>9
<1> QED BY <1>3, <1>4

\* So does record_lookup ...
LEMMA RecordLookupType ==
  ASSUME TypeOK, NEW h \in Hosts, RecordLookup(h)
  PROVE  TypeOK'
<1> USE DEF Verdicts
<1>0. clock \in Int /\ last_update \in Int /\ last_cleanup \in Int
      /\ tokens \in 0..Capacity /\ Capacity \in Nat /\ LookupCost \in Nat \ {0}
      /\ Window \in Nat
  BY CapacityType, LimiterAssumption DEF TypeOK
<1>1. PICK now \in ReadingsAfter(clock) : \E later \in ReadingsSoonAfter(now) :
        /\ clock' = later
        /\ CleanupOldEntries([host_lookups EXCEPT ![h] = Append(@, now)],
                             tracked \cup {h}, later)
        /\ history' = [history EXCEPT ![h] = Append(@, [at |-> now, granted |-> FALSE])]
  BY DEF RecordLookup
<1>2. now \in Int
  BY <1>0, ReadingsType
<1>3. PICK later \in ReadingsSoonAfter(now) :
        /\ clock' = later
        /\ CleanupOldEntries([host_lookups EXCEPT ![h] = Append(@, now)],
                             tracked \cup {h}, later)
        /\ history' = [history EXCEPT ![h] = Append(@, [at |-> now, granted |-> FALSE])]
  BY <1>1
<1>4. later \in Int
  BY <1>2, ReadingsType
<1>5. [host_lookups EXCEPT ![h] = Append(@, now)] \in [Hosts -> Seq(Int)]
      /\ tracked \cup {h} \in SUBSET Hosts
      /\ \A g \in Hosts \ (tracked \cup {h}) :
             [host_lookups EXCEPT ![h] = Append(@, now)][g] = <<>>
  BY <1>2 DEF TypeOK
<1>6. /\ host_lookups' \in [Hosts -> Seq(Int)] /\ tracked' \in SUBSET Hosts
      /\ \A g \in Hosts \ tracked' : host_lookups'[g] = <<>>
      /\ last_cleanup' \in Int
  BY <1>0, <1>3, <1>4, <1>5, CleanupType
<1>7. history' \in [Hosts -> Seq(Entry)]
  BY <1>2, <1>3 DEF TypeOK, Entry
<1>8. UNCHANGED <<tokens, last_update, answer, charges>>
  BY DEF RecordLookup
<1> QED BY <1>3, <1>4, <1>6, <1>7, <1>8 DEF TypeOK

\* ... the refill of retry_after, which reads the clock twice ...
LEMMA RetryAfterType ==
  ASSUME TypeOK, RetryAfter
  PROVE  TypeOK'
<1>0. clock \in Int /\ tokens \in 0..Capacity
  BY DEF TypeOK
<1>1. PICK refilledAt \in ReadingsAfter(clock) :
          \E now \in ReadingsSoonAfter(refilledAt) : Refill(refilledAt) /\ clock' = now
  BY DEF RetryAfter
<1>2. refilledAt \in Int /\ Refilled(refilledAt) \in 0..Capacity
  BY <1>0, ReadingsType, RefilledType
<1>3. clock' \in Int /\ Refill(refilledAt)
  BY <1>1, <1>2, ReadingsType
<1> QED BY <1>2, <1>3 DEF RetryAfter, Refill, TypeOK, Verdicts

\* ... the one of stats, which reads it once ...
LEMMA StatsType ==
  ASSUME TypeOK, Stats
  PROVE  TypeOK'
<1>0. clock \in Int /\ tokens \in 0..Capacity
  BY DEF TypeOK
<1>1. PICK now \in ReadingsAfter(clock) : Refill(now) /\ clock' = now
  BY DEF Stats
<1>2. now \in Int /\ Refilled(now) \in 0..Capacity
  BY <1>0, ReadingsType, RefilledType
<1> QED BY <1>1, <1>2 DEF Stats, Refill, TypeOK, Verdicts

\* ... and reset.
LEMMA ResetType ==
  ASSUME TypeOK, Reset
  PROVE  TypeOK'
<1> USE DEF Verdicts
<1>0. clock \in Int /\ last_update \in Int /\ last_cleanup \in Int
      /\ tokens \in 0..Capacity /\ Capacity \in Nat /\ LookupCost \in Nat \ {0}
      /\ Window \in Nat
  BY CapacityType, LimiterAssumption DEF TypeOK
<1>1. clock' \in Int /\ last_update' \in Int /\ last_cleanup' \in Int
  BY <1>0, ReadingsType DEF Reset
<1> QED BY <1>0, <1>1 DEF Reset, TypeOK

\* The initial bucket is full and nothing is recorded.
LEMMA InitType == Init => TypeOK
  BY CapacityType DEF Init, TypeOK, Verdicts

\* The type invariant: the bucket in particular never leaves 0..Capacity, whatever the
\* wall clock does.
THEOREM TypeCorrect == Spec => []TypeOK
<1>1. TypeOK /\ [Next]_vars => TypeOK'
  <2> SUFFICES ASSUME TypeOK, [Next]_vars PROVE TypeOK'
    OBVIOUS
  <2>1. CASE IsAllowedBlank
    BY <2>1 DEF IsAllowedBlank, TypeOK, Verdicts
  <2>2. CASE UNCHANGED vars
    BY <2>2 DEF vars, TypeOK
  <2> QED
    BY <2>1, <2>2, IsAllowedType, RecordLookupType, RetryAfterType, StatsType, ResetType
    DEF Next
<1> QED
  BY <1>1, InitType, PTL DEF Spec

-----------------------------------------------------------------------------
(* The bucket's payments, under a clock that never goes back *)

\* Every payment so far, together with what the bucket still holds, is covered by one
\* full bucket and what was refilled since that payment.
BucketInv ==
    /\ last_update <= clock
    /\ \A i \in DOMAIN charges : charges[i] <= last_update
    /\ \A i \in DOMAIN charges :
           tokens + LookupCost * (Len(charges) - i + 1)
               <= Capacity + RefillPerTick * (last_update - charges[i])

\* A reading under a monotone clock is not before the last one.
LEMMA MonotoneReadings ==
  ASSUME MaxStepBack = 0, NEW t \in Int
  PROVE  /\ \A u \in ReadingsAfter(t) : u \in Int /\ t <= u
         /\ \A u \in ReadingsSoonAfter(t) : u \in Int /\ t <= u
BY LimiterAssumption DEF ReadingsAfter, ReadingsSoonAfter

\* A refill adds at most RefillPerTick for each tick since the last one.
LEMMA RefilledBound ==
  ASSUME TypeOK, NEW now \in Int, last_update <= now
  PROVE  Refilled(now) <= tokens + RefillPerTick * (now - last_update)
<1> DEFINE elapsed == now - last_update
<1>1. elapsed \in Nat /\ RefillPerTick \in Nat /\ tokens \in Nat /\ Capacity \in Nat
  BY LimiterAssumption, CapacityType DEF TypeOK
<1>2. (IF now > last_update THEN now - last_update ELSE 0) = elapsed
  BY DEF TypeOK
<1>3. Refilled(now) = IF tokens + elapsed * RefillPerTick > Capacity
                      THEN Capacity ELSE tokens + elapsed * RefillPerTick
  BY <1>2 DEF Refilled, RefilledFrom
<1> HIDE DEF elapsed
<1>4. elapsed * RefillPerTick = RefillPerTick * elapsed /\ elapsed * RefillPerTick \in Nat
  BY <1>1
<1>5. Refilled(now) <= tokens + RefillPerTick * elapsed
  BY <1>1, <1>3, <1>4
<1> QED
  BY <1>5 DEF elapsed

\* Multiplying out: what two consecutive stretches refill is what their union does.
LEMMA RefillAdds ==
  ASSUME NEW a \in Int, NEW b \in Int, NEW c \in Int
  PROVE  /\ RefillPerTick * (c - b) + RefillPerTick * (b - a) = RefillPerTick * (c - a)
         /\ RefillPerTick * (b - a) \in Int
BY LimiterAssumption

\* Refilling at a later time keeps BucketInv's third conjunct, with the refilled bucket.
LEMMA BucketRefill ==
  ASSUME TypeOK, BucketInv, NEW now \in Int, last_update <= now
  PROVE  \A i \in DOMAIN charges :
             Refilled(now) + LookupCost * (Len(charges) - i + 1)
                 <= Capacity + RefillPerTick * (now - charges[i])
<1> SUFFICES ASSUME NEW i \in DOMAIN charges
             PROVE  Refilled(now) + LookupCost * (Len(charges) - i + 1)
                        <= Capacity + RefillPerTick * (now - charges[i])
  OBVIOUS
<1> DEFINE spent == LookupCost * (Len(charges) - i + 1)
           gained == RefillPerTick * (now - last_update)
           before == RefillPerTick * (last_update - charges[i])
<1>1. charges[i] \in Int /\ i \in Nat /\ Len(charges) \in Nat /\ last_update \in Int
      /\ tokens \in Int
  BY CapacityType DEF TypeOK
<1>2. gained \in Int /\ before \in Int
      /\ gained + before = RefillPerTick * (now - charges[i])
  BY <1>1, RefillAdds
<1>3. spent \in Int
  BY <1>1, LimiterAssumption
<1>4. tokens + spent <= Capacity + before
  BY DEF BucketInv
<1>5. Refilled(now) <= tokens + gained /\ Refilled(now) \in Int
  BY RefilledBound, RefilledType, CapacityType
<1> HIDE DEF spent, gained, before
<1>6. Refilled(now) + spent <= Capacity + (gained + before)
  BY <1>1, <1>2, <1>3, <1>4, <1>5, CapacityType
<1> QED
  BY <1>2, <1>6 DEF spent, gained, before

\* A refill without a payment preserves BucketInv and RateBound.
LEMMA RefillPreserves ==
  ASSUME MaxStepBack = 0, TypeOK, BucketInv, RateBound,
         NEW now \in ReadingsAfter(clock), Refill(now), clock' \in Int, now <= clock',
         UNCHANGED charges
  PROVE  BucketInv' /\ RateBound'
<1>1. now \in Int /\ clock \in Int /\ last_update <= now
      /\ (\A i \in DOMAIN charges : charges[i] \in Int)
      /\ last_update \in Int
  BY MonotoneReadings DEF TypeOK, BucketInv
<1>2. \A i \in DOMAIN charges :
          Refilled(now) + LookupCost * (Len(charges) - i + 1)
              <= Capacity + RefillPerTick * (now - charges[i])
  BY <1>1, BucketRefill
<1>3. last_update' <= clock' /\ \A i \in DOMAIN charges' : charges'[i] <= last_update'
  BY <1>1 DEF Refill, BucketInv
<1>4. BucketInv'
  BY <1>2, <1>3 DEF Refill, BucketInv
<1>5. RateBound'
  BY DEF RateBound
<1> QED
  BY <1>4, <1>5

\* Taking a token right after a refill preserves both.
LEMMA ChargePreserves ==
  ASSUME MaxStepBack = 0, TypeOK, BucketInv, RateBound,
         NEW now \in ReadingsAfter(clock), Refilled(now) >= LookupCost,
         tokens' = Refilled(now) - LookupCost, last_update' = now,
         clock' \in Int, now <= clock', charges' = Append(charges, now)
  PROVE  BucketInv' /\ RateBound'
<1> DEFINE n == Len(charges)
<1>1. /\ now \in Int /\ last_update <= now /\ last_update \in Int
      /\ charges \in Seq(Int) /\ n \in Nat
  BY MonotoneReadings DEF TypeOK, BucketInv
<1>2. /\ Len(charges') = n + 1 /\ DOMAIN charges' = 1..(n + 1)
      /\ charges'[n + 1] = now
      /\ \A i \in 1..n : charges'[i] = charges[i] /\ charges[i] \in Int
      /\ DOMAIN charges = 1..n
  BY <1>1
<1>3. Refilled(now) \in 0..Capacity /\ Capacity \in Nat /\ LookupCost \in Nat
      /\ RefillPerTick \in Nat
  BY <1>1, RefilledType, CapacityType, LimiterAssumption
<1>4. \A i \in 1..n : Refilled(now) + LookupCost * (n - i + 1)
                         <= Capacity + RefillPerTick * (now - charges[i])
  BY <1>1, <1>2, BucketRefill
<1> HIDE DEF n
<1>5. ASSUME NEW i \in 1..(n + 1)
      PROVE  tokens' + LookupCost * ((n + 1) - i + 1)
                 <= Capacity + RefillPerTick * (now - charges'[i])
  <2>1. LookupCost * ((n + 1) - i + 1) = LookupCost * (n - i + 1) + LookupCost
        /\ LookupCost * (n - i + 1) \in Int
    BY <1>1, <1>3
  <2>2. CASE i = n + 1
    <3> DEFINE owed == LookupCost * ((n + 1) - i + 1)
               refilled == RefillPerTick * (now - charges'[i])
    <3>1. owed = LookupCost /\ refilled = 0
      BY <1>1, <1>2, <1>3, <2>2
    <3> HIDE DEF owed, refilled
    <3>2. tokens' + owed <= Capacity + refilled
      BY <1>3, <3>1
    <3> QED BY <3>2 DEF owed, refilled
  <2>3. CASE i # n + 1
    <3>1. i \in 1..n /\ charges'[i] = charges[i]
      BY <1>1, <1>2, <2>3
    <3>2. RefillPerTick * (now - charges[i]) \in Int
      BY <1>1, <1>2, <1>3, <3>1, SMTT(30)
    <3>3. Refilled(now) + LookupCost * (n - i + 1)
              <= Capacity + RefillPerTick * (now - charges[i])
      BY <1>4, <3>1
    <3> QED BY <1>3, <2>1, <3>1, <3>2, <3>3
  <2> QED BY <2>2, <2>3
<1>6. \A i \in DOMAIN charges' : charges'[i] <= last_update'
  BY <1>1, <1>2 DEF BucketInv
<1>7. BucketInv'
  BY <1>1, <1>2, <1>5, <1>6 DEF BucketInv
<1>8. ASSUME NEW i \in 1..(n + 1), NEW j \in i..(n + 1)
      PROVE  LookupCost * (j - i + 1)
                 <= Capacity + RefillPerTick * (charges'[j] - charges'[i])
  <2>1. CASE j = n + 1
    <3> DEFINE owed == LookupCost * (j - i + 1)
               refilled == RefillPerTick * (charges'[j] - charges'[i])
    <3>1. owed \in Int /\ tokens' \in Nat /\ refilled \in Int
      BY <1>1, <1>2, <1>3, <2>1, SMTT(30)
    <3>2. tokens' + owed <= Capacity + refilled
      BY <1>2, <1>5, <2>1
    <3> HIDE DEF owed, refilled
    <3>3. owed <= Capacity + refilled
      BY <1>3, <3>1, <3>2
    <3> QED BY <3>3 DEF owed, refilled
  <2>2. CASE j # n + 1
    <3>1. i \in 1..n /\ j \in i..n /\ j \in 1..n
      BY <1>1, <2>2
    <3>2. LookupCost * (j - i + 1)
              <= Capacity + RefillPerTick * (charges[j] - charges[i])
      BY <1>2, <3>1 DEF RateBound, n
    <3> QED BY <1>2, <3>1, <3>2
  <2> QED BY <2>1, <2>2
<1>9. RateBound'
  BY <1>2, <1>8 DEF RateBound
<1> QED
  BY <1>7, <1>9

\* is_allowed pays for what it grants.
LEMMA IsAllowedBucket ==
  ASSUME MaxStepBack = 0, TypeOK, TypeOK', BucketInv, RateBound,
         NEW h \in Hosts, IsAllowed(h)
  PROVE  BucketInv' /\ RateBound'
<1>0. clock \in Int /\ clock' \in Int /\ last_update \in Int
      /\ (\A i \in DOMAIN charges : charges[i] \in Int)
  BY DEF TypeOK
<1>1. PICK now \in ReadingsAfter(clock) :
        \/ /\ Refilled(now) < LookupCost
           /\ Refill(now)
           /\ clock' = now
           /\ answer' = [host |-> h, verdict |-> "globally_limited"]
           /\ UNCHANGED <<host_lookups, tracked, last_cleanup, history, charges>>
        \/ /\ Refilled(now) >= LookupCost
           /\ \E next \in ReadingsSoonAfter(now) : ChargeHost(h, now, next)
  BY DEF IsAllowed
<1>2. now \in Int
  BY <1>0, MonotoneReadings
<1>3. CASE Refill(now) /\ clock' = now /\ UNCHANGED charges
  BY <1>0, <1>2, <1>3, RefillPreserves
<1>4. ASSUME NEW next \in ReadingsSoonAfter(now), ChargeHost(h, now, next),
             Refilled(now) >= LookupCost
      PROVE  BucketInv' /\ RateBound'
  <2>1. next \in Int /\ now <= next
    BY <1>2, MonotoneReadings
  <2>2. CASE Refill(now) /\ clock' = next /\ UNCHANGED charges
    BY <1>0, <1>2, <2>1, <2>2, RefillPreserves
  <2>3. CASE /\ tokens' = Refilled(now) - LookupCost /\ last_update' = now
             /\ charges' = Append(charges, now)
             /\ \E later \in ReadingsSoonAfter(next) : clock' = later
    <3>1. now <= clock'
      BY <1>0, <1>2, <2>1, <2>3, MonotoneReadings
    <3> QED BY <1>0, <1>4, <2>3, <3>1, ChargePreserves
  <2> QED BY <1>4, <2>2, <2>3 DEF ChargeHost
<1> QED BY <1>1, <1>3, <1>4

\* record_lookup leaves the bucket alone ...
LEMMA RecordLookupBucket ==
  ASSUME MaxStepBack = 0, TypeOK, TypeOK', BucketInv, RateBound,
         NEW h \in Hosts, RecordLookup(h)
  PROVE  BucketInv' /\ RateBound'
<1>0. clock \in Int /\ clock' \in Int /\ last_update \in Int
      /\ (\A i \in DOMAIN charges : charges[i] \in Int)
  BY DEF TypeOK
<1>1. clock <= clock' /\ UNCHANGED <<tokens, last_update, charges>>
  <2>1. PICK now \in ReadingsAfter(clock) : \E later \in ReadingsSoonAfter(now) :
               clock' = later
    BY DEF RecordLookup
  <2>2. now \in Int /\ clock <= now
    BY <1>0, MonotoneReadings
  <2>3. now <= clock'
    BY <2>1, <2>2, MonotoneReadings
  <2> QED BY <1>0, <2>2, <2>3 DEF RecordLookup
<1> QED BY <1>0, <1>1 DEF BucketInv, RateBound

\* ... retry_after and stats refill it ...
LEMMA RetryAfterBucket ==
  ASSUME MaxStepBack = 0, TypeOK, TypeOK', BucketInv, RateBound,
         RetryAfter
  PROVE  BucketInv' /\ RateBound'
<1>0. clock \in Int /\ clock' \in Int
  BY DEF TypeOK
<1>1. PICK refilledAt \in ReadingsAfter(clock) :
          \E now \in ReadingsSoonAfter(refilledAt) : Refill(refilledAt) /\ clock' = now
  BY DEF RetryAfter
<1>2. Refill(refilledAt) /\ refilledAt <= clock'
  BY <1>0, <1>1, MonotoneReadings
<1>3. UNCHANGED charges
  BY DEF RetryAfter
<1> QED BY <1>0, <1>2, <1>3, RefillPreserves

LEMMA StatsBucket ==
  ASSUME MaxStepBack = 0, TypeOK, TypeOK', BucketInv, RateBound,
         Stats
  PROVE  BucketInv' /\ RateBound'
<1>0. clock \in Int /\ clock' \in Int
  BY DEF TypeOK
<1>1. PICK now \in ReadingsAfter(clock) : Refill(now) /\ clock' = now
  BY DEF Stats
<1>2. UNCHANGED charges
  BY DEF Stats
<1> QED BY <1>0, <1>1, <1>2, RefillPreserves

\* ... and reset fills it and starts the account anew.
LEMMA ResetBucket ==
  ASSUME MaxStepBack = 0, TypeOK, TypeOK', BucketInv, RateBound,
         Reset
  PROVE  BucketInv' /\ RateBound'
<1>0. clock \in Int /\ clock' \in Int /\ last_update \in Int
      /\ (\A i \in DOMAIN charges : charges[i] \in Int)
  BY DEF TypeOK
<1>1. last_update' = clock' /\ charges' = <<>>
  BY DEF Reset
<1> QED BY <1>0, <1>1 DEF BucketInv, RateBound

\* Nothing is paid at first ...
LEMMA InitBucket == Init => BucketInv /\ RateBound
  BY DEF Init, BucketInv, RateBound

\* ... and the bucket's account holds throughout.
LEMMA BucketHolds == ASSUME MaxStepBack = 0 PROVE Spec => [](BucketInv /\ RateBound)
<1>1. TypeOK /\ TypeOK' /\ BucketInv /\ RateBound /\ [Next]_vars => (BucketInv /\ RateBound)'
  <2> SUFFICES ASSUME TypeOK, TypeOK', BucketInv, RateBound, [Next]_vars
               PROVE  BucketInv' /\ RateBound'
    OBVIOUS
  <2>1. CASE IsAllowedBlank
    BY <2>1 DEF IsAllowedBlank, BucketInv, RateBound
  <2>2. CASE UNCHANGED vars
    BY <2>2 DEF vars, BucketInv, RateBound
  <2> QED
    BY <2>1, <2>2, IsAllowedBucket, RecordLookupBucket, RetryAfterBucket, StatsBucket,
       ResetBucket
    DEF Next
<1> QED
  BY <1>1, InitBucket, TypeCorrect, PTL DEF Spec

\* Under a clock that never goes back, the payments of any interval are covered by one
\* bucket and what the interval refills.
THEOREM RateLimited == MaxStepBack = 0 => (Spec => []RateBound)
<1> SUFFICES ASSUME MaxStepBack = 0 PROVE Spec => []RateBound
  OBVIOUS
<1> QED
  BY BucketHolds, PTL

-----------------------------------------------------------------------------
(* The per-host window, under a clock that never goes back *)

\* The deque ts is what is left of the record hs at time t: its newest part, whole, with
\* only lookups older than the window missing in front of it.
Remembers(ts, hs, t) ==
    LET gone == Len(hs) - Len(ts)
    IN  /\ gone \in Nat
        /\ \A i \in 1..Len(ts) : ts[i] = hs[gone + i].at
        /\ \A i \in 1..gone : hs[i].at < t - Window
        /\ \A i \in DOMAIN hs : hs[i].at <= t

DequeInv == \A h \in Hosts : Remembers(host_lookups[h], history[h], clock)

\* The times of a record are integers.
LEMMA EntryTimes ==
  ASSUME NEW hs \in Seq(Entry)
  PROVE  \A i \in DOMAIN hs : hs[i].at \in Int
<1>1. \A i \in DOMAIN hs : hs[i] \in Entry
  OBVIOUS
<1>2. \A e \in Entry : e.at \in Int
  BY DEF Entry
<1> QED
  BY <1>1, <1>2

\* An empty deque remembers an empty record.
LEMMA RemembersNothing == ASSUME NEW t PROVE Remembers(<<>>, <<>>, t)
BY DEF Remembers

\* Popping what is stale at a later time keeps the deque a faithful rest of the record.
LEMMA RemembersPruned ==
  ASSUME NEW ts \in Seq(Int), NEW hs \in Seq(Entry), NEW t \in Int, NEW later \in Int,
         t <= later, Remembers(ts, hs, t)
  PROVE  Remembers(RemoveStale(ts, later - Window), hs, later)
<1> DEFINE k == StaleCount(ts, later - Window)
           kept == RemoveStale(ts, later - Window)
           gone == Len(hs) - Len(ts)
<1>1. later - Window \in Int /\ Window \in Nat
  BY LimiterAssumption
<1>2. /\ k \in 0..Len(ts)
      /\ \A i \in 1..k : ts[i] < later - Window
  BY <1>1, StaleCountSpec
<1>3. /\ kept \in Seq(Int) /\ Len(kept) = Len(ts) - k
      /\ \A i \in 1..(Len(ts) - k) : kept[i] = ts[k + i]
  BY <1>1, RemoveStaleSpec
<1>4. /\ gone \in Nat
      /\ \A i \in 1..Len(ts) : ts[i] = hs[gone + i].at
      /\ \A i \in 1..gone : hs[i].at < t - Window
      /\ \A i \in DOMAIN hs : hs[i].at <= t
  BY DEF Remembers
<1>5. Len(ts) \in Nat /\ Len(hs) \in Nat /\ DOMAIN hs = 1..Len(hs)
      /\ \A i \in 1..Len(hs) : hs[i].at \in Int
  BY EntryTimes
<1> HIDE DEF k, kept
<1>6. Len(hs) - Len(kept) = gone + k
  BY <1>2, <1>3, <1>5
<1> HIDE DEF gone
<1>7. gone + k \in Nat
  BY <1>2, <1>4, <1>5
<1>8. \A i \in 1..Len(kept) : kept[i] = hs[(gone + k) + i].at
  <2> SUFFICES ASSUME NEW i \in 1..Len(kept) PROVE kept[i] = hs[(gone + k) + i].at
    OBVIOUS
  <2>1. k + i \in 1..Len(ts) /\ i \in 1..(Len(ts) - k) /\ gone + (k + i) = (gone + k) + i
    BY <1>2, <1>3, <1>4, <1>5
  <2> QED BY <1>3, <1>4, <2>1
<1>9. \A i \in 1..(gone + k) : hs[i].at < later - Window
  <2> SUFFICES ASSUME NEW i \in 1..(gone + k) PROVE hs[i].at < later - Window
    OBVIOUS
  <2>1. gone + Len(ts) = Len(hs) /\ i \in 1..Len(hs)
    BY <1>2, <1>4, <1>5 DEF gone
  <2>2. CASE i <= gone
    BY <1>1, <1>4, <1>5, <2>1, <2>2
  <2>3. CASE ~(i <= gone)
    <3>1. i - gone \in 1..k /\ i - gone \in 1..Len(ts) /\ gone + (i - gone) = i
      BY <1>2, <1>4, <1>5, <2>3
    <3> QED BY <1>2, <1>4, <3>1
  <2> QED BY <2>2, <2>3
<1>10. \A i \in DOMAIN hs : hs[i].at <= later
  BY <1>4, <1>5
<1>11. Remembers(kept, hs, later)
  BY <1>6, <1>7, <1>8, <1>9, <1>10 DEF Remembers
<1> QED
  BY <1>11 DEF kept

\* Time passing alone keeps it too.
LEMMA RemembersLater ==
  ASSUME NEW ts \in Seq(Int), NEW hs \in Seq(Entry), NEW t \in Int, NEW later \in Int,
         t <= later, Remembers(ts, hs, t)
  PROVE  Remembers(ts, hs, later)
<1>1. \A i \in DOMAIN hs : hs[i].at \in Int
  BY EntryTimes
<1>2. Len(hs) - Len(ts) \in Nat => 1..(Len(hs) - Len(ts)) \subseteq DOMAIN hs
  OBVIOUS
<1> QED
  BY <1>1, <1>2, LimiterAssumption DEF Remembers

\* Recording a lookup in both keeps it.
LEMMA RemembersAppend ==
  ASSUME NEW ts \in Seq(Int), NEW hs \in Seq(Entry), NEW t \in Int,
         NEW b \in BOOLEAN, Remembers(ts, hs, t)
  PROVE  Remembers(Append(ts, t), Append(hs, [at |-> t, granted |-> b]), t)
<1> DEFINE e == [at |-> t, granted |-> b]
           gone == Len(hs) - Len(ts)
<1>1. /\ Len(Append(ts, t)) = Len(ts) + 1 /\ Len(Append(hs, e)) = Len(hs) + 1
      /\ Len(ts) \in Nat /\ Len(hs) \in Nat
      /\ \A i \in 1..Len(ts) : Append(ts, t)[i] = ts[i]
      /\ \A i \in 1..Len(hs) : Append(hs, e)[i] = hs[i]
      /\ Append(ts, t)[Len(ts) + 1] = t /\ Append(hs, e)[Len(hs) + 1] = e
      /\ DOMAIN Append(hs, e) = 1..(Len(hs) + 1) /\ DOMAIN hs = 1..Len(hs)
  OBVIOUS
<1>2. e.at = t
  OBVIOUS
<1> HIDE DEF e
<1>3. /\ gone \in Nat
      /\ \A i \in 1..Len(ts) : ts[i] = hs[gone + i].at
      /\ \A i \in 1..gone : hs[i].at < t - Window
      /\ \A i \in DOMAIN hs : hs[i].at <= t
  BY DEF Remembers
<1>4. Len(Append(hs, e)) - Len(Append(ts, t)) = gone /\ gone + Len(ts) = Len(hs)
  BY <1>1
<1> HIDE DEF gone
<1>5. \A i \in 1..Len(Append(ts, t)) : Append(ts, t)[i] = Append(hs, e)[gone + i].at
  <2> SUFFICES ASSUME NEW i \in 1..(Len(ts) + 1)
               PROVE  Append(ts, t)[i] = Append(hs, e)[gone + i].at
    BY <1>1
  <2>1. CASE i = Len(ts) + 1
    BY <1>1, <1>2, <1>3, <1>4, <2>1
  <2>2. CASE i # Len(ts) + 1
    <3>1. i \in 1..Len(ts) /\ gone + i \in 1..Len(hs)
      BY <1>1, <1>3, <1>4, <2>2
    <3> QED BY <1>1, <1>3, <3>1
  <2> QED BY <2>1, <2>2
<1>6. \A i \in 1..gone : Append(hs, e)[i].at < t - Window
  <2>1. \A i \in 1..gone : i \in 1..Len(hs)
    BY <1>1, <1>3, <1>4
  <2> QED BY <1>1, <1>3, <2>1
<1>7. \A i \in DOMAIN Append(hs, e) : Append(hs, e)[i].at <= t
  BY <1>1, <1>2, <1>3
<1>8. Remembers(Append(ts, t), Append(hs, e), t)
  BY <1>3, <1>4, <1>5, <1>6, <1>7 DEF Remembers
<1> QED
  BY <1>8 DEF e

\* _cleanup_old_entries loses no lookup that is still in its host's window.
LEMMA CleanupRemembers ==
  ASSUME NEW lookups \in [Hosts -> Seq(Int)], NEW H \in [Hosts -> Seq(Entry)],
         NEW keys, NEW t \in Int, NEW later \in Int, t <= later, last_cleanup \in Int,
         \A h \in Hosts : Remembers(lookups[h], H[h], t),
         CleanupOldEntries(lookups, keys, later)
  PROVE  \A h \in Hosts : Remembers(host_lookups'[h], H[h], later)
<1> SUFFICES ASSUME NEW h \in Hosts PROVE Remembers(host_lookups'[h], H[h], later)
  OBVIOUS
<1>1. lookups[h] \in Seq(Int) /\ H[h] \in Seq(Entry) /\ Remembers(lookups[h], H[h], t)
  OBVIOUS
<1>2. \/ host_lookups'[h] = lookups[h]
      \/ host_lookups'[h] = RemoveStale(lookups[h], later - Window)
  BY LimiterAssumption DEF CleanupOldEntries
<1> QED
  BY <1>1, <1>2, RemembersPruned, RemembersLater

\* A grant made when fewer than MaxPerHost lookups are left in the deque lies more than
\* a window after the MaxPerHost-th lookup before it.
LEMMA GrantInWindow ==
  ASSUME NEW ts \in Seq(Int), NEW hs \in Seq(Entry), NEW t \in Int,
         Remembers(ts, hs, t), Len(ts) < MaxPerHost, NEW e \in Entry, e.at = t,
         \A j \in DOMAIN hs : hs[j].granted /\ j > MaxPerHost
             => hs[j].at - hs[j - MaxPerHost].at > Window
  PROVE  \A j \in DOMAIN Append(hs, e) : Append(hs, e)[j].granted /\ j > MaxPerHost
             => Append(hs, e)[j].at - Append(hs, e)[j - MaxPerHost].at > Window
<1> SUFFICES ASSUME NEW j \in DOMAIN Append(hs, e),
                    Append(hs, e)[j].granted, j > MaxPerHost
             PROVE  Append(hs, e)[j].at - Append(hs, e)[j - MaxPerHost].at > Window
  OBVIOUS
<1>1. /\ Len(ts) \in Nat /\ Len(hs) \in Nat /\ DOMAIN hs = 1..Len(hs)
      /\ DOMAIN Append(hs, e) = 1..(Len(hs) + 1)
      /\ \A i \in 1..Len(hs) : Append(hs, e)[i] = hs[i]
      /\ Append(hs, e)[Len(hs) + 1] = e
  OBVIOUS
<1>2. MaxPerHost \in Nat \ {0} /\ Window \in Nat
  BY LimiterAssumption
<1>3. j - MaxPerHost \in 1..Len(hs)
  BY <1>1, <1>2
<1>4. CASE j = Len(hs) + 1
  <2>1. j - MaxPerHost \in 1..(Len(hs) - Len(ts))
    BY <1>1, <1>2, <1>3, <1>4
  <2>2. hs[j - MaxPerHost].at < t - Window
    BY <2>1 DEF Remembers
  <2>3. hs[j - MaxPerHost].at \in Int
    BY <1>1, <1>3, EntryTimes
  <2> QED BY <1>1, <1>2, <1>3, <1>4, <2>2, <2>3
<1>5. CASE j # Len(hs) + 1
  BY <1>1, <1>2, <1>3, <1>5
<1> QED
  BY <1>4, <1>5

\* Nothing is recorded while time passes.
LEMMA LapseWindow ==
  ASSUME TypeOK, TypeOK', DequeInv, HostWindowBound,
         clock <= clock', UNCHANGED <<host_lookups, history>>
  PROVE  DequeInv' /\ HostWindowBound'
BY RemembersLater DEF TypeOK, DequeInv, HostWindowBound

\* is_allowed grants a lookup only within the bound.
LEMMA IsAllowedWindow ==
  ASSUME MaxStepBack = 0, TypeOK, TypeOK', DequeInv, HostWindowBound,
         NEW h \in Hosts, IsAllowed(h)
  PROVE  DequeInv' /\ HostWindowBound'
<1>0. /\ clock \in Int /\ clock' \in Int /\ last_cleanup \in Int /\ Window \in Nat
      /\ host_lookups \in [Hosts -> Seq(Int)] /\ history \in [Hosts -> Seq(Entry)]
      /\ \A k \in Hosts : host_lookups[k] \in Seq(Int) /\ history[k] \in Seq(Entry)
                          /\ Remembers(host_lookups[k], history[k], clock)
  BY LimiterAssumption DEF TypeOK, DequeInv
<1>1. PICK now \in ReadingsAfter(clock) :
        \/ clock' = now /\ UNCHANGED <<host_lookups, history>>
        \/ \E next \in ReadingsSoonAfter(now) : ChargeHost(h, now, next)
  BY DEF IsAllowed
<1>2. now \in Int /\ clock <= now
  BY <1>0, MonotoneReadings
<1>3. CASE clock' = now /\ UNCHANGED <<host_lookups, history>>
  BY LapseWindow, <1>2, <1>3
<1>4. ASSUME NEW next \in ReadingsSoonAfter(now), ChargeHost(h, now, next)
      PROVE  DequeInv' /\ HostWindowBound'
  <2>1. next \in Int /\ clock <= next /\ next - Window \in Int
    BY <1>0, <1>2, MonotoneReadings
  <2> DEFINE kept  == RemoveStale(host_lookups[h], next - Window)
             fresh == [host_lookups EXCEPT ![h] = kept]
  <2>2. kept \in Seq(Int) /\ Remembers(kept, history[h], next)
    BY <1>0, <2>1, RemembersPruned, RemoveStaleSpec
  <2>3. fresh = [host_lookups EXCEPT ![h] = RemoveStale(@, next - Window)]
    OBVIOUS
  <2> HIDE DEF kept
  <2>4. fresh \in [Hosts -> Seq(Int)] /\ fresh[h] = kept
        /\ \A g \in Hosts : g # h => fresh[g] = host_lookups[g]
    BY <1>0, <2>2
  <2> HIDE DEF fresh
  <2>5. \A g \in Hosts : Remembers(fresh[g], history[g], next)
    BY <1>0, <2>1, <2>2, <2>4, RemembersLater
  <2>6. CASE host_lookups' = fresh /\ clock' = next /\ UNCHANGED history
    BY <2>5, <2>6 DEF DequeInv, HostWindowBound
  <2>7. CASE /\ Len(fresh[h]) < MaxPerHost
             /\ \E later \in ReadingsSoonAfter(next) :
                    /\ clock' = later
                    /\ CleanupOldEntries([fresh EXCEPT ![h] = Append(@, next)],
                                         tracked \cup {h}, later)
             /\ history' = [history EXCEPT ![h] = Append(@, [at |-> next, granted |-> TRUE])]
    <3> DEFINE entry == [at |-> next, granted |-> TRUE]
               charged == [fresh EXCEPT ![h] = Append(@, next)]
    <3>1. entry \in Entry /\ entry.at = next
      BY <2>1 DEF Entry
    <3>2. PICK later \in ReadingsSoonAfter(next) :
            /\ clock' = later
            /\ CleanupOldEntries(charged, tracked \cup {h}, later)
      BY <2>7
    <3>3. later \in Int /\ next <= later
      BY <2>1, MonotoneReadings
    <3>4. Remembers(Append(kept, next), Append(history[h], entry), next)
      BY <1>0, <2>1, <2>2, RemembersAppend
    <3>5. \A j \in DOMAIN Append(history[h], entry) :
              Append(history[h], entry)[j].granted /\ j > MaxPerHost
                  => Append(history[h], entry)[j].at
                         - Append(history[h], entry)[j - MaxPerHost].at > Window
      <4>1. Len(kept) < MaxPerHost
        BY <2>4, <2>7
      <4>2. \A j \in DOMAIN history[h] : history[h][j].granted /\ j > MaxPerHost
                => history[h][j].at - history[h][j - MaxPerHost].at > Window
        BY DEF HostWindowBound
      <4> HIDE DEF entry
      <4> QED BY <1>0, <2>1, <2>2, <3>1, <4>1, <4>2, GrantInWindow
    <3>6. history'[h] = Append(history[h], entry)
          /\ \A g \in Hosts : g # h => history'[g] = history[g]
      BY <1>0, <2>7
    <3>7. charged \in [Hosts -> Seq(Int)] /\ charged[h] = Append(kept, next)
          /\ \A g \in Hosts : g # h => charged[g] = fresh[g]
      BY <2>1, <2>2, <2>4
    <3>8. history' \in [Hosts -> Seq(Entry)]
      BY DEF TypeOK
    <3> HIDE DEF entry, charged
    <3>9. \A g \in Hosts : Remembers(charged[g], history'[g], next)
      BY <2>5, <3>4, <3>6, <3>7
    <3>10. \A g \in Hosts : Remembers(host_lookups'[g], history'[g], later)
      BY <1>0, <2>1, <3>2, <3>3, <3>7, <3>8, <3>9, CleanupRemembers
    <3>11. HostWindowBound'
      BY <3>5, <3>6 DEF HostWindowBound
    <3> QED BY <3>2, <3>10, <3>11 DEF DequeInv
  <2> QED BY <1>4, <2>3, <2>6, <2>7 DEF ChargeHost
<1> QED BY <1>1, <1>3, <1>4

\* record_lookup grants none, however many it records ...
LEMMA RecordLookupWindow ==
  ASSUME MaxStepBack = 0, TypeOK, TypeOK', DequeInv, HostWindowBound,
         NEW h \in Hosts, RecordLookup(h)
  PROVE  DequeInv' /\ HostWindowBound'
<1>0. /\ clock \in Int /\ clock' \in Int /\ last_cleanup \in Int /\ Window \in Nat
      /\ host_lookups \in [Hosts -> Seq(Int)] /\ history \in [Hosts -> Seq(Entry)]
      /\ \A k \in Hosts : host_lookups[k] \in Seq(Int) /\ history[k] \in Seq(Entry)
                          /\ Remembers(host_lookups[k], history[k], clock)
  BY LimiterAssumption DEF TypeOK, DequeInv
<1>1. PICK now \in ReadingsAfter(clock) : \E later \in ReadingsSoonAfter(now) :
        /\ clock' = later
        /\ CleanupOldEntries([host_lookups EXCEPT ![h] = Append(@, now)],
                             tracked \cup {h}, later)
        /\ history' = [history EXCEPT ![h] = Append(@, [at |-> now, granted |-> FALSE])]
  BY DEF RecordLookup
<1>2. now \in Int /\ clock <= now
  BY <1>0, MonotoneReadings
<1> DEFINE entry == [at |-> now, granted |-> FALSE]
           recorded == [host_lookups EXCEPT ![h] = Append(@, now)]
<1>3. PICK later \in ReadingsSoonAfter(now) :
        /\ clock' = later
        /\ CleanupOldEntries(recorded, tracked \cup {h}, later)
        /\ history' = [history EXCEPT ![h] = Append(@, entry)]
  BY <1>1
<1>4. later \in Int /\ now <= later
  BY <1>2, MonotoneReadings
<1>5. \A g \in Hosts : Remembers(host_lookups[g], history[g], now)
  BY <1>0, <1>2, RemembersLater
<1>6. Remembers(Append(host_lookups[h], now), Append(history[h], entry), now)
  BY <1>0, <1>2, <1>5, RemembersAppend
<1>7. history'[h] = Append(history[h], entry)
      /\ \A g \in Hosts : g # h => history'[g] = history[g]
  BY <1>0, <1>3
<1>8. recorded \in [Hosts -> Seq(Int)] /\ recorded[h] = Append(host_lookups[h], now)
      /\ \A g \in Hosts : g # h => recorded[g] = host_lookups[g]
  BY <1>0, <1>2
<1>9. history' \in [Hosts -> Seq(Entry)]
  BY DEF TypeOK
<1>10. ~entry.granted
  OBVIOUS
<1> HIDE DEF entry, recorded
<1>11. \A g \in Hosts : Remembers(recorded[g], history'[g], now)
  BY <1>5, <1>6, <1>7, <1>8
<1>12. \A g \in Hosts : Remembers(host_lookups'[g], history'[g], later)
  <2>1. CleanupOldEntries(recorded, tracked \cup {h}, later) /\ last_cleanup \in Int
    BY <1>0, <1>3
  <2>2. recorded \in [Hosts -> Seq(Int)] /\ history' \in [Hosts -> Seq(Entry)]
        /\ now \in Int /\ later \in Int /\ now <= later
    BY <1>2, <1>4, <1>8, <1>9
  <2> QED BY <1>11, <2>1, <2>2, CleanupRemembers
<1>13. HostWindowBound'
  <2> SUFFICES ASSUME NEW g \in Hosts, NEW j \in DOMAIN history'[g],
                      history'[g][j].granted, j > MaxPerHost
               PROVE  history'[g][j].at - history'[g][j - MaxPerHost].at > Window
    BY DEF HostWindowBound
  <2>1. CASE g # h
    BY <1>7, <2>1 DEF HostWindowBound
  <2>2. CASE g = h
    <3>1. j # Len(history[h]) + 1
      BY <1>0, <1>7, <1>10, <2>2
    <3>2. j \in DOMAIN history[h] /\ j - MaxPerHost \in DOMAIN history[h]
          /\ history'[h][j] = history[h][j]
          /\ history'[h][j - MaxPerHost] = history[h][j - MaxPerHost]
      BY <1>0, <1>7, <2>2, <3>1, LimiterAssumption
    <3> QED BY <2>2, <3>2 DEF HostWindowBound
  <2> QED BY <2>1, <2>2
<1> QED BY <1>3, <1>12, <1>13 DEF DequeInv

\* ... retry_after and stats leave the deques alone ...
LEMMA RefillWindow ==
  ASSUME MaxStepBack = 0, TypeOK, TypeOK', DequeInv, HostWindowBound,
         RetryAfter \/ Stats
  PROVE  DequeInv' /\ HostWindowBound'
<1>0. clock \in Int /\ clock' \in Int
  BY DEF TypeOK
<1>1. CASE RetryAfter
  <2>1. PICK refilledAt \in ReadingsAfter(clock) :
            \E now \in ReadingsSoonAfter(refilledAt) : clock' = now
    BY <1>1 DEF RetryAfter
  <2>2. refilledAt \in Int /\ clock <= refilledAt
    BY <1>0, MonotoneReadings
  <2>3. refilledAt <= clock'
    BY <2>1, <2>2, MonotoneReadings
  <2>4. clock <= clock'
    BY <1>0, <2>2, <2>3
  <2> QED BY <1>1, <2>4, LapseWindow DEF RetryAfter
<1>2. CASE Stats
  <2>1. clock <= clock'
    BY <1>0, <1>2, MonotoneReadings DEF Stats
  <2> QED BY <1>2, <2>1, LapseWindow DEF Stats
<1> QED BY <1>1, <1>2

\* ... and reset empties deques and record together.
LEMMA ResetWindow ==
  ASSUME MaxStepBack = 0, TypeOK, TypeOK', DequeInv, HostWindowBound,
         Reset
  PROVE  DequeInv' /\ HostWindowBound'
<1>0. /\ clock \in Int /\ clock' \in Int /\ last_cleanup \in Int /\ Window \in Nat
      /\ host_lookups \in [Hosts -> Seq(Int)] /\ history \in [Hosts -> Seq(Entry)]
      /\ \A h \in Hosts : host_lookups[h] \in Seq(Int) /\ history[h] \in Seq(Entry)
                          /\ Remembers(host_lookups[h], history[h], clock)
  BY LimiterAssumption DEF TypeOK, DequeInv
<1>1. \A h \in Hosts : host_lookups'[h] = <<>> /\ history'[h] = <<>>
  BY DEF Reset
<1>2. DequeInv'
  BY <1>1, RemembersNothing DEF DequeInv
<1>3. HostWindowBound'
  BY <1>1 DEF HostWindowBound
<1> QED BY <1>2, <1>3

\* At first there is nothing to remember ...
LEMMA InitWindow == Init => DequeInv /\ HostWindowBound
<1> SUFFICES ASSUME Init PROVE DequeInv /\ HostWindowBound
  OBVIOUS
<1>1. \A h \in Hosts : host_lookups[h] = <<>> /\ history[h] = <<>>
  BY DEF Init
<1>2. DequeInv
  BY <1>1, RemembersNothing DEF DequeInv
<1>3. HostWindowBound
  BY <1>1 DEF HostWindowBound
<1> QED BY <1>2, <1>3

\* ... and the deques remember throughout what a verdict depends on.
LEMMA WindowHolds == ASSUME MaxStepBack = 0 PROVE Spec => [](DequeInv /\ HostWindowBound)
<1>1. TypeOK /\ TypeOK' /\ DequeInv /\ HostWindowBound /\ [Next]_vars
        => (DequeInv /\ HostWindowBound)'
  <2> SUFFICES ASSUME TypeOK, TypeOK', DequeInv, HostWindowBound, [Next]_vars
               PROVE  DequeInv' /\ HostWindowBound'
    OBVIOUS
  <2>1. CASE IsAllowedBlank
    BY <2>1, LapseWindow DEF IsAllowedBlank, TypeOK
  <2>2. CASE UNCHANGED vars
    BY <2>2, LapseWindow DEF vars, TypeOK
  <2> QED
    BY <2>1, <2>2, IsAllowedWindow, RecordLookupWindow, RefillWindow, ResetWindow
    DEF Next
<1> QED
  BY <1>1, InitWindow, TypeCorrect, PTL DEF Spec

\* Under a clock that never goes back, no host is granted more than MaxPerHost lookups in
\* any closed window, across prunings, cleanups and lookups recorded without asking.
THEOREM HostLimited == MaxStepBack = 0 => (Spec => []HostWindowBound)
<1> SUFFICES ASSUME MaxStepBack = 0 PROVE Spec => []HostWindowBound
  OBVIOUS
<1> QED
  BY WindowHolds, PTL

-----------------------------------------------------------------------------
(* What retry_after promises *)

\* The deficit of the bucket, in whole ticks, rounded up as the code's division does.
LEMMA RoundedUp ==
  ASSUME NEW deficit \in Int
  PROVE  LET wait == (deficit + RefillPerTick - 1) \div RefillPerTick
         IN  /\ wait \in Int
             /\ \A k \in Int : k < wait => RefillPerTick * k < deficit
             /\ deficit <= RefillPerTick * wait
<1> DEFINE wait == (deficit + RefillPerTick - 1) \div RefillPerTick
           rest == (deficit + RefillPerTick - 1) % RefillPerTick
<1>1. /\ RefillPerTick \in Nat \ {0} /\ wait \in Int /\ rest \in 0..(RefillPerTick - 1)
      /\ deficit + RefillPerTick - 1 = RefillPerTick * wait + rest
  BY LimiterAssumption
<1> HIDE DEF wait, rest
<1>2. ASSUME NEW k \in Int, k < wait PROVE RefillPerTick * k < deficit
  <2>1. RefillPerTick * k <= RefillPerTick * (wait - 1)
    BY <1>1, <1>2
  <2>2. RefillPerTick * (wait - 1) = RefillPerTick * wait - RefillPerTick
    BY <1>1
  <2>3. RefillPerTick * k \in Int /\ RefillPerTick * wait \in Int
    BY <1>1
  <2> QED
    BY <1>1, <2>1, <2>2, <2>3
<1>3. RefillPerTick * wait \in Int
  BY <1>1
<1>4. deficit <= RefillPerTick * wait
  BY <1>1, <1>3
<1> QED
  BY <1>1, <1>2, <1>4 DEF wait

\* Ticks after a refill, the bucket holds what it held then and what those ticks are worth,
\* or is full; a clock that went back adds nothing.
LEMMA RefilledLater ==
  ASSUME NEW bucket \in 0..Capacity, NEW stamp \in Int, NEW t \in Int
  PROVE  /\ t < stamp => RefilledFrom(bucket, stamp, t) = bucket
         /\ stamp <= t =>
               /\ RefilledFrom(bucket, stamp, t) <= bucket + RefillPerTick * (t - stamp)
               /\ \/ RefilledFrom(bucket, stamp, t) = Capacity
                  \/ RefilledFrom(bucket, stamp, t) = bucket + RefillPerTick * (t - stamp)
<1> DEFINE elapsed == IF t > stamp THEN t - stamp ELSE 0
           gain == RefillPerTick * elapsed
<1>1. /\ RefillPerTick \in Nat /\ Capacity \in Nat /\ elapsed \in Nat
      /\ elapsed * RefillPerTick = gain /\ gain \in Nat
  BY CapacityType, LimiterAssumption
<1>2. RefilledFrom(bucket, stamp, t)
          = IF bucket + gain > Capacity THEN Capacity ELSE bucket + gain
  BY <1>1 DEF RefilledFrom
<1>3. /\ t < stamp => gain = 0
      /\ stamp <= t => gain = RefillPerTick * (t - stamp)
  BY <1>1
<1> HIDE DEF gain
<1> QED
  BY <1>1, <1>2, <1>3

\* The bucket keeps refusing for as long as TokenWait says.
LEMMA TokenWaitRefuses ==
  ASSUME TypeOK, NEW refilledAt \in Int, NEW t \in Int, t < refilledAt + TokenWait(refilledAt),
         TokenWait(refilledAt) > 0
  PROVE  RefilledFrom(Refilled(refilledAt), refilledAt, t) < LookupCost
<1> DEFINE bucket == Refilled(refilledAt)
           later == RefilledFrom(bucket, refilledAt, t)
           deficit == LookupCost - bucket
           k == t - refilledAt
<1>1. /\ bucket \in 0..Capacity /\ Capacity \in Nat /\ LookupCost \in Nat
      /\ RefillPerTick \in Nat
  BY RefilledType, CapacityType, LimiterAssumption
<1>2. bucket < LookupCost /\ TokenWait(refilledAt) = (deficit + RefillPerTick - 1) \div RefillPerTick
  BY DEF TokenWait
<1>3. /\ t < refilledAt => later = bucket
      /\ refilledAt <= t => later <= bucket + RefillPerTick * k
  BY <1>1, RefilledLater
<1>4. deficit \in Int /\ k \in Int /\ bucket \in Int /\ LookupCost = bucket + deficit
  BY <1>1
<1>5. RefillPerTick * k < deficit
  <2>1. TokenWait(refilledAt) \in Int
    <3> HIDE DEF deficit
    <3> QED BY <1>2, <1>4, RoundedUp
  <2>2. k < TokenWait(refilledAt)
    BY <2>1
  <2> HIDE DEF deficit, k
  <2> QED
    BY <1>2, <1>4, <2>2, RoundedUp
<1>6. later \in Int
  BY <1>1, RefilledFromType
<1>7. RefillPerTick * k \in Int
  BY <1>1, <1>4
<1> SUFFICES later < LookupCost
  OBVIOUS
<1> HIDE DEF bucket, later, deficit, k
<1>8. CASE t < refilledAt
  BY <1>2, <1>3, <1>8
<1>9. CASE refilledAt <= t
  BY <1>3, <1>4, <1>5, <1>6, <1>7, <1>9
<1> QED
  BY <1>4, <1>8, <1>9

\* The wait for the host that RetryWait counts with.
ForHost(h, now) ==
    IF Len(host_lookups[h]) >= MaxPerHost THEN host_lookups[h][1] + Window - now ELSE 0

\* RetryWait is the longer of the two waits, whatever ForHost is.
LEMMA RetryWaitParts ==
  ASSUME TypeOK, NEW h \in Hosts, NEW refilledAt \in Int, NEW now \in Int
  PROVE  /\ TokenWait(refilledAt) \in Nat /\ ForHost(h, now) \in Int
         /\ RetryWait(h, refilledAt, now) = IF ForHost(h, now) > TokenWait(refilledAt)
                                            THEN ForHost(h, now) ELSE TokenWait(refilledAt)
<1>a. /\ host_lookups[h] \in Seq(Int) /\ MaxPerHost \in Nat \ {0} /\ Window \in Int
      /\ LookupCost \in Nat
  BY LimiterAssumption DEF TypeOK
<1>b. Refilled(refilledAt) \in 0..Capacity /\ Capacity \in Nat
  BY RefilledType, CapacityType
<1>1. /\ host_lookups[h] \in Seq(Int) /\ Len(host_lookups[h]) \in Nat
      /\ MaxPerHost \in Nat \ {0} /\ Window \in Int
      /\ LookupCost \in Nat /\ Refilled(refilledAt) \in 0..Capacity /\ Capacity \in Nat
  BY <1>a, <1>b
<1>2. ForHost(h, now) \in Int
  BY <1>1 DEF ForHost
<1>3. (host_lookups[h] # <<>> /\ Len(host_lookups[h]) >= MaxPerHost)
         <=> Len(host_lookups[h]) >= MaxPerHost
  BY <1>1
<1>4. TokenWait(refilledAt) \in Nat
  <2>1. CASE Refilled(refilledAt) < LookupCost
    <3> DEFINE deficit == LookupCost - Refilled(refilledAt)
               wait == (deficit + RefillPerTick - 1) \div RefillPerTick
    <3>1. deficit \in Nat \ {0}
      BY <1>1, <2>1
    <3> HIDE DEF deficit
    <3>2. wait \in Int /\ deficit <= RefillPerTick * wait
      BY <3>1, RoundedUp
    <3> HIDE DEF wait
    <3>3. wait \in Nat
      BY <3>1, <3>2, LimiterAssumption
    <3> QED
      BY <2>1, <3>3 DEF TokenWait, wait, deficit
  <2>2. CASE ~(Refilled(refilledAt) < LookupCost)
    BY <2>2 DEF TokenWait
  <2> QED
    BY <2>1, <2>2
<1>5. RetryWait(h, refilledAt, now) = IF ForHost(h, now) > TokenWait(refilledAt)
                                      THEN ForHost(h, now) ELSE TokenWait(refilledAt)
  BY <1>3 DEF RetryWait, ForHost
<1> QED
  BY <1>2, <1>4, <1>5

\* What retry_after names overestimates by no more than what passed between its refill and
\* its own reading of the clock: counted from the earlier of the two, is_allowed refuses
\* until the wait is over, whatever the clock did before and between them.
THEOREM RetryAfterTightHolds == Spec => []RetryAfterTight
<1>1. TypeOK => RetryAfterTight
  <2> SUFFICES ASSUME TypeOK, NEW h \in Hosts, NEW refilledAt \in ReadingsAfter(clock),
                      NEW now \in ReadingsSoonAfter(refilledAt),
                      NEW t \in now..(Least(refilledAt, now)
                                          + RetryWait(h, refilledAt, now) - 1)
               PROVE  ~AllowedAfter(h, refilledAt, t)
    BY DEF RetryAfterTight
  <2> DEFINE ts == host_lookups[h]
             wait == RetryWait(h, refilledAt, now)
  <2>1. /\ ts \in Seq(Int) /\ Len(ts) \in Nat /\ MaxPerHost \in Nat \ {0}
        /\ Window \in Int /\ LookupCost \in Nat /\ clock \in Int
    BY LimiterAssumption DEF TypeOK
  <2>2. refilledAt \in Int /\ now \in Int
    BY <2>1, ReadingsType
  <2>3. /\ TokenWait(refilledAt) \in Nat /\ ForHost(h, now) \in Int
        /\ wait = IF ForHost(h, now) > TokenWait(refilledAt)
                  THEN ForHost(h, now) ELSE TokenWait(refilledAt)
    BY <2>2, RetryWaitParts
  <2>4. Least(refilledAt, now) \in Int /\ Least(refilledAt, now) <= refilledAt
        /\ Least(refilledAt, now) <= now
    BY <2>2 DEF Least
  <2>5. wait \in Int
    BY <2>3
  <2> HIDE DEF wait
  <2>6. t \in Int /\ now <= t /\ t < Least(refilledAt, now) + wait
    BY <2>2, <2>4, <2>5 DEF wait
  <2>7. wait > 0 /\ t < refilledAt + wait /\ t < now + wait
    BY <2>2, <2>4, <2>5, <2>6
  <2>8. CASE wait = TokenWait(refilledAt)
    <3>1. RefilledFrom(Refilled(refilledAt), refilledAt, t) < LookupCost
      BY <2>2, <2>6, <2>7, <2>8, TokenWaitRefuses
    <3>2. Refilled(refilledAt) \in 0..Capacity /\ Capacity \in Nat
      BY <2>2, RefilledType, CapacityType
    <3>3. RefilledFrom(Refilled(refilledAt), refilledAt, t) \in Int
      BY <2>2, <2>6, <3>2, RefilledFromType
    <3> QED
      BY <2>1, <3>1, <3>3 DEF AllowedAfter
  <2>9. CASE wait = ForHost(h, now)
    <3> DEFINE cutoff == t - Window
    <3>1. Len(ts) >= MaxPerHost /\ t < ts[1] + Window
      <4>1. CASE Len(ts) >= MaxPerHost
        <5>1. ForHost(h, now) = ts[1] + Window - now /\ ts[1] \in Int
          BY <2>1, <4>1 DEF ForHost
        <5> QED
          BY <2>1, <2>2, <2>6, <2>7, <2>9, <4>1, <5>1
      <4>2. CASE ~(Len(ts) >= MaxPerHost)
        BY <2>7, <2>9, <4>2 DEF ForHost
      <4> QED
        BY <4>1, <4>2
    <3>2. cutoff \in Int /\ ts[1] \in Int /\ cutoff < ts[1]
      BY <2>1, <2>6, <3>1
    <3>3. StaleCount(ts, cutoff) = 0
      <4>1. /\ StaleCount(ts, cutoff) \in 0..Len(ts)
            /\ \A i \in 1..StaleCount(ts, cutoff) : ts[i] < cutoff
        BY <2>1, <3>2, StaleCountSpec
      <4> HIDE DEF ts, cutoff
      <4> QED
        BY <2>1, <3>2, <4>1
    <3>4. Len(RemoveStale(ts, cutoff)) = Len(ts)
      BY <2>1, <3>2, <3>3, RemoveStaleSpec
    <3> QED
      BY <2>1, <3>1, <3>4 DEF AllowedAfter
  <2> QED
    BY <2>3, <2>8, <2>9
<1> QED
  BY <1>1, TypeCorrect, PTL

\* One tick past the wait that retry_after names, counted from its last reading of the
\* clock, an undisturbed is_allowed grants, when the bucket can hold a token at all and the
\* clock never goes back.
THEOREM RetryAfterSufficesHolds ==
  ASSUME MaxStepBack = 0, LookupCost <= Capacity
  PROVE  Spec => []RetryAfterSuffices
<1>1. TypeOK => RetryAfterSuffices
  <2> SUFFICES ASSUME TypeOK, NEW h \in Hosts, NEW refilledAt \in ReadingsAfter(clock),
                      NEW now \in ReadingsSoonAfter(refilledAt),
                      Len(host_lookups[h]) <= MaxPerHost
               PROVE  AllowedAfter(h, refilledAt, now + RetryWait(h, refilledAt, now) + 1)
    BY DEF RetryAfterSuffices
  <2> DEFINE ts == host_lookups[h]
             wait == RetryWait(h, refilledAt, now)
             t == now + wait + 1
             cutoff == t - Window
             bucket == Refilled(refilledAt)
  <2>1. /\ clock \in Int /\ ts \in Seq(Int) /\ Len(ts) \in Nat /\ MaxPerHost \in Nat \ {0}
        /\ Window \in Int /\ LookupCost \in Nat /\ RefillPerTick \in Nat
    BY LimiterAssumption DEF TypeOK
  <2>2. refilledAt \in Int /\ now \in Int /\ refilledAt <= now
    BY <2>1, MonotoneReadings
  <2>3. /\ TokenWait(refilledAt) \in Nat /\ ForHost(h, now) \in Int
        /\ wait = IF ForHost(h, now) > TokenWait(refilledAt)
                  THEN ForHost(h, now) ELSE TokenWait(refilledAt)
    BY <2>2, RetryWaitParts
  <2> HIDE DEF wait
  <2>4. wait \in Nat /\ TokenWait(refilledAt) <= wait /\ ForHost(h, now) <= wait
    BY <2>3
  <2>5. t \in Int /\ cutoff \in Int /\ refilledAt <= t /\ t - refilledAt >= wait
    BY <2>1, <2>2, <2>4
  <2>6. RefilledFrom(bucket, refilledAt, t) >= LookupCost
    <3> DEFINE gain == RefillPerTick * (t - refilledAt)
               deficit == LookupCost - bucket
               enough == RefillPerTick * TokenWait(refilledAt)
    <3>1. bucket \in 0..Capacity /\ Capacity \in Nat
      BY <2>2, RefilledType, CapacityType
    <3>2. \/ RefilledFrom(bucket, refilledAt, t) = Capacity
          \/ RefilledFrom(bucket, refilledAt, t) = bucket + gain
      BY <2>2, <2>5, <3>1, RefilledLater
    <3>3. gain \in Nat /\ enough \in Nat /\ enough <= gain
      <4> DEFINE spare == t - refilledAt - TokenWait(refilledAt)
      <4> HIDE DEF t
      <4>1. spare \in Nat /\ t - refilledAt = TokenWait(refilledAt) + spare
        BY <2>2, <2>3, <2>4, <2>5
      <4> HIDE DEF spare
      <4>2. /\ RefillPerTick * spare \in Nat /\ enough \in Nat
            /\ RefillPerTick * (TokenWait(refilledAt) + spare)
                   = enough + RefillPerTick * spare
        BY <2>1, <2>3, <4>1
      <4> HIDE DEF enough
      <4> QED
        BY <4>1, <4>2
    <3>4. bucket < LookupCost => deficit <= enough
      <4> SUFFICES ASSUME bucket < LookupCost PROVE deficit <= enough
        OBVIOUS
      <4>1. TokenWait(refilledAt) = (deficit + RefillPerTick - 1) \div RefillPerTick
        BY DEF TokenWait
      <4>2. deficit \in Int
        BY <2>1, <3>1
      <4> HIDE DEF deficit
      <4> QED
        BY <4>1, <4>2, RoundedUp
    <3> HIDE DEF gain, enough, bucket
    <3> QED
      BY <2>1, <3>1, <3>2, <3>3, <3>4
  <2>7. Len(RemoveStale(ts, cutoff)) < MaxPerHost
    <3>1. /\ StaleCount(ts, cutoff) \in 0..Len(ts)
          /\ StaleCount(ts, cutoff) < Len(ts) => ts[StaleCount(ts, cutoff) + 1] >= cutoff
          /\ Len(RemoveStale(ts, cutoff)) = Len(ts) - StaleCount(ts, cutoff)
      BY <2>1, <2>5, StaleCountSpec, RemoveStaleSpec
    <3>2. CASE Len(ts) < MaxPerHost
      BY <2>1, <3>1, <3>2
    <3>3. CASE Len(ts) = MaxPerHost
      <4>1. ts[1] \in Int /\ ForHost(h, now) = ts[1] + Window - now
        BY <2>1, <3>3 DEF ForHost
      <4>2. ts[1] < cutoff
        <5>1. ts[1] + Window - now <= wait /\ cutoff = now + wait + 1 - Window
          BY <2>1, <2>2, <2>4, <4>1
        <5> HIDE DEF ts, cutoff
        <5> QED
          BY <2>1, <2>2, <2>4, <4>1, <5>1
      <4>3. StaleCount(ts, cutoff) # 0
        <5> HIDE DEF ts, cutoff
        <5> QED
          BY <2>1, <2>5, <3>1, <3>3, <4>1, <4>2
      <4> QED
        BY <2>1, <3>1, <3>3, <4>3
    <3> QED
      BY <2>1, <3>2, <3>3
  <2> QED
    BY <2>6, <2>7 DEF AllowedAfter, wait
<1> QED
  BY <1>1, TypeCorrect, PTL
=============================================================================
