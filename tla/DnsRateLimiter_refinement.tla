----------------------- MODULE DnsRateLimiter_refinement -----------------------
(***************************************************************************)
(* TLAPS proof that, under a clock that never goes back, the pruned deques *)
(* of DnsRateLimiter decide as the full record of SlidingWindow does.      *)
(***************************************************************************)
EXTENDS DnsRateLimiter_proofs, FiniteSetTheorems

\* The record of a host is in the order of time.
Ordered(hs) == \A i, j \in DOMAIN hs : i <= j => hs[i].at <= hs[j].at

\* A pruned deque is as long as the record has lookups in the window.
LEMMA RecentCount ==
  ASSUME NEW ts \in Seq(Int), NEW hs \in Seq(Entry), NEW t \in Int,
         Remembers(ts, hs, t), Ordered(hs), ts # <<>> => ts[1] >= t - Window
  PROVE  Cardinality({i \in DOMAIN hs : hs[i].at >= t - Window}) = Len(ts)
<1> DEFINE gone == Len(hs) - Len(ts)
           recent == {i \in DOMAIN hs : hs[i].at >= t - Window}
<1>1. /\ gone \in Nat /\ Len(ts) \in Nat /\ Len(hs) \in Nat /\ DOMAIN hs = 1..Len(hs)
      /\ \A i \in 1..Len(ts) : ts[i] = hs[gone + i].at
      /\ \A i \in 1..gone : hs[i].at < t - Window
      /\ \A i \in 1..Len(hs) : hs[i].at \in Int
      /\ t - Window \in Int
  BY EntryTimes, LimiterAssumption DEF Remembers
<1>2. gone + Len(ts) = Len(hs)
  BY <1>1
<1> HIDE DEF gone
<1>3. recent = (gone + 1)..Len(hs)
  <2>1. ASSUME NEW i \in (gone + 1)..Len(hs) PROVE i \in DOMAIN hs /\ hs[i].at >= t - Window
    <3>1. ts # <<>> /\ 1 \in 1..Len(ts) /\ gone + 1 \in 1..Len(hs) /\ i \in 1..Len(hs)
      BY <1>1, <1>2
    <3>2. hs[gone + 1].at = ts[1]
      BY <1>1, <3>1
    <3>3. hs[gone + 1].at <= hs[i].at
      BY <1>1, <3>1 DEF Ordered
    <3> QED
      BY <1>1, <3>1, <3>2, <3>3
  <2>2. ASSUME NEW i \in DOMAIN hs, hs[i].at >= t - Window PROVE i \in (gone + 1)..Len(hs)
    BY <1>1, <2>2
  <2> QED
    BY <2>1, <2>2
<1>4. Cardinality((gone + 1)..Len(hs)) = Len(ts)
  <2> DEFINE a == gone + 1
             b == Len(hs)
             n == Len(ts)
  <2>0. gone \in Nat /\ n \in Nat /\ b \in Nat /\ gone + n = b
    BY <1>1, <1>2
  <2> HIDE DEF b, n
  <2>1. a \in Int /\ b \in Int /\ n = IF a > b THEN 0 ELSE b - a + 1
    BY <2>0
  <2> HIDE DEF a
  <2>2. Cardinality(a..b) = IF a > b THEN 0 ELSE b - a + 1
    BY <2>1, FS_Interval
  <2> QED
    BY <2>1, <2>2 DEF a, b, n
<1> QED
  BY <1>3, <1>4

\* Pruning leaves a head that is not stale.
LEMMA PrunedHead ==
  ASSUME NEW ts \in Seq(Int), NEW cutoff \in Int, RemoveStale(ts, cutoff) # <<>>
  PROVE  RemoveStale(ts, cutoff)[1] >= cutoff
<1> DEFINE k == StaleCount(ts, cutoff)
           kept == RemoveStale(ts, cutoff)
<1>1. /\ k \in 0..Len(ts)
      /\ k < Len(ts) => ts[k + 1] >= cutoff
      /\ kept \in Seq(Int) /\ Len(kept) = Len(ts) - k
      /\ \A i \in 1..(Len(ts) - k) : kept[i] = ts[k + i]
  BY StaleCountSpec, RemoveStaleSpec
<1> HIDE DEF k, kept
<1>2. Len(kept) # 0
  BY <1>1 DEF kept
<1> QED
  BY <1>1, <1>2 DEF kept

-----------------------------------------------------------------------------
(* The record stays in order *)

OrderInv == \A h \in Hosts : Ordered(history[h])

\* A lookup recorded at a time not before any other keeps the order.
LEMMA OrderedAppend ==
  ASSUME NEW hs \in Seq(Entry), Ordered(hs), NEW e \in Entry,
         \A i \in DOMAIN hs : hs[i].at <= e.at
  PROVE  Ordered(Append(hs, e))
<1>1. /\ Len(hs) \in Nat /\ DOMAIN hs = 1..Len(hs)
      /\ DOMAIN Append(hs, e) = 1..(Len(hs) + 1)
      /\ \A i \in 1..Len(hs) : Append(hs, e)[i] = hs[i]
      /\ Append(hs, e)[Len(hs) + 1] = e
      /\ e.at \in Int
  BY DEF Entry
<1> QED
  BY <1>1 DEF Ordered

\* The deque of h, pruned at time t, counts the lookups of the window that ends at t.
LEMMA PrunedCount ==
  ASSUME TypeOK, DequeInv, OrderInv, NEW h \in Hosts, NEW t \in Int, clock <= t
  PROVE  Len(RemoveStale(host_lookups[h], t - Window)) = Window_!Recent(h, t)
<1> DEFINE kept == RemoveStale(host_lookups[h], t - Window)
<1>1. /\ host_lookups[h] \in Seq(Int) /\ history[h] \in Seq(Entry) /\ t - Window \in Int
      /\ clock \in Int /\ Remembers(host_lookups[h], history[h], clock) /\ Ordered(history[h])
  BY LimiterAssumption DEF TypeOK, DequeInv, OrderInv
<1>2. kept \in Seq(Int) /\ Remembers(kept, history[h], t)
      /\ (kept # <<>> => kept[1] >= t - Window)
  BY <1>1, RemoveStaleSpec, RemembersPruned, PrunedHead
<1> HIDE DEF kept
<1>3. Cardinality({i \in DOMAIN history[h] : history[h][i].at >= t - Window}) = Len(kept)
  BY <1>1, <1>2, RecentCount
<1>4. Window_!Recent(h, t) = Cardinality({i \in DOMAIN history[h] : history[h][i].at >= t - Window})
  BY DEF Window_!Recent, Window_!Cardinality, Cardinality, Window_!IsFiniteSet, IsFiniteSet
<1> QED
  BY <1>3, <1>4 DEF kept

\* A recorded lookup keeps every host's record in order.
LEMMA RecordOrdered ==
  ASSUME TypeOK, DequeInv, OrderInv, NEW h \in Hosts, NEW e \in Entry, clock <= e.at,
         history' = [history EXCEPT ![h] = Append(@, e)]
  PROVE  OrderInv'
<1>1. /\ history \in [Hosts -> Seq(Entry)] /\ history[h] \in Seq(Entry) /\ Ordered(history[h])
      /\ Remembers(host_lookups[h], history[h], clock) /\ clock \in Int
  BY DEF TypeOK, DequeInv, OrderInv
<1>2. \A i \in DOMAIN history[h] : history[h][i].at <= e.at
  <2>1. e.at \in Int /\ \A i \in DOMAIN history[h] : history[h][i].at \in Int
    BY <1>1, EntryTimes DEF Entry
  <2> QED
    BY <1>1, <2>1 DEF Remembers
<1>3. Ordered(Append(history[h], e))
  BY <1>1, <1>2, OrderedAppend
<1> QED
  BY <1>1, <1>3 DEF OrderInv

-----------------------------------------------------------------------------
(* Each method's step *)

StepMaps == OrderInv' /\ [Window_!Next]_Window_!vars

\* A step of the sliding window that reads the clock at `at` and ends at clock'.
LEMMA WindowStep ==
  ASSUME NEW at \in clock..clock', Window_!Step(at, clock')
  PROVE  Window_!Next
BY DEF Window_!Next

LEMMA IsAllowedMaps ==
  ASSUME MaxStepBack = 0, TypeOK, TypeOK', DequeInv, OrderInv,
         NEW h \in Hosts, IsAllowed(h)
  PROVE  StepMaps
<1>0. clock \in Int /\ clock' \in Int /\ Window \in Nat
      /\ host_lookups \in [Hosts -> Seq(Int)]
  BY LimiterAssumption DEF TypeOK
<1>1. PICK now \in ReadingsAfter(clock) :
        \/ /\ clock' = now
           /\ answer' = [host |-> h, verdict |-> "globally_limited"]
           /\ UNCHANGED history
        \/ \E next \in ReadingsSoonAfter(now) : ChargeHost(h, now, next)
  BY DEF IsAllowed
<1>2. now \in Int /\ clock <= now
  BY <1>0, MonotoneReadings
<1>3. CASE /\ clock' = now
           /\ answer' = [host |-> h, verdict |-> "globally_limited"]
           /\ UNCHANGED history
  <2>1. Window_!LimitOtherwise(h, clock', "globally_limited")
    BY <1>3 DEF Window_!LimitOtherwise
  <2>2. Window_!Step(now, clock')
    BY <2>1 DEF Window_!Step
  <2>3. now \in clock..clock'
    BY <1>0, <1>2, <1>3
  <2> QED
    BY <1>3, <2>2, <2>3, WindowStep DEF StepMaps, OrderInv
<1>4. ASSUME NEW next \in ReadingsSoonAfter(now), ChargeHost(h, now, next)
      PROVE  StepMaps
  <2> DEFINE kept  == RemoveStale(host_lookups[h], next - Window)
             fresh == [host_lookups EXCEPT ![h] = kept]
             entry == [at |-> next, granted |-> TRUE]
  <2>1. next \in Int /\ clock <= next /\ next - Window \in Int
    BY <1>0, <1>2, MonotoneReadings
  <2>2. fresh[h] = kept /\ fresh = [host_lookups EXCEPT ![h] = RemoveStale(@, next - Window)]
    BY <1>0
  <2>3. Len(kept) = Window_!Recent(h, next)
    BY <2>1, PrunedCount
  <2> HIDE DEF kept, fresh
  <2>4. CASE /\ Len(fresh[h]) >= MaxPerHost /\ clock' = next
             /\ answer' = [host |-> h, verdict |-> "host_limited"] /\ UNCHANGED history
    <3>1. Window_!Limit(h, clock')
      BY <2>2, <2>3, <2>4 DEF Window_!Limit
    <3>2. Window_!Step(next, clock')
      BY <3>1 DEF Window_!Step
    <3>3. next \in clock..clock'
      BY <1>0, <2>1, <2>4
    <3> QED
      BY <2>4, <3>2, <3>3, WindowStep DEF StepMaps, OrderInv
  <2>5. CASE /\ Len(fresh[h]) < MaxPerHost
             /\ \E later \in ReadingsSoonAfter(next) : clock' = later
             /\ answer' = [host |-> h, verdict |-> "granted"]
             /\ history' = [history EXCEPT ![h] = Append(@, entry)]
    <3>1. next <= clock'
      BY <1>0, <2>1, <2>5, MonotoneReadings
    <3>2. Window_!Grant(h, next, clock')
      BY <2>2, <2>3, <2>5 DEF Window_!Grant, Window_!Record
    <3>3. Window_!Step(next, clock')
      BY <3>2 DEF Window_!Step
    <3>4. entry \in Entry /\ entry.at = next
      BY <2>1 DEF Entry
    <3>5. OrderInv'
      <4> HIDE DEF entry
      <4> QED
        BY <2>1, <2>5, <3>4, RecordOrdered
    <3>6. next \in clock..clock'
      BY <1>0, <2>1, <3>1
    <3> QED
      BY <3>3, <3>5, <3>6, WindowStep DEF StepMaps
  <2> QED
    BY <1>4, <2>2, <2>4, <2>5 DEF ChargeHost
<1> QED
  BY <1>1, <1>3, <1>4

LEMMA RecordLookupMaps ==
  ASSUME MaxStepBack = 0, TypeOK, TypeOK', DequeInv, OrderInv,
         NEW h \in Hosts, RecordLookup(h)
  PROVE  StepMaps
<1>0. clock \in Int /\ clock' \in Int
  BY DEF TypeOK
<1>1. PICK now \in ReadingsAfter(clock) :
        /\ \E later \in ReadingsSoonAfter(now) : clock' = later
        /\ history' = [history EXCEPT ![h] = Append(@, [at |-> now, granted |-> FALSE])]
  BY DEF RecordLookup
<1> DEFINE entry == [at |-> now, granted |-> FALSE]
<1>2. now \in Int /\ clock <= now /\ now <= clock'
  <2>1. now \in Int /\ clock <= now
    BY <1>0, MonotoneReadings
  <2> QED
    BY <1>1, <2>1, MonotoneReadings
<1>3. Window_!Record(h, now, clock', FALSE) /\ UNCHANGED answer
  BY <1>1 DEF RecordLookup, Window_!Record
<1>4. Window_!Step(now, clock')
  BY <1>3 DEF Window_!Step
<1>5. entry \in Entry /\ entry.at = now /\ history' = [history EXCEPT ![h] = Append(@, entry)]
  BY <1>1, <1>2 DEF Entry
<1>6. OrderInv'
  <2> HIDE DEF entry
  <2> QED
    BY <1>2, <1>5, RecordOrdered
<1>7. now \in clock..clock'
  BY <1>0, <1>2
<1> QED
  BY <1>4, <1>6, <1>7, WindowStep DEF StepMaps

LEMMA NextMaps ==
  ASSUME MaxStepBack = 0, TypeOK, TypeOK', DequeInv, OrderInv, [Next]_vars
  PROVE  StepMaps
<1>0. clock \in Int /\ clock' \in Int
  BY DEF TypeOK
<1>1. CASE IsAllowedBlank
  <2>1. Window_!Step(clock, clock') /\ clock \in clock..clock'
    BY <1>0, <1>1 DEF IsAllowedBlank, Window_!Step, Window_!LimitOtherwise
  <2> QED
    BY <1>1, <2>1, WindowStep DEF IsAllowedBlank, StepMaps, OrderInv
<1>2. CASE RetryAfter \/ Stats
  <2>1. clock <= clock'
    <3>1. CASE RetryAfter
      <4>1. PICK refilledAt \in ReadingsAfter(clock) :
                \E now \in ReadingsSoonAfter(refilledAt) : clock' = now
        BY <3>1 DEF RetryAfter
      <4>2. refilledAt \in Int /\ clock <= refilledAt
        BY <1>0, MonotoneReadings
      <4>3. refilledAt <= clock'
        BY <4>1, <4>2, MonotoneReadings
      <4> QED
        BY <1>0, <4>2, <4>3
    <3>2. CASE Stats
      BY <1>0, <3>2, MonotoneReadings DEF Stats
    <3> QED
      BY <1>2, <3>1, <3>2
  <2>2. UNCHANGED <<host_lookups, tracked, answer, history>>
    BY <1>2 DEF RetryAfter, Stats
  <2>3. Window_!Step(clock, clock') /\ clock \in clock..clock'
    BY <1>0, <2>1, <2>2 DEF Window_!Step, Window_!Elapse
  <2> QED
    BY <2>2, <2>3, WindowStep DEF StepMaps, OrderInv
<1>3. CASE Reset
  <2>1. clock <= clock'
    BY <1>0, <1>3, MonotoneReadings DEF Reset
  <2>2. Window_!Step(clock, clock') /\ clock \in clock..clock'
    BY <1>0, <1>3, <2>1 DEF Reset, Window_!Step, Window_!Forget
  <2>3. OrderInv'
    BY <1>3 DEF Reset, OrderInv, Ordered
  <2> QED
    BY <2>2, <2>3, WindowStep DEF StepMaps
<1>4. CASE UNCHANGED vars
  BY <1>4 DEF vars, StepMaps, OrderInv, Window_!vars
<1> QED
  BY <1>1, <1>2, <1>3, <1>4, IsAllowedMaps, RecordLookupMaps DEF Next

\* The deques, pruned lazily and cleaned up periodically, decide as the full record of
\* lookups would (is_allowed, record_lookup, _remove_stale_timestamps,
\* _cleanup_old_entries).
THEOREM RefinesSlidingWindow ==
  ASSUME MaxStepBack = 0
  PROVE  Spec => ImplementsSlidingWindow
<1>1. Init => Window_!Init /\ OrderInv
  BY DEF Init, Window_!Init, OrderInv, Ordered
<1>2. TypeOK /\ TypeOK' /\ DequeInv /\ OrderInv /\ [Next]_vars
        => OrderInv' /\ [Window_!Next]_Window_!vars
  BY NextMaps DEF StepMaps
<1> QED
  BY <1>1, <1>2, TypeCorrect, WindowHolds, PTL DEF Spec, ImplementsSlidingWindow, Window_!Spec
=============================================================================
