---------------------------- MODULE DnsRateLimiter ----------------------------
(***************************************************************************)
(* urlps._security.dns_guard.DNSRateLimiter: a token bucket shared by all  *)
(* hosts plus, per host, a deque of the timestamps of its recent lookups.  *)
(* Every public method holds the limiter's lock from its first read of the *)
(* clock to its last write, so each one is a single action here; the time  *)
(* provider is read several times inside a method and the readings differ. *)
(*                                                                         *)
(* The code's floats are exact here.  Time is counted in ticks,            *)
(* TicksPerSecond to the second, and tokens in units, LookupCost to the    *)
(* token, so that a tick refills a whole number of units.  The configured  *)
(* max_lookups_per_second is Capacity / LookupCost and may be below 1.     *)
(***************************************************************************)
EXTENDS Integers, Sequences, FiniteSets

CONSTANTS
    Hosts,            \* the host names callers ask about
    Blank,            \* any host the methods refuse: not a string, or only spaces
    RefillPerTick,    \* units of token refilled each tick
    TicksPerSecond,
    LookupCost,       \* units in one token
    MaxPerHost,       \* max_lookups_per_host
    Window,           \* time_window_seconds, in ticks
    CleanupInterval,  \* cleanup_interval_seconds, in ticks
    MaxStepBack,      \* how far one reading of the clock may lie behind the last
    MaxLag,           \* bound: how far apart two readings inside one method may lie
    Horizon,          \* bound: no reading is later than this
    MaxRecorded       \* bound: lookups recorded without asking, per host

ASSUME LimiterAssumption ==
    /\ Blank \notin Hosts
    /\ RefillPerTick \in Nat \ {0}
    /\ TicksPerSecond \in Nat \ {0}
    /\ LookupCost \in Nat \ {0}
    /\ MaxPerHost \in Nat \ {0}
    /\ Window \in Nat \ {0}
    /\ CleanupInterval \in Nat \ {0}
    /\ MaxStepBack \in Nat
    /\ MaxLag \in Nat
    /\ Horizon \in Nat
    /\ MaxRecorded \in Nat

VARIABLES
    clock,         \* the last value the time provider returned
    tokens,        \* _tokens, in units
    last_update,   \* _last_update_seconds
    host_lookups,  \* the deques of _host_lookups, <<>> for a host without one
    tracked,       \* the keys of _host_lookups
    last_cleanup,  \* _last_cleanup_seconds
    answer,        \* what the last is_allowed returned, to whom and why
    history,       \* history variable: per host, every lookup since the last reset
    charges        \* history variable: when each token since the last reset was taken

vars == <<clock, tokens, last_update, host_lookups, tracked, last_cleanup,
          answer, history, charges>>

Capacity == RefillPerTick * TicksPerSecond

Verdicts == {"none", "granted", "globally_limited", "host_limited", "invalid"}

Entry == [at : Int, granted : BOOLEAN]

TypeOK ==
    /\ clock \in Int
    /\ tokens \in 0..Capacity
    /\ last_update \in Int
    /\ host_lookups \in [Hosts -> Seq(Int)]
    /\ tracked \in SUBSET Hosts
    /\ \A h \in Hosts \ tracked : host_lookups[h] = <<>>
    /\ last_cleanup \in Int
    /\ answer \in [host : Hosts \cup {Blank}, verdict : Verdicts]
    /\ history \in [Hosts -> Seq(Entry)]
    /\ charges \in Seq(Int)

-----------------------------------------------------------------------------
(* Pure parts of the methods *)

\* What the time provider may return when it last returned t.
ReadingsAfter(t) == (t - MaxStepBack)..Horizon

\* The same for the next reading inside one method.
ReadingsSoonAfter(t) == {u \in ReadingsAfter(t) : u <= t + MaxLag}

\* Mutant: the bucket grows past its capacity while nobody asks.
RefilledUncapped(now) ==
    tokens + (IF now > last_update THEN now - last_update ELSE 0) * RefillPerTick

\* The bucket after _refill_tokens at time now, if the last one left `bucket` at time
\* `stamp`: a clock that went back refills nothing.
RefilledFrom(bucket, stamp, now) ==
    LET elapsed == IF now > stamp THEN now - stamp ELSE 0
        full    == bucket + elapsed * RefillPerTick
    IN  IF full > Capacity THEN Capacity ELSE full

Refilled(now) == RefilledFrom(tokens, last_update, now)

\* Mutant: a timestamp exactly as old as the window is popped too.
StaleCountInclusive(timestamps, cutoff) ==
    CHOOSE n \in 0..Len(timestamps) :
        /\ \A i \in 1..n : timestamps[i] <= cutoff
        /\ n < Len(timestamps) => timestamps[n + 1] > cutoff

\* How many timestamps _remove_stale_timestamps pops: the ones at the head below cutoff.
StaleCount(timestamps, cutoff) ==
    CHOOSE n \in 0..Len(timestamps) :
        /\ \A i \in 1..n : timestamps[i] < cutoff
        /\ n < Len(timestamps) => timestamps[n + 1] >= cutoff

RemoveStale(timestamps, cutoff) ==
    SubSeq(timestamps, StaleCount(timestamps, cutoff) + 1, Len(timestamps))

\* Mutant: the cleanup drops what is older than its own interval, not the window.
CleanupByInterval(lookups, keys, now) ==
    \/ /\ now - last_cleanup < CleanupInterval
       /\ host_lookups' = lookups
       /\ tracked' = keys
       /\ UNCHANGED last_cleanup
    \/ /\ now - last_cleanup >= CleanupInterval
       /\ host_lookups' = [h \in Hosts |-> RemoveStale(lookups[h], now - CleanupInterval)]
       /\ tracked' = {h \in keys : host_lookups'[h] # <<>>}
       /\ last_cleanup' = now

\* _cleanup_old_entries at time now, given the deques and keys its caller left.
CleanupOldEntries(lookups, keys, now) ==
    \/ /\ now - last_cleanup < CleanupInterval
       /\ host_lookups' = lookups
       /\ tracked' = keys
       /\ UNCHANGED last_cleanup
    \/ /\ now - last_cleanup >= CleanupInterval
       /\ host_lookups' = [h \in Hosts |-> RemoveStale(lookups[h], now - Window)]
       /\ tracked' = {h \in keys : RemoveStale(lookups[h], now - Window) # <<>>}
       /\ last_cleanup' = now

\* The wait for a token after a refill at refilledAt, rounded up to whole ticks.
TokenWait(refilledAt) ==
    IF Refilled(refilledAt) < LookupCost
    THEN (LookupCost - Refilled(refilledAt) + RefillPerTick - 1) \div RefillPerTick
    ELSE 0

\* Mutant: the host's wait is counted from its newest lookup.
RetryWaitFromNewest(h, refilledAt, now) ==
    IF Len(host_lookups[h]) >= MaxPerHost
    THEN host_lookups[h][Len(host_lookups[h])] + Window - now
    ELSE 0

\* Mutant: a full deque is not waited for.
RetryWaitForToken(h, refilledAt, now) == TokenWait(refilledAt)

\* What retry_after returns: its refill reads the clock at refilledAt, and the wait for the
\* host is counted from a reading after that one, now.
RetryWait(h, refilledAt, now) ==
    LET forHost == IF host_lookups[h] # <<>> /\ Len(host_lookups[h]) >= MaxPerHost
                   THEN host_lookups[h][1] + Window - now
                   ELSE 0
    IN  IF forHost > TokenWait(refilledAt) THEN forHost ELSE TokenWait(refilledAt)

-----------------------------------------------------------------------------
Init ==
    /\ clock = 0
    /\ tokens = Capacity
    /\ last_update = 0
    /\ host_lookups = [h \in Hosts |-> <<>>]
    /\ tracked = {}
    /\ last_cleanup = 0
    /\ answer = [host |-> Blank, verdict |-> "none"]
    /\ history = [h \in Hosts |-> <<>>]
    /\ charges = <<>>

\* Mutant: the refill is not stamped, so the next one pays for the same time again.
RefillUnstamped(now) ==
    /\ tokens' = Refilled(now)
    /\ UNCHANGED last_update

\* The prologue every metering method shares: one reading, one refill.
Refill(now) ==
    /\ tokens' = Refilled(now)
    /\ last_update' = now

\* The part of is_allowed behind the token test, with the second reading of the
\* clock in hand; the cleanup at its end reads the clock a third time.
ChargeHost(h, paidAt, now) ==
    LET fresh == [host_lookups EXCEPT ![h] = RemoveStale(@, now - Window)]
    IN  \/ /\ Len(fresh[h]) >= MaxPerHost
           /\ Refill(paidAt)
           /\ clock' = now
           /\ host_lookups' = fresh
           /\ tracked' = tracked \cup {h}
           /\ answer' = [host |-> h, verdict |-> "host_limited"]
           /\ UNCHANGED <<last_cleanup, history, charges>>
        \/ /\ Len(fresh[h]) < MaxPerHost
           /\ tokens' = Refilled(paidAt) - LookupCost
           /\ last_update' = paidAt
           /\ \E later \in ReadingsSoonAfter(now) :
                  /\ clock' = later
                  /\ CleanupOldEntries([fresh EXCEPT ![h] = Append(@, now)],
                                       tracked \cup {h}, later)
           /\ answer' = [host |-> h, verdict |-> "granted"]
           /\ history' = [history EXCEPT ![h] = Append(@, [at |-> now, granted |-> TRUE])]
           /\ charges' = Append(charges, paidAt)

IsAllowed(h) ==
    \E now \in ReadingsAfter(clock) :
        \/ /\ Refilled(now) < LookupCost
           /\ Refill(now)
           /\ clock' = now
           /\ answer' = [host |-> h, verdict |-> "globally_limited"]
           /\ UNCHANGED <<host_lookups, tracked, last_cleanup, history, charges>>
        \/ /\ Refilled(now) >= LookupCost
           /\ \E next \in ReadingsSoonAfter(now) : ChargeHost(h, now, next)

\* is_allowed refuses a blank host before it takes the lock.
IsAllowedBlank ==
    /\ answer' = [host |-> Blank, verdict |-> "invalid"]
    /\ UNCHANGED <<clock, tokens, last_update, host_lookups, tracked, last_cleanup,
                   history, charges>>

RecordLookup(h) ==
    /\ Cardinality({i \in DOMAIN history[h] : ~history[h][i].granted}) < MaxRecorded
    /\ \E now \in ReadingsAfter(clock) : \E later \in ReadingsSoonAfter(now) :
           /\ clock' = later
           /\ CleanupOldEntries([host_lookups EXCEPT ![h] = Append(@, now)],
                                tracked \cup {h}, later)
           /\ history' = [history EXCEPT ![h] = Append(@, [at |-> now, granted |-> FALSE])]
    /\ UNCHANGED <<tokens, last_update, answer, charges>>

\* retry_after changes nothing but the bucket, and reads the clock again after the refill;
\* RetryWait is what it returns.
RetryAfter ==
    /\ \E refilledAt \in ReadingsAfter(clock) : \E now \in ReadingsSoonAfter(refilledAt) :
           Refill(refilledAt) /\ clock' = now
    /\ UNCHANGED <<host_lookups, tracked, last_cleanup, answer, history, charges>>

\* stats refills too, and reads the clock no more.
Stats ==
    /\ \E now \in ReadingsAfter(clock) : Refill(now) /\ clock' = now
    /\ UNCHANGED <<host_lookups, tracked, last_cleanup, answer, history, charges>>

Reset ==
    /\ \E now \in ReadingsAfter(clock) :
           /\ clock' = now
           /\ last_update' = now
           /\ last_cleanup' = now
    /\ tokens' = Capacity
    /\ host_lookups' = [h \in Hosts |-> <<>>]
    /\ tracked' = {}
    /\ history' = [h \in Hosts |-> <<>>]
    /\ charges' = <<>>
    /\ UNCHANGED answer

Next ==
    \/ \E h \in Hosts : IsAllowed(h) \/ RecordLookup(h)
    \/ IsAllowedBlank
    \/ RetryAfter
    \/ Stats
    \/ Reset

Spec == Init /\ [][Next]_vars

-----------------------------------------------------------------------------
(* Properties *)

\* No host gets more than MaxPerHost lookups in any stretch of Window ticks: a granted
\* lookup lies more than Window after the MaxPerHost-th lookup of that host before it,
\* however often the deques were pruned or cleaned up in between (is_allowed,
\* record_lookup, _cleanup_old_entries).
HostWindowBound ==
    \A h \in Hosts : \A j \in DOMAIN history[h] :
        history[h][j].granted /\ j > MaxPerHost
            => history[h][j].at - history[h][j - MaxPerHost].at > Window

\* Over any interval the limiter pays out at most one bucket plus what the interval
\* refills, whichever methods refilled in between (_refill_tokens is called by
\* is_allowed, retry_after and stats alike).
RateBound ==
    \A i \in DOMAIN charges : \A j \in i..Len(charges) :
        LookupCost * (j - i + 1) <= Capacity + RefillPerTick * (charges[j] - charges[i])

\* Whether an is_allowed that reads the clock at t would grant h a lookup, if nothing
\* happened since a retry_after that refilled the bucket at refilledAt.
AllowedAfter(h, refilledAt, t) ==
    /\ RefilledFrom(Refilled(refilledAt), refilledAt, t) >= LookupCost
    /\ Len(RemoveStale(host_lookups[h], t - Window)) < MaxPerHost

Least(a, b) == IF a < b THEN a ELSE b

\* retry_after overestimates by no more than what passes between its two readings of the
\* clock: counted from the earlier of them, is_allowed refuses until the wait is over.
RetryAfterTight ==
    \A h \in Hosts, refilledAt \in ReadingsAfter(clock) :
        \A now \in ReadingsSoonAfter(refilledAt) :
            \A t \in now..(Least(refilledAt, now) + RetryWait(h, refilledAt, now) - 1) :
                ~AllowedAfter(h, refilledAt, t)

\* "Seconds until a lookup for host would no longer be rate limited" (retry_after): counted
\* from its last reading of the clock, one tick past the wait that it names an undisturbed
\* is_allowed grants.  The tick is there because a timestamp exactly Window old still
\* counts; hosts that record_lookup pushed over the limit are left out.
RetryAfterSuffices ==
    \A h \in Hosts, refilledAt \in ReadingsAfter(clock) :
        \A now \in ReadingsSoonAfter(refilledAt) :
            Len(host_lookups[h]) <= MaxPerHost
                => AllowedAfter(h, refilledAt, now + RetryWait(h, refilledAt, now) + 1)

\* The deques, pruned lazily and cleaned up periodically, decide as the full record of
\* lookups would: pruning loses nothing a verdict depends on.
Window_ == INSTANCE SlidingWindow
ImplementsSlidingWindow == Window_!Spec
=============================================================================
