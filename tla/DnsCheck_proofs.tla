---------------------------- MODULE DnsCheck_proofs ----------------------------
(***************************************************************************)
(* TLAPS proofs about DnsCheck, for any number of threads, hosts, policies *)
(* and answers, any options, and clocks that may go back: types, and the   *)
(* four promises of a check that shares its limiter and its cache.  The    *)
(* limiter's and the cache's own steps are the subject of their own proof  *)
(* modules; here their lemmas are cited through instances of those.        *)
(***************************************************************************)
EXTENDS DnsCheck, TLAPS

LimiterP == INSTANCE DnsRateLimiter_proofs
CacheP == INSTANCE DnsResolutionCache_proofs

-----------------------------------------------------------------------------
(* What the parts' own proofs say here *)

\* The assumptions of the two proof modules are those of the modules checked.
LEMMA PartsAssumed == LimiterP!LimiterAssumption /\ CacheP!CacheAssumption
  BY PartsAssumption
  DEF Limiter!LimiterAssumption, Cache!CacheAssumption, LimiterP!LimiterAssumption,
      CacheP!CacheAssumption, Cache!Entry, CacheP!Entry

\* The two names of the limiter's types and methods stand for the same.
LEMMA LimiterSame ==
  /\ Limiter!TypeOK <=> LimiterP!TypeOK
  /\ Limiter!Init <=> LimiterP!Init
  /\ \A h \in Hosts : Limiter!IsAllowed(h) <=> LimiterP!IsAllowed(h)
  /\ Limiter!RetryAfter <=> LimiterP!RetryAfter
  /\ Limiter!Reset <=> LimiterP!Reset
<1> USE DEF Limiter!ReadingsAfter, LimiterP!ReadingsAfter, Limiter!Refill, LimiterP!Refill,
            Limiter!Refilled, LimiterP!Refilled, Limiter!RefilledFrom, LimiterP!RefilledFrom,
            Limiter!ReadingsSoonAfter, LimiterP!ReadingsSoonAfter, Limiter!Capacity,
            LimiterP!Capacity
<1>1. Limiter!TypeOK <=> LimiterP!TypeOK
  BY DEF Limiter!TypeOK, LimiterP!TypeOK, Limiter!Entry, LimiterP!Entry, Limiter!Verdicts,
         LimiterP!Verdicts
<1>2. Limiter!Init <=> LimiterP!Init
  BY DEF Limiter!Init, LimiterP!Init
<1>3. \A h \in Hosts : Limiter!IsAllowed(h) <=> LimiterP!IsAllowed(h)
  BY DEF Limiter!IsAllowed, LimiterP!IsAllowed, Limiter!ChargeHost, LimiterP!ChargeHost,
         Limiter!CleanupOldEntries, LimiterP!CleanupOldEntries, Limiter!RemoveStale,
         LimiterP!RemoveStale, Limiter!StaleCount, LimiterP!StaleCount
<1>4. Limiter!RetryAfter <=> LimiterP!RetryAfter
  BY DEF Limiter!RetryAfter, LimiterP!RetryAfter
<1>5. Limiter!Reset <=> LimiterP!Reset
  BY DEF Limiter!Reset, LimiterP!Reset
<1> QED
  BY <1>1, <1>2, <1>3, <1>4, <1>5

\* The limiter's types survive each of its methods.
LEMMA LimiterTypes ==
  ASSUME Limiter!TypeOK,
         \/ \E h \in Hosts : Limiter!IsAllowed(h)
         \/ Limiter!RetryAfter
         \/ Limiter!Reset
  PROVE  Limiter!TypeOK'
<1>1. LimiterP!TypeOK'
  BY PartsAssumed, LimiterSame, LimiterP!IsAllowedType, LimiterP!RetryAfterType,
     LimiterP!ResetType
<1> QED
  BY <1>1, LimiterSame, PTL

\* The two names of the cache's operations stand for the same.
LEMMA CacheSame ==
  /\ Cache!Cached = CacheP!Cached
  /\ Cache!TypeOK <=> CacheP!TypeOK
  /\ Cache!Init <=> CacheP!Init
  /\ \A h \in Hosts : Cache!Get(h) <=> CacheP!Get(h)
  /\ \A h \in Hosts, value \in Answers \cup {Failed} :
        /\ Cache!Store(h, value) <=> CacheP!Store(h, value)
        /\ Cache!StoreNothing(value) <=> CacheP!StoreNothing(value)
  /\ Cache!Reset <=> CacheP!Reset
<1> USE DEF CacheP!Cached, Cache!Cached, CacheP!ReadingsAfter, Cache!ReadingsAfter,
            CacheP!Without, Cache!Without, CacheP!MoveToEnd, Cache!MoveToEnd,
            CacheP!Restricted, Cache!Restricted, CacheP!Used, Cache!Used
<1>1. Cache!TypeOK <=> CacheP!TypeOK
  BY DEF Cache!TypeOK, CacheP!TypeOK, Cache!Entry, CacheP!Entry, Cache!Cardinality,
         CacheP!Cardinality, Cache!IsFiniteSet, CacheP!IsFiniteSet
<1>2. \A h \in Hosts : Cache!Get(h) <=> CacheP!Get(h)
  BY DEF CacheP!Get, Cache!Get, CacheP!GetAbsent, CacheP!GetExpired, CacheP!GetFresh,
         Cache!GetAbsent, Cache!GetExpired, Cache!GetFresh
<1>3. ASSUME NEW h \in Hosts, NEW value \in Answers \cup {Failed}
      PROVE  Cache!Store(h, value) <=> CacheP!Store(h, value)
  BY DEF CacheP!Store, Cache!Store, CacheP!EvictOldest, Cache!EvictOldest,
         CacheP!TtlOf, Cache!TtlOf
<1>4. ASSUME NEW value \in Answers \cup {Failed}
      PROVE  Cache!StoreNothing(value) <=> CacheP!StoreNothing(value)
  BY DEF CacheP!StoreNothing, Cache!StoreNothing, CacheP!TtlOf, Cache!TtlOf,
         CacheP!vars, Cache!vars
<1>5. Cache!Reset <=> CacheP!Reset
  BY DEF CacheP!Reset, Cache!Reset
<1>6. Cache!Init <=> CacheP!Init
  BY DEF CacheP!Init, Cache!Init
<1> QED
  BY <1>1, <1>2, <1>3, <1>4, <1>5, <1>6

\* A get only deletes, and answers with what is cached for that host or with nothing.
LEMMA GetKeeps ==
  ASSUME CacheP!IInv, NEW h \in Hosts, Cache!Get(h)
  PROVE  /\ CacheP!IInv'
         /\ \A k \in Cache!Cached' : k \in Cache!Cached /\ entries'[k] = entries[k]
         /\ reply'.value # Nothing => h \in Cache!Cached /\ reply'.value = entries[h].value
<1>1. CacheP!Get(h)
  BY CacheSame
<1>2. CASE CacheP!GetAbsent(h)
  <2>1. CacheP!IInv'
    BY <1>2, PartsAssumed, CacheP!GetAbsentIInv
  <2> QED
    BY <1>2, <2>1 DEF CacheP!GetAbsent, Cache!Cached
<1>3. CASE CacheP!GetExpired(h)
  <2>1. CacheP!IInv' /\ CacheP!Cached' = CacheP!Cached \ {h}
    BY <1>3, PartsAssumed, CacheP!GetExpiredIInv
  <2>2. /\ entries' = CacheP!Restricted(entries, CacheP!Without(h))
        /\ order' = CacheP!Without(h) /\ reply'.value = Nothing
    BY <1>3 DEF CacheP!GetExpired
  <2>3. \A k \in CacheP!Cached' : entries'[k] = entries[k]
    BY <2>2 DEF CacheP!Restricted, CacheP!Cached
  <2> QED
    BY <2>1, <2>2, <2>3 DEF Cache!Cached, CacheP!Cached
<1>4. CASE CacheP!GetFresh(h)
  <2>1. CacheP!IInv' /\ CacheP!Cached' = CacheP!Cached
    BY <1>4, PartsAssumed, CacheP!GetFreshIInv
  <2>2. entries' = entries /\ h \in CacheP!Cached /\ reply'.value = entries[h].value
    BY <1>4 DEF CacheP!GetFresh
  <2> QED
    BY <2>1, <2>2 DEF Cache!Cached, CacheP!Cached
<1> QED
  BY <1>1, <1>2, <1>3, <1>4 DEF CacheP!Get

\* A store changes no other host's entry, and makes one that holds just this value.
LEMMA StoreKeeps ==
  ASSUME CacheP!IInv, NEW h \in Hosts, NEW value \in Answers \cup {Failed},
         StoreAnswer(h, value)
  PROVE  /\ CacheP!IInv'
         /\ \A k \in Cache!Cached' :
               \/ k \in Cache!Cached /\ entries'[k] = entries[k]
               \/ k = h /\ entries'[k].value = value
<1>1. CASE CacheP!Store(h, value)
  <2>1. CacheP!IInv'
    BY <1>1, PartsAssumed, CacheP!StoreIInv
  <2>2. PICK entry \in CacheP!Entry :
           /\ entry = [value |-> value, expires_at |-> clock' + CacheP!TtlOf(value)]
           /\ CacheP!Cached' \subseteq CacheP!Cached \cup {h}
           /\ entries' = [k \in CacheP!Cached' |-> IF k = h THEN entry ELSE entries[k]]
    BY <1>1, PartsAssumed, CacheP!StoreSpec
  <2> QED
    BY <2>1, <2>2 DEF Cache!Cached, CacheP!Cached
<1>2. CASE CacheP!StoreNothing(value)
  BY <1>2 DEF CacheP!StoreNothing, CacheP!vars, CacheP!IInv, CacheP!TypeOK, CacheP!Cached,
              CacheP!Distinct, Cache!Cached
<1> QED
  BY <1>1, <1>2, CacheSame DEF StoreAnswer

\* A reset empties the cache.
LEMMA CacheResets ==
  ASSUME CacheP!IInv, Cache!Reset
  PROVE  CacheP!IInv' /\ Cache!Cached' = {}
<1>1. CacheP!IInv'
  BY PartsAssumed, CacheSame, CacheP!ResetIInv
<1> QED
  BY <1>1 DEF Cache!Reset, Cache!Cached

-----------------------------------------------------------------------------
(* What Goto leaves *)

Locals == {"stage", "host", "policy", "options", "deadline", "attempt", "until",
           "last_error", "got", "asked", "paid", "result"}

\* The named locals of this thread change as said, and nothing else of any thread.
LEMMA GotoSpec ==
  ASSUME check \in [Threads -> Check], NEW t \in Threads, NEW stage, NEW changes,
         "stage" \notin DOMAIN changes, Goto(t, stage, changes)
  PROVE  /\ check' = [check EXCEPT ![t] = check'[t]]
         /\ check'[t] = [x \in Locals |-> check'[t][x]]
         /\ check'[t].stage = stage
         /\ \A x \in Locals : x \in DOMAIN changes => check'[t][x] = changes[x]
         /\ \A x \in Locals : x # "stage" /\ x \notin DOMAIN changes
                                  => check'[t][x] = check[t][x]
BY DEF Goto, Check, Locals

\* Locals whose every value is in its type have the type of locals.
LEMMA LocalsType ==
  ASSUME check \in [Threads -> Check], NEW t \in Threads,
         check' = [check EXCEPT ![t] = check'[t]],
         check'[t] = [x \in Locals |-> check'[t][x]],
         check'[t].stage \in Stages,
         check'[t].host \in Hosts \cup Addresses \cup {Blank},
         check'[t].policy \in Policies, check'[t].options \in Options,
         check'[t].deadline \in Int, check'[t].attempt \in Nat, check'[t].until \in Int,
         check'[t].last_error \in Errors, check'[t].got \in Answers \cup {Nothing},
         check'[t].asked \in BOOLEAN, check'[t].paid \in BOOLEAN, check'[t].result \in Results
  PROVE  check'[t] \in Check
BY DEF Check, Locals

\* A move that is no return changes only some of these locals.
LEMMA MoveSpec ==
  ASSUME check \in [Threads -> Check], NEW t \in Threads, NEW stage \in Stages, NEW changes,
         DOMAIN changes \subseteq {"deadline", "attempt", "until", "last_error", "got",
                                   "asked", "paid"},
         Goto(t, stage, changes)
  PROVE  LET c == check[t]
             d == check'[t]
             After(x) == IF x \in DOMAIN changes THEN changes[x] ELSE c[x]
         IN  /\ check' = [check EXCEPT ![t] = d]
             /\ d.stage = stage
             /\ d.host = c.host /\ d.policy = c.policy /\ d.options = c.options
             /\ d.result = c.result
             /\ d.deadline = After("deadline") /\ d.attempt = After("attempt")
             /\ d.until = After("until") /\ d.last_error = After("last_error")
             /\ d.got = After("got") /\ d.asked = After("asked") /\ d.paid = After("paid")
             /\ d.deadline \in Int /\ d.attempt \in Nat /\ d.until \in Int
                /\ d.last_error \in Errors /\ d.got \in Answers \cup {Nothing}
                /\ d.asked \in BOOLEAN /\ d.paid \in BOOLEAN => d \in Check
<1> DEFINE c == check[t]
           d == check'[t]
<1>1. /\ check' = [check EXCEPT ![t] = d]
      /\ d = [x \in Locals |-> d[x]]
      /\ d.stage = stage
      /\ \A x \in Locals : x # "stage" =>
            d[x] = IF x \in DOMAIN changes THEN changes[x] ELSE c[x]
  BY GotoSpec
<1>2. c \in Check
  OBVIOUS
<1> HIDE DEF c, d
<1>3. /\ d.host = c.host /\ d.policy = c.policy /\ d.options = c.options /\ d.result = c.result
  BY <1>1 DEF Locals
<1>4. /\ c.host \in Hosts \cup Addresses \cup {Blank} /\ c.policy \in Policies
      /\ c.options \in Options /\ c.result \in Results
  BY <1>2 DEF Check
<1>5. ASSUME d.deadline \in Int, d.attempt \in Nat, d.until \in Int, d.last_error \in Errors,
             d.got \in Answers \cup {Nothing}, d.asked \in BOOLEAN, d.paid \in BOOLEAN
      PROVE  d \in Check
  BY <1>1, <1>3, <1>4, <1>5, LocalsType DEF d
<1> QED
  BY <1>1, <1>3, <1>5 DEF c, d, Locals

\* What the locals of a call may be at each stage of it, given what the resolver has said.
Sound(c, said) ==
    /\ c.stage \notin {"idle", "done"} => c.host \in Hosts
    /\ c.asked /\ c.options.enforce => c.paid
    /\ c.stage \in {"start", "attempt", "calling", "sleeping", "keep", "give_up"}
           /\ c.options.enforce => c.paid
    /\ c.stage \in {"calling", "sleeping"} => c.until <= c.deadline
    /\ c.stage = "keep" => c.got \in said[c.host] /\ c.got \in Answers
    /\ c.last_error = "resolution_failed" => c.host \in Hosts /\ Failed \in said[c.host]
    /\ c.stage = "done" /\ c.result \in {"ok", "ssrf_risk"} /\ c.host \in Hosts
           => /\ c.got \in said[c.host]
              /\ c.result = "ok" <=> (c.got # {} /\ c.got \subseteq Permitted[c.policy])

\* The inductive invariant: besides what the theorems say, what each thread carries between
\* its steps (a granted lookup, an answer not stored yet, an error) has the cause it must.
IInv ==
    /\ Limiter!TypeOK
    /\ CacheP!IInv
    /\ check \in [Threads -> Check]
    /\ begun \in 0..MaxChecks
    /\ resets \in 0..(2 * MaxResets)
    /\ heard \in [Hosts -> SUBSET (Answers \cup {Failed})]
    /\ CacheHoldsWhatWasHeard
    /\ \A t \in Threads : Sound(check[t], heard)

\* What the resolver said is not forgotten, so no thread's locals become unsound by it.
LEMMA SoundStays ==
  ASSUME NEW c \in Check, NEW said, NEW more, Sound(c, said),
         \A h \in Hosts : said[h] \subseteq more[h]
  PROVE  Sound(c, more)
BY DEF Sound

\* A step of one thread keeps the invariant when it keeps that thread's part of it.
LEMMA OwnStep ==
  ASSUME IInv, NEW t \in Threads,
         check' = [check EXCEPT ![t] = check'[t]],
         check'[t] \in Check, Sound(check'[t], heard'),
         heard' \in [Hosts -> SUBSET (Answers \cup {Failed})],
         \A h \in Hosts : heard[h] \subseteq heard'[h],
         Limiter!TypeOK', CacheP!IInv', CacheHoldsWhatWasHeard',
         begun' \in 0..MaxChecks, resets' = resets
  PROVE  IInv'
<1>1. check' \in [Threads -> Check]
  BY DEF IInv
<1>2. ASSUME NEW u \in Threads PROVE Sound(check'[u], heard')
  <2>1. CASE u = t
    BY <2>1
  <2>2. CASE u # t
    <3>1. check'[u] = check[u] /\ check[u] \in Check /\ Sound(check[u], heard)
      BY <2>2 DEF IInv
    <3> QED
      BY <3>1, SoundStays
  <2> QED
    BY <2>1, <2>2
<1> QED
  BY <1>1, <1>2 DEF IInv

-----------------------------------------------------------------------------
(* The parts a step leaves alone *)

\* None, a cached failure and a cached answer differ, and clocks read integers.
LEMMA Constants ==
  /\ Nothing \notin Answers /\ Failed \notin Answers /\ Failed # Nothing /\ Blank \notin Hosts
  /\ \A i \in Int : \A now \in Cache!ReadingsAfter(i) : now \in Int
BY PartsAssumption DEF Limiter!LimiterAssumption, Cache!CacheAssumption, Cache!ReadingsAfter

\* The types and the cache's invariant do not depend on what only the clock says.
LEMMA LimiterLeft ==
  ASSUME Limiter!TypeOK, UNCHANGED limiterVars, clock' \in Int
  PROVE  Limiter!TypeOK'
BY DEF Limiter!TypeOK, limiterVars

LEMMA CacheLeft ==
  ASSUME CacheP!IInv, UNCHANGED cacheVars, clock' \in Int
  PROVE  CacheP!IInv' /\ Cache!Cached' = Cache!Cached /\ entries' = entries
BY DEF CacheP!IInv, CacheP!TypeOK, CacheP!Cached, CacheP!Distinct, Cache!Cached, cacheVars

\* What is cached stays heard when the cache changes nothing.
LEMMA HeldStays ==
  ASSUME CacheHoldsWhatWasHeard, Cache!Cached' = Cache!Cached, entries' = entries,
         Cache!Cached \subseteq Hosts, \A h \in Hosts : heard[h] \subseteq heard'[h]
  PROVE  CacheHoldsWhatWasHeard'
BY DEF CacheHoldsWhatWasHeard

\* The invariant's facts that most steps start from.
LEMMA IInvFacts ==
  ASSUME IInv
  PROVE  /\ clock \in Int
         /\ Cache!Cached \subseteq Hosts
         /\ \A t \in Threads : check[t] \in Check /\ Sound(check[t], heard)
                               /\ check[t].options.timeout \in Nat
                               /\ check[t].options.budget \in Nat
         /\ begun \in 0..MaxChecks
         /\ CacheHoldsWhatWasHeard
BY CheckAssumption, SMTT(30) DEF IInv, Limiter!TypeOK, CacheP!IInv, CacheP!TypeOK,
   Cache!Cached, Check,
   CheckAssumption

-----------------------------------------------------------------------------
(* Each step of a thread *)

\* A call begins, and may end at once on its arguments alone.
LEMMA BeginIInv ==
  ASSUME IInv, NEW t \in Threads, NEW h \in Hosts \cup Addresses \cup {Blank}, Begin(t, h)
  PROVE  IInv'
<1> DEFINE c == check[t]
           early == CASE h = Blank -> "resolution_failed"
                      [] h # Blank /\ c.options.timeout = 0 -> "connection_failed"
                      [] h \in Addresses /\ c.options.timeout > 0 -> Judge(c.policy, {h})
                      [] OTHER -> "unknown"
           stage == IF early = "unknown" THEN "cache" ELSE "done"
           d == [Idle(c) EXCEPT !.host = h, !.result = early, !.stage = stage]
<1>1. c \in Check /\ clock \in Int /\ begun \in 0..MaxChecks /\ Cache!Cached \subseteq Hosts
      /\ c.options.timeout \in Nat /\ CacheHoldsWhatWasHeard
  BY IInvFacts
<1>2. check' = [check EXCEPT ![t] = d]
  BY DEF Begin
<1>3. early \in Results /\ (h \in Hosts => early \notin {"ok", "ssrf_risk"})
      /\ (early = "unknown" => h \in Hosts)
  BY <1>1, Constants, CheckAssumption DEF Judge, Results, Errors, CheckAssumption
<1>4. stage \in {"cache", "done"} /\ (stage = "cache" => h \in Hosts)
  BY <1>3
<1> HIDE DEF early, stage
<1>5. check'[t] = d /\ d \in Check
  <2>1. check'[t] = d
    BY <1>2 DEF IInv
  <2>2. PICK zero \in Nat : zero = 0
    OBVIOUS
  <2>3. /\ c.policy \in Policies /\ c.options \in Options /\ "none" \in Errors
        /\ stage \in Stages /\ FALSE \in BOOLEAN
    BY <1>1, <1>4 DEF Check, Stages, Errors
  <2>4. d = [stage |-> stage, host |-> h, policy |-> c.policy, options |-> c.options,
             deadline |-> zero, attempt |-> zero, until |-> zero, last_error |-> "none",
             got |-> Nothing, asked |-> FALSE, paid |-> FALSE, result |-> early]
    <3> DEFINE i == Idle(c)
    <3>1. i = [stage |-> "idle", host |-> Blank, policy |-> c.policy, options |-> c.options,
               deadline |-> zero, attempt |-> zero, until |-> zero, last_error |-> "none",
               got |-> Nothing, asked |-> FALSE, paid |-> FALSE, result |-> "unknown"]
      BY <2>2 DEF Idle
    <3>2. d = [i EXCEPT !.host = h, !.result = early, !.stage = stage]
      OBVIOUS
    <3> HIDE DEF i, d
    <3> QED
      BY <3>1, <3>2
  <2> HIDE DEF d
  <2> QED
    BY <1>3, <2>1, <2>3, <2>4 DEF Check
<1>6. Sound(d, heard)
  BY <1>3, <1>4 DEF Sound, Idle
<1>7. Limiter!TypeOK' /\ CacheP!IInv' /\ CacheHoldsWhatWasHeard'
  BY <1>1, LimiterLeft, CacheLeft, HeldStays DEF Begin, IInv
<1>8. begun' \in 0..MaxChecks
  BY <1>1, CheckAssumption DEF Begin, CheckAssumption
<1> HIDE DEF d
<1> QED
  BY <1>2, <1>5, <1>6, <1>7, <1>8, OwnStep DEF Begin, IInv

\* The end of a call is sound when its result is.
LEMMA ReturnSound ==
  ASSUME IInv, NEW t \in Threads, NEW addresses \in Answers \cup {Nothing},
         NEW result \in Results, Return(t, addresses, result),
         result \in {"ok", "ssrf_risk"} /\ check[t].host \in Hosts =>
             /\ addresses \in heard[check[t].host]
             /\ result = "ok" <=>
                   (addresses # {} /\ addresses \subseteq Permitted[check[t].policy]),
         heard' = heard
  PROVE  /\ check' = [check EXCEPT ![t] = check'[t]]
         /\ check'[t] \in Check
         /\ Sound(check'[t], heard')
<1> DEFINE c == check[t]
           d == check'[t]
<1>1. c \in Check /\ Sound(c, heard) /\ check \in [Threads -> Check]
  BY IInvFacts DEF IInv
<1>2. /\ check' = [check EXCEPT ![t] = d]
      /\ d = [x \in Locals |-> d[x]]
      /\ d.stage = "done" /\ d.deadline = 0 /\ d.attempt = 0 /\ d.until = 0
      /\ d.last_error = "none" /\ d.got = addresses /\ d.result = result
      /\ d.host = c.host /\ d.policy = c.policy /\ d.options = c.options
      /\ d.asked = c.asked /\ d.paid = c.paid
  BY <1>1, GotoSpec DEF Return, Locals
<1> HIDE DEF d
<1>3. d \in Check
  BY <1>1, <1>2, LocalsType DEF Check, Stages, Errors, d
<1>4. Sound(d, heard)
  BY <1>1, <1>2 DEF Sound
<1> QED
  BY <1>2, <1>3, <1>4 DEF d

\* A hit ends the call with an answer heard for this very host.
LEMMA AskCacheIInv ==
  ASSUME IInv, NEW t \in Threads, AskCache(t)
  PROVE  IInv'
<1> DEFINE c == check[t]
           d == check'[t]
           hit == reply'.value
<1>1. /\ c \in Check /\ Sound(c, heard) /\ CacheHoldsWhatWasHeard /\ c.host \in Hosts
      /\ check \in [Threads -> Check] /\ CacheP!IInv
  BY IInvFacts DEF IInv, AskCache, At, Sound
<1>2. /\ CacheP!IInv'
      /\ \A k \in Cache!Cached' : k \in Cache!Cached /\ entries'[k] = entries[k]
      /\ hit # Nothing => c.host \in Cache!Cached /\ hit = entries[c.host].value
  BY <1>1, GetKeeps DEF AskCache
<1>3. CacheHoldsWhatWasHeard' /\ (hit # Nothing => hit \in heard[c.host])
  BY <1>1, <1>2 DEF CacheHoldsWhatWasHeard, AskCache
<1>4. hit \in Answers \cup {Failed, Nothing} /\ clock' \in Int
  BY <1>2 DEF CacheP!IInv, CacheP!TypeOK
<1>5. Limiter!TypeOK'
  BY <1>4, LimiterLeft DEF AskCache, IInv
<1>6. /\ check' = [check EXCEPT ![t] = d] /\ d \in Check /\ Sound(d, heard')
  <2>0. heard' = heard
    BY DEF AskCache
  <2>1. CASE hit = Nothing /\ Goto(t, "limit", NoChange)
    <3>1. "limit" \in Stages /\ DOMAIN NoChange = {}
      BY DEF Stages, NoChange
    <3>2. /\ check' = [check EXCEPT ![t] = d]
          /\ d.stage = "limit"
          /\ d.host = c.host /\ d.policy = c.policy /\ d.options = c.options
          /\ d.deadline = c.deadline /\ d.attempt = c.attempt /\ d.until = c.until
          /\ d.last_error = c.last_error /\ d.got = c.got /\ d.asked = c.asked
          /\ d.paid = c.paid /\ d.result = c.result
          /\ d \in Check
      BY <1>1, <2>1, <3>1, MoveSpec DEF Check
    <3> HIDE DEF d
    <3>3. Sound(d, heard)
      BY <1>1, <3>2 DEF Sound
    <3> QED
      BY <2>0, <3>2, <3>3 DEF d
  <2>2. CASE hit = Failed /\ Return(t, Nothing, "resolution_failed")
    BY <2>0, <2>2, ReturnSound DEF Results, Errors
  <2>3. CASE hit \notin {Nothing, Failed} /\ Return(t, hit, Judge(c.policy, hit))
    <3>1. hit \in Answers /\ hit \in heard[c.host]
      BY <1>3, <1>4, <2>3
    <3>2. /\ Judge(c.policy, hit) \in Results
          /\ Judge(c.policy, hit) = "ok" <=> (hit # {} /\ hit \subseteq Permitted[c.policy])
      BY DEF Judge, Results
    <3> QED
      BY <2>0, <2>3, <3>1, <3>2, ReturnSound
  <2> QED
    BY <2>1, <2>2, <2>3 DEF AskCache
<1>7. /\ heard' = heard /\ begun' = begun /\ resets' = resets
  BY DEF AskCache
<1> QED
  BY <1>2, <1>3, <1>5, <1>6, <1>7, OwnStep DEF IInv

\* Past the limiter, a metered call has paid.
LEMMA AskLimiterIInv ==
  ASSUME IInv, NEW t \in Threads, AskLimiter(t)
  PROVE  IInv'
<1> DEFINE c == check[t]
           d == check'[t]
<1>1. /\ c \in Check /\ Sound(c, heard) /\ CacheHoldsWhatWasHeard /\ c.host \in Hosts
      /\ check \in [Threads -> Check] /\ Cache!Cached \subseteq Hosts /\ clock \in Int
      /\ c.stage = "limit"
  BY IInvFacts DEF IInv, AskLimiter, At, Sound
<1>2. Limiter!TypeOK' /\ clock' \in Int
  <2>1. CASE UNCHANGED <<clock, limiterVars>>
    BY <1>1, <2>1, LimiterLeft DEF IInv
  <2>2. CASE Limiter!IsAllowed(c.host)
    <3>1. Limiter!TypeOK'
      BY <1>1, <2>2, LimiterTypes DEF IInv
    <3> QED
      BY <3>1 DEF Limiter!TypeOK
  <2> QED
    BY <2>1, <2>2 DEF AskLimiter
<1>3. CacheP!IInv' /\ CacheHoldsWhatWasHeard'
  BY <1>1, <1>2, CacheLeft, HeldStays DEF AskLimiter, IInv
<1>4. /\ check' = [check EXCEPT ![t] = d] /\ d \in Check /\ Sound(d, heard)
  <2>1. CASE ~c.options.enforce /\ Goto(t, "start", NoChange)
    <3>1. "start" \in Stages /\ DOMAIN NoChange = {}
      BY DEF Stages, NoChange
    <3>2. /\ check' = [check EXCEPT ![t] = d] /\ d \in Check
          /\ d.stage = "start" /\ d.host = c.host /\ d.options = c.options
          /\ d.last_error = c.last_error /\ d.asked = c.asked /\ d.paid = c.paid
      BY <1>1, <2>1, <3>1, MoveSpec, SMTT(30) DEF Check
    <3> HIDE DEF d
    <3> QED
      BY <1>1, <2>1, <3>2 DEF Sound, d
  <2>2. CASE Goto(t, "start", [paid |-> TRUE])
    <3> DEFINE changes == [paid |-> TRUE]
    <3>1. "start" \in Stages /\ DOMAIN changes = {"paid"} /\ changes["paid"] = TRUE
      BY DEF Stages
    <3>2. Goto(t, "start", changes)
      BY <2>2
    <3> HIDE DEF changes
    <3>3. /\ check' = [check EXCEPT ![t] = d] /\ d \in Check
          /\ d.stage = "start" /\ d.host = c.host
          /\ d.last_error = c.last_error /\ d.paid = TRUE
      BY <1>1, <3>1, <3>2, MoveSpec DEF Check
    <3> HIDE DEF d
    <3> QED
      BY <1>1, <3>3 DEF Sound, d
  <2>3. CASE Goto(t, "refused", NoChange)
    <3>1. "refused" \in Stages /\ DOMAIN NoChange = {}
      BY DEF Stages, NoChange
    <3>2. /\ check' = [check EXCEPT ![t] = d] /\ d \in Check
          /\ d.stage = "refused" /\ d.host = c.host /\ d.options = c.options
          /\ d.last_error = c.last_error /\ d.asked = c.asked /\ d.paid = c.paid
      BY <1>1, <2>3, <3>1, MoveSpec DEF Check
    <3> HIDE DEF d
    <3> QED
      BY <1>1, <3>2 DEF Sound, d
  <2> QED
    BY <2>1, <2>2, <2>3 DEF AskLimiter
<1>5. /\ heard' = heard /\ begun' = begun /\ resets' = resets
  BY DEF AskLimiter
<1> QED
  BY <1>2, <1>3, <1>4, <1>5, OwnStep DEF IInv

\* A refusal passes no verdict on the host.
LEMMA RefuseIInv ==
  ASSUME IInv, NEW t \in Threads, Refuse(t)
  PROVE  IInv'
<1>1. CacheHoldsWhatWasHeard /\ Cache!Cached \subseteq Hosts
  BY IInvFacts
<1>2. Limiter!TypeOK'
  BY LimiterTypes DEF IInv, Refuse
<1>3. clock' \in Int
  BY <1>2 DEF Limiter!TypeOK
<1>4. CacheP!IInv' /\ CacheHoldsWhatWasHeard'
  BY <1>1, <1>3, CacheLeft, HeldStays DEF Refuse, IInv
<1>5. /\ check' = [check EXCEPT ![t] = check'[t]] /\ check'[t] \in Check
      /\ Sound(check'[t], heard')
  BY ReturnSound DEF Refuse, Results
<1>6. /\ heard' = heard /\ begun' = begun /\ resets' = resets
  BY DEF Refuse
<1> QED
  BY <1>2, <1>4, <1>5, <1>6, OwnStep DEF IInv

\* A step that leaves the limiter and the cache alone, but for the clock.
LEMMA AloneStep ==
  ASSUME IInv, NEW t \in Threads, clock' \in Int,
         UNCHANGED <<limiterVars, cacheVars, begun, resets>>,
         check' = [check EXCEPT ![t] = check'[t]],
         check'[t] \in Check, Sound(check'[t], heard'),
         heard' \in [Hosts -> SUBSET (Answers \cup {Failed})],
         \A h \in Hosts : heard[h] \subseteq heard'[h]
  PROVE  IInv'
<1>1. Limiter!TypeOK' /\ CacheP!IInv' /\ CacheHoldsWhatWasHeard'
  BY IInvFacts, LimiterLeft, CacheLeft, HeldStays DEF IInv
<1> QED
  BY <1>1, OwnStep DEF IInv

\* The deadline is set once, before the first attempt.
LEMMA SetDeadlineIInv ==
  ASSUME IInv, NEW t \in Threads, SetDeadline(t)
  PROVE  IInv'
<1> DEFINE c == check[t]
           d == check'[t]
<1>1. /\ c \in Check /\ Sound(c, heard) /\ check \in [Threads -> Check] /\ clock \in Int
      /\ c.options.budget \in Nat /\ c.stage = "start"
  BY IInvFacts DEF IInv, SetDeadline, At
<1>2. PICK now \in Cache!ReadingsAfter(clock) :
        clock' = now /\ Goto(t, "attempt", [deadline |-> now + c.options.budget])
  BY DEF SetDeadline
<1> DEFINE end == now + c.options.budget
           changes == [deadline |-> end]
<1>3. now \in Int /\ end \in Int
  BY <1>1, Constants
<1> HIDE DEF end
<1>4. /\ "attempt" \in Stages /\ DOMAIN changes = {"deadline"} /\ changes["deadline"] = end
      /\ Goto(t, "attempt", changes)
  BY <1>2 DEF Stages, end
<1> HIDE DEF changes
<1>5. /\ check' = [check EXCEPT ![t] = d] /\ d \in Check
      /\ d.stage = "attempt" /\ d.host = c.host /\ d.options = c.options
      /\ d.last_error = c.last_error /\ d.asked = c.asked /\ d.paid = c.paid
  BY <1>1, <1>3, <1>4, MoveSpec DEF Check
<1> HIDE DEF d
<1>6. Sound(d, heard)
  BY <1>1, <1>5 DEF Sound
<1> QED
  BY <1>2, <1>3, <1>5, <1>6, AloneStep DEF SetDeadline, IInv, d

\* An attempt gets no more time than is left to the deadline.
LEMMA AttemptIInv ==
  ASSUME IInv, NEW t \in Threads, Attempt(t)
  PROVE  IInv'
<1> DEFINE c == check[t]
           d == check'[t]
<1>1. /\ c \in Check /\ Sound(c, heard) /\ check \in [Threads -> Check] /\ clock \in Int
      /\ c.options.budget \in Nat /\ c.options.timeout \in Nat /\ c.stage = "attempt"
  BY IInvFacts DEF IInv, Attempt, At
<1> DEFINE Remaining(now) == Least(c.options.budget, c.deadline - now)
           error == IF c.last_error = "none" THEN "connection_failed" ELSE c.last_error
           Until(now) == now + AttemptTime(c.options, Remaining(now))
<1>2. PICK now \in Cache!ReadingsAfter(clock) :
        /\ clock' = now
        /\ IF Remaining(now) <= 0
           THEN Goto(t, "give_up", [last_error |-> error])
           ELSE Goto(t, "calling", [asked |-> TRUE, until |-> Until(now)])
  BY DEF Attempt
<1>3. now \in Int /\ c.deadline \in Int
  BY <1>1, Constants DEF Check
<1>4. CASE Goto(t, "give_up", [last_error |-> error])
  <2> DEFINE changes == [last_error |-> error]
  <2>1. error \in Errors
        /\ (error = "resolution_failed" => c.last_error = "resolution_failed")
    BY <1>1 DEF Check, Errors
  <2> HIDE DEF error
  <2>2. /\ "give_up" \in Stages /\ DOMAIN changes = {"last_error"}
        /\ changes["last_error"] = error /\ Goto(t, "give_up", changes)
    BY <1>4 DEF Stages
  <2> HIDE DEF changes
  <2>3. /\ check' = [check EXCEPT ![t] = d] /\ d \in Check
        /\ d.stage = "give_up" /\ d.host = c.host /\ d.options = c.options
        /\ d.last_error = error /\ d.asked = c.asked /\ d.paid = c.paid
    BY <1>1, <2>1, <2>2, MoveSpec DEF Check
  <2> HIDE DEF d
  <2>4. Sound(d, heard)
    BY <1>1, <2>1, <2>3 DEF Sound
  <2> QED
    BY <1>2, <1>3, <2>3, <2>4, AloneStep DEF Attempt, IInv, d
<1>5. CASE Goto(t, "calling", [asked |-> TRUE, until |-> Until(now)])
  <2> DEFINE end == Until(now)
             changes == [asked |-> TRUE, until |-> end]
  <2>1. end \in Int /\ end <= c.deadline
    BY <1>1, <1>3 DEF AttemptTime, Least
  <2> HIDE DEF end
  <2>2. /\ "calling" \in Stages /\ DOMAIN changes = {"asked", "until"}
        /\ changes["asked"] = TRUE /\ changes["until"] = end
        /\ Goto(t, "calling", changes)
    BY <1>5 DEF Stages, end
  <2> HIDE DEF changes
  <2>3. /\ check' = [check EXCEPT ![t] = d] /\ d \in Check
        /\ d.stage = "calling" /\ d.host = c.host /\ d.options = c.options
        /\ d.last_error = c.last_error /\ d.deadline = c.deadline /\ d.until = end
        /\ d.paid = c.paid
    BY <1>1, <2>1, <2>2, MoveSpec DEF Check
  <2> HIDE DEF d
  <2>4. Sound(d, heard)
    BY <1>1, <2>1, <2>3 DEF Sound
  <2> QED
    BY <1>2, <1>3, <2>3, <2>4, AloneStep DEF Attempt, IInv, d
<1> QED
  BY <1>2, <1>4, <1>5

\* An answer the thread is about to store was heard for its host.
LEMMA ResolverAnswersIInv ==
  ASSUME IInv, NEW t \in Threads, ResolverAnswers(t)
  PROVE  IInv'
<1> DEFINE c == check[t]
           d == check'[t]
<1>1. /\ c \in Check /\ Sound(c, heard) /\ check \in [Threads -> Check] /\ clock \in Int
      /\ c.stage = "calling" /\ c.host \in Hosts
      /\ heard \in [Hosts -> SUBSET (Answers \cup {Failed})]
  BY IInvFacts DEF IInv, ResolverAnswers, At, Sound
<1>2. PICK a \in Answers :
        /\ heard' = [heard EXCEPT ![c.host] = @ \cup {a}]
        /\ Goto(t, "keep", [got |-> a, until |-> 0])
  BY DEF ResolverAnswers
<1>3. /\ heard' \in [Hosts -> SUBSET (Answers \cup {Failed})] /\ a \in heard'[c.host]
      /\ \A h \in Hosts : heard[h] \subseteq heard'[h]
  BY <1>1, <1>2
<1> DEFINE changes == [got |-> a, until |-> 0]
<1>4. /\ "keep" \in Stages /\ DOMAIN changes = {"got", "until"}
      /\ changes["got"] = a /\ changes["until"] = 0
      /\ Goto(t, "keep", changes)
  BY <1>2 DEF Stages
<1> HIDE DEF changes
<1>5. /\ check' = [check EXCEPT ![t] = d] /\ d \in Check
      /\ d.stage = "keep" /\ d.host = c.host /\ d.options = c.options /\ d.got = a
      /\ d.last_error = c.last_error /\ d.asked = c.asked /\ d.paid = c.paid
  BY <1>1, <1>4, MoveSpec DEF Check
<1> HIDE DEF d
<1>6. Sound(d, heard')
  BY <1>1, <1>3, <1>5 DEF Sound
<1>7. clock' \in Int /\ UNCHANGED <<limiterVars, cacheVars, begun, resets>>
  BY <1>1 DEF ResolverAnswers
<1> QED
  BY <1>3, <1>5, <1>6, <1>7, AloneStep DEF d

\* After a failed attempt the call gives up, sleeps no longer than to its deadline, or
\* tries again.
LEMMA BackOffSound ==
  ASSUME IInv, NEW t \in Threads, At(t, "calling"), NEW now \in Int,
         NEW error \in {"resolution_failed", "connection_failed"}, BackOff(t, error, now),
         \A h \in Hosts : heard[h] \subseteq heard'[h],
         error = "resolution_failed" => Failed \in heard'[check[t].host]
  PROVE  /\ check' = [check EXCEPT ![t] = check'[t]]
         /\ check'[t] \in Check
         /\ Sound(check'[t], heard')
<1> DEFINE c == check[t]
           d == check'[t]
           room == IF c.deadline > now THEN c.deadline - now ELSE 0
<1>1. /\ c \in Check /\ Sound(c, heard) /\ check \in [Threads -> Check]
      /\ c.stage = "calling" /\ c.host \in Hosts /\ c.deadline \in Int /\ c.attempt \in Nat
  BY IInvFacts DEF IInv, At, Sound, Check
<1>2. error \in Errors /\ {"give_up", "sleeping", "attempt"} \subseteq Stages
  BY DEF Errors, Stages
<1>3. CASE Goto(t, "give_up", [last_error |-> error, until |-> 0])
  <2> DEFINE changes == [last_error |-> error, until |-> 0]
  <2>1. /\ DOMAIN changes = {"last_error", "until"}
        /\ changes["last_error"] = error /\ changes["until"] = 0
        /\ Goto(t, "give_up", changes)
    BY <1>3
  <2> HIDE DEF changes
  <2>2. /\ check' = [check EXCEPT ![t] = d] /\ d \in Check
        /\ d.stage = "give_up" /\ d.host = c.host /\ d.options = c.options
        /\ d.last_error = error /\ d.asked = c.asked /\ d.paid = c.paid
    BY <1>1, <1>2, <2>1, MoveSpec DEF Check
  <2> HIDE DEF d
  <2> QED
    BY <1>1, <2>2 DEF Sound, d
<1>4. ASSUME NEW backoff \in 0..MaxBackoff, NEW pause, pause = Least(backoff, room),
             Goto(t, IF pause > 0 THEN "sleeping" ELSE "attempt",
                  [last_error |-> error, attempt |-> c.attempt + 1,
                   until |-> IF pause > 0 THEN now + pause ELSE 0])
      PROVE  /\ check' = [check EXCEPT ![t] = d]
             /\ d \in Check
             /\ Sound(d, heard')
  <2> DEFINE stage == IF pause > 0 THEN "sleeping" ELSE "attempt"
             tried == c.attempt + 1
             end == IF pause > 0 THEN now + pause ELSE 0
             changes == [last_error |-> error, attempt |-> tried, until |-> end]
  <2>1. /\ stage \in {"sleeping", "attempt"} /\ tried \in Nat /\ end \in Int
        /\ stage = "sleeping" => end <= c.deadline
    BY <1>1, <1>4, CheckAssumption DEF Least, CheckAssumption
  <2> HIDE DEF stage, tried, end
  <2>2. /\ DOMAIN changes = {"last_error", "attempt", "until"} /\ changes["attempt"] = tried
        /\ changes["last_error"] = error /\ changes["until"] = end
        /\ Goto(t, stage, changes)
    BY <1>4 DEF stage, tried, end
  <2> HIDE DEF changes
  <2>3. /\ check' = [check EXCEPT ![t] = d] /\ d \in Check
        /\ d.stage = stage /\ d.host = c.host /\ d.options = c.options
        /\ d.last_error = error /\ d.asked = c.asked /\ d.paid = c.paid
        /\ d.until = end /\ d.deadline = c.deadline
    BY <1>1, <1>2, <2>1, <2>2, MoveSpec DEF Check
  <2> HIDE DEF d
  <2> QED
    BY <1>1, <2>1, <2>3 DEF Sound, d
<1> QED
  BY <1>3, <1>4 DEF BackOff

\* A refusal by the resolver is heard before it is carried as an error.
LEMMA ResolverRefusesIInv ==
  ASSUME IInv, NEW t \in Threads, ResolverRefuses(t)
  PROVE  IInv'
<1> DEFINE h == check[t].host
<1>1. /\ clock \in Int /\ At(t, "calling") /\ h \in Hosts
      /\ heard \in [Hosts -> SUBSET (Answers \cup {Failed})]
  BY IInvFacts DEF IInv, ResolverRefuses, At, Sound
<1>2. PICK now \in Cache!ReadingsAfter(clock) :
        clock' = now /\ BackOff(t, "resolution_failed", now)
  BY DEF ResolverRefuses
<1>3. now \in Int
  BY <1>1, Constants
<1>4. heard' = [heard EXCEPT ![h] = @ \cup {Failed}]
  BY DEF ResolverRefuses
<1>5. /\ heard' \in [Hosts -> SUBSET (Answers \cup {Failed})] /\ Failed \in heard'[h]
      /\ \A g \in Hosts : heard[g] \subseteq heard'[g]
  BY <1>1, <1>4
<1>6. /\ check' = [check EXCEPT ![t] = check'[t]]
      /\ check'[t] \in Check
      /\ Sound(check'[t], heard')
  BY <1>1, <1>2, <1>3, <1>5, BackOffSound
<1> QED
  BY <1>2, <1>3, <1>5, <1>6, AloneStep DEF ResolverRefuses

\* A timeout is carried as an error that is not stored.
LEMMA ResolverTimesOutIInv ==
  ASSUME IInv, NEW t \in Threads, ResolverTimesOut(t)
  PROVE  IInv'
<1>1. clock \in Int /\ At(t, "calling")
      /\ heard \in [Hosts -> SUBSET (Answers \cup {Failed})] /\ heard' = heard
  BY IInvFacts DEF IInv, ResolverTimesOut
<1>2. PICK now \in Cache!ReadingsAfter(clock) :
        clock' = now /\ BackOff(t, "connection_failed", now)
  BY DEF ResolverTimesOut
<1>3. now \in Int
  BY <1>1, Constants
<1>4. /\ check' = [check EXCEPT ![t] = check'[t]]
      /\ check'[t] \in Check
      /\ Sound(check'[t], heard')
  BY <1>1, <1>2, <1>3, BackOffSound
<1> QED
  BY <1>1, <1>2, <1>3, <1>4, AloneStep DEF ResolverTimesOut

\* A sleep ends.
LEMMA WakeIInv ==
  ASSUME IInv, NEW t \in Threads, Wake(t)
  PROVE  IInv'
<1> DEFINE c == check[t]
           d == check'[t]
           changes == [until |-> 0]
<1>1. /\ c \in Check /\ Sound(c, heard) /\ check \in [Threads -> Check] /\ clock \in Int
      /\ c.stage = "sleeping"
  BY IInvFacts DEF IInv, Wake, At
<1>2. clock' \in Int
  BY <1>1, Constants DEF Wake
<1>3. /\ "attempt" \in Stages /\ DOMAIN changes = {"until"} /\ changes["until"] = 0
      /\ Goto(t, "attempt", changes)
  BY DEF Stages, Wake
<1> HIDE DEF changes
<1>4. /\ check' = [check EXCEPT ![t] = d] /\ d \in Check
      /\ d.stage = "attempt" /\ d.host = c.host /\ d.options = c.options
      /\ d.last_error = c.last_error /\ d.asked = c.asked /\ d.paid = c.paid
  BY <1>1, <1>3, MoveSpec DEF Check
<1> HIDE DEF d
<1>5. Sound(d, heard)
  BY <1>1, <1>4 DEF Sound
<1> QED
  BY <1>2, <1>4, <1>5, AloneStep DEF Wake, IInv, d

\* Storing what was heard about a host keeps what is cached heard.
LEMMA StoreHeard ==
  ASSUME IInv, NEW h \in Hosts, NEW value \in heard[h], StoreAnswer(h, value),
         UNCHANGED <<limiterVars, heard>>
  PROVE  Limiter!TypeOK' /\ CacheP!IInv' /\ CacheHoldsWhatWasHeard'
<1>1. value \in Answers \cup {Failed}
  BY DEF IInv
<1>2. /\ CacheP!IInv'
      /\ \A k \in Cache!Cached' :
            \/ k \in Cache!Cached /\ entries'[k] = entries[k]
            \/ k = h /\ entries'[k].value = value
  BY <1>1, StoreKeeps DEF IInv
<1>3. CacheHoldsWhatWasHeard'
  BY <1>2, IInvFacts DEF CacheHoldsWhatWasHeard
<1>4. clock' \in Int
  BY <1>2 DEF CacheP!IInv, CacheP!TypeOK
<1> QED
  BY <1>2, <1>3, <1>4, LimiterLeft DEF IInv

\* What is stored, and judged by the own policy, is what was heard.
LEMMA KeepIInv ==
  ASSUME IInv, NEW t \in Threads, Keep(t)
  PROVE  IInv'
<1> DEFINE c == check[t]
<1>1. /\ c \in Check /\ Sound(c, heard) /\ c.stage = "keep"
  BY IInvFacts DEF Keep, At
<1>2. c.host \in Hosts /\ c.got \in heard[c.host] /\ c.got \in Answers
  BY <1>1 DEF Sound
<1>3. Limiter!TypeOK' /\ CacheP!IInv' /\ CacheHoldsWhatWasHeard'
  BY <1>2, StoreHeard DEF Keep
<1>4. /\ Judge(c.policy, c.got) \in Results
      /\ Judge(c.policy, c.got) = "ok" <=> (c.got # {} /\ c.got \subseteq Permitted[c.policy])
  BY DEF Judge, Results
<1>5. Return(t, c.got, Judge(c.policy, c.got)) /\ heard' = heard
  BY DEF Keep
<1>6. /\ check' = [check EXCEPT ![t] = check'[t]] /\ check'[t] \in Check
      /\ Sound(check'[t], heard')
  BY <1>2, <1>4, <1>5, ReturnSound
<1> QED
  BY <1>3, <1>6, OwnStep DEF Keep, IInv

\* Only a refusal that was heard is stored.
LEMMA GiveUpIInv ==
  ASSUME IInv, NEW t \in Threads, GiveUp(t)
  PROVE  IInv'
<1> DEFINE c == check[t]
<1>1. /\ c \in Check /\ Sound(c, heard) /\ c.stage = "give_up" /\ clock \in Int
  BY IInvFacts DEF GiveUp, At
<1>2. c.host \in Hosts /\ (c.last_error = "resolution_failed" => Failed \in heard[c.host])
  BY <1>1 DEF Sound
<1>3. Limiter!TypeOK' /\ CacheP!IInv' /\ CacheHoldsWhatWasHeard'
  <2>1. CASE c.last_error = "resolution_failed" /\ StoreAnswer(c.host, Failed)
    BY <1>2, <2>1, StoreHeard DEF GiveUp
  <2>2. CASE UNCHANGED <<clock, cacheVars>>
    BY <1>1, <2>2, IInvFacts, LimiterLeft, CacheLeft, HeldStays DEF GiveUp, IInv
  <2> QED
    BY <2>1, <2>2 DEF GiveUp
<1>4. c.last_error \in Results \ {"ok", "ssrf_risk"}
  BY <1>1 DEF Check, Errors, Results
<1>5. /\ check' = [check EXCEPT ![t] = check'[t]] /\ check'[t] \in Check
      /\ Sound(check'[t], heard')
  BY <1>4, ReturnSound DEF GiveUp
<1> QED
  BY <1>3, <1>5, OwnStep DEF GiveUp, IInv

-----------------------------------------------------------------------------
(* The resets, and every step together *)

\* A reset empties the limiter ...
LEMMA ResetLimiterIInv == ASSUME IInv, ResetLimiter PROVE IInv'
<1>1. Limiter!TypeOK'
  BY LimiterTypes DEF IInv, ResetLimiter
<1>2. clock' \in Int
  BY <1>1 DEF Limiter!TypeOK
<1>3. CacheP!IInv' /\ CacheHoldsWhatWasHeard'
  BY <1>2, IInvFacts, CacheLeft, HeldStays DEF IInv, ResetLimiter
<1>4. resets' \in 0..(2 * MaxResets)
  BY CheckAssumption DEF IInv, ResetLimiter, CheckAssumption
<1> QED
  BY <1>1, <1>3, <1>4 DEF IInv, ResetLimiter

\* ... and, in a second step, the cache.
LEMMA ResetCacheIInv == ASSUME IInv, ResetCache PROVE IInv'
<1>1. CacheP!IInv' /\ Cache!Cached' = {}
  BY CacheResets DEF IInv, ResetCache
<1>2. clock' \in Int
  BY <1>1 DEF CacheP!IInv, CacheP!TypeOK
<1>3. Limiter!TypeOK' /\ CacheHoldsWhatWasHeard'
  BY <1>1, <1>2, LimiterLeft DEF IInv, ResetCache, CacheHoldsWhatWasHeard
<1>4. resets' \in 0..(2 * MaxResets)
  <2>1. resets # 2 * MaxResets
    BY CheckAssumption DEF ResetCache, CheckAssumption
  <2> QED
    BY <2>1, CheckAssumption DEF IInv, ResetCache, CheckAssumption
<1> QED
  BY <1>1, <1>3, <1>4 DEF IInv, ResetCache

\* No call has begun.
LEMMA InitIInv == Init => IInv
<1> SUFFICES ASSUME Init PROVE IInv
  OBVIOUS
<1>2. Limiter!TypeOK
  BY PartsAssumed, LimiterSame, LimiterP!InitType DEF Init
<1>3. CacheP!IInv /\ Cache!Cached = {}
  BY CacheSame, PartsAssumed, CacheP!InitIInv DEF Init, Cache!Init, Cache!Cached
<1>4. ASSUME NEW caller \in Callers
      PROVE  Idle(caller) \in Check /\ Sound(Idle(caller), heard)
  <2>1. caller.policy \in Policies /\ caller.options \in Options
    BY CheckAssumption DEF CheckAssumption
  <2>2. PICK zero \in Nat : zero = 0
    OBVIOUS
  <2>3. "idle" \in Stages /\ "none" \in Errors /\ "unknown" \in Results
    BY DEF Stages, Errors, Results
  <2>4. Idle(caller) = [stage |-> "idle", host |-> Blank, policy |-> caller.policy,
            options |-> caller.options, deadline |-> zero, attempt |-> zero, until |-> zero,
            last_error |-> "none", got |-> Nothing, asked |-> FALSE, paid |-> FALSE,
            result |-> "unknown"]
    BY <2>2 DEF Idle
  <2>5. Idle(caller) \in Check
    BY <2>1, <2>3, <2>4 DEF Check
  <2>6. Sound(Idle(caller), heard)
    BY DEF Sound, Idle
  <2> QED
    BY <2>5, <2>6
<1>5. check \in [Threads -> Check] /\ \A t \in Threads : Sound(check[t], heard)
  <2>1. check \in [Threads -> {Idle(caller) : caller \in Callers}]
    BY DEF Init
  <2> QED
    BY <1>4, <2>1
<1>6. /\ begun \in 0..MaxChecks /\ resets \in 0..(2 * MaxResets)
      /\ heard \in [Hosts -> SUBSET (Answers \cup {Failed})]
  BY CheckAssumption DEF Init, CheckAssumption
<1> QED
  BY <1>2, <1>3, <1>5, <1>6 DEF IInv, CacheHoldsWhatWasHeard

\* Every step keeps the invariant.
LEMMA NextIInv == IInv /\ [Next]_vars => IInv'
<1> SUFFICES ASSUME IInv, [Next]_vars PROVE IInv'
  OBVIOUS
<1>1. ASSUME NEW t \in Threads, Proceed(t) PROVE IInv'
  BY <1>1, AskCacheIInv, AskLimiterIInv, RefuseIInv, SetDeadlineIInv, AttemptIInv,
     ResolverAnswersIInv, ResolverRefusesIInv, ResolverTimesOutIInv, WakeIInv, KeepIInv,
     GiveUpIInv DEF Proceed
<1>2. CASE UNCHANGED vars
  <2>1. /\ UNCHANGED <<clock, limiterVars, cacheVars, check, begun, resets, heard>>
    BY <1>2 DEF vars, checkVars
  <2> QED
    BY <2>1, IInvFacts, LimiterLeft, CacheLeft, HeldStays DEF IInv
<1> QED
  BY <1>1, <1>2, BeginIInv, ResetLimiterIInv, ResetCacheIInv DEF Next

\* So it holds throughout.
LEMMA Invariance == Spec => []IInv
  BY InitIInv, NextIInv, PTL DEF Spec

-----------------------------------------------------------------------------
(* The theorems *)

\* The type invariant of the checks together with the limiter and the cache they share.
THEOREM TypeCorrect == Spec => []TypeOK
<1>1. IInv => TypeOK
  BY CacheSame DEF IInv, TypeOK, CacheP!IInv
<1> QED
  BY <1>1, Invariance, PTL

\* A host is passed or rejected on what the resolver said about that host, by the address
\* rules of the caller's own policy (check_host_resolution, _check_resolved_ips_safe),
\* whichever thread's answer the shared cache held.
THEOREM VerdictIsOwnHolds == Spec => []VerdictIsOwn
<1>1. IInv => VerdictIsOwn
  <2> SUFFICES ASSUME IInv, NEW t \in Threads, At(t, "done"),
                      check[t].result \in {"ok", "ssrf_risk"}, check[t].host \in Hosts
               PROVE  /\ check[t].got \in heard[check[t].host]
                      /\ check[t].result = "ok" <=>
                            /\ check[t].got # {}
                            /\ \A a \in check[t].got : a \in Permitted[check[t].policy]
    BY DEF VerdictIsOwn
  <2>1. Sound(check[t], heard)
    BY DEF IInv
  <2> QED
    BY <2>1 DEF Sound, At
<1> QED
  BY <1>1, Invariance, PTL

\* The cache holds only what the resolver said about the host it is stored for: no timeout,
\* and no answer for another host (DNSResolutionCache.store, called at the two ends of the
\* loop of attempts).
THEOREM CacheHoldsWhatWasHeardHolds == Spec => []CacheHoldsWhatWasHeard
<1>1. IInv => CacheHoldsWhatWasHeard
  BY DEF IInv
<1> QED
  BY <1>1, Invariance, PTL

\* A metered check reaches the resolver only after is_allowed granted it a lookup.
THEOREM EveryLookupPaidHolds == Spec => []EveryLookupPaid
<1>1. IInv => EveryLookupPaid
  BY DEF IInv, Sound, EveryLookupPaid
<1> QED
  BY <1>1, Invariance, PTL

\* No attempt and no backoff of _resolve_host_address_info is given time beyond the
\* check's deadline, however the clock jumps between the readings.
THEOREM WithinDeadlineHolds == Spec => []WithinDeadline
<1>1. IInv => WithinDeadline
  BY DEF IInv, Sound, WithinDeadline
<1> QED
  BY <1>1, Invariance, PTL

-----------------------------------------------------------------------------
(* The limiter's promises, kept in company *)

\* What the limiter's own proofs show to hold between its steps.
LimitInv ==
    /\ LimiterP!BucketInv
    /\ LimiterP!RateBound
    /\ LimiterP!DequeInv
    /\ LimiterP!HostWindowBound

\* A reading under a monotone clock is not before the last one.
LEMMA LaterReadings ==
  ASSUME MaxStepBack = 0, clock \in Int
  PROVE  \A now \in Cache!ReadingsAfter(clock) : now \in Int /\ clock <= now
BY PartsAssumption DEF Limiter!LimiterAssumption, Cache!ReadingsAfter

\* The limiter's promises do not depend on what the other parts do while time passes.
LEMMA LimitsLapse ==
  ASSUME Limiter!TypeOK, Limiter!TypeOK', LimitInv, UNCHANGED limiterVars, clock <= clock'
  PROVE  LimitInv'
<1>1. LimiterP!TypeOK /\ LimiterP!TypeOK'
  BY LimiterSame, PTL
<1>2. LimiterP!DequeInv' /\ LimiterP!HostWindowBound'
  BY <1>1, PartsAssumed, LimiterP!LapseWindow DEF LimitInv, limiterVars
<1>3. clock \in Int /\ clock' \in Int /\ last_update \in Int
  BY <1>1 DEF LimiterP!TypeOK
<1>4. LimiterP!BucketInv' /\ LimiterP!RateBound'
  BY <1>3 DEF LimitInv, limiterVars, LimiterP!BucketInv, LimiterP!RateBound, LimiterP!Capacity
<1> QED
  BY <1>2, <1>4 DEF LimitInv

\* Each method of the limiter keeps them.
LEMMA LimitsStep ==
  ASSUME MaxStepBack = 0, Limiter!TypeOK, Limiter!TypeOK', LimitInv,
         \/ \E h \in Hosts : Limiter!IsAllowed(h)
         \/ Limiter!RetryAfter
         \/ Limiter!Reset
  PROVE  LimitInv'
<1>1. LimiterP!TypeOK /\ LimiterP!TypeOK'
  BY LimiterSame, PTL
<1>2. \/ \E h \in Hosts : LimiterP!IsAllowed(h)
      \/ LimiterP!RetryAfter
      \/ LimiterP!Reset
  BY LimiterSame
<1>3. LimiterP!BucketInv' /\ LimiterP!RateBound'
  BY <1>1, <1>2, PartsAssumed, LimiterP!IsAllowedBucket, LimiterP!RetryAfterBucket,
     LimiterP!ResetBucket DEF LimitInv
<1>4. LimiterP!DequeInv' /\ LimiterP!HostWindowBound'
  BY <1>1, <1>2, PartsAssumed, LimiterP!IsAllowedWindow, LimiterP!RefillWindow,
     LimiterP!ResetWindow DEF LimitInv
<1> QED
  BY <1>3, <1>4 DEF LimitInv

\* The cache's clock goes forward too.
LEMMA CacheLater ==
  ASSUME MaxStepBack = 0, clock \in Int,
         \/ \E h \in Hosts : Cache!Get(h)
         \/ \E h \in Hosts, value \in Answers \cup {Failed} : StoreAnswer(h, value)
         \/ Cache!Reset
  PROVE  clock <= clock'
<1>1. ASSUME NEW h \in Hosts, Cache!Get(h) PROVE clock <= clock'
  BY <1>1, LaterReadings DEF Cache!Get, Cache!GetAbsent, Cache!GetExpired, Cache!GetFresh
<1>2. ASSUME NEW h \in Hosts, NEW value \in Answers \cup {Failed}, StoreAnswer(h, value)
      PROVE  clock <= clock'
  <2>1. ASSUME Cache!Store(h, value) PROVE clock' \in Cache!ReadingsAfter(clock)
    BY <2>1 DEF Cache!Store
  <2>2. ASSUME Cache!StoreNothing(value) PROVE clock' = clock
    BY <2>2 DEF Cache!StoreNothing, Cache!vars
  <2> QED
    BY <1>2, <2>1, <2>2, LaterReadings DEF StoreAnswer
<1> QED
  BY <1>1, <1>2 DEF Cache!Reset

\* Every step either is one method of the limiter or lets time pass.
LEMMA LimiterOrLapse ==
  ASSUME MaxStepBack = 0, IInv, [Next]_vars
  PROVE  \/ \E h \in Hosts : Limiter!IsAllowed(h)
         \/ Limiter!RetryAfter
         \/ Limiter!Reset
         \/ UNCHANGED limiterVars /\ clock <= clock'
<1>1. /\ clock \in Int
      /\ \A t \in Threads : /\ check[t] \in Check
                            /\ check[t].stage \notin {"idle", "done"} => check[t].host \in Hosts
                            /\ check[t].stage = "keep" => check[t].got \in Answers
  BY IInvFacts DEF Sound
<1>2. clock <= clock
  BY <1>1
<1>3. ASSUME NEW t \in Threads, AskCache(t) \/ Keep(t) \/ GiveUp(t)
      PROVE  UNCHANGED limiterVars /\ clock <= clock'
  <2>1. CASE AskCache(t)
    BY <1>1, <2>1, CacheLater DEF AskCache, At
  <2>2. CASE Keep(t)
    BY <1>1, <2>2, CacheLater DEF Keep, At
  <2>3. CASE GiveUp(t)
    BY <1>1, <1>2, <2>3, CacheLater DEF GiveUp, At
  <2> QED
    BY <1>3, <2>1, <2>2, <2>3
<1>4. ASSUME NEW t \in Threads, SetDeadline(t) \/ Attempt(t) \/ ResolverRefuses(t)
                                \/ ResolverTimesOut(t) \/ Wake(t)
      PROVE  UNCHANGED limiterVars /\ clock <= clock'
  BY <1>1, <1>4, LaterReadings DEF SetDeadline, Attempt, ResolverRefuses, ResolverTimesOut, Wake
<1>5. ASSUME NEW t \in Threads, ResolverAnswers(t)
      PROVE  UNCHANGED limiterVars /\ clock <= clock'
  BY <1>2, <1>5 DEF ResolverAnswers
<1>6. ASSUME NEW t \in Threads, NEW h \in Hosts \cup Addresses \cup {Blank}, Begin(t, h)
      PROVE  UNCHANGED limiterVars /\ clock <= clock'
  BY <1>2, <1>6 DEF Begin
<1>7. ASSUME NEW t \in Threads, AskLimiter(t)
      PROVE  \/ \E h \in Hosts : Limiter!IsAllowed(h)
             \/ UNCHANGED limiterVars /\ clock <= clock'
  BY <1>1, <1>2, <1>7 DEF AskLimiter, At
<1>8. CASE ResetCache
  BY <1>1, <1>8, CacheLater DEF ResetCache
<1>9. CASE UNCHANGED vars
  BY <1>2, <1>9 DEF vars
<1> QED
  BY <1>3, <1>4, <1>5, <1>6, <1>7, <1>8, <1>9 DEF Next, Proceed, Refuse, ResetLimiter

\* Under a clock that never goes back, however many threads check at once and whatever they
\* do between two calls of it, the limiter they share keeps both its bounds: on the lookups
\* of one host in a window, and on all of them together.
THEOREM LimitsHold ==
  ASSUME MaxStepBack = 0
  PROVE  Spec => [](Limiter!HostWindowBound /\ Limiter!RateBound)
<1>1. Init => LimitInv
  <2> SUFFICES ASSUME Init PROVE LimitInv
    OBVIOUS
  <2>1. LimiterP!Init
    BY LimiterSame DEF Init
  <2> QED
    BY <2>1, PartsAssumed, LimiterP!InitBucket, LimiterP!InitWindow DEF LimitInv
<1>2. IInv /\ IInv' /\ LimitInv /\ [Next]_vars => LimitInv'
  BY LimiterOrLapse, LimitsStep, LimitsLapse DEF IInv
<1>3. LimitInv => Limiter!HostWindowBound /\ Limiter!RateBound
  BY DEF LimitInv, Limiter!HostWindowBound, LimiterP!HostWindowBound, Limiter!RateBound,
         LimiterP!RateBound, Limiter!Capacity, LimiterP!Capacity
<1> QED
  BY <1>1, <1>2, <1>3, Invariance, PTL DEF Spec
=============================================================================
