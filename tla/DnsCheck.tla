------------------------------- MODULE DnsCheck -------------------------------
(***************************************************************************)
(* urlps._security.dns_guard.check_host_resolution, run by several threads *)
(* that share one resolution cache and one rate limiter (the process-wide  *)
(* ones, or one injected SecurityServices).  A check takes the cache's and *)
(* the limiter's locks for single calls only, so another thread may run,   *)
(* and the clocks may move, between any two of its steps.  The resolver is *)
(* the environment: it answers any of Answers, fails, or times out.  The   *)
(* limiter's, the cache's and the deadline's time providers are one clock  *)
(* here, and hosts are as _validate_host leaves them.                      *)
(***************************************************************************)
EXTENDS Integers, Sequences, FiniteSets

CONSTANTS
    Threads,
    Policies,         \* the callers' policies ...
    Permitted,        \* ... and the addresses each one's ip_filter accepts
    Options,          \* DNSCheckOptions: [timeout, attempts, budget, enforce]
    Callers,          \* the policy and options a thread may call with
    Addresses,        \* addresses; one no filter accepts stands for an unparseable one
    Answers,          \* sets of addresses the resolver may return, {} among them
    MaxBackoff,       \* bound: the longest sleep between two attempts
    MaxChecks,        \* bound: checks begun
    MaxResets,        \* bound: calls of reset_dns_rate_limiter
    \* DnsRateLimiter's and DnsResolutionCache's constants
    Hosts, Blank, Failed, Nothing, RefillPerTick, TicksPerSecond, LookupCost, MaxPerHost,
    Window, CleanupInterval, MaxStepBack, MaxLag, Horizon, MaxRecorded, MaxHosts, MaxTtl

ASSUME CheckAssumption ==
    /\ Permitted \in [Policies -> SUBSET Addresses]
    /\ Options \subseteq [timeout : Nat, attempts : Nat \ {0}, budget : Nat, enforce : BOOLEAN]
    /\ Callers \subseteq [policy : Policies, options : Options]
    /\ Answers \subseteq SUBSET Addresses
    /\ MaxBackoff \in Nat
    /\ MaxChecks \in Nat
    /\ MaxResets \in Nat
    /\ Hosts \cap Addresses = {}

VARIABLES
    clock,                                         \* shared with both components
    tokens, last_update, host_lookups, tracked,    \* DnsRateLimiter
    last_cleanup, answer, history, charges,
    ttl, order, entries, reply, stored, since,     \* DnsResolutionCache
    check,    \* per thread, the locals of its call of check_host_resolution
    begun,    \* how many checks have begun
    resets,   \* half steps of reset_dns_rate_limiter taken
    heard     \* history variable: what the resolver said, per host

limiterVars == <<tokens, last_update, host_lookups, tracked, last_cleanup, answer,
                 history, charges>>
cacheVars == <<ttl, order, entries, reply, stored, since>>
checkVars == <<check, begun, resets, heard>>
vars == <<clock, limiterVars, cacheVars, checkVars>>

Limiter == INSTANCE DnsRateLimiter
Cache == INSTANCE DnsResolutionCache

ASSUME PartsAssumption == Limiter!LimiterAssumption /\ Cache!CacheAssumption

Stages == {"idle", "cache", "limit", "refused", "start", "attempt", "calling", "sleeping",
           "keep", "give_up", "done"}
Errors == {"none", "resolution_failed", "connection_failed"}
Results == Errors \cup {"unknown", "ok", "ssrf_risk", "rate_limited"}

Check == [stage : Stages, host : Hosts \cup Addresses \cup {Blank}, policy : Policies,
          options : Options, deadline : Int, attempt : Nat, until : Int,
          last_error : Errors, got : Answers \cup {Nothing}, asked : BOOLEAN, paid : BOOLEAN,
          result : Results]

TypeOK ==
    /\ Limiter!TypeOK
    /\ Cache!TypeOK
    /\ check \in [Threads -> Check]
    /\ begun \in 0..MaxChecks
    /\ resets \in 0..(2 * MaxResets)
    /\ heard \in [Hosts -> SUBSET (Answers \cup {Failed})]

-----------------------------------------------------------------------------
Least(a, b) == IF a < b THEN a ELSE b

\* Mutant: one acceptable address is enough.
JudgeAny(policy, addresses) ==
    IF addresses \cap Permitted[policy] # {} THEN "ok" ELSE "ssrf_risk"

\* _check_resolved_ips_safe: some address, and every one accepted by the policy's filter.
Judge(policy, addresses) ==
    IF addresses # {} /\ addresses \subseteq Permitted[policy] THEN "ok" ELSE "ssrf_risk"

At(t, stage) == check[t].stage = stage

\* The thread moves on, with these changes to its locals.
Goto(t, stage, changes) ==
    check' = [check EXCEPT ![t] = [x \in DOMAIN @ |->
                 IF x = "stage" THEN stage
                 ELSE IF x \in DOMAIN changes THEN changes[x] ELSE @[x]]]

\* The call returns: its locals are gone, but for what the properties look back at.
Return(t, addresses, result) ==
    Goto(t, "done", [deadline |-> 0, attempt |-> 0, until |-> 0, last_error |-> "none",
                     got |-> addresses, result |-> result])

NoChange == [x \in {} |-> 0]

Idle(caller) ==
    [stage |-> "idle", host |-> Blank, policy |-> caller.policy,
     options |-> caller.options, deadline |-> 0,
     attempt |-> 0, until |-> 0, last_error |-> "none", got |-> Nothing, asked |-> FALSE,
     paid |-> FALSE, result |-> "unknown"]

Init ==
    /\ Limiter!Init
    /\ Cache!Init
    /\ check \in [Threads -> {Idle(caller) : caller \in Callers}]
    /\ begun = 0
    /\ resets = 0
    /\ heard = [h \in Hosts |-> {}]

\* A call with a host, and what the arguments alone decide: a blank host, a timeout that is
\* not positive, an IP literal.
Begin(t, h) ==
    /\ check[t].stage \in {"idle", "done"}
    /\ begun < MaxChecks
    /\ begun' = begun + 1
    /\ LET p == check[t].policy
           o == check[t].options
           early == CASE h = Blank -> "resolution_failed"
                      [] h # Blank /\ o.timeout = 0 -> "connection_failed"
                      [] h \in Addresses /\ o.timeout > 0 -> Judge(p, {h})
                      [] OTHER -> "unknown"
       IN  check' = [check EXCEPT ![t] =
               [Idle(check[t]) EXCEPT !.host = h, !.result = early,
                                  !.stage = IF early = "unknown" THEN "cache" ELSE "done"]]
    /\ UNCHANGED <<clock, limiterVars, cacheVars, resets, heard>>

\* effective_cache.get; a hit is judged by this check's own policy.
AskCache(t) ==
    /\ At(t, "cache")
    /\ Cache!Get(check[t].host)
    /\ LET hit == reply'.value
       IN  \/ hit = Nothing /\ Goto(t, "limit", NoChange)
           \/ hit = Failed /\ Return(t, Nothing, "resolution_failed")
           \/ /\ hit \notin {Nothing, Failed}
              /\ Return(t, hit, Judge(check[t].policy, hit))
    /\ UNCHANGED <<limiterVars, begun, resets, heard>>

\* Mutant: the verdict of is_allowed is not looked at.
AskLimiterIgnoring(t) ==
    /\ At(t, "limit")
    /\ Limiter!IsAllowed(check[t].host)
    /\ Goto(t, "start", [paid |-> answer'.verdict = "granted"])
    /\ UNCHANGED <<cacheVars, begun, resets, heard>>

\* is_allowed, unless the options say not to.
AskLimiter(t) ==
    /\ At(t, "limit")
    /\ \/ /\ ~check[t].options.enforce
          /\ Goto(t, "start", NoChange)
          /\ UNCHANGED <<clock, limiterVars>>
       \/ /\ check[t].options.enforce
          /\ Limiter!IsAllowed(check[t].host)
          /\ IF answer'.verdict = "granted"
             THEN Goto(t, "start", [paid |-> TRUE])
             ELSE Goto(t, "refused", NoChange)
    /\ UNCHANGED <<cacheVars, begun, resets, heard>>

\* The refusal asks the limiter a second time, for retry_after.
Refuse(t) ==
    /\ At(t, "refused")
    /\ Limiter!RetryAfter
    /\ Return(t, Nothing, "rate_limited")
    /\ UNCHANGED <<cacheVars, begun, resets, heard>>

SetDeadline(t) ==
    /\ At(t, "start")
    /\ \E now \in Cache!ReadingsAfter(clock) :
           /\ clock' = now
           /\ Goto(t, "attempt", [deadline |-> now + check[t].options.budget])
    /\ UNCHANGED <<limiterVars, cacheVars, begun, resets, heard>>

\* Mutant: an attempt gets the configured timeout, however little time is left.
AttemptTimeout(o, remaining) == o.timeout

\* How long one attempt may take.
AttemptTime(o, remaining) == Least(o.timeout, remaining)

\* One turn of the loop up to the resolver call, with what is left of the budget.
Attempt(t) ==
    /\ At(t, "attempt")
    /\ \E now \in Cache!ReadingsAfter(clock) :
           LET c == check[t]
               remaining == Least(c.options.budget, c.deadline - now)
           IN  /\ clock' = now
               /\ IF remaining <= 0
                  THEN Goto(t, "give_up",
                            [last_error |-> IF c.last_error = "none" THEN "connection_failed"
                                            ELSE c.last_error])
                  ELSE Goto(t, "calling", [asked |-> TRUE,
                                           until |-> now + AttemptTime(c.options, remaining)])
    /\ UNCHANGED <<limiterVars, cacheVars, begun, resets, heard>>

ResolverAnswers(t) ==
    /\ At(t, "calling")
    /\ \E a \in Answers :
           /\ heard' = [heard EXCEPT ![check[t].host] = @ \cup {a}]
           /\ Goto(t, "keep", [got |-> a, until |-> 0])
    /\ UNCHANGED <<clock, limiterVars, cacheVars, begun, resets>>

\* Mutant: a failed attempt is not counted, only the deadline ends the loop.
BackOffUncounted(t, error, now) == Goto(t, "attempt", [last_error |-> error, until |-> 0])

\* After a failed attempt: the backoff reads the clock again and sleeps no longer than
\* what is left, or the attempts are used up.
BackOff(t, error, now) ==
    LET c == check[t]
    IN  IF c.attempt + 1 >= c.options.attempts
        THEN Goto(t, "give_up", [last_error |-> error, until |-> 0])
        ELSE \E backoff \in 0..MaxBackoff :
                 LET pause == Least(backoff, IF c.deadline > now THEN c.deadline - now ELSE 0)
                 IN  Goto(t, IF pause > 0 THEN "sleeping" ELSE "attempt",
                          [last_error |-> error, attempt |-> c.attempt + 1,
                           until |-> IF pause > 0 THEN now + pause ELSE 0])

\* gaierror, and the UnicodeError of a name IDNA cannot encode.
ResolverRefuses(t) ==
    /\ At(t, "calling")
    /\ heard' = [heard EXCEPT ![check[t].host] = @ \cup {Failed}]
    /\ \E now \in Cache!ReadingsAfter(clock) :
           clock' = now /\ BackOff(t, "resolution_failed", now)
    /\ UNCHANGED <<limiterVars, cacheVars, begun, resets>>

\* The attempt's timeout, or an OSError before it.
ResolverTimesOut(t) ==
    /\ At(t, "calling")
    /\ \E now \in Cache!ReadingsAfter(clock) :
           clock' = now /\ BackOff(t, "connection_failed", now)
    /\ UNCHANGED <<limiterVars, cacheVars, begun, resets, heard>>

\* A sleep ends; the last instant of the model stands for every later one.
Wake(t) ==
    /\ At(t, "sleeping")
    /\ \E now \in Cache!ReadingsAfter(clock) :
           /\ now >= Least(check[t].until, Horizon)
           /\ clock' = now
    /\ Goto(t, "attempt", [until |-> 0])
    /\ UNCHANGED <<limiterVars, cacheVars, begun, resets, heard>>

\* Mutant: the answer is stored for whichever host the cache was last asked about.
StoreForLastAsked(h, value) ==
    Cache!Store(reply.key, value) \/ Cache!StoreNothing(value)

StoreAnswer(h, value) ==
    Cache!Store(h, value) \/ Cache!StoreNothing(value)

\* A resolution succeeded: it is stored, then judged.
Keep(t) ==
    /\ At(t, "keep")
    /\ StoreAnswer(check[t].host, check[t].got)
    /\ Return(t, check[t].got, Judge(check[t].policy, check[t].got))
    /\ UNCHANGED <<limiterVars, begun, resets, heard>>

\* Mutant: a timeout is remembered like a name that does not exist.
GiveUpStoringAll(t) ==
    /\ At(t, "give_up")
    /\ StoreAnswer(check[t].host, Failed)
    /\ Return(t, Nothing, check[t].last_error)
    /\ UNCHANGED <<limiterVars, begun, resets, heard>>

\* No attempt succeeded; only a failed resolution is remembered.
GiveUp(t) ==
    /\ At(t, "give_up")
    /\ \/ /\ check[t].last_error = "resolution_failed"
          /\ StoreAnswer(check[t].host, Failed)
       \/ /\ check[t].last_error # "resolution_failed"
          /\ UNCHANGED <<clock, cacheVars>>
    /\ Return(t, Nothing, check[t].last_error)
    /\ UNCHANGED <<limiterVars, begun, resets, heard>>

\* reset_dns_rate_limiter: the limiter first, then the cache, under separate locks.
ResetLimiter ==
    /\ resets % 2 = 0 /\ resets < 2 * MaxResets
    /\ resets' = resets + 1
    /\ Limiter!Reset
    /\ UNCHANGED <<cacheVars, check, begun, heard>>

ResetCache ==
    /\ resets % 2 = 1
    /\ resets' = resets + 1
    /\ Cache!Reset
    /\ UNCHANGED <<limiterVars, check, begun, heard>>

Proceed(t) ==
    \/ AskCache(t) \/ AskLimiter(t) \/ Refuse(t) \/ SetDeadline(t) \/ Attempt(t)
    \/ ResolverAnswers(t) \/ ResolverRefuses(t) \/ ResolverTimesOut(t)
    \/ Wake(t) \/ Keep(t) \/ GiveUp(t)

Next ==
    \/ \E t \in Threads : Proceed(t) \/ (\E h \in Hosts \cup Addresses \cup {Blank} : Begin(t, h))
    \/ ResetLimiter \/ ResetCache

\* A thread inside the call is scheduled in the end, a resolver call ends within its
\* timeout (_resolve_addr_info abandons it then), a sleep ends.  Nothing makes a caller
\* begin a check.
Spec == Init /\ [][Next]_vars /\ \A t \in Threads : WF_vars(Proceed(t))

-----------------------------------------------------------------------------
(* Properties *)

\* A host is passed or rejected on what the resolver really said about that very host, to
\* this check or to another whose answer the shared cache still held, and by the address
\* rules of the caller's own policy: a cached answer carries no verdict of another policy.
VerdictIsOwn ==
    \A t \in Threads :
        LET c == check[t]
        IN  At(t, "done") /\ c.result \in {"ok", "ssrf_risk"} /\ c.host \in Hosts =>
                /\ c.got \in heard[c.host]
                /\ c.result = "ok" <=> (c.got # {} /\ \A a \in c.got : a \in Permitted[c.policy])

\* The cache holds only what the resolver said about the host it is stored for; a timeout
\* or a connection error, which the next attempt may well cure, is never remembered.
CacheHoldsWhatWasHeard ==
    \A h \in Cache!Cached : entries[h].value \in heard[h]

\* A metered check reaches the resolver only after the limiter granted that very check a
\* lookup, however many other checks took the last token in between.
EveryLookupPaid ==
    \A t \in Threads :
        check[t].asked /\ check[t].options.enforce => check[t].paid

\* All attempts and backoff of a check together end by its deadline: no call of the resolver
\* is allowed to run, and no sleep to last, beyond it.
WithinDeadline ==
    \A t \in Threads :
        check[t].stage \in {"calling", "sleeping"} => check[t].until <= check[t].deadline

\* Every check returns, whatever the resolver and the other threads do, and even if the
\* clock stands still: the attempts are counted, the deadline is not needed for that.
Terminates ==
    \A t \in Threads : At(t, "cache") ~> At(t, "done")

\* "Only lookups that actually reach the resolver are charged" (DNSRateLimiter).
OnlyRealLookupsCharged ==
    \A t \in Threads : At(t, "done") /\ check[t].paid => check[t].asked
=============================================================================
