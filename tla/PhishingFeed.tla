----------------------------- MODULE PhishingFeed -----------------------------
(***************************************************************************)
(* urlps._security.phishing_db.PhishingDatabaseManager, called by several  *)
(* threads.  The database is an immutable record behind one reference,     *)
(* _db; a lazy check downloads under _refresh_lock, while refresh() and    *)
(* clear() called by the application take no lock at all.  Every read of   *)
(* _db is a step of its own: a method reads the reference once per field,  *)
(* and another thread may replace the record in between.                   *)
(*                                                                         *)
(* Left out: error_count and last_error, which only info() reports, and    *)
(* the text of a feed, which is the set of names it lists.                 *)
(***************************************************************************)
EXTENDS Integers

CONSTANTS
    Threads,
    Nobody,          \* the lock is free
    Hosts,           \* hosts callers ask about
    Names,           \* names a feed may list
    Covering,        \* per host, the names that list it: itself and its parent domains
    Feeds,           \* the feeds a download may bring
    Never,           \* the None of a time that was not stamped
    RefreshSeconds,  \* refresh_seconds
    Cooldown,        \* retry_cooldown_seconds
    MaxStepBack,     \* how far one reading of the wall clock may lie behind the last
    Horizon,         \* bound: no reading is later than this
    MaxCalls         \* bound: calls begun

ASSUME FeedAssumption ==
    /\ Nobody \notin Threads
    /\ Covering \in [Hosts -> SUBSET Names]
    /\ Feeds \subseteq SUBSET Names
    /\ Never \notin Int
    /\ RefreshSeconds \in Nat
    /\ Cooldown \in Nat
    /\ MaxStepBack \in Nat
    /\ Horizon \in Nat
    /\ MaxCalls \in Nat

VARIABLES
    clock,         \* the last value the wall clock returned
    db,            \* _db
    refresh_lock,  \* the thread that holds _refresh_lock
    call,          \* per thread, the locals of its call
    begun,         \* how many calls have begun
    undisturbed,   \* history variable: only lazy checks so far, and none of them raised
    last_end       \* history variable: when the last lazy download ended

vars == <<clock, db, refresh_lock, call, begun, undisturbed, last_end>>

Time == Int \cup {Never}

Database == [hostnames : SUBSET Names, last_refresh : Time, last_success : Time]

Critical == {"cooling", "empty", "aged", "fetching", "failing", "installing"}
Stages == Critical \cup {"idle", "queued", "matching", "available", "done"}
Verdicts == {"none", "listed", "absent", "unchecked", "raised"}

Call == [stage : Stages, op : {"none", "check", "lookup", "refresh"}, host : Hosts, now : Int,
         built : Database, brought : BOOLEAN, matched : SUBSET Names, verdict : Verdicts]

\* The lock is held only by a thread between its second look and the end of its download.
TypeOK ==
    /\ clock \in Int
    /\ db \in Database
    /\ refresh_lock \in Threads \cup {Nobody}
    /\ refresh_lock \in Threads => call[refresh_lock].stage \in Critical
    /\ call \in [Threads -> Call]
    /\ begun \in 0..MaxCalls
    /\ undisturbed \in BOOLEAN
    /\ last_end \in Time

-----------------------------------------------------------------------------
Empty == [hostnames |-> {}, last_refresh |-> Never, last_success |-> Never]

ReadingsAfter(t) == (t - MaxStepBack)..Horizon

At(t, stage) == call[t].stage = stage

Goto(t, stage) == call' = [call EXCEPT ![t].stage = stage]

Release(t) == refresh_lock' = IF refresh_lock = t THEN Nobody ELSE refresh_lock

\* _matches: the host or one of its parent domains is listed (an IP only itself).
Matches(h, hostnames) == Covering[h] \cap hostnames # {}

Idle(h) ==
    [stage |-> "idle", op |-> "none", host |-> h, now |-> 0, built |-> Empty,
     brought |-> FALSE, matched |-> {}, verdict |-> "none"]

Init ==
    /\ clock = 0
    /\ db = Empty
    /\ refresh_lock = Nobody
    /\ call \in [Threads -> {Idle(h) : h \in Hosts}]
    /\ begun = 0
    /\ undisturbed = TRUE
    /\ last_end = Never

\* check, lookup (or check_against_phishing_db_detailed) or refresh is called; a host that
\* is not a string or has no name left is answered before anything is read.
Begin(t, op, h) ==
    /\ call[t].stage \in {"idle", "done"}
    /\ begun < MaxCalls
    /\ begun' = begun + 1
    /\ call' = [call EXCEPT ![t] =
                   [Idle(h) EXCEPT !.op = op,
                                   !.stage = IF op = "refresh" THEN "fetching" ELSE "cooling"]]
    /\ undisturbed' = (undisturbed /\ op # "refresh")
    /\ UNCHANGED <<clock, db, refresh_lock, last_end>>

\* What check does with the answer of _should_attempt_refresh, without and with the lock.
Decide(t, attempt) ==
    \/ /\ refresh_lock # t
       /\ Goto(t, IF attempt THEN "queued" ELSE "matching")
       /\ UNCHANGED refresh_lock
    \/ /\ refresh_lock = t
       /\ Goto(t, IF attempt THEN "fetching" ELSE "matching")
       /\ IF attempt THEN UNCHANGED refresh_lock ELSE Release(t)

\* _should_attempt_refresh, first part: never within the cooldown of the last attempt.
AskCooldown(t) ==
    /\ At(t, "cooling")
    /\ \E now \in ReadingsAfter(clock) :
           /\ clock' = now
           /\ \/ /\ db.last_refresh # Never /\ now - db.last_refresh < Cooldown
                 /\ call' = [call EXCEPT ![t].now = now, ![t].stage = "matching"]
                 /\ Release(t)
              \/ /\ db.last_refresh # Never => now - db.last_refresh >= Cooldown
                 /\ call' = [call EXCEPT ![t].now = now, ![t].stage = "empty"]
                 /\ UNCHANGED refresh_lock
    /\ UNCHANGED <<db, begun, undisturbed, last_end>>

\* Second part: an empty list is always worth an attempt.
AskEmpty(t) ==
    /\ At(t, "empty")
    /\ \/ db.hostnames = {} /\ Decide(t, TRUE)
       \/ db.hostnames # {} /\ Goto(t, "aged") /\ UNCHANGED refresh_lock
    /\ UNCHANGED <<clock, db, begun, undisturbed, last_end>>

\* Mutant: the age of the list is counted from the last attempt, successful or not.
AskAgeOfAttempt(t) ==
    /\ At(t, "aged")
    /\ Decide(t, db.last_refresh = Never \/ call[t].now - db.last_refresh >= RefreshSeconds)
    /\ UNCHANGED <<clock, db, begun, undisturbed, last_end>>

\* Last part: a list older than refresh_seconds is.
AskAge(t) ==
    /\ At(t, "aged")
    /\ Decide(t, db.last_success = Never \/ call[t].now - db.last_success >= RefreshSeconds)
    /\ UNCHANGED <<clock, db, begun, undisturbed, last_end>>

\* Mutant: whoever gets the lock downloads, without a second look.
AcquireAndFetch(t) ==
    /\ At(t, "queued")
    /\ refresh_lock = Nobody
    /\ refresh_lock' = t
    /\ Goto(t, "fetching")
    /\ UNCHANGED <<clock, db, begun, undisturbed, last_end>>

\* With the lock, _should_attempt_refresh is asked again.
Acquire(t) ==
    /\ At(t, "queued")
    /\ refresh_lock = Nobody
    /\ refresh_lock' = t
    /\ Goto(t, "cooling")
    /\ UNCHANGED <<clock, db, begun, undisturbed, last_end>>

\* The end of a download, at the time its record is stamped with.
Ended(t, now) ==
    /\ clock' = now
    /\ last_end' = IF refresh_lock = t THEN now ELSE last_end
    /\ UNCHANGED <<db, refresh_lock, begun, undisturbed>>

FetchSucceeds(t) ==
    /\ At(t, "fetching")
    /\ \E feed \in Feeds, now \in ReadingsAfter(clock) :
           /\ call' = [call EXCEPT ![t].stage = "installing", ![t].brought = TRUE,
                                   ![t].built = [hostnames |-> feed, last_refresh |-> now,
                                                 last_success |-> now]]
           /\ Ended(t, now)

\* Mutant: a failed download leaves nothing loaded.
FetchFailsEmpty(t) ==
    /\ At(t, "fetching")
    /\ \E now \in ReadingsAfter(clock) :
           /\ call' = [call EXCEPT ![t].stage = "failing",
                                   ![t].built = [Empty EXCEPT !.last_refresh = now]]
           /\ Ended(t, now)

\* A refused, oversized, mismatched or broken download: _failed copies the list there is ...
FetchFails(t) ==
    /\ At(t, "fetching")
    /\ \E now \in ReadingsAfter(clock) :
           /\ call' = [call EXCEPT ![t].stage = "failing",
                                   ![t].built = [Empty EXCEPT !.hostnames = db.hostnames,
                                                              !.last_refresh = now]]
           /\ Ended(t, now)

\* ... and then the time of the last success.
CopyLastSuccess(t) ==
    /\ At(t, "failing")
    /\ call' = [call EXCEPT ![t].stage = "installing", ![t].built.last_success = db.last_success]
    /\ UNCHANGED <<clock, db, refresh_lock, begun, undisturbed, last_end>>

\* Mutant: the lock is not released when the download raises.
FetchRaisesLocked(t) ==
    /\ At(t, "fetching")
    /\ call' = [call EXCEPT ![t].now = 0, ![t].stage = "done", ![t].verdict = "raised"]
    /\ undisturbed' = FALSE
    /\ UNCHANGED <<clock, db, refresh_lock, begun, last_end>>

\* An exception _download does not catch (PhishingDatabaseError, HTTPException): nothing is
\* stamped, the caller gets it.
FetchRaises(t) ==
    /\ At(t, "fetching")
    /\ call' = [call EXCEPT ![t].now = 0, ![t].stage = "done", ![t].verdict = "raised"]
    /\ Release(t)
    /\ undisturbed' = FALSE
    /\ UNCHANGED <<clock, db, begun, last_end>>

Install(t) ==
    /\ At(t, "installing")
    /\ db' = call[t].built
    /\ call' = [call EXCEPT ![t].built = Empty, ![t].brought = FALSE,
                            ![t].stage = IF call[t].op = "refresh" THEN "done" ELSE "matching"]
    /\ Release(t)
    /\ UNCHANGED <<clock, begun, undisturbed, last_end>>

Match(t) ==
    /\ At(t, "matching")
    /\ LET listed == Matches(call[t].host, db.hostnames)
       IN  call' = [call EXCEPT
               ![t].now = 0,
               ![t].matched = db.hostnames,
               ![t].verdict = IF listed THEN "listed" ELSE "absent",
               ![t].stage = IF call[t].op = "lookup" /\ ~listed THEN "available" ELSE "done"]
    /\ UNCHANGED <<clock, db, refresh_lock, begun, undisturbed, last_end>>

\* lookup asks is_available after the check is over.
AskAvailable(t) ==
    /\ At(t, "available")
    /\ call' = [call EXCEPT ![t].stage = "done",
                            ![t].verdict = IF db.hostnames # {} THEN @ ELSE "unchecked"]
    /\ UNCHANGED <<clock, db, refresh_lock, begun, undisturbed, last_end>>

\* clear() replaces the record, whoever holds the lock.
Clear ==
    /\ db # Empty
    /\ db' = Empty
    /\ undisturbed' = FALSE
    /\ UNCHANGED <<clock, refresh_lock, call, begun, last_end>>

Proceed(t) ==
    \/ AskCooldown(t) \/ AskEmpty(t) \/ AskAge(t) \/ Acquire(t)
    \/ FetchSucceeds(t) \/ FetchFails(t) \/ CopyLastSuccess(t) \/ FetchRaises(t)
    \/ Install(t) \/ Match(t) \/ AskAvailable(t)

Next ==
    \/ \E t \in Threads :
           \/ Proceed(t)
           \/ \E op \in {"check", "lookup", "refresh"}, h \in Hosts : Begin(t, op, h)
    \/ Clear

\* A thread inside a call is scheduled, gets the lock in the end, and its download ends: the
\* feed is read under a deadline (fetch_over_http).  Nothing makes a caller call.
Spec == Init /\ [][Next]_vars /\ \A t \in Threads : WF_vars(Proceed(t))

-----------------------------------------------------------------------------
(* Properties *)

\* As long as only lazy checks run, a lazy download starts no sooner than the cooldown after
\* the last one ended, also for the threads that queued up behind that one for the lock
\* (check's second look; retry_cooldown_seconds, "Never attempt a lazy download more often").
CooldownBetweenDownloads ==
    \A t \in Threads :
        undisturbed /\ At(t, "fetching") /\ last_end # Never
            => call[t].now - last_end >= Cooldown

\* As long as only lazy checks run, no host is matched against a list whose last success is
\* refresh_seconds old, or that never succeeded, unless a download was attempted within the
\* cooldown: another thread's record, installed between the reads of
\* _should_attempt_refresh, cannot talk a check out of the refresh it owes.
NeverMatchesStale ==
    \A t \in Threads :
        undisturbed /\ At(t, "matching") =>
            /\ db.last_refresh # Never
            /\ \/ call[t].now - db.last_refresh < Cooldown
               \/ db.last_success # Never /\ call[t].now - db.last_success < RefreshSeconds

KeepsListOnFailure(t) ==
    At(t, "installing") /\ ~call[t].brought /\ call'[t].stage # "installing"
        => db'.hostnames = db.hostnames

\* As long as only lazy checks run, the record of a failed download, put together in several
\* steps, never replaces a list by another.
LazyRefreshKeeps == [][undisturbed => \A t \in Threads : KeepsListOnFailure(t)]_vars

\* Every call returns; in particular a download that raises lets the queue go on.
EveryCallEnds == \A t \in Threads : At(t, "cooling") ~> At(t, "done")

\* "A failed refresh keeps whatever was loaded before" (_failed), whoever started it.
FailedRefreshKeeps == [][\A t \in Threads : KeepsListOnFailure(t)]_vars

\* lookup is "False if not [listed], None if nothing could be checked": a host it calls
\* absent was looked up in a list that was not empty.
AbsentWasChecked ==
    \A t \in Threads :
        At(t, "done") /\ call[t].op = "lookup" /\ call[t].verdict = "absent"
            => call[t].matched # {}
=============================================================================
