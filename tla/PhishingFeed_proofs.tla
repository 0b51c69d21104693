-------------------------- MODULE PhishingFeed_proofs --------------------------
(***************************************************************************)
(* TLAPS proofs about PhishingFeed, for any number of threads, hosts and   *)
(* calls: types and the exclusion of lazy downloads under any clock, the   *)
(* cooldown between them, that a failed one keeps the list, and, under a   *)
(* clock that never goes back, that no host is matched against a list the  *)
(* check should have refreshed first.                                      *)
(***************************************************************************)
EXTENDS PhishingFeed, TLAPS

Undecided == {"failing", "installing"}      \* a download has ended, its record is not installed
Downloading == Undecided \cup {"fetching"}

\* A record under construction belongs to a download that has ended; only a
\* successful one brings a list.
Building ==
    \A t \in Threads : call[t].brought => call[t].stage = "installing"

\* While only lazy checks run, downloads exclude one another: who downloads holds the
\* lock.  So the record in place is that of the last download that ended, until the
\* lock's holder installs the next one, and a holder's second look was at that record.
Excluded ==
    /\ \A t \in Threads : call[t].op # "refresh"
    /\ \A t \in Threads : call[t].stage \in Downloading => refresh_lock = t
    /\ \A t \in Threads : call[t].stage \in Undecided => call[t].built.last_refresh = last_end
    /\ (refresh_lock \in Threads => call[refresh_lock].stage \notin Undecided)
           => db.last_refresh = last_end
    /\ \A t \in Threads :
          refresh_lock = t /\ call[t].stage \in {"empty", "aged", "fetching"} /\ last_end # Never
              => call[t].now - last_end >= Cooldown
    /\ \A t \in Threads :
          call[t].stage \in Undecided /\ ~call[t].brought => call[t].built.hostnames = db.hostnames

IInv == TypeOK /\ Building /\ (undisturbed => Excluded)

\* Under a clock that never goes back, and while only lazy checks run: times lie in the
\* past, a list is no newer than the last attempt, a record under construction is no
\* older than the one in place, and one without a new list carries the age of the old.
Ages ==
    /\ db.last_success # Never => db.last_refresh # Never /\ db.last_success <= db.last_refresh
    /\ db.last_refresh # Never => db.last_refresh <= clock

Follows(t) ==
    LET built == call[t].built
    IN  /\ built.last_refresh # Never
        /\ built.last_refresh <= clock
        /\ call[t].now <= built.last_refresh
        /\ db.last_refresh # Never => db.last_refresh <= built.last_refresh
        /\ call[t].stage = "installing" /\ call[t].brought =>
               built.last_success = built.last_refresh
        /\ call[t].stage = "installing" /\ ~call[t].brought =>
               built.last_success = db.last_success

InTime ==
    /\ clock >= 0
    /\ \A t \in Threads : call[t].now <= clock
    /\ undisturbed =>
           /\ Ages
           /\ \A t \in Threads : call[t].stage \in Undecided => Follows(t)

TInv == IInv /\ InTime /\ NeverMatchesStale

-----------------------------------------------------------------------------
\* Init puts every thread in some idle call.
LEMMA InitIInv == Init => IInv
<1> SUFFICES ASSUME Init PROVE IInv
  OBVIOUS
<1> USE FeedAssumption DEF FeedAssumption
<1>1. Empty \in Database
  BY DEF Empty, Database, Time
<1>2. \A h \in Hosts : Idle(h) \in Call /\ Idle(h).stage = "idle" /\ Idle(h).op = "none"
                       /\ ~Idle(h).brought /\ Idle(h).now = 0
  BY <1>1 DEF Idle, Call, Stages, Critical, Verdicts
<1>3. call \in [Threads -> Call]
      /\ \A t \in Threads : call[t].stage = "idle" /\ call[t].op = "none" /\ ~call[t].brought
  <2> HIDE DEF Idle, Call
  <2> QED
    BY <1>2 DEF Init
<1>4. TypeOK
  BY <1>1, <1>3 DEF TypeOK, Init, Time
<1>5. Building
  BY <1>3 DEF Building
<1>6. Excluded
  BY <1>3 DEF Excluded, Downloading, Undecided, Init, Empty
<1> QED
  BY <1>4, <1>5, <1>6 DEF IInv

-----------------------------------------------------------------------------
\* What a step of thread t leaves of its locals, as far as the invariants speak of them.
Leaves(t, op, stage, now, built, brought) ==
    /\ call' \in [Threads -> Call]
    /\ \A u \in Threads : u # t => call'[u] = call[u]
    /\ call'[t].op = op /\ call'[t].stage = stage /\ call'[t].now = now
    /\ call'[t].built = built /\ call'[t].brought = brought

\* One thread's locals replaced by others.
LEMMA Stepped ==
    ASSUME NEW t \in Threads, NEW c \in Call, call \in [Threads -> Call],
           call' = [call EXCEPT ![t] = c]
    PROVE  Leaves(t, c.op, c.stage, c.now, c.built, c.brought)
BY DEF Leaves

\* A step of one thread that only moves its stage.
LEMMA Moved ==
    ASSUME NEW t \in Threads, NEW s \in Stages, call \in [Threads -> Call], Goto(t, s)
    PROVE  Leaves(t, call[t].op, s, call[t].now, call[t].built, call[t].brought)
BY DEF Goto, Call, Leaves

\* What TypeOK says of the parts of the state.
Typed ==
    /\ call \in [Threads -> Call] /\ clock \in Int /\ db \in Database
    /\ refresh_lock \in Threads \cup {Nobody} /\ last_end \in Time
    /\ refresh_lock \in Threads => call[refresh_lock].stage \in Critical
    /\ begun \in 0..MaxCalls /\ undisturbed \in BOOLEAN
    /\ db.hostnames \in SUBSET Names
    /\ db.last_refresh \in Time /\ db.last_success \in Time
    /\ Empty \in Database
    /\ \A now : now \in ReadingsAfter(clock) => now \in Int
    /\ \A t \in Threads :
          /\ call[t] \in Call /\ call[t].stage \in Stages /\ call[t].now \in Int
          /\ call[t].built \in Database /\ call[t].brought \in BOOLEAN
          /\ call[t].op \in {"none", "check", "lookup", "refresh"}

LEMMA Parts == TypeOK => Typed
<1> SUFFICES ASSUME TypeOK PROVE Typed
  OBVIOUS
<1>1. call \in [Threads -> Call] /\ clock \in Int /\ db \in Database
  BY DEF TypeOK
<1>2. db.hostnames \in SUBSET Names /\ db.last_refresh \in Time /\ db.last_success \in Time
  BY <1>1 DEF Database
<1>3. Empty \in Database
  BY DEF Empty, Database, Time
<1>4. \A now : now \in ReadingsAfter(clock) => now \in Int
  BY <1>1, FeedAssumption DEF ReadingsAfter, FeedAssumption
<1>5. \A t \in Threads :
         /\ call[t] \in Call /\ call[t].stage \in Stages /\ call[t].now \in Int
         /\ call[t].built \in Database /\ call[t].brought \in BOOLEAN
         /\ call[t].op \in {"none", "check", "lookup", "refresh"}
  BY <1>1 DEF Call
<1> QED
  BY <1>1, <1>2, <1>3, <1>4, <1>5 DEF TypeOK, Typed

\* What each action does, told by the fields the invariants speak of.
BeginDoes(t, op) ==
    /\ Leaves(t, op, IF op = "refresh" THEN "fetching" ELSE "cooling", 0, Empty, FALSE)
    /\ call[t].stage \in {"idle", "done"} /\ begun' \in 0..MaxCalls
    /\ undisturbed' = (undisturbed /\ op # "refresh")
    /\ UNCHANGED <<clock, db, refresh_lock, last_end>>

AskCooldownDoes(t) ==
    /\ call[t].stage = "cooling" /\ clock' \in ReadingsAfter(clock)
    /\ UNCHANGED <<db, begun, undisturbed, last_end>>
    /\ \/ /\ Leaves(t, call[t].op, "matching", clock', call[t].built, call[t].brought)
          /\ Release(t)
          /\ db.last_refresh # Never /\ clock' - db.last_refresh < Cooldown
       \/ /\ Leaves(t, call[t].op, "empty", clock', call[t].built, call[t].brought)
          /\ UNCHANGED refresh_lock
          /\ db.last_refresh # Never => clock' - db.last_refresh >= Cooldown

AskEmptyDoes(t, s) ==
    /\ call[t].stage = "empty"
    /\ UNCHANGED <<clock, db, refresh_lock, begun, undisturbed, last_end>>
    /\ Leaves(t, call[t].op, s, call[t].now, call[t].built, call[t].brought)
    /\ s = "queued" => refresh_lock # t
    /\ s = "fetching" => refresh_lock = t

AskAgeDoes(t, s) ==
    /\ call[t].stage = "aged"
    /\ UNCHANGED <<clock, db, begun, undisturbed, last_end>>
    /\ Leaves(t, call[t].op, s, call[t].now, call[t].built, call[t].brought)
    /\ s = "queued" => refresh_lock # t
    /\ s = "fetching" => refresh_lock = t
    /\ s = "matching" => Release(t)
    /\ s # "matching" => UNCHANGED refresh_lock
    /\ s = "matching" => /\ db.last_success # Never
                         /\ call[t].now - db.last_success < RefreshSeconds

AcquireDoes(t) ==
    /\ call[t].stage = "queued" /\ refresh_lock = Nobody /\ refresh_lock' = t
    /\ UNCHANGED <<clock, db, begun, undisturbed, last_end>>
    /\ Leaves(t, call[t].op, "cooling", call[t].now, call[t].built, call[t].brought)

FetchSucceedsDoes(t, built) ==
    /\ call[t].stage = "fetching"
    /\ clock' \in ReadingsAfter(clock) /\ Ended(t, clock')
    /\ Leaves(t, call[t].op, "installing", call[t].now, built, TRUE)
    /\ built.last_refresh = clock' /\ built.last_success = clock'

FetchFailsDoes(t, built) ==
    /\ call[t].stage = "fetching"
    /\ clock' \in ReadingsAfter(clock) /\ Ended(t, clock')
    /\ Leaves(t, call[t].op, "failing", call[t].now, built, call[t].brought)
    /\ built.hostnames = db.hostnames /\ built.last_refresh = clock'

CopyLastSuccessDoes(t, built) ==
    /\ call[t].stage = "failing"
    /\ UNCHANGED <<clock, db, refresh_lock, begun, undisturbed, last_end>>
    /\ Leaves(t, call[t].op, "installing", call[t].now, built, call[t].brought)
    /\ built.hostnames = call[t].built.hostnames
    /\ built.last_refresh = call[t].built.last_refresh
    /\ built.last_success = db.last_success

FetchRaisesDoes(t) ==
    /\ call[t].stage = "fetching" /\ Release(t) /\ undisturbed' = FALSE
    /\ UNCHANGED <<clock, db, begun, last_end>>
    /\ Leaves(t, call[t].op, "done", 0, call[t].built, call[t].brought)

InstallDoes(t) ==
    /\ call[t].stage = "installing" /\ db' = call[t].built /\ Release(t)
    /\ UNCHANGED <<clock, begun, undisturbed, last_end>>
    /\ Leaves(t, call[t].op, IF call[t].op = "refresh" THEN "done" ELSE "matching",
              call[t].now, Empty, FALSE)

MatchDoes(t, s) ==
    /\ call[t].stage = "matching"
    /\ UNCHANGED <<clock, db, refresh_lock, begun, undisturbed, last_end>>
    /\ Leaves(t, call[t].op, s, 0, call[t].built, call[t].brought)

AskAvailableDoes(t) ==
    /\ call[t].stage = "available"
    /\ UNCHANGED <<clock, db, refresh_lock, begun, undisturbed, last_end>>
    /\ Leaves(t, call[t].op, "done", call[t].now, call[t].built, call[t].brought)

LEMMA BeginEffect ==
    ASSUME TypeOK, NEW t \in Threads, NEW op \in {"check", "lookup", "refresh"},
           NEW h \in Hosts, Begin(t, op, h)
    PROVE  BeginDoes(t, op)
<1> USE Parts DEF Typed
<1> DEFINE s == IF op = "refresh" THEN "fetching" ELSE "cooling"
<1>1. Idle(h) \in Call /\ ~Idle(h).brought /\ Idle(h).now = 0 /\ Idle(h).built = Empty
  BY DEF Idle, Call, Stages, Critical, Verdicts
<1>2. s \in Stages
  BY DEF Stages, Critical
<1>3. call' = [call EXCEPT ![t] = [Idle(h) EXCEPT !.op = op, !.stage = s]]
  BY DEF Begin
<1> HIDE DEF s
<1> DEFINE c == [Idle(h) EXCEPT !.op = op, !.stage = s]
<1>4. c \in Call /\ c.op = op /\ c.stage = s /\ c.now = 0 /\ c.built = Empty /\ c.brought = FALSE
  BY <1>1, <1>2 DEF Call
<1> HIDE DEF c
<1>5. Leaves(t, op, s, 0, Empty, FALSE)
  BY <1>3, <1>4, Stepped DEF c
<1>6. /\ call[t].stage \in {"idle", "done"} /\ begun' \in 0..MaxCalls
      /\ undisturbed' = (undisturbed /\ op # "refresh")
      /\ UNCHANGED <<clock, db, refresh_lock, last_end>>
  BY FeedAssumption DEF Begin, FeedAssumption
<1> QED
  BY <1>5, <1>6 DEF BeginDoes, s

LEMMA AskCooldownEffect ==
    ASSUME TypeOK, NEW t \in Threads, AskCooldown(t)
    PROVE  AskCooldownDoes(t)
<1> USE Parts DEF Typed
<1>1. \A s \in Stages : call' = [call EXCEPT ![t].now = clock', ![t].stage = s] /\ clock' \in Int
        => Leaves(t, call[t].op, s, clock', call[t].built, call[t].brought)
  <2> SUFFICES ASSUME NEW s \in Stages, clock' \in Int,
                      call' = [call EXCEPT ![t].now = clock', ![t].stage = s]
               PROVE  Leaves(t, call[t].op, s, clock', call[t].built, call[t].brought)
    OBVIOUS
  <2> DEFINE c == [call[t] EXCEPT !.now = clock', !.stage = s]
  <2>1. c \in Call /\ c.op = call[t].op /\ c.stage = s /\ c.now = clock'
        /\ c.built = call[t].built /\ c.brought = call[t].brought
    BY DEF Call
  <2>2. call' = [call EXCEPT ![t] = c]
    OBVIOUS
  <2> HIDE DEF c
  <2> QED
    BY <2>1, <2>2, Stepped
<1>2. clock' \in ReadingsAfter(clock) /\ clock' \in Int
  BY DEF AskCooldown
<1>3. "matching" \in Stages /\ "empty" \in Stages
  BY DEF Stages, Critical
<1>4. call[t].stage = "cooling" /\ UNCHANGED <<db, begun, undisturbed, last_end>>
  BY DEF AskCooldown, At
<1> QED
  BY <1>1, <1>2, <1>3, <1>4 DEF AskCooldownDoes, AskCooldown

LEMMA AskEmptyEffect ==
    ASSUME TypeOK, NEW t \in Threads, AskEmpty(t)
    PROVE  \E s \in {"queued", "aged", "fetching"} : AskEmptyDoes(t, s)
BY Parts, Moved DEF AskEmptyDoes, Typed, AskEmpty, Decide, At, Stages, Critical

LEMMA AskAgeEffect ==
    ASSUME TypeOK, NEW t \in Threads, AskAge(t)
    PROVE  \E s \in {"queued", "matching", "fetching"} : AskAgeDoes(t, s)
<1>1. call[t].stage = "aged" /\ UNCHANGED <<clock, db, begun, undisturbed, last_end>>
  BY DEF AskAge, At
<1>2. db.last_success # Never => db.last_success \in Int
  BY Parts DEF Typed, Time
<1>3. call[t].now \in Int /\ call \in [Threads -> Call] /\ RefreshSeconds \in Int
  BY Parts, FeedAssumption DEF Typed, FeedAssumption
<1>4. CASE db.last_success = Never \/ call[t].now - db.last_success >= RefreshSeconds
  BY <1>1, <1>3, <1>4, Moved DEF AskAgeDoes, AskAge, Decide, Stages, Critical
<1>5. CASE ~(db.last_success = Never \/ call[t].now - db.last_success >= RefreshSeconds)
  <2>1. Goto(t, "matching") /\ Release(t)
    BY <1>5 DEF AskAge, Decide, Release
  <2>2. db.last_success # Never /\ call[t].now - db.last_success < RefreshSeconds
    BY <1>2, <1>3, <1>5
  <2> QED
    BY <1>1, <1>3, <2>1, <2>2, Moved DEF AskAgeDoes, Stages
<1> QED
  BY <1>4, <1>5

LEMMA AcquireEffect ==
    ASSUME TypeOK, NEW t \in Threads, Acquire(t)
    PROVE  AcquireDoes(t)
BY Parts, Moved DEF AcquireDoes, Typed, Acquire, At, Stages, Critical

LEMMA FetchSucceedsEffect ==
    ASSUME TypeOK, NEW t \in Threads, FetchSucceeds(t)
    PROVE  \E built \in Database : FetchSucceedsDoes(t, built)
<1> USE Parts DEF Typed
<1>1. PICK feed \in Feeds, now \in ReadingsAfter(clock) :
         /\ call' = [call EXCEPT ![t].stage = "installing", ![t].brought = TRUE,
                                 ![t].built = [hostnames |-> feed, last_refresh |-> now,
                                               last_success |-> now]]
         /\ Ended(t, now)
  BY DEF FetchSucceeds
<1>2. call[t].stage = "fetching" /\ now = clock'
  BY <1>1 DEF FetchSucceeds, At, Ended
<1> DEFINE built == [hostnames |-> feed, last_refresh |-> now, last_success |-> now]
<1>3. built \in Database /\ built.last_refresh = now /\ built.last_success = now
  BY FeedAssumption DEF FeedAssumption, Database, Time
<1>4. call' = [call EXCEPT ![t].stage = "installing", ![t].brought = TRUE, ![t].built = built]
  BY <1>1
<1> HIDE DEF built
<1> DEFINE c == [call[t] EXCEPT !.stage = "installing", !.brought = TRUE, !.built = built]
<1>5. c \in Call /\ c.op = call[t].op /\ c.stage = "installing" /\ c.now = call[t].now
      /\ c.built = built /\ c.brought = TRUE
  BY <1>3 DEF Call, Stages, Critical
<1>6. call' = [call EXCEPT ![t] = c]
  BY <1>4
<1> HIDE DEF c
<1>7. Leaves(t, call[t].op, "installing", call[t].now, built, TRUE)
  BY <1>5, <1>6, Stepped
<1> QED
  BY <1>1, <1>2, <1>3, <1>7 DEF FetchSucceedsDoes

LEMMA FetchFailsEffect ==
    ASSUME TypeOK, NEW t \in Threads, FetchFails(t)
    PROVE  \E built \in Database : FetchFailsDoes(t, built)
<1> USE Parts DEF Typed
<1>1. PICK now \in ReadingsAfter(clock) :
         /\ call' = [call EXCEPT ![t].stage = "failing",
                                 ![t].built = [Empty EXCEPT !.hostnames = db.hostnames,
                                                            !.last_refresh = now]]
         /\ Ended(t, now)
  BY DEF FetchFails
<1>2. call[t].stage = "fetching" /\ now = clock'
  BY <1>1 DEF FetchFails, At, Ended
<1> DEFINE built == [Empty EXCEPT !.hostnames = db.hostnames, !.last_refresh = now]
<1>3. built \in Database /\ built.hostnames = db.hostnames /\ built.last_refresh = now
  BY DEF Empty, Database, Time
<1>4. call' = [call EXCEPT ![t].stage = "failing", ![t].built = built]
  BY <1>1
<1> HIDE DEF built
<1> DEFINE c == [call[t] EXCEPT !.stage = "failing", !.built = built]
<1>5. c \in Call /\ c.op = call[t].op /\ c.stage = "failing" /\ c.now = call[t].now
      /\ c.built = built /\ c.brought = call[t].brought
  BY <1>3 DEF Call, Stages, Critical
<1>6. call' = [call EXCEPT ![t] = c]
  BY <1>4
<1> HIDE DEF c
<1>7. Leaves(t, call[t].op, "failing", call[t].now, built, call[t].brought)
  BY <1>5, <1>6, Stepped
<1> QED
  BY <1>1, <1>2, <1>3, <1>7 DEF FetchFailsDoes

LEMMA CopyLastSuccessEffect ==
    ASSUME TypeOK, NEW t \in Threads, CopyLastSuccess(t)
    PROVE  \E built \in Database : CopyLastSuccessDoes(t, built)
<1> USE Parts DEF Typed
<1> DEFINE built == [call[t].built EXCEPT !.last_success = db.last_success]
<1>1. built \in Database /\ built.hostnames = call[t].built.hostnames
      /\ built.last_refresh = call[t].built.last_refresh /\ built.last_success = db.last_success
  BY DEF Database
<1> DEFINE c == [call[t] EXCEPT !.stage = "installing", !.built = built]
<1>2. call' = [call EXCEPT ![t] = c]
  BY DEF CopyLastSuccess
<1> HIDE DEF built
<1>3. c \in Call /\ c.op = call[t].op /\ c.stage = "installing" /\ c.now = call[t].now
      /\ c.built = built /\ c.brought = call[t].brought
  BY <1>1, ZenonT(30) DEF Call, Stages, Critical
<1> HIDE DEF c
<1>4. Leaves(t, call[t].op, "installing", call[t].now, built, call[t].brought)
  BY <1>2, <1>3, Stepped
<1>5. /\ call[t].stage = "failing"
      /\ UNCHANGED <<clock, db, refresh_lock, begun, undisturbed, last_end>>
  BY DEF CopyLastSuccess, At
<1> QED
  BY <1>1, <1>4, <1>5 DEF CopyLastSuccessDoes

LEMMA FetchRaisesEffect ==
    ASSUME TypeOK, NEW t \in Threads, FetchRaises(t)
    PROVE  FetchRaisesDoes(t)
<1> USE Parts DEF Typed
<1>1. PICK zero \in Int : zero = 0
  OBVIOUS
<1> DEFINE c == [call[t] EXCEPT !.now = zero, !.stage = "done", !.verdict = "raised"]
<1>2. "done" \in Stages /\ "raised" \in Verdicts
  BY DEF Stages, Verdicts
<1>3. c \in Call /\ c.op = call[t].op /\ c.stage = "done" /\ c.now = zero
      /\ c.built = call[t].built /\ c.brought = call[t].brought
  BY <1>2 DEF Call
<1>4. call' = [call EXCEPT ![t] = c]
  BY <1>1 DEF FetchRaises
<1> HIDE DEF c
<1>5. /\ call[t].stage = "fetching" /\ Release(t) /\ undisturbed' = FALSE
      /\ UNCHANGED <<clock, db, begun, last_end>>
  BY DEF FetchRaises, At
<1> QED
  BY <1>1, <1>3, <1>4, <1>5, Stepped DEF FetchRaisesDoes

LEMMA InstallEffect ==
    ASSUME TypeOK, NEW t \in Threads, Install(t)
    PROVE  InstallDoes(t)
<1> USE Parts DEF Typed
<1> DEFINE s == IF call[t].op = "refresh" THEN "done" ELSE "matching"
           c == [call[t] EXCEPT !.built = Empty, !.brought = FALSE, !.stage = s]
<1>1. s \in Stages
  BY DEF Stages
<1>2. call' = [call EXCEPT ![t] = c]
  BY DEF Install
<1> HIDE DEF s
<1>3. c \in Call /\ c.op = call[t].op /\ c.stage = s /\ c.now = call[t].now
      /\ c.built = Empty /\ c.brought = FALSE
  BY <1>1 DEF Call
<1> HIDE DEF c
<1>4. Leaves(t, call[t].op, s, call[t].now, Empty, FALSE)
  BY <1>2, <1>3, Stepped
<1>5. /\ call[t].stage = "installing" /\ db' = call[t].built /\ Release(t)
      /\ UNCHANGED <<clock, begun, undisturbed, last_end>>
  BY DEF Install, At
<1> QED
  BY <1>4, <1>5 DEF InstallDoes, s

LEMMA MatchEffect ==
    ASSUME TypeOK, NEW t \in Threads, Match(t)
    PROVE  \E s \in {"available", "done"} : MatchDoes(t, s)
<1> USE Parts DEF Typed
<1>1. PICK zero \in Int : zero = 0
  OBVIOUS
<1> DEFINE listed == Matches(call[t].host, db.hostnames)
           v == IF listed THEN "listed" ELSE "absent"
           s == IF call[t].op = "lookup" /\ ~listed THEN "available" ELSE "done"
<1>2. v \in Verdicts /\ s \in Stages /\ s \in {"available", "done"}
  BY DEF Verdicts, Stages
<1>3. call' = [call EXCEPT ![t].now = 0, ![t].matched = db.hostnames, ![t].verdict = v,
                           ![t].stage = s]
  BY DEF Match
<1> HIDE DEF listed, v, s
<1> DEFINE c == [call[t] EXCEPT !.now = zero, !.matched = db.hostnames, !.verdict = v,
                                !.stage = s]
<1>4. c \in Call /\ c.op = call[t].op /\ c.stage = s /\ c.now = zero
      /\ c.built = call[t].built /\ c.brought = call[t].brought
  BY <1>2 DEF Call
<1>5. call' = [call EXCEPT ![t] = c]
  BY <1>1, <1>3
<1> HIDE DEF c
<1>6. Leaves(t, call[t].op, s, 0, call[t].built, call[t].brought)
  BY <1>1, <1>4, <1>5, Stepped
<1>7. /\ call[t].stage = "matching"
      /\ UNCHANGED <<clock, db, refresh_lock, begun, undisturbed, last_end>>
  BY DEF Match, At
<1> QED
  BY <1>2, <1>6, <1>7 DEF MatchDoes

LEMMA AskAvailableEffect ==
    ASSUME TypeOK, NEW t \in Threads, AskAvailable(t)
    PROVE  AskAvailableDoes(t)
<1> USE Parts DEF Typed
<1> DEFINE c == [call[t] EXCEPT !.stage = "done",
                                !.verdict = IF db.hostnames # {} THEN @ ELSE "unchecked"]
<1>1. c \in Call /\ c.op = call[t].op /\ c.stage = "done" /\ c.now = call[t].now
      /\ c.built = call[t].built /\ c.brought = call[t].brought
  BY DEF Call, Stages, Verdicts
<1>2. call' = [call EXCEPT ![t] = c]
  BY DEF AskAvailable
<1> HIDE DEF c
<1>3. /\ call[t].stage = "available"
      /\ UNCHANGED <<clock, db, refresh_lock, begun, undisturbed, last_end>>
  BY DEF AskAvailable, At
<1> QED
  BY <1>1, <1>2, <1>3, Stepped DEF AskAvailableDoes

-----------------------------------------------------------------------------
\* Every step keeps the invariant.
LEMMA NextIInv == IInv /\ [Next]_vars => IInv'
<1> SUFFICES ASSUME IInv, [Next]_vars PROVE IInv'
  OBVIOUS
<1>t. TypeOK /\ Building /\ (undisturbed => Excluded)
  BY DEF IInv
<1>p. Typed
  BY <1>t, Parts
<1> USE <1>p, FeedAssumption DEF FeedAssumption, Leaves, Typed
<1>1. ASSUME NEW t \in Threads, NEW op \in {"check", "lookup", "refresh"}, NEW h \in Hosts,
             Begin(t, op, h) PROVE IInv'
  <2>0. BeginDoes(t, op)
    BY <1>1, <1>t, BeginEffect
  <2>1. TypeOK'
    BY <2>0 DEF BeginDoes, TypeOK, Critical, Time, Release, Ended
  <2>2. Building'
    BY <1>t, <2>0 DEF BeginDoes, Building
  <2>3. ASSUME undisturbed' PROVE Excluded'
    BY <1>t, <2>0, <2>3
       DEF BeginDoes, Building, Excluded, Downloading, Undecided, Time, Release, Ended
  <2> QED
    BY <2>1, <2>2, <2>3 DEF IInv
<1>2. ASSUME NEW t \in Threads, AskCooldown(t) PROVE IInv'
  <2>0. AskCooldownDoes(t)
    BY <1>2, <1>t, AskCooldownEffect
  <2>1. TypeOK'
    BY <2>0 DEF AskCooldownDoes, TypeOK, Critical, Time, Release, Ended
  <2>2. Building'
    BY <1>t, <2>0 DEF AskCooldownDoes, Building
  <2>3. ASSUME undisturbed' PROVE Excluded'
    BY <1>t, <2>0, <2>3
       DEF AskCooldownDoes, Building, Excluded, Downloading, Undecided, Time, Release, Ended
  <2> QED
    BY <2>1, <2>2, <2>3 DEF IInv
<1>3. ASSUME NEW t \in Threads, AskEmpty(t) PROVE IInv'
  <2>0. PICK s \in {"queued", "aged", "fetching"} : AskEmptyDoes(t, s)
    BY <1>3, <1>t, AskEmptyEffect
  <2>1. TypeOK'
    BY <2>0 DEF AskEmptyDoes, TypeOK, Critical, Time, Release, Ended
  <2>2. Building'
    BY <1>t, <2>0 DEF AskEmptyDoes, Building
  <2>3. ASSUME undisturbed' PROVE Excluded'
    BY <1>t, <2>0, <2>3
       DEF AskEmptyDoes, Building, Excluded, Downloading, Undecided, Time, Release, Ended
  <2> QED
    BY <2>1, <2>2, <2>3 DEF IInv
<1>4. ASSUME NEW t \in Threads, AskAge(t) PROVE IInv'
  <2>0. PICK s \in {"queued", "matching", "fetching"} : AskAgeDoes(t, s)
    BY <1>4, <1>t, AskAgeEffect
  <2>1. TypeOK'
    BY <2>0 DEF AskAgeDoes, TypeOK, Critical, Time, Release, Ended
  <2>2. Building'
    BY <1>t, <2>0 DEF AskAgeDoes, Building
  <2>3. ASSUME undisturbed' PROVE Excluded'
    BY <1>t, <2>0, <2>3
       DEF AskAgeDoes, Building, Excluded, Downloading, Undecided, Time, Release, Ended
  <2> QED
    BY <2>1, <2>2, <2>3 DEF IInv
<1>5. ASSUME NEW t \in Threads, Acquire(t) PROVE IInv'
  <2>0. AcquireDoes(t)
    BY <1>5, <1>t, AcquireEffect
  <2>1. TypeOK'
    BY <2>0 DEF AcquireDoes, TypeOK, Critical, Time, Release, Ended
  <2>2. Building'
    BY <1>t, <2>0 DEF AcquireDoes, Building
  <2>3. ASSUME undisturbed' PROVE Excluded'
    BY <1>t, <2>0, <2>3
       DEF AcquireDoes, Building, Excluded, Downloading, Undecided, Time, Release, Ended
  <2> QED
    BY <2>1, <2>2, <2>3 DEF IInv
<1>6. ASSUME NEW t \in Threads, FetchSucceeds(t) PROVE IInv'
  <2>0. PICK built \in Database : FetchSucceedsDoes(t, built)
    BY <1>6, <1>t, FetchSucceedsEffect
  <2>1. TypeOK'
    BY <2>0 DEF FetchSucceedsDoes, TypeOK, Critical, Time, Release, Ended
  <2>2. Building'
    BY <1>t, <2>0 DEF FetchSucceedsDoes, Building
  <2>3. ASSUME undisturbed' PROVE Excluded'
    BY <1>t, <2>0, <2>3
       DEF FetchSucceedsDoes, Building, Excluded, Downloading, Undecided, Time, Release, Ended
  <2> QED
    BY <2>1, <2>2, <2>3 DEF IInv
<1>7. ASSUME NEW t \in Threads, FetchFails(t) PROVE IInv'
  <2>0. PICK built \in Database : FetchFailsDoes(t, built)
    BY <1>7, <1>t, FetchFailsEffect
  <2>1. TypeOK'
    BY <2>0 DEF FetchFailsDoes, TypeOK, Critical, Time, Release, Ended
  <2>2. Building'
    BY <1>t, <2>0 DEF FetchFailsDoes, Building
  <2>3. ASSUME undisturbed' PROVE Excluded'
    BY <1>t, <2>0, <2>3
       DEF FetchFailsDoes, Building, Excluded, Downloading, Undecided, Time, Release, Ended
  <2> QED
    BY <2>1, <2>2, <2>3 DEF IInv
<1>8. ASSUME NEW t \in Threads, CopyLastSuccess(t) PROVE IInv'
  <2>0. PICK built \in Database : CopyLastSuccessDoes(t, built)
    BY <1>8, <1>t, CopyLastSuccessEffect
  <2>1. TypeOK'
    BY <2>0 DEF CopyLastSuccessDoes, TypeOK, Critical, Time, Release, Ended
  <2>2. Building'
    BY <1>t, <2>0 DEF CopyLastSuccessDoes, Building
  <2>3. ASSUME undisturbed' PROVE Excluded'
    BY <1>t, <2>0, <2>3
       DEF CopyLastSuccessDoes, Building, Excluded, Downloading, Undecided, Time, Release, Ended
  <2> QED
    BY <2>1, <2>2, <2>3 DEF IInv
<1>9. ASSUME NEW t \in Threads, FetchRaises(t) PROVE IInv'
  <2>0. FetchRaisesDoes(t)
    BY <1>9, <1>t, FetchRaisesEffect
  <2>1. TypeOK'
    BY <2>0 DEF FetchRaisesDoes, TypeOK, Critical, Time, Release, Ended
  <2>2. Building'
    BY <1>t, <2>0 DEF FetchRaisesDoes, Building
  <2>3. ASSUME undisturbed' PROVE Excluded'
    BY <1>t, <2>0, <2>3
       DEF FetchRaisesDoes, Building, Excluded, Downloading, Undecided, Time, Release, Ended
  <2> QED
    BY <2>1, <2>2, <2>3 DEF IInv
<1>10. ASSUME NEW t \in Threads, Install(t) PROVE IInv'
  <2>0. InstallDoes(t)
    BY <1>10, <1>t, InstallEffect
  <2>1. TypeOK'
    BY <2>0 DEF InstallDoes, TypeOK, Critical, Time, Release, Ended
  <2>2. Building'
    BY <1>t, <2>0 DEF InstallDoes, Building
  <2>3. ASSUME undisturbed' PROVE Excluded'
    BY <1>t, <2>0, <2>3
       DEF InstallDoes, Building, Excluded, Downloading, Undecided, Time, Release, Ended
  <2> QED
    BY <2>1, <2>2, <2>3 DEF IInv
<1>11. ASSUME NEW t \in Threads, Match(t) PROVE IInv'
  <2>0. PICK s \in {"available", "done"} : MatchDoes(t, s)
    BY <1>11, <1>t, MatchEffect
  <2>1. TypeOK'
    BY <2>0 DEF MatchDoes, TypeOK, Critical, Time, Release, Ended
  <2>2. Building'
    BY <1>t, <2>0 DEF MatchDoes, Building
  <2>3. ASSUME undisturbed' PROVE Excluded'
    BY <1>t, <2>0, <2>3
       DEF MatchDoes, Building, Excluded, Downloading, Undecided, Time, Release, Ended
  <2> QED
    BY <2>1, <2>2, <2>3 DEF IInv
<1>12. ASSUME NEW t \in Threads, AskAvailable(t) PROVE IInv'
  <2>0. AskAvailableDoes(t)
    BY <1>12, <1>t, AskAvailableEffect
  <2>1. TypeOK'
    BY <2>0 DEF AskAvailableDoes, TypeOK, Critical, Time, Release, Ended
  <2>2. Building'
    BY <1>t, <2>0 DEF AskAvailableDoes, Building
  <2>3. ASSUME undisturbed' PROVE Excluded'
    BY <1>t, <2>0, <2>3
       DEF AskAvailableDoes, Building, Excluded, Downloading, Undecided, Time, Release, Ended
  <2> QED
    BY <2>1, <2>2, <2>3 DEF IInv
<1>13. ASSUME Clear PROVE IInv'
  BY <1>t, <1>13 DEF Clear, IInv, TypeOK, Building
<1>14. ASSUME UNCHANGED vars PROVE IInv'
  BY <1>t, <1>14 DEF vars, IInv, TypeOK, Building, Excluded
<1> QED
  BY <1>1, <1>2, <1>3, <1>4, <1>5, <1>6, <1>7, <1>8, <1>9, <1>10, <1>11, <1>12, <1>13, <1>14
     DEF Next, Proceed

LEMMA Invariance == Spec => []IInv
BY InitIInv, NextIInv, PTL DEF Spec

\* Types; the lock is held only between a thread's second look and the end of its download.
THEOREM TypeCorrect == Spec => []TypeOK
<1>1. IInv => TypeOK
  BY DEF IInv
<1> QED
  BY <1>1, Invariance, PTL

\* Whatever the clock does: while only lazy checks run, no lazy download starts within the
\* cooldown of the end of the last one, by whichever thread (check's second look).
THEOREM CooldownHolds == Spec => []CooldownBetweenDownloads
<1>1. IInv => CooldownBetweenDownloads
  BY DEF IInv, CooldownBetweenDownloads, Excluded, Downloading, At
<1> QED
  BY <1>1, Invariance, PTL

-----------------------------------------------------------------------------
\* A step of one thread leaves the locals of the others.
LEMMA OthersKeep ==
    ASSUME TypeOK, NEW u \in Threads, Proceed(u), NEW t \in Threads, t # u
    PROVE  call'[t] = call[t]
<1> USE DEF Leaves
<1>1. CASE AskCooldown(u)
  BY <1>1, AskCooldownEffect DEF AskCooldownDoes
<1>2. CASE AskEmpty(u)
  BY <1>2, AskEmptyEffect DEF AskEmptyDoes
<1>3. CASE AskAge(u)
  BY <1>3, AskAgeEffect DEF AskAgeDoes
<1>4. CASE Acquire(u)
  BY <1>4, AcquireEffect DEF AcquireDoes
<1>5. CASE FetchSucceeds(u)
  BY <1>5, FetchSucceedsEffect DEF FetchSucceedsDoes
<1>6. CASE FetchFails(u)
  BY <1>6, FetchFailsEffect DEF FetchFailsDoes
<1>7. CASE CopyLastSuccess(u)
  BY <1>7, CopyLastSuccessEffect DEF CopyLastSuccessDoes
<1>8. CASE FetchRaises(u)
  BY <1>8, FetchRaisesEffect DEF FetchRaisesDoes
<1>9. CASE Install(u)
  BY <1>9, InstallEffect DEF InstallDoes
<1>10. CASE Match(u)
  BY <1>10, MatchEffect DEF MatchDoes
<1>11. CASE AskAvailable(u)
  BY <1>11, AskAvailableEffect DEF AskAvailableDoes
<1> QED
  BY <1>1, <1>2, <1>3, <1>4, <1>5, <1>6, <1>7, <1>8, <1>9, <1>10, <1>11 DEF Proceed

\* Only Install installs a record.
LEMMA OwnStep ==
    ASSUME TypeOK, [Next]_vars, NEW t \in Threads, call[t].stage = "installing",
           call'[t].stage # "installing"
    PROVE  Install(t)
<1> USE DEF Leaves
<1>1. ASSUME NEW u \in Threads, u # t, Proceed(u) PROVE FALSE
  BY <1>1, OthersKeep
<1>2. ASSUME NEW u \in Threads, NEW op \in {"check", "lookup", "refresh"}, NEW h \in Hosts,
             Begin(u, op, h)
      PROVE  FALSE
  BY <1>2, BeginEffect DEF BeginDoes
<1>3. ~Clear /\ ~UNCHANGED vars
  BY DEF Clear, vars
<1>4. Proceed(t)
  BY <1>1, <1>2, <1>3 DEF Next
<1> QED
  BY <1>4 DEF Proceed, AskCooldown, AskEmpty, AskAge, Acquire, FetchSucceeds, FetchFails,
              CopyLastSuccess, FetchRaises, Match, AskAvailable, At

\* Whatever the clock does: while only lazy checks run, a failed download, whose record is
\* put together in three steps, never replaces the list by another (_failed, _download).
THEOREM LazyRefreshKeepsHolds == Spec => LazyRefreshKeeps
<1>1. IInv /\ [Next]_vars => (undisturbed => \A t \in Threads : KeepsListOnFailure(t))
  <2> SUFFICES ASSUME IInv, [Next]_vars, undisturbed, NEW t \in Threads,
                      call[t].stage = "installing", ~call[t].brought,
                      call'[t].stage # "installing"
               PROVE  db'.hostnames = db.hostnames
    BY DEF KeepsListOnFailure, At
  <2>1. Install(t)
    BY OwnStep DEF IInv
  <2> QED
    BY <2>1 DEF Install, IInv, Excluded, Undecided
<1> QED
  BY <1>1, Invariance, PTL DEF Spec, LazyRefreshKeeps

-----------------------------------------------------------------------------
LEMMA InitTInv == Init => TInv
<1> SUFFICES ASSUME Init PROVE TInv
  OBVIOUS
<1>1. \A t \in Threads : call[t].stage = "idle" /\ call[t].now = 0
  BY DEF Init, Idle
<1> QED
  BY <1>1, InitIInv DEF TInv, InTime, Init, Ages, Empty, Undecided, NeverMatchesStale, At

\* Under a clock that never goes back, and with a cooldown, every step keeps the times in
\* order: without the cooldown, a failed download would itself lead to a match.
LEMMA NextTInv ==
    ASSUME MaxStepBack = 0, Cooldown > 0
    PROVE  TInv /\ [Next]_vars => TInv'
<1> SUFFICES ASSUME TInv, [Next]_vars PROVE TInv'
  OBVIOUS
<1>t. TypeOK /\ (undisturbed => Excluded) /\ InTime /\ NeverMatchesStale
  BY DEF TInv, IInv
<1>p. Typed
  BY <1>t, Parts
<1>c. \A now \in ReadingsAfter(clock) : now \in Int /\ clock <= now
  BY <1>p, FeedAssumption DEF Typed, ReadingsAfter, FeedAssumption
<1>d. /\ db.last_refresh # Never => db.last_refresh \in Int
      /\ db.last_success # Never => db.last_success \in Int
      /\ \A t \in Threads :
            /\ call[t].built.last_refresh # Never => call[t].built.last_refresh \in Int
            /\ call[t].built.last_success # Never => call[t].built.last_success \in Int
  BY <1>p DEF Typed, Database, Time
<1>b. Building
  BY DEF TInv, IInv
<1>i. IInv'
  BY NextIInv DEF TInv
<1> USE <1>p, FeedAssumption DEF FeedAssumption, Leaves, Typed
<1>1. ASSUME NEW t \in Threads, NEW op \in {"check", "lookup", "refresh"}, NEW h \in Hosts,
             Begin(t, op, h) PROVE InTime' /\ NeverMatchesStale'
  <2>0. BeginDoes(t, op)
    BY <1>1, <1>t, BeginEffect
  <2>1. InTime'
    BY <1>t, <1>c, <1>d, <2>0
       DEF BeginDoes, InTime, Ages, Follows, Excluded, Downloading, Undecided, Ended
  <2>2. NeverMatchesStale'
    BY <1>t, <1>c, <1>d, <2>0
       DEF BeginDoes, InTime, Ages, Follows, NeverMatchesStale, Excluded, Downloading,
          Undecided, At, Ended
  <2> QED
    BY <2>1, <2>2
<1>2. ASSUME NEW t \in Threads, AskCooldown(t) PROVE InTime' /\ NeverMatchesStale'
  <2>0. AskCooldownDoes(t)
    BY <1>2, <1>t, AskCooldownEffect
  <2>1. InTime'
    BY <1>t, <1>c, <1>d, <2>0
       DEF AskCooldownDoes, InTime, Ages, Follows, Excluded, Downloading, Undecided, Ended
  <2>2. NeverMatchesStale'
    BY <1>t, <1>c, <1>d, <2>0
       DEF AskCooldownDoes, InTime, Ages, Follows, NeverMatchesStale, Excluded, Downloading,
          Undecided, At, Ended
  <2> QED
    BY <2>1, <2>2
<1>3. ASSUME NEW t \in Threads, AskEmpty(t) PROVE InTime' /\ NeverMatchesStale'
  <2>0. PICK s \in {"queued", "aged", "fetching"} : AskEmptyDoes(t, s)
    BY <1>3, <1>t, AskEmptyEffect
  <2>1. InTime'
    BY <1>t, <1>c, <1>d, <2>0
       DEF AskEmptyDoes, InTime, Ages, Follows, Excluded, Downloading, Undecided, Ended
  <2>2. NeverMatchesStale'
    BY <1>t, <1>c, <1>d, <2>0
       DEF AskEmptyDoes, InTime, Ages, Follows, NeverMatchesStale, Excluded, Downloading,
          Undecided, At, Ended
  <2> QED
    BY <2>1, <2>2
<1>4. ASSUME NEW t \in Threads, AskAge(t) PROVE InTime' /\ NeverMatchesStale'
  <2>0. PICK s \in {"queued", "matching", "fetching"} : AskAgeDoes(t, s)
    BY <1>4, <1>t, AskAgeEffect
  <2>1. InTime'
    BY <1>t, <1>c, <1>d, <2>0
       DEF AskAgeDoes, InTime, Ages, Follows, Excluded, Downloading, Undecided, Ended
  <2>2. NeverMatchesStale'
    BY <1>t, <1>c, <1>d, <2>0
       DEF AskAgeDoes, InTime, Ages, Follows, NeverMatchesStale, Excluded, Downloading,
          Undecided, At, Ended
  <2> QED
    BY <2>1, <2>2
<1>5. ASSUME NEW t \in Threads, Acquire(t) PROVE InTime' /\ NeverMatchesStale'
  <2>0. AcquireDoes(t)
    BY <1>5, <1>t, AcquireEffect
  <2>1. InTime'
    BY <1>t, <1>c, <1>d, <2>0
       DEF AcquireDoes, InTime, Ages, Follows, Excluded, Downloading, Undecided, Ended
  <2>2. NeverMatchesStale'
    BY <1>t, <1>c, <1>d, <2>0
       DEF AcquireDoes, InTime, Ages, Follows, NeverMatchesStale, Excluded, Downloading,
          Undecided, At, Ended
  <2> QED
    BY <2>1, <2>2
<1>6. ASSUME NEW t \in Threads, FetchSucceeds(t) PROVE InTime' /\ NeverMatchesStale'
  <2>0. PICK built \in Database : FetchSucceedsDoes(t, built)
    BY <1>6, <1>t, FetchSucceedsEffect
  <2>1. InTime'
    BY <1>t, <1>c, <1>d, <2>0
       DEF FetchSucceedsDoes, InTime, Ages, Follows, Excluded, Downloading, Undecided, Ended
  <2>2. NeverMatchesStale'
    BY <1>t, <1>c, <1>d, <2>0
       DEF FetchSucceedsDoes, InTime, Ages, Follows, NeverMatchesStale, Excluded, Downloading,
          Undecided, At, Ended
  <2> QED
    BY <2>1, <2>2
<1>7. ASSUME NEW t \in Threads, FetchFails(t) PROVE InTime' /\ NeverMatchesStale'
  <2>0. PICK built \in Database : FetchFailsDoes(t, built)
    BY <1>7, <1>t, FetchFailsEffect
  <2>1. InTime'
    BY <1>t, <1>c, <1>d, <2>0
       DEF FetchFailsDoes, InTime, Ages, Follows, Excluded, Downloading, Undecided, Ended
  <2>2. NeverMatchesStale'
    BY <1>t, <1>c, <1>d, <2>0
       DEF FetchFailsDoes, InTime, Ages, Follows, NeverMatchesStale, Excluded, Downloading,
          Undecided, At, Ended
  <2> QED
    BY <2>1, <2>2
<1>8. ASSUME NEW t \in Threads, CopyLastSuccess(t) PROVE InTime' /\ NeverMatchesStale'
  <2>0. PICK built \in Database : CopyLastSuccessDoes(t, built)
    BY <1>8, <1>t, CopyLastSuccessEffect
  <2>3. ASSUME undisturbed PROVE Follows(t)'
    <3>1. Follows(t)
      BY <1>t, <2>0, <2>3 DEF CopyLastSuccessDoes, InTime, Undecided
    <3>2. ~call[t].brought
      BY <1>b, <2>0 DEF CopyLastSuccessDoes, Building
    <3> QED
      BY <2>0, <3>1, <3>2 DEF CopyLastSuccessDoes, Follows
  <2>4. ASSUME undisturbed, NEW u \in Threads, u # t PROVE call[u].stage \notin Undecided
    BY <1>t, <2>0, <2>4 DEF CopyLastSuccessDoes, Excluded, Downloading, Undecided
  <2>1. InTime'
    BY <1>t, <2>0, <2>3, <2>4 DEF CopyLastSuccessDoes, InTime, Ages
  <2>2. NeverMatchesStale'
    BY <1>t, <1>c, <1>d, <2>0
       DEF CopyLastSuccessDoes, InTime, Ages, Follows, NeverMatchesStale, Excluded,
          Downloading, Undecided, At, Ended
  <2> QED
    BY <2>1, <2>2
<1>9. ASSUME NEW t \in Threads, FetchRaises(t) PROVE InTime' /\ NeverMatchesStale'
  <2>0. FetchRaisesDoes(t)
    BY <1>9, <1>t, FetchRaisesEffect
  <2>1. InTime'
    BY <1>t, <1>c, <1>d, <2>0
       DEF FetchRaisesDoes, InTime, Ages, Follows, Excluded, Downloading, Undecided, Ended
  <2>2. NeverMatchesStale'
    BY <1>t, <1>c, <1>d, <2>0
       DEF FetchRaisesDoes, InTime, Ages, Follows, NeverMatchesStale, Excluded, Downloading,
          Undecided, At, Ended
  <2> QED
    BY <2>1, <2>2
<1>10. ASSUME NEW t \in Threads, Install(t) PROVE InTime' /\ NeverMatchesStale'
  <2>0. InstallDoes(t)
    BY <1>10, <1>t, InstallEffect
  <2>1. InTime'
    BY <1>t, <1>c, <1>d, <2>0
       DEF InstallDoes, InTime, Ages, Follows, Excluded, Downloading, Undecided, Ended
  <2>2. NeverMatchesStale'
    BY <1>t, <1>c, <1>d, <2>0
       DEF InstallDoes, InTime, Ages, Follows, NeverMatchesStale, Excluded, Downloading,
          Undecided, At, Ended
  <2> QED
    BY <2>1, <2>2
<1>11. ASSUME NEW t \in Threads, Match(t) PROVE InTime' /\ NeverMatchesStale'
  <2>0. PICK s \in {"available", "done"} : MatchDoes(t, s)
    BY <1>11, <1>t, MatchEffect
  <2>1. InTime'
    BY <1>t, <1>c, <1>d, <2>0
       DEF MatchDoes, InTime, Ages, Follows, Excluded, Downloading, Undecided, Ended
  <2>2. NeverMatchesStale'
    BY <1>t, <1>c, <1>d, <2>0
       DEF MatchDoes, InTime, Ages, Follows, NeverMatchesStale, Excluded, Downloading,
          Undecided, At, Ended
  <2> QED
    BY <2>1, <2>2
<1>12. ASSUME NEW t \in Threads, AskAvailable(t) PROVE InTime' /\ NeverMatchesStale'
  <2>0. AskAvailableDoes(t)
    BY <1>12, <1>t, AskAvailableEffect
  <2>1. InTime'
    BY <1>t, <1>c, <1>d, <2>0
       DEF AskAvailableDoes, InTime, Ages, Follows, Excluded, Downloading, Undecided, Ended
  <2>2. NeverMatchesStale'
    BY <1>t, <1>c, <1>d, <2>0
       DEF AskAvailableDoes, InTime, Ages, Follows, NeverMatchesStale, Excluded, Downloading,
          Undecided, At, Ended
  <2> QED
    BY <2>1, <2>2
<1>13. ASSUME Clear PROVE InTime' /\ NeverMatchesStale'
  BY <1>t, <1>13 DEF Clear, InTime, NeverMatchesStale
<1>14. ASSUME UNCHANGED vars PROVE InTime' /\ NeverMatchesStale'
  BY <1>t, <1>14 DEF vars, InTime, NeverMatchesStale, Ages, Follows, At
<1> QED
  BY <1>i, <1>1, <1>2, <1>3, <1>4, <1>5, <1>6, <1>7, <1>8, <1>9, <1>10, <1>11, <1>12, <1>13,
     <1>14
     DEF Next, Proceed, TInv

\* While only lazy checks run, no host is matched against a list that is refresh_seconds old
\* or never came, unless a download was attempted within the cooldown; for a wall clock that
\* does not go back and a cooldown above zero.
THEOREM NeverMatchesStaleHolds ==
    ASSUME MaxStepBack = 0, Cooldown > 0
    PROVE  Spec => []NeverMatchesStale
<1>1. TInv /\ [Next]_vars => TInv'
  BY NextTInv
<1>2. TInv => NeverMatchesStale
  BY DEF TInv
<1> QED
  BY <1>1, <1>2, InitTInv, PTL DEF Spec
=============================================================================
