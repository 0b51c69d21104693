----------------------------- MODULE SlidingWindow -----------------------------
(***************************************************************************)
(* What the per-host half of the rate limit promises, stated on the full   *)
(* record of lookups instead of on a deque that is pruned now and then:    *)
(* a host is limited exactly when the last Window ticks, both ends         *)
(* included, already hold MaxPerHost of its lookups.  The global bucket is *)
(* abstracted to a verdict that may come at any time.                      *)
(***************************************************************************)
EXTENDS Integers, Sequences, FiniteSets

CONSTANTS Hosts, Blank, MaxPerHost, Window

VARIABLES
    clock,    \* the last reading of the clock
    history,  \* every lookup of each host, oldest first
    answer    \* the last verdict and the host it was for

vars == <<clock, history, answer>>

Recent(h, now) ==
    Cardinality({i \in DOMAIN history[h] : history[h][i].at >= now - Window})

Init ==
    /\ clock = 0
    /\ history = [h \in Hosts |-> <<>>]
    /\ answer = [host |-> Blank, verdict |-> "none"]

\* Time passes until t; nothing is asked.
Elapse(t) ==
    /\ clock' = t
    /\ UNCHANGED <<history, answer>>

\* A lookup of h is recorded at time `at`, and the method ends at time t.
Record(h, at, t, granted) ==
    /\ history' = [history EXCEPT ![h] = Append(@, [at |-> at, granted |-> granted])]
    /\ clock' = t

Grant(h, at, t) ==
    /\ Recent(h, at) < MaxPerHost
    /\ Record(h, at, t, TRUE)
    /\ answer' = [host |-> h, verdict |-> "granted"]

Limit(h, t) ==
    /\ Recent(h, t) >= MaxPerHost
    /\ clock' = t
    /\ answer' = [host |-> h, verdict |-> "host_limited"]
    /\ UNCHANGED history

\* The bucket is empty, or the host is blank: the record has no say.
LimitOtherwise(h, t, verdict) ==
    /\ clock' = t
    /\ answer' = [host |-> h, verdict |-> verdict]
    /\ UNCHANGED history

Forget(t) ==
    /\ history' = [h \in Hosts |-> <<>>]
    /\ clock' = t
    /\ UNCHANGED answer

\* The step a caller sees when the clock ends at t, having read `at` in between.
Step(at, t) ==
    \/ Elapse(t)
    \/ Forget(t)
    \/ LimitOtherwise(Blank, t, "invalid")
    \/ \E h \in Hosts :
           \/ Grant(h, at, t)
           \/ Limit(h, t)
           \/ LimitOtherwise(h, t, "globally_limited")
           \/ Record(h, at, t, FALSE) /\ UNCHANGED answer

Next == \E t \in {clock'} : \E at \in clock..t : Step(at, t)

Spec == Init /\ [][Next]_vars
=============================================================================
