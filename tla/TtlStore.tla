------------------------------- MODULE TtlStore -------------------------------
(***************************************************************************)
(* What a cache with a time to live promises whatever its size: a lookup   *)
(* answers nothing, or the last value kept for that key if that value's    *)
(* time has not run out.  It may forget a value at any moment, and never   *)
(* invents, mixes up or resurrects one.  The clock is the environment's.   *)
(***************************************************************************)
EXTENDS Integers

CONSTANTS Keys, Values, Nothing

VARIABLES
    clock,   \* the last reading of the clock
    ttl,     \* per value, how long it lives; 0 means it is not kept
    stored,  \* per key, the last value kept and when its time runs out, or Nothing
    reply    \* the key last asked for and the answer

vars == <<clock, ttl, stored, reply>>

Init ==
    /\ clock \in Int
    /\ ttl \in [Values -> Nat]
    /\ stored = [k \in Keys |-> Nothing]
    /\ reply = [key |-> Nothing, value |-> Nothing]

Miss(k) ==
    /\ reply' = [key |-> k, value |-> Nothing]
    /\ UNCHANGED <<ttl, stored>>

Hit(k) ==
    /\ stored[k] # Nothing
    /\ clock' < stored[k].expires_at
    /\ reply' = [key |-> k, value |-> stored[k].value]
    /\ UNCHANGED <<ttl, stored>>

Keep(k, v) ==
    /\ ttl[v] > 0
    /\ stored' = [stored EXCEPT ![k] = [value |-> v, expires_at |-> clock' + ttl[v]]]
    /\ UNCHANGED <<ttl, reply>>

Clear ==
    /\ stored' = [k \in Keys |-> Nothing]
    /\ UNCHANGED <<ttl, reply>>

Pass == UNCHANGED <<ttl, stored, reply>>

Next ==
    /\ clock' \in Int
    /\ \/ Clear \/ Pass
       \/ \E k \in Keys : Miss(k) \/ Hit(k) \/ (\E v \in Values : Keep(k, v))

Spec == Init /\ [][Next]_vars
=============================================================================
