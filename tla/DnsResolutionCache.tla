-------------------------- MODULE DnsResolutionCache --------------------------
(***************************************************************************)
(* urlps._security.dns_guard.DNSResolutionCache: what the resolver said    *)
(* about each host, for a while.  An OrderedDict is its keys, oldest use   *)
(* first, and the entry of each; every method holds the cache's lock, so   *)
(* each is one action.  An answer is a member of Answers (the address info *)
(* of a successful resolution) or Failed (the error of one that ended in   *)
(* DNS_RESOLUTION_FAILED).                                                 *)
(***************************************************************************)
EXTENDS Integers, Sequences, FiniteSets

CONSTANTS
    Hosts,
    Answers,      \* what successful resolutions may return
    Failed,       \* the cached form of a failed one
    Nothing,      \* no answer: get returned None
    MaxHosts,     \* max_hosts
    MaxTtl,       \* bound: the largest configured ttl
    MaxStepBack,  \* how far one reading of the clock may lie behind the last
    Horizon       \* bound: no reading is later than this

Entry == [value : Answers \cup {Failed}, expires_at : Int]

ASSUME CacheAssumption ==
    /\ Nothing \notin Answers \cup Hosts \cup Entry
    /\ Failed \notin Answers \cup {Nothing}
    /\ MaxHosts \in Nat \ {0}
    /\ MaxTtl \in Nat
    /\ MaxStepBack \in Nat
    /\ Horizon \in Nat

VARIABLES
    clock,    \* the last value the time provider returned
    ttl,      \* the configuration: ttl_seconds and negative_ttl_seconds
    order,    \* the keys of _entries, least recently used first
    entries,  \* the entry of each of them
    reply,    \* what the last get returned, and for which host
    stored,   \* history variable: the last entry made for each host since a reset
    since     \* history variable: the other hosts used since each was last used

storage == <<order, entries>>
vars == <<clock, ttl, order, entries, reply, stored, since>>

Cached == {order[i] : i \in DOMAIN order}

TypeOK ==
    /\ clock \in Int
    /\ ttl \in [positive : 0..MaxTtl, negative : 0..MaxTtl]
    /\ order \in Seq(Hosts)
    /\ entries \in [Cached -> Entry]
    /\ Cardinality(Cached) = Len(order)
    /\ Len(order) <= MaxHosts
    /\ reply \in [key : Hosts \cup {Nothing}, value : Answers \cup {Failed, Nothing}]
    /\ stored \in [Hosts -> Entry \cup {Nothing}]
    /\ since \in [Hosts -> SUBSET Hosts]

-----------------------------------------------------------------------------
(* Pure parts of the methods *)

ReadingsAfter(t) == (t - MaxStepBack)..Horizon

TtlOf(value) == IF value = Failed THEN ttl.negative ELSE ttl.positive

\* The keys after h, if it is there, was deleted.
Without(h) ==
    IF h \in Cached
    THEN LET place == CHOOSE i \in DOMAIN order : order[i] = h
         IN  [i \in 1..(Len(order) - 1) |-> order[IF i < place THEN i ELSE i + 1]]
    ELSE order

\* Mutant: a key that is used again stands in the order twice.
AppendAgain(h) == Append(order, h)

\* Mutant: a hit leaves the entry where it is, so use does not keep it.
StayInPlace(h) == IF h \in Cached THEN order ELSE Append(order, h)

\* The keys after move_to_end(h), or after h was added.
MoveToEnd(h) == Append(Without(h), h)

\* popitem(last=False) until the bound holds.
EvictOldest(keys) ==
    IF Len(keys) > MaxHosts THEN SubSeq(keys, Len(keys) - MaxHosts + 1, Len(keys)) ELSE keys

Restricted(f, keys) == [k \in {keys[i] : i \in DOMAIN keys} |-> f[k]]

\* Bookkeeping of `since` when h is used.
Used(h) == [k \in Hosts |-> IF k = h THEN {} ELSE since[k] \cup {h}]

-----------------------------------------------------------------------------
Init ==
    /\ clock = 0
    /\ ttl \in [positive : 0..MaxTtl, negative : 0..MaxTtl]
    /\ order = <<>>
    /\ entries = [k \in {} |-> Nothing]
    /\ reply = [key |-> Nothing, value |-> Nothing]
    /\ stored = [h \in Hosts |-> Nothing]
    /\ since = [h \in Hosts |-> {}]

\* Mutant: an entry is still served at the instant its time runs out.
GetAtExpiry(h) ==
    \E now \in ReadingsAfter(clock) :
        /\ h \in Cached /\ entries[h].expires_at <= now
        /\ clock' = now
        /\ reply' = [key |-> h, value |-> entries[h].value]
        /\ UNCHANGED <<ttl, order, entries, stored, since>>

GetAbsent(h) ==
    /\ h \notin Cached
    /\ reply' = [key |-> h, value |-> Nothing]
    /\ UNCHANGED <<clock, ttl, order, entries, stored, since>>

\* An entry whose time has run out is deleted by the get that finds it.
GetExpired(h) ==
    \E now \in ReadingsAfter(clock) :
        /\ h \in Cached /\ entries[h].expires_at <= now
        /\ clock' = now
        /\ order' = Without(h)
        /\ entries' = Restricted(entries, Without(h))
        /\ reply' = [key |-> h, value |-> Nothing]
        /\ UNCHANGED <<ttl, stored, since>>

GetFresh(h) ==
    \E now \in ReadingsAfter(clock) :
        /\ h \in Cached /\ entries[h].expires_at > now
        /\ clock' = now
        /\ order' = MoveToEnd(h)
        /\ reply' = [key |-> h, value |-> entries[h].value]
        /\ since' = Used(h)
        /\ UNCHANGED <<ttl, entries, stored>>

Get(h) == GetAbsent(h) \/ GetExpired(h) \/ GetFresh(h)

\* A half of the cache whose ttl is 0 keeps nothing, and keeps what the other half holds.
StoreNothing(value) ==
    /\ TtlOf(value) = 0
    /\ UNCHANGED vars

Store(h, value) ==
    /\ TtlOf(value) > 0
    /\ \E now \in ReadingsAfter(clock) :
           LET entry == [value |-> value, expires_at |-> now + TtlOf(value)]
               keys  == EvictOldest(MoveToEnd(h))
           IN  /\ clock' = now
               /\ order' = keys
               /\ entries' = Restricted([k \in Cached \cup {h} |->
                                            IF k = h THEN entry ELSE entries[k]], keys)
               /\ stored' = [stored EXCEPT ![h] = entry]
               /\ since' = Used(h)
    /\ UNCHANGED <<ttl, reply>>

Reset ==
    /\ order' = <<>>
    /\ entries' = [k \in {} |-> Nothing]
    /\ stored' = [h \in Hosts |-> Nothing]
    /\ since' = [h \in Hosts |-> {}]
    /\ UNCHANGED <<clock, ttl, reply>>

Next ==
    \/ \E h \in Hosts : Get(h) \/ (\E value \in Answers \cup {Failed} : Store(h, value))
    \/ \E value \in Answers \cup {Failed} : StoreNothing(value)
    \/ Reset

Spec == Init /\ [][Next]_vars

-----------------------------------------------------------------------------
(* Properties *)

\* A resolution whose time has not run out is gone only if max_hosts other hosts were used
\* since its host was: neither a get that deletes an expired entry nor a repeated store
\* costs another host its place (get's move_to_end, store's eviction).
EvictsLeastRecent ==
    \A h \in Hosts :
        /\ stored[h] # Nothing
        /\ clock < stored[h].expires_at
        /\ h \notin Cached
        => Cardinality(since[h]) >= MaxHosts

\* get answers as a store with a time to live must: nothing, or the last resolution stored
\* for that very host, before its time runs out; the halves keep apart, and a half that
\* is turned off stores nothing.
Abstract == INSTANCE TtlStore WITH
                Keys <- Hosts, Values <- Answers \cup {Failed},
                ttl <- [value \in Answers \cup {Failed} |->
                           IF value \in Answers THEN ttl.positive ELSE ttl.negative]
ImplementsTtlStore == Abstract!Spec
=============================================================================
