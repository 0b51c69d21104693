----------------------- MODULE DnsResolutionCache_proofs -----------------------
(***************************************************************************)
(* TLAPS proofs about DnsResolutionCache, for any hosts, answers, ttls and *)
(* sizes: types and the order of use, that it answers as a store with a    *)
(* time to live must, whatever the clock does, and, under a clock that     *)
(* never goes back, that only the least recently used entry is evicted.    *)
(***************************************************************************)
EXTENDS DnsResolutionCache, FiniteSetTheorems, FunctionTheorems, TLAPS

Elements(s) == {s[i] : i \in DOMAIN s}

Distinct(s) == \A i, j \in DOMAIN s : s[i] = s[j] => i = j

Before(s, a, b) == \E i, j \in DOMAIN s : i < j /\ s[i] = a /\ s[j] = b

-----------------------------------------------------------------------------
(* The order of use *)

\* A sequence without repetition is as long as its set of elements is large.
LEMMA DistinctCardinality ==
    ASSUME NEW S, NEW s \in Seq(S), Distinct(s)
    PROVE  IsFiniteSet(Elements(s)) /\ Cardinality(Elements(s)) = Len(s)
<1> DEFINE f == [i \in 1..Len(s) |-> s[i]]
<1>a. DOMAIN s = 1..Len(s)
  OBVIOUS
<1>b. f \in [1..Len(s) -> Elements(s)]
  BY <1>a DEF Elements
<1>c. \A i, j \in 1..Len(s) : f[i] = f[j] => i = j
  BY <1>a DEF Distinct
<1>d. \A e \in Elements(s) : \E i \in 1..Len(s) : f[i] = e
  BY <1>a DEF Elements
<1> HIDE DEF f
<1>1. f \in Bijection(1..Len(s), Elements(s))
  BY <1>b, <1>c, <1>d, Fun_IsBij
<1>2. ExistsBijection(1..Len(s), Elements(s))
  BY <1>1 DEF ExistsBijection
<1> QED
  BY <1>2, FS_CountingElements, FS_NatBijection

\* Deleting a key keeps the order of the others.
LEMMA WithoutSpec ==
    ASSUME order \in Seq(Hosts), Distinct(order), NEW h
    PROVE  /\ Without(h) \in Seq(Hosts)
           /\ Distinct(Without(h))
           /\ Elements(Without(h)) = Cached \ {h}
           /\ Len(Without(h)) = IF h \in Cached THEN Len(order) - 1 ELSE Len(order)
           /\ \A a, b : Before(Without(h), a, b) => Before(order, a, b)
<1>1. CASE h \notin Cached
  <2>1. Without(h) = order
    BY <1>1 DEF Without
  <2> QED
    BY <1>1, <2>1 DEF Cached, Elements
<1>2. CASE h \in Cached
  <2> DEFINE place == CHOOSE i \in DOMAIN order : order[i] = h
             w == Without(h)
             at(i) == IF i < place THEN i ELSE i + 1
  <2>1. place \in 1..Len(order) /\ order[place] = h
    BY <1>2 DEF Cached
  <2>2. w = [i \in 1..(Len(order) - 1) |-> order[at(i)]]
    BY <1>2 DEF Without
  <2> HIDE DEF place, w
  <2>3. \A i \in 1..(Len(order) - 1) : at(i) \in 1..Len(order) /\ at(i) # place
    BY <2>1
  <2>4. w \in Seq(Hosts) /\ Len(w) = Len(order) - 1 /\ DOMAIN w = 1..(Len(order) - 1)
    BY <2>1, <2>2, <2>3
  <2>5. \A i, j \in DOMAIN w : (i < j <=> at(i) < at(j)) /\ (i = j <=> at(i) = at(j))
    BY <2>1, <2>4
  <2>6. Distinct(w)
    BY <2>2, <2>3, <2>4, <2>5 DEF Distinct
  <2>7. \A a, b : Before(w, a, b) => Before(order, a, b)
    BY <2>2, <2>3, <2>4, <2>5 DEF Before
  <2>8. Elements(w) \subseteq Cached \ {h}
    BY <2>1, <2>2, <2>3, <2>4 DEF Elements, Cached, Distinct
  <2>9. ASSUME NEW k \in Cached, k # h PROVE k \in Elements(w)
    <3>1. PICK j \in 1..Len(order) : order[j] = k
      BY DEF Cached
    <3>2. j # place
      BY <2>1, <2>9, <3>1
    <3>3. CASE j < place
      <4>1. j \in DOMAIN w /\ at(j) = j
        BY <2>1, <2>4, <3>1, <3>3
      <4> QED
        BY <2>2, <2>4, <3>1, <4>1 DEF Elements
    <3>4. CASE j > place
      <4>1. j - 1 \in DOMAIN w /\ at(j - 1) = j
        BY <2>1, <2>4, <3>1, <3>4
      <4> QED
        BY <2>2, <2>4, <3>1, <4>1 DEF Elements
    <3> QED
      BY <2>1, <3>1, <3>2, <3>3, <3>4
  <2> QED
    BY <1>2, <2>4, <2>6, <2>7, <2>8, <2>9 DEF w
<1> QED
  BY <1>1, <1>2

\* A key that is used becomes the last, the others keep their order.
LEMMA MoveToEndSpec ==
    ASSUME order \in Seq(Hosts), Distinct(order), NEW h \in Hosts
    PROVE  LET m == MoveToEnd(h)
           IN  /\ m \in Seq(Hosts)
               /\ Distinct(m)
               /\ Elements(m) = Cached \cup {h}
               /\ Len(m) \in 1..(Len(order) + 1) /\ m[Len(m)] = h
               /\ h \in Cached => Len(m) = Len(order)
               /\ \A a, b : Before(m, a, b) => a # h /\ (b = h \/ Before(order, a, b))
<1> DEFINE w == Without(h)
           m == MoveToEnd(h)
<1>1. /\ w \in Seq(Hosts) /\ Distinct(w) /\ Elements(w) = Cached \ {h}
      /\ Len(w) = IF h \in Cached THEN Len(order) - 1 ELSE Len(order)
      /\ \A a, b : Before(w, a, b) => Before(order, a, b)
  BY WithoutSpec
<1>2. m = Append(w, h)
  BY DEF MoveToEnd
<1> HIDE DEF w, m
<1>3. /\ m \in Seq(Hosts) /\ Len(m) = Len(w) + 1 /\ m[Len(m)] = h
      /\ DOMAIN m = 1..(Len(w) + 1) /\ DOMAIN w = 1..Len(w)
      /\ \A i \in 1..Len(w) : m[i] = w[i]
  BY <1>1, <1>2
<1>4. \A i \in 1..Len(w) : w[i] # h
  BY <1>1, <1>3 DEF Elements
<1>5. Distinct(m)
  BY <1>1, <1>3, <1>4, SMTT(30) DEF Distinct
<1>6. Elements(m) = Cached \cup {h}
  <2>1. Elements(m) = Elements(w) \cup {h}
    BY <1>1, <1>3 DEF Elements
  <2> QED
    BY <1>1, <2>1
<1>7. ASSUME NEW a, NEW b, Before(m, a, b) PROVE a # h /\ (b = h \/ Before(w, a, b))
  <2>1. PICK i, j \in DOMAIN m : i < j /\ m[i] = a /\ m[j] = b
    BY <1>7 DEF Before
  <2>2. i \in 1..Len(w) /\ w[i] = a
    BY <1>1, <1>3, <2>1
  <2>3. CASE j = Len(w) + 1
    BY <1>3, <1>4, <2>1, <2>2, <2>3
  <2>4. CASE j # Len(w) + 1
    <3>1. j \in 1..Len(w) /\ w[j] = b
      BY <1>1, <1>3, <2>1, <2>4, SMTT(30)
    <3> QED
      BY <1>3, <1>4, <2>1, <2>2, <3>1 DEF Before
  <2> QED
    BY <2>3, <2>4
<1>8. Len(m) \in 1..(Len(order) + 1) /\ (h \in Cached => Len(m) = Len(order))
  BY <1>1, <1>3
<1> QED
  BY <1>1, <1>3, <1>5, <1>6, <1>7, <1>8 DEF m

\* An eviction takes the first key, and takes it only from a full cache.
LEMMA EvictSpec ==
    ASSUME NEW m \in Seq(Hosts), Distinct(m), Len(m) \in 1..(MaxHosts + 1)
    PROVE  LET e == EvictOldest(m)
           IN  /\ e \in Seq(Hosts)
               /\ Distinct(e)
               /\ Elements(e) \subseteq Elements(m)
               /\ Len(e) \in 1..MaxHosts /\ m[Len(m)] \in Elements(e)
               /\ \A a, b : Before(e, a, b) => Before(m, a, b)
               /\ \A k \in Elements(m) \ Elements(e) :
                     Len(e) = MaxHosts /\ \A b \in Elements(e) : Before(m, k, b)
<1> USE CacheAssumption DEF CacheAssumption
<1> DEFINE e == EvictOldest(m)
<1>0. DOMAIN m = 1..Len(m)
  OBVIOUS
<1>1. CASE Len(m) <= MaxHosts
  <2>1. e = m
    BY <1>1 DEF EvictOldest
  <2> HIDE DEF e
  <2>2. m[Len(m)] \in Elements(m) /\ Len(m) \in 1..MaxHosts
    BY <1>0, <1>1 DEF Elements
  <2> QED
    BY <2>1, <2>2 DEF e
<1>2. CASE Len(m) > MaxHosts
  <2>1. Len(m) = MaxHosts + 1
    BY <1>2
  <2>2. e = SubSeq(m, 2, MaxHosts + 1)
    BY <1>2, <2>1 DEF EvictOldest
  <2> HIDE DEF e
  <2>3. /\ e \in Seq(Hosts) /\ Len(e) = MaxHosts /\ DOMAIN e = 1..MaxHosts
        /\ \A i \in 1..MaxHosts : e[i] = m[i + 1]
    BY <2>1, <2>2
  <2>4. Distinct(e)
    BY <1>0, <2>1, <2>3, SMTT(30) DEF Distinct
  <2>5. Elements(e) \subseteq Elements(m) /\ m[Len(m)] \in Elements(e)
    <3>1. m[Len(m)] = e[MaxHosts] /\ MaxHosts \in DOMAIN e
      BY <2>1, <2>3
    <3>2. m[Len(m)] \in Elements(e)
      BY <3>1 DEF Elements
    <3>3. ASSUME NEW i \in DOMAIN e PROVE e[i] \in Elements(m)
      <4>1. i + 1 \in DOMAIN m /\ e[i] = m[i + 1]
        BY <1>0, <2>1, <2>3
      <4> QED
        BY <4>1 DEF Elements
    <3>4. Elements(e) \subseteq Elements(m)
      BY <3>3 DEF Elements
    <3> QED
      BY <3>2, <3>4
  <2>6. ASSUME NEW a, NEW b, Before(e, a, b) PROVE Before(m, a, b)
    <3>1. PICK i, j \in 1..MaxHosts : i < j /\ e[i] = a /\ e[j] = b
      BY <2>3, <2>6 DEF Before
    <3>2. i + 1 \in DOMAIN m /\ j + 1 \in DOMAIN m /\ i + 1 < j + 1
      BY <1>0, <2>1, <3>1
    <3>3. m[i + 1] = a /\ m[j + 1] = b
      BY <2>3, <3>1
    <3> QED
      BY <3>2, <3>3 DEF Before
  <2>7. ASSUME NEW k \in Elements(m), k \notin Elements(e), NEW b \in Elements(e)
        PROVE  Before(m, k, b)
    <3>1. PICK i \in 1..Len(m) : m[i] = k
      BY <1>0 DEF Elements
    <3>2. i = 1
      <4>1. SUFFICES ASSUME i # 1 PROVE FALSE
        OBVIOUS
      <4>2. i - 1 \in 1..MaxHosts /\ e[i - 1] = k
        BY <2>1, <2>3, <3>1, <4>1
      <4> QED
        BY <2>3, <2>7, <4>2 DEF Elements
    <3>3. PICK j \in 1..MaxHosts : e[j] = b
      BY <2>3 DEF Elements
    <3> QED
      BY <1>0, <2>1, <2>3, <3>1, <3>2, <3>3, SMTT(30) DEF Before
  <2> QED
    BY <2>3, <2>4, <2>5, <2>6, <2>7 DEF e
<1> QED
  BY <1>1, <1>2

-----------------------------------------------------------------------------
(* Types, the order, and the entries, whatever the clock does *)

\* The keys stand in the order once each, and an entry is the last one stored.
IInv ==
    /\ TypeOK
    /\ Distinct(order)
    /\ \A h \in Cached : stored[h] = entries[h]

LEMMA InitIInv == Init => IInv
<1> SUFFICES ASSUME Init PROVE IInv
  OBVIOUS
<1>1. order \in Seq(Hosts) /\ Len(order) = 0 /\ Cached = {} /\ Distinct(order)
  BY DEF Init, Cached, Distinct
<1>2. Cardinality(Cached) = 0
  BY <1>1, FS_EmptySet
<1> QED
  BY <1>1, <1>2, CacheAssumption DEF Init, IInv, TypeOK, CacheAssumption

LEMMA GetAbsentIInv ==
    ASSUME IInv, NEW h \in Hosts, GetAbsent(h)
    PROVE  IInv'
BY DEF GetAbsent, IInv, TypeOK, Cached

LEMMA GetExpiredIInv ==
    ASSUME IInv, NEW h \in Hosts, GetExpired(h)
    PROVE  IInv' /\ Cached' = Cached \ {h}
<1>1. /\ order' = Without(h) /\ entries' = Restricted(entries, Without(h)) /\ h \in Cached
      /\ clock' \in Int /\ reply' = [key |-> h, value |-> Nothing]
      /\ UNCHANGED <<ttl, stored, since>>
  BY CacheAssumption DEF GetExpired, ReadingsAfter, IInv, TypeOK, CacheAssumption
<1>2. /\ order' \in Seq(Hosts) /\ Distinct(order') /\ Elements(order') = Cached \ {h}
      /\ Len(order') = Len(order) - 1
  BY <1>1, WithoutSpec DEF IInv, TypeOK
<1>3. Cached' = Elements(order')
  BY DEF Cached, Elements
<1>4. entries' = [k \in Cached \ {h} |-> entries[k]]
  BY <1>1, <1>2 DEF Restricted, Elements
<1>5. Cardinality(Cached') = Len(order')
  BY <1>2, <1>3, DistinctCardinality
<1> QED
  BY <1>1, <1>2, <1>3, <1>4, <1>5, CacheAssumption DEF IInv, TypeOK, CacheAssumption

LEMMA GetFreshIInv ==
    ASSUME IInv, NEW h \in Hosts, GetFresh(h)
    PROVE  IInv' /\ Cached' = Cached
<1>1. /\ order' = MoveToEnd(h) /\ h \in Cached /\ clock' \in Int
      /\ reply' = [key |-> h, value |-> entries[h].value] /\ since' = Used(h)
      /\ UNCHANGED <<ttl, entries, stored>>
  BY CacheAssumption DEF GetFresh, ReadingsAfter, IInv, TypeOK, CacheAssumption
<1>a. /\ order' \in Seq(Hosts) /\ Distinct(order') /\ Elements(order') = Cached \cup {h}
      /\ h \in Cached => Len(order') = Len(order)
  BY <1>1, MoveToEndSpec DEF IInv, TypeOK
<1>2. /\ order' \in Seq(Hosts) /\ Distinct(order') /\ Elements(order') = Cached
      /\ Len(order') = Len(order)
  BY <1>1, <1>a
<1>3. Cached' = Elements(order')
  BY DEF Cached, Elements
<1>4. Cardinality(Cached') = Len(order')
  BY <1>2, <1>3, DistinctCardinality
<1>5. entries[h].value \in Answers \cup {Failed}
  BY <1>1 DEF IInv, TypeOK, Entry
<1>6. since' \in [Hosts -> SUBSET Hosts]
  BY <1>1 DEF IInv, TypeOK, Used
<1> QED
  BY <1>1, <1>2, <1>3, <1>4, <1>5, <1>6 DEF IInv, TypeOK

LEMMA GetIInv ==
    ASSUME IInv, NEW h \in Hosts, Get(h)
    PROVE  IInv'
BY GetAbsentIInv, GetExpiredIInv, GetFreshIInv DEF Get

\* The keys a store leaves, and the entry it makes.
Keys(h) == EvictOldest(MoveToEnd(h))

LEMMA StoreSpec ==
    ASSUME IInv, NEW h \in Hosts, NEW value \in Answers \cup {Failed}, Store(h, value)
    PROVE  \E entry \in Entry :
              /\ entry = [value |-> value, expires_at |-> clock' + TtlOf(value)]
              /\ TtlOf(value) > 0 /\ clock' \in ReadingsAfter(clock) /\ clock' \in Int
              /\ Elements(MoveToEnd(h)) = Cached \cup {h}
              /\ \A a, b : Before(MoveToEnd(h), a, b) => a # h /\ (b = h \/ Before(order, a, b))
              /\ order' = Keys(h) /\ order' \in Seq(Hosts) /\ Distinct(order')
              /\ Len(order') \in 1..MaxHosts
              /\ Cached' = Elements(order') /\ Cached' \subseteq Cached \cup {h} /\ h \in Cached'
              /\ entries' = [k \in Cached' |-> IF k = h THEN entry ELSE entries[k]]
              /\ stored' = [stored EXCEPT ![h] = entry]
              /\ since' = Used(h)
              /\ UNCHANGED <<ttl, reply>>
<1> DEFINE m == MoveToEnd(h)
           entry == [value |-> value, expires_at |-> clock' + TtlOf(value)]
<1>1. /\ clock' \in ReadingsAfter(clock) /\ order' = Keys(h)
      /\ entries' = Restricted([k \in Cached \cup {h} |-> IF k = h THEN entry ELSE entries[k]],
                               Keys(h))
      /\ stored' = [stored EXCEPT ![h] = entry] /\ since' = Used(h)
      /\ TtlOf(value) > 0 /\ UNCHANGED <<ttl, reply>>
  BY DEF Store, Keys
<1>2. clock' \in Int /\ TtlOf(value) \in Int
  BY <1>1, CacheAssumption DEF ReadingsAfter, TtlOf, IInv, TypeOK, CacheAssumption
<1>3. entry \in Entry
  BY <1>2 DEF Entry
<1>4. /\ m \in Seq(Hosts) /\ Distinct(m) /\ Elements(m) = Cached \cup {h}
      /\ Len(m) \in 1..(Len(order) + 1) /\ m[Len(m)] = h
      /\ h \in Cached => Len(m) = Len(order)
      /\ \A a, b : Before(m, a, b) => a # h /\ (b = h \/ Before(order, a, b))
  BY MoveToEndSpec DEF IInv, TypeOK
<1>5. Len(m) \in 1..(MaxHosts + 1)
  BY <1>4, CacheAssumption DEF IInv, TypeOK, CacheAssumption
<1>6. /\ order' \in Seq(Hosts) /\ Distinct(order') /\ Elements(order') \subseteq Elements(m)
      /\ Len(order') \in 1..MaxHosts /\ h \in Elements(order')
  BY <1>1, <1>4, <1>5, EvictSpec DEF Keys
<1>7. Cached' = Elements(order')
  BY DEF Cached, Elements
<1>8. Elements(Keys(h)) = Cached'
  BY <1>1, <1>7
<1> HIDE DEF entry
<1>9. entries' = [k \in Cached' |-> IF k = h THEN entry ELSE entries[k]]
  <2>1. entries' = [k \in Elements(Keys(h)) |->
                       [j \in Cached \cup {h} |-> IF j = h THEN entry ELSE entries[j]][k]]
    BY <1>1 DEF Restricted, Elements
  <2> QED
    BY <1>4, <1>6, <1>7, <1>8, <2>1
<1> QED
  BY <1>1, <1>2, <1>3, <1>4, <1>6, <1>7, <1>9 DEF entry

LEMMA StoreIInv ==
    ASSUME IInv, NEW h \in Hosts, NEW value \in Answers \cup {Failed}, Store(h, value)
    PROVE  IInv'
<1>1. PICK entry \in Entry :
         /\ clock' \in Int /\ order' \in Seq(Hosts) /\ Distinct(order')
         /\ Len(order') \in 1..MaxHosts
         /\ Cached' = Elements(order') /\ Cached' \subseteq Cached \cup {h} /\ h \in Cached'
         /\ entries' = [k \in Cached' |-> IF k = h THEN entry ELSE entries[k]]
         /\ stored' = [stored EXCEPT ![h] = entry]
         /\ since' = Used(h)
         /\ UNCHANGED <<ttl, reply>>
  BY StoreSpec
<1>2. Cardinality(Cached') = Len(order')
  BY <1>1, DistinctCardinality
<1>3. since' \in [Hosts -> SUBSET Hosts]
  BY <1>1 DEF IInv, TypeOK, Used
<1>4. entries' \in [Cached' -> Entry]
  BY <1>1 DEF IInv, TypeOK
<1>5. stored' \in [Hosts -> Entry \cup {Nothing}]
  BY <1>1 DEF IInv, TypeOK
<1>6. \A k \in Cached' : stored'[k] = entries'[k]
  <2>1. Cached \subseteq Hosts
    BY DEF IInv, TypeOK, Cached
  <2> QED
    BY <1>1, <2>1 DEF IInv, TypeOK
<1> QED
  BY <1>1, <1>2, <1>3, <1>4, <1>5, <1>6, CacheAssumption DEF IInv, TypeOK, CacheAssumption

LEMMA ResetIInv ==
    ASSUME IInv, Reset
    PROVE  IInv'
<1>1. order' \in Seq(Hosts) /\ Len(order') = 0 /\ Cached' = {} /\ Distinct(order')
  BY DEF Reset, Cached, Distinct
<1>2. Cardinality(Cached') = 0
  BY <1>1, FS_EmptySet
<1> QED
  BY <1>1, <1>2, CacheAssumption DEF Reset, IInv, TypeOK, CacheAssumption

LEMMA NextIInv == IInv /\ [Next]_vars => IInv'
<1> SUFFICES ASSUME IInv, [Next]_vars PROVE IInv'
  OBVIOUS
<1>1. ASSUME UNCHANGED vars PROVE IInv'
  BY <1>1 DEF vars, IInv, TypeOK, Cached
<1> QED
  BY <1>1, GetIInv, StoreIInv, ResetIInv DEF Next, StoreNothing

LEMMA Invariance == Spec => []IInv
BY InitIInv, NextIInv, PTL DEF Spec

\* Types: in particular a key has one place in the order, each has an entry, and there are
\* never more than max_hosts (the OrderedDict behind get and store).
THEOREM TypeCorrect == Spec => []TypeOK
<1>1. IInv => TypeOK
  BY DEF IInv
<1> QED
  BY <1>1, Invariance, PTL

-----------------------------------------------------------------------------
(* The abstract store *)

\* The cache, of whatever size and under whatever clock, answers as TtlStore allows: every
\* step of a method is a step of the store.
THEOREM RefinesTtlStore == Spec => ImplementsTtlStore
<1> DEFINE ttlOf == [value \in Answers \cup {Failed} |->
                        IF value \in Answers THEN ttl.positive ELSE ttl.negative]
<1>1. Init => Abstract!Init
  BY CacheAssumption DEF Init, Abstract!Init, CacheAssumption
<1>2. IInv /\ [Next]_vars => [Abstract!Next]_Abstract!vars
  <2> SUFFICES ASSUME IInv, [Next]_vars PROVE [Abstract!Next]_Abstract!vars
    OBVIOUS
  <2>0. clock \in Int /\ ttl \in [positive : 0..MaxTtl, negative : 0..MaxTtl]
    BY DEF IInv, TypeOK
  <2>1. \A now \in ReadingsAfter(clock) : now \in Int
    BY <2>0, CacheAssumption DEF ReadingsAfter, CacheAssumption
  <2>2. ASSUME UNCHANGED vars PROVE UNCHANGED Abstract!vars
    BY <2>2 DEF vars, Abstract!vars
  <2>3. ASSUME NEW h \in Hosts, GetAbsent(h) \/ GetExpired(h) PROVE Abstract!Next
    <3>1. Abstract!Miss(h) /\ clock' \in Int
      BY <2>0, <2>1, <2>3 DEF GetAbsent, GetExpired, Abstract!Miss
    <3> QED
      BY <3>1 DEF Abstract!Next
  <2>4. ASSUME NEW h \in Hosts, GetFresh(h) PROVE Abstract!Next
    <3>1. h \in Cached /\ stored[h] = entries[h] /\ stored[h] # Nothing
      BY <2>4, CacheAssumption DEF GetFresh, IInv, TypeOK, CacheAssumption
    <3>2. Abstract!Hit(h) /\ clock' \in Int
      BY <2>1, <2>4, <3>1 DEF GetFresh, Abstract!Hit
    <3> QED
      BY <3>2 DEF Abstract!Next
  <2>5. ASSUME NEW h \in Hosts, NEW value \in Answers \cup {Failed}, Store(h, value)
        PROVE  Abstract!Next
    <3>1. ttlOf[value] = TtlOf(value)
      BY CacheAssumption DEF TtlOf, CacheAssumption
    <3>2. Abstract!Keep(h, value) /\ clock' \in Int
      BY <2>1, <2>5, <3>1 DEF Store, Abstract!Keep
    <3> QED
      BY <3>2 DEF Abstract!Next
  <2>6. ASSUME Reset PROVE Abstract!Next
    <3>1. Abstract!Clear /\ clock' \in Int
      BY <2>0, <2>6 DEF Reset, Abstract!Clear
    <3> QED
      BY <3>1 DEF Abstract!Next
  <2> QED
    BY <2>2, <2>3, <2>4, <2>5, <2>6 DEF Next, Get, StoreNothing
<1> QED
  BY <1>1, <1>2, Invariance, PTL DEF Spec, ImplementsTtlStore, Abstract!Spec

-----------------------------------------------------------------------------
(* Eviction, under a clock that never goes back *)

\* Who stands behind a host in the order was used after it.
Recency == \A a, b : Before(order, a, b) => b \in since[a]

EInv ==
    /\ IInv
    /\ Recency
    /\ \A h \in Hosts : IsFiniteSet(since[h])
    /\ EvictsLeastRecent

LEMMA InitEInv == Init => EInv
<1> SUFFICES ASSUME Init PROVE EInv
  OBVIOUS
<1>1. Recency
  BY DEF Init, Recency, Before
<1>2. \A h \in Hosts : IsFiniteSet(since[h])
  BY FS_EmptySet DEF Init
<1>3. EvictsLeastRecent
  BY DEF Init, EvictsLeastRecent
<1> QED
  BY <1>1, <1>2, <1>3, InitIInv DEF EInv

\* A use of a host leaves the others' sets of later uses finite, and takes none away.
LEMMA UsedSpec ==
    ASSUME NEW h \in Hosts, \A k \in Hosts : IsFiniteSet(since[k]), since' = Used(h)
    PROVE  /\ \A k \in Hosts : IsFiniteSet(since'[k])
           /\ \A k \in Hosts \ {h} : /\ since'[k] = since[k] \cup {h}
                                     /\ Cardinality(since'[k]) \in Nat
                                     /\ Cardinality(since[k]) \in Nat
                                     /\ Cardinality(since[k]) <= Cardinality(since'[k])
<1>1. since'[h] = {} /\ \A k \in Hosts \ {h} : since'[k] = since[k] \cup {h}
  BY DEF Used
<1>2. ASSUME NEW k \in Hosts PROVE IsFiniteSet(since'[k])
  <2>1. CASE k = h
    BY <1>1, <2>1, FS_EmptySet
  <2>2. CASE k # h
    <3>1. IsFiniteSet(since[k] \cup {h})
      BY FS_AddElement
    <3> QED
      BY <1>1, <2>2, <3>1
  <2> QED
    BY <2>1, <2>2
<1>3. ASSUME NEW k \in Hosts \ {h}
      PROVE  /\ Cardinality(since'[k]) \in Nat /\ Cardinality(since[k]) \in Nat
             /\ Cardinality(since[k]) <= Cardinality(since'[k])
  BY <1>1, <1>2, FS_Subset, FS_CardinalityType
<1> QED
  BY <1>1, <1>2, <1>3

LEMMA NextEInv ==
    ASSUME MaxStepBack = 0
    PROVE  EInv /\ [Next]_vars => EInv'
<1> SUFFICES ASSUME EInv, [Next]_vars PROVE EInv'
  OBVIOUS
<1>i. IInv'
  BY NextIInv DEF EInv
<1>t. IInv /\ Recency /\ EvictsLeastRecent /\ \A h \in Hosts : IsFiniteSet(since[h])
  BY DEF EInv
<1>c. clock \in Int /\ \A now \in ReadingsAfter(clock) : now \in Int /\ clock <= now
  BY <1>t, CacheAssumption DEF IInv, TypeOK, ReadingsAfter, CacheAssumption
<1>s. /\ Cached \subseteq Hosts
      /\ order \in Seq(Hosts) /\ Distinct(order)
      /\ \A h \in Cached : stored[h] = entries[h]
      /\ \A h \in Hosts : stored[h] # Nothing => stored[h].expires_at \in Int
  <2>1. \A h \in Hosts : stored[h] \in Entry \cup {Nothing}
    BY <1>t DEF IInv, TypeOK
  <2>2. \A h \in Hosts : stored[h] # Nothing => stored[h].expires_at \in Int
    BY <2>1 DEF Entry
  <2> QED
    BY <1>t, <2>2 DEF IInv, TypeOK, Cached
<1>1. ASSUME NEW h \in Hosts, GetAbsent(h) PROVE EInv'
  BY <1>1, <1>i, <1>t DEF GetAbsent, EInv, Recency, EvictsLeastRecent, Cached
<1>2. ASSUME NEW h \in Hosts, GetExpired(h) PROVE EInv'
  <2>1. /\ order' = Without(h) /\ h \in Cached /\ clock <= clock' /\ clock' \in Int
        /\ entries[h].expires_at <= clock' /\ UNCHANGED <<stored, since>>
    BY <1>2, <1>c DEF GetExpired
  <2>2. Cached' = Cached \ {h}
    BY <1>2, <1>t, GetExpiredIInv
  <2>3. Recency'
    BY <1>t, <1>s, <2>1, WithoutSpec DEF Recency
  <2>4. EvictsLeastRecent'
    <3> SUFFICES ASSUME NEW k \in Hosts, stored[k] # Nothing, clock' < stored[k].expires_at,
                        k \notin Cached'
                 PROVE  Cardinality(since[k]) >= MaxHosts
      BY <2>1 DEF EvictsLeastRecent
    <3>1. k \notin Cached /\ clock < stored[k].expires_at
      BY <1>c, <1>s, <2>1, <2>2
    <3> QED
      BY <1>t, <3>1 DEF EvictsLeastRecent
  <2> QED
    BY <1>i, <1>t, <2>1, <2>3, <2>4 DEF EInv
<1>3. ASSUME NEW h \in Hosts, GetFresh(h) PROVE EInv'
  <2>1. /\ order' = MoveToEnd(h) /\ h \in Cached /\ clock <= clock' /\ clock' \in Int
        /\ since' = Used(h) /\ UNCHANGED stored
    BY <1>3, <1>c DEF GetFresh
  <2>2. Cached' = Cached
    BY <1>3, <1>t, GetFreshIInv
  <2>3. /\ \A k \in Hosts : IsFiniteSet(since'[k])
        /\ \A k \in Hosts \ {h} : /\ since'[k] = since[k] \cup {h}
                                  /\ Cardinality(since'[k]) \in Nat
                                  /\ Cardinality(since[k]) \in Nat
                                  /\ Cardinality(since[k]) <= Cardinality(since'[k])
    BY <1>t, <2>1, UsedSpec
  <2>4. Recency'
    <3> SUFFICES ASSUME NEW a, NEW b, Before(order', a, b) PROVE b \in since'[a]
      BY DEF Recency
    <3>1. a # h /\ (b = h \/ Before(order, a, b))
      BY <1>s, <2>1, MoveToEndSpec
    <3>2. a \in Hosts
      BY <1>s, <2>2 DEF Before, Cached
    <3> QED
      BY <1>t, <2>3, <3>1, <3>2 DEF Recency
  <2>5. EvictsLeastRecent'
    <3> SUFFICES ASSUME NEW k \in Hosts, stored[k] # Nothing, clock' < stored[k].expires_at,
                        k \notin Cached
                 PROVE  Cardinality(since'[k]) >= MaxHosts
      BY <2>1, <2>2 DEF EvictsLeastRecent
    <3>1. clock < stored[k].expires_at /\ k # h
      BY <1>c, <1>s, <2>1
    <3>2. Cardinality(since[k]) >= MaxHosts
      BY <1>t, <3>1 DEF EvictsLeastRecent
    <3> QED
      BY <2>3, <3>1, <3>2, CacheAssumption DEF CacheAssumption
  <2> QED
    BY <1>i, <2>3, <2>4, <2>5 DEF EInv
<1>4. ASSUME NEW h \in Hosts, NEW value \in Answers \cup {Failed}, Store(h, value) PROVE EInv'
  <2> DEFINE m == MoveToEnd(h)
  <2>1. PICK entry \in Entry :
           /\ clock' \in ReadingsAfter(clock)
           /\ Elements(m) = Cached \cup {h}
           /\ \A a, b : Before(m, a, b) => a # h /\ (b = h \/ Before(order, a, b))
           /\ order' = Keys(h) /\ order' \in Seq(Hosts) /\ Distinct(order')
           /\ Cached' = Elements(order') /\ h \in Cached'
           /\ stored' = [stored EXCEPT ![h] = entry]
           /\ since' = Used(h)
    BY <1>4, <1>t, StoreSpec
  <2>2. /\ \A k \in Hosts : IsFiniteSet(since'[k])
        /\ \A k \in Hosts \ {h} : /\ since'[k] = since[k] \cup {h}
                                  /\ Cardinality(since'[k]) \in Nat
                                  /\ Cardinality(since[k]) \in Nat
                                  /\ Cardinality(since[k]) <= Cardinality(since'[k])
    BY <1>t, <2>1, UsedSpec
  <2>3. m \in Seq(Hosts) /\ Distinct(m) /\ Len(m) \in 1..(MaxHosts + 1)
    <3>1. m \in Seq(Hosts) /\ Distinct(m) /\ Len(m) \in 1..(Len(order) + 1)
      BY <1>s, MoveToEndSpec
    <3> QED
      BY <1>t, <3>1, CacheAssumption DEF IInv, TypeOK, CacheAssumption
  <2>4. /\ \A a, b : Before(order', a, b) => Before(m, a, b)
        /\ \A k \in Elements(m) \ Cached' :
              Len(order') = MaxHosts /\ \A b \in Cached' : Before(m, k, b)
    <3>1. order' = EvictOldest(m)
      BY <2>1 DEF Keys
    <3> HIDE DEF m
    <3> QED
      BY <2>1, <2>3, <3>1, EvictSpec
  <2> HIDE DEF m
  <2>5. Recency'
    <3> SUFFICES ASSUME NEW a, NEW b, Before(order', a, b) PROVE b \in since'[a]
      BY DEF Recency
    <3>1. a # h /\ (b = h \/ Before(order, a, b))
      BY <2>1, <2>4
    <3>2. a \in Hosts
      BY <2>1 DEF Before
    <3> QED
      BY <1>t, <2>2, <3>1, <3>2 DEF Recency
  <2>6. EvictsLeastRecent'
    <3> SUFFICES ASSUME NEW k \in Hosts, stored'[k] # Nothing, clock' < stored'[k].expires_at,
                        k \notin Cached'
                 PROVE  Cardinality(since'[k]) >= MaxHosts
      BY DEF EvictsLeastRecent
    <3>1. k # h /\ stored'[k] = stored[k]
      BY <1>t, <2>1 DEF IInv, TypeOK
    <3>2. CASE k \in Cached
      <4>1. k \in Elements(m) \ Cached'
        BY <2>1, <3>2
      <4>2. Len(order') = MaxHosts /\ \A b \in Cached' : Before(m, k, b)
        BY <2>4, <4>1
      <4>3. Cached' \subseteq since'[k]
        BY <1>t, <2>1, <2>2, <3>1, <4>2 DEF Recency
      <4>4. Cardinality(Cached') = MaxHosts
        BY <2>1, <4>2, DistinctCardinality
      <4>5. Cardinality(Cached') <= Cardinality(since'[k])
        BY <2>2, <4>3, FS_Subset
      <4> QED
        BY <2>2, <3>1, <4>4, <4>5, CacheAssumption DEF CacheAssumption
    <3>3. CASE k \notin Cached
      <4>1. clock < stored[k].expires_at
        BY <1>c, <1>s, <2>1, <3>1
      <4>2. Cardinality(since[k]) >= MaxHosts
        BY <1>t, <3>1, <3>3, <4>1 DEF EvictsLeastRecent
      <4> QED
        BY <2>2, <3>1, <4>2, CacheAssumption DEF CacheAssumption
    <3> QED
      BY <3>2, <3>3
  <2> QED
    BY <1>i, <2>2, <2>5, <2>6 DEF EInv
<1>5. ASSUME Reset PROVE EInv'
  <2>1. Recency'
    BY <1>5 DEF Reset, Recency, Before
  <2>2. \A h \in Hosts : IsFiniteSet(since'[h])
    BY <1>5, FS_EmptySet DEF Reset
  <2>3. EvictsLeastRecent'
    BY <1>5 DEF Reset, EvictsLeastRecent
  <2> QED
    BY <1>i, <2>1, <2>2, <2>3 DEF EInv
<1>6. ASSUME UNCHANGED vars PROVE EInv'
  BY <1>6, <1>i, <1>t DEF vars, EInv, Recency, EvictsLeastRecent, Cached
<1> QED
  BY <1>1, <1>2, <1>3, <1>4, <1>5, <1>6 DEF Next, Get, StoreNothing

\* A resolution that has time left is gone only if max_hosts other hosts were used since its
\* host was; for a clock that does not go back (one that does lets a get delete an entry
\* that has time left again a moment later).
THEOREM EvictsLeastRecentHolds ==
    ASSUME MaxStepBack = 0
    PROVE  Spec => []EvictsLeastRecent
<1>1. EInv /\ [Next]_vars => EInv'
  BY NextEInv
<1>2. EInv => EvictsLeastRecent
  BY DEF EInv
<1> QED
  BY <1>1, <1>2, InitEInv, PTL DEF Spec
=============================================================================
