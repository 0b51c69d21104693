# urlps in TLA+

urlps parses, checks and builds URLs for programs that must not be talked into
connecting to the wrong place. Three parts of it are hard to test. What keeps
state, reads clocks and is shared by threads: the rate limiter and the cache of
the DNS checks, the check itself, the phishing feed. What stands between an
answer of a resolver and a socket: the rules about addresses and the
connect-time guard. And what a URL is after a sequence of changes, when its
string has to mean what its parts say and what was checked. This project models
the three, checks them with TLC, and proves with TLAPS, for every value of the
constants, every invariant, action property and refinement that the runs check; only
liveness is left to TLC.

## The system

| Component | State | Operations | What is hard | What makes it correct |
|---|---|---|---|---|
| DNS rate limiter (`_security/dns_guard.py`) | a token bucket; per host, a deque of lookup times | `is_allowed`, `record_lookup`, `retry_after`, `stats`, `reset` | many threads; the clock moves between two reads of one method; pruning and cleanup at odd moments | no host above its window, no interval above its tokens, `retry_after` late enough and late by no more than what passes between its two readings, pruning never changes a verdict |
| DNS resolution cache (same file) | an `OrderedDict` of resolutions with expiry | `get`, `store`, `reset` | expiry while full, two ttls of which either may be 0 | never an expired, invented or foreign answer; only the least recently used goes |
| DNS check (same file, `ip_utils.py`) | locals of the call; cache and limiter shared | `check_host_resolution`, `reset_dns_rate_limiter` | a thread runs between any two steps; timeouts, retries, deadline; another policy's answer in the cache | the verdict is the caller's own; timeouts are not remembered; every lookup paid; the deadline holds; every check ends |
| Resolver with a timeout (same file) | a worker thread per call | `_resolve_addr_info` | an abandoned worker | the environment of the check here |
| Phishing feed (`_security/phishing_db.py`) | an immutable record behind one reference, a lock | `check`, `lookup`, `refresh`, `clear`, `info` | the record is replaced between two reads; `refresh` and `clear` take no lock; downloads fail or raise | cooldown kept, a failed lazy download keeps the list, no stale list, no stuck queue |
| Egress guard (`_egress.py`) | a socket being connected | `resolve_and_validate`, `create_guarded_connection` | DNS rebinding, one address after another failing | connects only to addresses that were vetted |
| Address rules and policy (`_security/ip_utils.py`, `address_rules.py`, `host_analysis.py`, `policy.py`, `services.py`) | immutable policies and services | classification, `permits_address`, presets, overrides | precedence of deny, allow, private, metadata; an IPv4 address inside an IPv6 one | metadata and denied addresses never pass; a literal is judged alike by spelling and by address |
| Checks and pipeline (`_security/url_checks.py`, `_security/__init__.py`) | findings of one validation | `validate_url_security`, on the text and on the parts | several spellings of one host or path; an unavailable service, fail open or closed | no check the caller asked for is skipped for a spelling |
| URL value (`url.py`, `_mutations.py`, `_entrypoints.py`, `_serialization.py`, `_builder.py`) | an immutable value with its context | parse, `with_*`, `copy`, pickle | a sequence of changes; context and flags on their way to copies and pickles; the network moves meanwhile | the string names the destination that was checked; no change reaches a URL that the caller's checks would refuse |
| Reference resolution (`_resolve.py`, `_relative.py`) | none | `remove_dot_segments`, `transform_reference` | roots, empty segments, dots that are escapes | agrees with its definition |
| Parser, normalisation, validation, builder (`_parser.py`, `_normalize.py`, `_validation.py`, `_builder.py`) | none | text into parts, parts into text | delimiters and escapes inside of components | one undoes the other |
| Unicode, redaction, CLI, audit, cache registry | none or configuration | text functions, callbacks, `lru_cache` wrappers | text | tests and fuzzing |

How they interact: the pipeline calls `check_host_resolution` and
`PhishingDatabaseManager.lookup` in the caller's thread. A DNS check asks the
cache, then the limiter, then the resolver, and stores what it heard; cache and
limiter are process-wide unless `SecurityServices` brings others, and each locks
itself for single calls. The feed is process-wide too. The egress guard calls
the resolver and the policy only, no cache and no limiter. A URL carries its
policy, its flags and its services; a derived URL is checked in its parent's
context, a joined one in that of the call. Nothing is persisted but what a caller
pickles.

## The modules

| Module | Models | How |
|---|---|---|
| `DnsRateLimiter` | `DNSRateLimiter` | every method runs under the limiter's lock and is one action; the two or three clock readings inside it are chosen one after the other |
| `SlidingWindow` | what the per-host limit promises | the full record of lookups instead of a pruned deque |
| `DnsRateLimiter_proofs`, `DnsRateLimiter_refinement` | | its theorems; that it implements `SlidingWindow` |
| `DnsResolutionCache` | `DNSResolutionCache` | one action per outcome of a method; the `OrderedDict` is a sequence of keys and a function |
| `TtlStore` | what a cache with a time to live promises | forgets at will, never invents, mixes up or resurrects |
| `DnsResolutionCache_proofs` | | its theorems, the refinement of `TtlStore` among them |
| `DnsCheck` | `check_host_resolution`, `reset_dns_rate_limiter` | composes limiter and cache by `INSTANCE`; per thread a record of the call's locals and a stage; a stage ends wherever the code calls something that reads shared state or a clock |
| `DnsCheck_proofs` | | its theorems, which use the lemmas of the two before |
| `PhishingFeed` | `PhishingDatabaseManager` | per thread a record of the call's locals; every read of `_db` is a step |
| `PhishingFeed_proofs` | | its theorems |
| `AddressRules` | `ip_utils.py`, `address_rules.py` | the verdicts on an address and a host, and lists of rules, as operators; what `ipaddress` says of an address and what a spelling says are parameters |
| `SecurityPolicy` | `policy.py` | presets, resolution of arguments, the order of the rules |
| `EgressGuard` | `_egress.py` | one call at a time for the last URL parsed; a step is one call into the resolver or the socket module, and each may fail or raise, `socket()` itself included |
| `EgressGuard_proofs` | | its theorems |
| `UrlText` | `_parser.py`, `_normalize.py`, `_validation.py`, `_builder.py`, `_serialization.py` | a text into parts, parts into a text |
| `UrlText_proofs` | | induction over texts, and what splitting, joining, escaping, sorting, parsing and composing do to every text |
| `UrlReference` | `_resolve.py`, `_relative.py` | references split, merged, put together |
| `UrlChecks` | `url_checks.py`, `_security/__init__.py` | the checks that can reject, over `SecurityPolicy` and `UrlText` |
| `UrlLifecycle` | `url.py`, `_mutations.py`, `_entrypoints.py` | parse, derive, join, pickle: one action per method, on parts and context |
| `UrlLifecycle_proofs` | | its theorems |
| `MCDnsRateLimiter`, `MCDnsResolutionCache`, `MCDnsCheck`, `MCPhishingFeed`, `MCEgressGuard`, `MCUrlLifecycle` | | small instances; values in the module or in the `.cfg` files |

Time. A clock is the last value its provider returned; the next reading lies
anywhere from `MaxStepBack` before it up to `Horizon`, so between two steps any
amount of time may pass. Floats are exact: a token is `LookupCost` units and a
tick refills `RefillPerTick` of them, so a configured rate is
`RefillPerTick * TicksPerSecond / LookupCost`, below 1 if one likes. `DnsCheck`
uses one clock for limiter, cache and deadline; in the code they may be three,
and no property of that module compares two of them.

Data. A resolution is a set of addresses, `{}` included; an address the code
cannot parse is one no policy permits. Hosts are as `_validate_host` leaves them.
A feed is the set of names it lists, and `Covering` says which names list a host.

Addresses. `Facts` has, per address, the predicates of `ipaddress` and the
networks of `constants.py` it is in; `Embeds` the IPv4 addresses an IPv6 address
carries; `HostInfo` what the spelling of a host says (the address it is a literal
of, every reading that `is_ssrf_risk` tries, its canonical name, the suffixes and
lists it is on). The tables of the runs are what CPython 3.11 and `constants.py`
say of the addresses in them. `AddressAssumption` names what the code relies on.

Texts. A text is a sequence of tokens: a delimiter, an escape, a word, a run of
digits, an IP literal. Everything the code does at a delimiter or an escape is
done by the model at the same token; what only the characters of a word decide
(its lower case, whether it has a dot, which port a run of digits is) is a
parameter. A double escape such as `%252F` is one token that stands for an
escape. `None` and `Bad` (an exception) are texts that no input is. Loops over a text
are recursive functions (`Split`, `Without`, `Sorted`); `sorted()` is a stable
insertion, which is what its documentation promises of any algorithm.

URLs. The state of `UrlLifecycle` is one line of descent: `url` has the parts of
the latest URL, `ctx` its `_URLContext`, `asked` what the caller of the entry
point is entitled to (for the property, not read by any action), `network` what
the resolver and the feed say at the moment, for the services a caller passed and
for the default ones. A URL is immutable, so nothing else of the past matters. An
operation that raises makes no URL and is no step; the guards of the actions are
all of the code's refusals. `build_secure` returns a string; the model goes on
with the URL it parsed.

Variables read by properties only: the limiter's `history` and `charges`, the
cache's `stored` and `since`, the check's `heard`, the feed's `undisturbed` and
`last_end`, the guard's `tried` and `open`, the life cycle's `asked`.

Definitions whose comment starts with "Mutant:" are plausible mistakes. Nothing
refers to them; each stands in front of the definition it would replace, and
with it in that place the run named for it in `PROJECT.json` fails.

## The runs

| Run | Shows | Bounds and why they are enough |
|---|---|---|
| `dns_limiter` | `HostWindowBound`, `RateBound`, `RetryAfterTight`, `RetryAfterSuffices`, and that the deques implement `SlidingWindow` | two hosts that compete for the bucket; window 3, cleanup every 2, six instants: a window opens, fills, closes and is cleaned up; readings inside a method at most one tick apart, those of `retry_after` (the refill's and `now`) included |
| `dns_limiter_subunit` | finding: a rate below 1 never allows a lookup | one host, half a lookup a second |
| `dns_cache` | `EvictsLeastRecent`, and that the cache implements `TtlStore` | three hosts for two places, ttls 0 to 2 in every combination, four instants |
| `dns_check` | `VerdictIsOwn`, `CacheHoldsWhatWasHeard`, `EveryLookupPaid`, `WithinDeadline` | two threads, three checks, two hosts, one place in the cache, two policies that disagree about an address, callers that retry and pay, that do neither, and that may not try |
| `dns_check_live` | `Terminates` | the same with one host, two checks and one `reset_dns_rate_limiter` |
| `dns_check_charged` | finding: a check pays without asking | as `dns_check_live` |
| `phishing` | `CooldownBetweenDownloads`, `NeverMatchesStale`, `LazyRefreshKeeps`, `EveryCallEnds` | two threads, three calls: one queues behind the other, a third finds what they left; cooldown 1, life of a list 2, four instants; feeds with the host's parent, with another name, empty |
| `phishing_race` | finding: a failed `refresh()` undoes a successful one | as `phishing` |
| `phishing_lookup` | finding: absent, but never looked up in a list | as `phishing` |
| `egress` | `DeniedNeverLetThrough`, `MetadataNeedsNetworkRule`, `WholeAnswerVetted`, `GivesUpAfterTheLast`, `NoSocketLeftOpen`, `AcceptedLiteralIsPermitted` | ten addresses, one for each way the rules tell addresses apart, four of them carrying another; eight hosts; five policies, two with rules that contradict one another, and five arguments for the later call; answers of up to two entries, so that a good one stands before and after a bad one, and one that cannot be read; five peers |
| `url_lifecycle` | `SameDestination`, `StringIsFixed`, `NoDotSegments`, `ParamsAreExact`, `JoinResolves`, `CanonicalFixed`, `NoDoubleEscapes`, `EveryUrlChecked` | ten texts, five sets of arguments, four sets of components, 17 overrides, four netlocs, three parameters, ten references, two networks, three steps: see below |
| `url_file_string` | finding: the string of a file URL names a host it does not have | one text, one caller, two steps |

Deadlock is checked in `egress` and in `url_lifecycle`: an idle guard can always
begin, and the network can always move. It is not checked in the others: the
calls are bounded (`MaxChecks`, `MaxCalls`) and the
clock has a horizon, so every instance stops. `Terminates` and `EveryCallEnds`
say what the absence of deadlock would. Symmetry is used where no liveness
property is checked. Other bounds, each named in its module: `MaxLag`,
`MaxRecorded`, `MaxTtl`, `MaxBackoff`, `MaxResets`.

Three properties of the feed speak of histories in which only lazy checks run
and none raises (`undisturbed`); `refresh()`, `clear()` and escaping exceptions
happen in the run all the same, and the two feed findings show why the condition
is there. `NeverMatchesStale` is about the age of the list and not about its
being empty: TLC showed that a successful download of an empty feed can land
between a check's look at the names and its look at the age, and that check is
then content with an empty list.

The inputs of `url_lifecycle` hold every delimiter, an escape of each kind
(reserved, unreserved, double, in lower case) and every kind of host (a name with
and without a trailing dot, upper case, IPv4, IPv6 in two spellings, none), each
where it can change what a text means: an escaped `@` in a userinfo, `%2E%2E` and
empty segments in paths, `&`, `=`, `+`, `#` and escapes in keys and values, a
second `//` at the start of a path. The calls differ in policy, flags and
services, so that what is passed on can be told from what is dropped. Three steps
reach every pair of changes after every parse: a defect that needs two changes
shows, one that needs three does not; that there is none is what the proofs add. The graph TLC builds (17,680 states) was
compared with a breadth-first run of the Python library over the same inputs, with
resolver and feed replaced by the same tables: the two sets of states are equal.
That says of these inputs that the operators compute what the code computes.

`TypeOK` of `UrlLifecycle` is about more than types: nothing in a component is a
delimiter where it would end that component, and the parameters are those of the
query. `AcceptedLiteralIsPermitted` relates the verdict on the spelling of a host
with that on its address, which different functions reach. What holds of a
query that is changed was less than expected, and the properties say so:
`CanonicalFixed` excepts a key that occurs both bare and with an empty value,
which the sort cannot tell apart. `JoinResolves` compares the path with RFC 3986's
algorithm stated on segments, which shares nothing with the loop of the code but the
text; a reference whose query or fragment is not valid is rejected, and what is
valid is spelled in normal form. Under the heuristics `with_query_param` refuses a
value that is itself an escape, as its spelling is then a double escape.
`NoDoubleEscapes` is stated for URLs with a host: the check cuts path and query out
of the string with `urlsplit`, and a file URL whose path has no slash in front loses
its first segment to the netloc, escapes and all (a finding of `PROJECT.json`).

Fairness: weak fairness of each thread's next step while it is inside a call. A
resolver call ends because `_resolve_addr_info` abandons it at its timeout, a
download because `fetch_over_http` reads under a deadline and with a socket
timeout, a sleep because it is finite. A thread that waits for the refresh lock
gets it since only finitely many calls are ahead of it. No caller has to call.

## The findings

Besides the five runs that expect a violation, `PROJECT.json` lists places where a
comment or a docstring says more than the code does. In the stateful part:
exceptions that leave no cooldown stamp, the abandoned resolver thread that is not
a daemon, and lookups repeated when several checks miss the cache together. Among
the URLs, all met while the model was compared with the library: URLs without an
authority that parse and have no string (and end `urlps check`), file URLs whose
userinfo becomes a host, a join that gives a base without an authority one, parts
that differ from what parsing their string gives, reserved IPv4 addresses under
the `local` policy, an example in the docstring of `build` that raises. None of
them has a run of its own: they need a text the runs leave out for the sake of the
properties that hold, or are about one call.

An exception that is no `OSError` inside `create_guarded_connection` (a bad
socket option, a peer that is no address) leaves the socket open. No document says
otherwise, so it is a hazard and not a finding; `NoSocketLeftOpen` excepts it.

## The proofs

Everything below holds for every value of the constants that satisfies the
module's assumptions: any number of hosts, threads and calls, any rates, windows,
ttls and tables, no bound on clock, lag or backoff. Hardly any
property of these modules is inductive as it stands; for each group this says what
had to be added and why. TLC checked the strengthened invariants on the instances of the runs
before they were proved.

`DnsRateLimiter_proofs`, from `LimiterAssumption`; one lemma per action and invariant:

- `TypeCorrect`: a clock that steps back included. `tokens` stays in `0..Capacity`
  because a refill is capped and a lookup is charged only when it can be paid.
- `RateLimited` (`MaxStepBack = 0`): `RateBound` compares two charges; to be
  inductive it needs to know what the bucket holds now. `BucketInv` adds that
  neither `last_update` nor a charge lies in the future of what follows it (charge,
  refill, clock), and that what was charged since any charge plus the tokens still
  there is at most one bucket and the refill since.
- `HostLimited` (`MaxStepBack = 0`): the verdict reads the deque, the property the
  history. `DequeInv` relates them: the deque of a host is the end of its history,
  and every lookup that was pruned lies more than a window before the clock
  (`Remembers`), so that the length of the pruned deque bounds the lookups of the
  last window from above.
- `RetryAfterTightHolds` (any clock), `RetryAfterSufficesHolds` (`MaxStepBack = 0`,
  `LookupCost <= Capacity`). `retry_after` reads the clock twice: the refill before it
  looks at the tokens, then `now` for the window. So its token wait counts from the
  first reading and its window wait from the second, and a caller who counts from the
  second waits longer for a token than there is need, by what passed between the two.
  The first theorem says that it is by no more: counted from the earlier reading,
  `is_allowed` refuses until the wait is over. The second says that, counted from the
  later, the wait is long enough. Both follow from the types by arithmetic: the wait
  is the larger of the two (`RetryWaitParts`); the one for a token is rounded up
  (`RoundedUp`), and before it is over there is none (`TokenWaitRefuses`); tokens only
  grow with time (`RefilledLater`).

`DnsRateLimiter_refinement`: `RefinesSlidingWindow` (`MaxStepBack = 0`), that the
deques, pruned by every method and cleaned up now and then, decide as the full
record of lookups would. Beside `DequeInv` it needs `OrderInv`, a record in the
order of time: only then are the lookups of the last window the end of the record
(`RecentCount`), and pruning from the left takes exactly the others
(`PrunedHead`, `PrunedCount`). Each action maps to one of the window's (`NextMaps`).

`DnsResolutionCache_proofs`, from `CacheAssumption`:

- `TypeCorrect` and `RefinesTtlStore`, under any clock. `IInv` adds to the types
  that the order lists every cached key once, and that an entry in place is the last
  one stored for its host; a hit is then a hit of the store, every other step a miss,
  a `Keep` or a `Clear`.
- `EvictsLeastRecentHolds` (`MaxStepBack = 0`). The victim is the head of the order;
  `Recency` says that whoever stands behind a key was used after it, so that a full
  order is a set of `MaxHosts - 1` later uses, and the newcomer is one more. TLC
  finds it violated for a clock that may step back by one: `get` then deletes as
  expired an entry that has time left again a moment later.

`DnsCheck_proofs`, from `PartsAssumption` (the assumptions of limiter and cache with
this module's constants), for any number of threads. Steps on the limiter and on the
cache are steps of their modules, so `IInv` takes their invariants as they are and
their lemmas as proofs; it adds what a thread's locals know (`Sound`): past the
limiter a metered check has paid, the time it has given a call or a sleep ends by its
deadline, and the answer it is about to store or judge was heard for its host.

- `TypeCorrect`, `VerdictIsOwnHolds`, `CacheHoldsWhatWasHeardHolds`,
  `EveryLookupPaidHolds`, `WithinDeadlineHolds`: under any clock.
- `LimitsHold` (`MaxStepBack = 0`): the limiter's two bounds under the composition.
  A check calls `is_allowed`, and `retry_after` where it is refused, each atomic under
  the limiter's lock; between any two such calls other threads' checks, a
  `reset_dns_rate_limiter` and time may come. The limiter's run checks the same of its
  own specification only.

`PhishingFeed_proofs`, from `FeedAssumption`, for any number of threads:

- `TypeCorrect`, `CooldownHolds`, `LazyRefreshKeepsHolds`: under any clock. The last
  is about downloads that fail: one that succeeds replaces the list by whatever it
  brings, an empty feed included.
  `Excluded` says that while only lazy checks run, who downloads holds the lock; that
  the record in place is that of the download that ended last until the holder
  installs the next; and that a holder's second look was at that record. The
  cooldown is then what that look compared.
- `NeverMatchesStaleHolds` (`MaxStepBack = 0`, `Cooldown > 0`). `InTime` adds that
  times lie in the past, a list is no newer than the last attempt, and a record under
  construction is no older than the one in place (`Follows`): without it a record
  installed between the reads of a check could take away the age it saw. With a
  cooldown of 0 the property says nothing of a failed attempt at the same instant,
  and TLC finds it violated.

`EgressGuard_proofs`, from `AddressAssumption` and `EgressAssumption` (any tables of
addresses, hosts and policies, answers of any length, peers that change at will):

- `InvariantHolds`: `Spec => []IInv`. That an entry is let through says nothing of
  how it got there. `Progress` says where a call is by what it has done. Past the
  judgement the host was not refused and every entry is permitted under the call's
  policy; the entries tried are those up to the one the loop is at; a socket that
  was returned has a permitted peer. The count of open sockets and "everything tried
  before a failure" follow the stage, and `NoSocketLeftOpen` and
  `GivesUpAfterTheLast` are conjuncts of `IInv` as they are.
- `DeniedNeverLetThroughHolds`, `MetadataNeedsNetworkRuleHolds`,
  `WholeAnswerVettedHolds`: what is let through is permitted (`LetThroughPermitted`),
  and two lemmas about the rules say what permitted means. For metadata the step is
  that such an address, or the one inside it, is non-public, so neither the rule
  for safe addresses nor the one for private ones can be what permits it, and of an
  allowed host only the rule about networks is left.
- `AcceptedLiteralIsPermittedHolds`: `LiteralPermitted` says that a literal which is
  not refused as a host is permitted as an address, for every policy; it rests on
  the address being among the readings `is_ssrf_risk` tries (`AddressAssumption`).
  `Accepted` adds that the URL in use was not refused and the call is about its host.
- `TypeCorrect`, `NoSocketLeftOpenHolds`, `GivesUpAfterTheLastHolds`.

`UrlText_proofs`, for texts of any length, from what the alphabet has to be:
`UnreservedAssumption` (a dot and a tilde have one escape each, and neither they nor
the slash are escapes), `AlphabetAssumption` (tokens are ordered by their
characters), `EscapesAssumption` (what the code has to escape has an escape),
`NamesAssumption` (lower case has no upper case in it; a canonical literal is its own
canonical spelling), `PortsAssumption` (a port has one spelling).

- Induction. The library's induction theorems take an operator, which the provers
  cannot instantiate. `SetInduction` takes a set instead, the set of the numbers a
  fact holds of, and follows from `NatLessThanWellFounded` and `WFMin`;
  `AppendInduction` is the same over texts that grow by a token. They also give the
  functions that the loops define recursively (`AfterDefined`, `FlattenDefined`,
  `ChunksDefined`, `KeepingDefined`, `SortingDefined`) and with them what one more
  token does to a split, a sort, a concatenation (`SplitGrows`, `SortedGrows`,
  `FlattenGrows`), which is all that the later lemmas use.
- `RemovesDotSegments`. The loop takes a token off the input at every turn and moves
  only segments that begin with a slash, have no other and are not `/.` or `/..`
  (`TurnMovesOn`, with `MovedOn` as the loop's invariant); so after as many turns as
  the path has tokens the input is empty (`TurnsMoveOn`), and segments put behind one
  another make no dot segment that none of them was (`AppendIsClean`).
- `NothingRemoved`, the converse: a rooted path without dot segments comes out as it
  went in, since input and output together stay the path (`TurnLosesNothing`).
- `ParamsReadBack`: a serialised list of pairs is parsed as that list. No token that
  ends a key, a value or a pair survives `quote_plus` (`WrittenIs`), so a chunk is
  read back as its pair (`ChunkReadBack`), and splitting what was joined with `&`
  gives the chunks (`SplitJoins`, `SplitSerialized`).
- `AssembledIsFormed` and `ParsedIsFormed`: whatever is parsed or assembled has parts
  in form (`Formed`). `ReadBack` and `SpelledAgain`: the string of parts in form, with
  a scheme and a host, is split where it was joined, and each part is read as it was.
  `Formed` says why: no part has a token in it that ends it (`NetlocReadBack`,
  `SchemeReadBack`, `TailReadBack`), parts are in normal form, on which normalising
  does nothing (`HostNormalised`, `UserinfoNormalised`, `BuilderKeeps`), and the port
  that is not spelled is the one that the parser adds (`PortPutBack`).
- `SortedIs`, `SortedReverse`: sorting keeps the parameters of the same kind, puts
  them in order, leaves what is in order, and gives the same from either end if the
  key tells all of them apart; for then two insertions commute (`FirstInserted`).

`UrlLifecycle_proofs`, from the assumptions above, `CallsAssumption` (arguments are
policies and flags), `ParamsAssumption` and `ReferencesAssumption` (arguments are
texts; parameters have a key, and every escape in them has one of its own), for any
texts, overrides, references, policies, tables, networks and any number of steps; one
lemma per way a URL comes about:

- `TypeOKHolds`, `ParamsAreExactHolds`, `NoDotSegmentsHolds`. `FormedInv`, that the
  parts are in form, is inductive: every URL goes through `_assemble`, and a derived
  one passes valid overrides to it (`DerivedIsFormed`). `TypeOK` as it stands is not:
  that a path has no dot segment and a query no key that is empty is needed to read
  back what was written. `StateInv` has the rest of the state. Parameters are exact because
  normalising a query does not change what it is parsed as (`NormalParams`).
- `EveryUrlCheckedHolds`. What is checked is decided by the context, what should be
  by the arguments of the first call, and the two come apart: flags are kept beside
  the policy, the constructor adds flags where the other entry points replace them, a
  join starts anew, a pickle drops the services. `CoversInv` relates them: the policy
  of `ctx` agrees with `asked` in every field but the two flags, and these are on
  wherever `asked` has them on. `ContextCovers` is that for every combination of
  arguments, `CheckedIsAcceptable` that the checks suffice: they look at several
  spellings of host and path, and the parts' own are among them because neither is
  empty.
- `SameDestinationHolds`, `StringIsFixedHolds`: `ReadBack` and `SpelledAgain` need the
  policy to allow the scheme when the string is parsed again. `AllowedInv` says it
  does, and follows from the checks of the step that made the URL.
- `NoDoubleEscapesHolds`: the heuristics look at what `urlsplit` cuts out of the text,
  the property is about what the parser makes of it. For a text that names a host the
  two cut at the same places (`SameSplit`, `ParsedIsPlain`), also for the string of a
  derived URL (`SpelledIsPlain`), and neither escaping nor normalising makes a double
  escape or undoes one (`DoubleEscapesStay`).
- `JoinResolvesHolds`: `LoopResolves` says that the loop on tokens computes on every
  rooted path what `Walk` computes on its segments; its invariant relates each turn to
  one step of the walk (`TurnWalks`). Merging replaces the last segment
  (`MergesSegments`), and the target, spelled and parsed, is read as the parts put
  together (`TargetSpelled`, `TargetPath`).
- `CanonicalFixedHolds`: what canonicalising makes can be written down
  (`CanonicalIs`): the same names, the path as the builder spells it, the parameters
  sorted. `_derive` does not refuse it, because its string can be read back.

The assumptions on constants are the code's limits and not the proofs'.
`MaxStepBack = 0`: the default provider of limiter and feed is `time.time`, which may
step back, and the bounds then fail (time between the two readings is refilled
twice); `PROJECT.json` lists it as a hazard. The theorems that do not name it hold
for such a clock too. `LookupCost <= Capacity`: a bucket that cannot hold one lookup
never allows any, which is the finding of `dns_limiter_subunit`. `Cooldown > 0`: the
default is 300 seconds, and 0 is a configuration that turns the cooldown off.

Only model-checked: liveness (`Terminates`, `EveryCallEnds`), since liveness under
fairness and `ENABLED` are out of the provers' reach. The runs that expect a violation
are counterexamples and need no proof. That the operators of `UrlText` compute what
the code computes is not a theorem: it rests on reading them beside the code and on
the comparison with the library.

## Not modelled

- Of texts: lengths and their limits, control characters, backslashes, non-ASCII
  text and with it the Unicode analysis of hosts and IDNA (`host_analysis.py`,
  `_unicode`), IPv6 zone ids. These are tables and character classes, where tests
  and fuzzing reach further than a bounded model.
- Checks that only warn (injection payloads in a query), and findings as objects.
- `AuditManager`: a lock around two counters and a callback called outside of it;
  nothing in the modelled parts reads any of it. The cache registry: `lru_cache`
  around pure functions, so a cached value is the value. Redaction, the command
  line's loop and its printing, generated tables.
- Pickles of urlps 1.1: what they can hold is decided by code that is not here.
- The worker thread that a timed-out resolution leaves behind.
  `get_dns_rate_limiter`'s double-checked creation. The limiter's deprecated cache
  API, which forwards to the resolution cache. A clock that steps back in the runs
  of cache, check and feed.
- In `UrlLifecycle` a DNS check is one lookup and a phishing check one question,
  with the outcomes that `DnsCheck` and `PhishingFeed` allow; the interleavings
  inside of them are those modules' matter.

## Plan

What the runs check is proved, as far as the provers reach. What could be added is
breadth: URLs without a host, of which the findings say that their string may mean
something else; texts that the validator's character classes refuse;
and the interleaving of a URL's own DNS check with the network, that is, `UrlLifecycle`
over `DnsCheck` in the place of one lookup.
