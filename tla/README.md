# TLA+ specifications of aioproxy

aioproxy is a forwarding proxy. Plugins import upstream proxies ("candidates"),
a validator keeps the usable ones, a pool schedules them, and a proxy server
dials targets through them for its clients, with retries, sessions and runtime
failure accounting. The specifications in this directory model its Go code
(`src/internal/...`) at the granularity of lock sections and blocking calls. TLC
checks them on small instances; TLAPS proves, for every instance, every invariant and
action property that they are checked for, and that detailed modules implement
abstract ones. Liveness is left to TLC.

## The system

| Component | Code | State | Operations |
|---|---|---|---|
| Candidate pool | `core/pool.go`, `core/types.go` | `items`, `order`, `rr`, `dialers` under `Pool.mu` | `Replace`, `AddValidated`, `ReplaceValidatedMatching`, the pick methods, `MarkFailure`, `MarkSuccess` |
| Session manager | `core/session.go` | `bindings`, `lastSweep` under its mutex | `GetBound`, `Rebind`, `Unbind`, `Count`, the sweep |
| Request dispatch | `proxy/server.go` 299-354, `proxy/upstream.go` | locals of one goroutine per connection | `dialScheduled`, `pickCandidateForAttempt`, `DialViaCandidate` |
| Forwarding | `proxy/server.go` 253-407 | two goroutines, channel, timer, byte counter per tunnel | `tunnel`, plain HTTP in `handleHTTP` |
| Listener | `proxy/server.go` 43-292 | tracked connections, wait group, read deadlines | `Start`, `Close`, `Wait`, `acceptLoop`, the handlers |
| Upstream handshakes | `proxy/upstream.go` | connection and its deadline, buffered reader | `DialViaCandidate`, `dialHTTPProxy`, `dialSOCKS5` |
| Sing-box lazy dialer | `plugins/singbox/singbox.go` 229-402 | box, use count, last use, timer | `acquire`, `release`, `closeIfIdle`, `ResetIdleCache`, `Close` |
| Plugins | `plugins/{fofa,fpl,singbox}` | configuration only | `Refresh` |
| Validation | `validation/validation.go` | none | `Validate` with a pool of workers |
| Service | `app/app.go` | statuses, wait group, context | `runServe`, refresh loops, shutdown |
| Storage | `storage/storage.go` | `pool.json`, snapshots | `SavePool`, `LoadPool`, `SaveSnapshot` |
| Admin API | `admin/admin.go` | none | read-only views |
| Configuration, logging | `config`, `logging` | read once | `ApplyDefaults`, `Check` |

How they interact. Each plugin has a refresh loop that fetches, validates, merges
into the pool and saves. Client handlers call the session manager, which reads the
pool while it holds its own lock, and the pool; they look up custom dialers in the
pool and report outcomes to it. The pool holds lazy dialers and resets them when it
drops their candidates. Shutdown cancels one context that the loops, the dials and
the listener share.

What is hard: refreshes of several plugins, client requests, timers and the shutdown
interleave; whatever one lock section has read may be stale in the next; sessions,
retries and evictions meet; processes stop between saving and after crashes; and a
dozen places have to agree on when a candidate counts as failed. `PROJECT.json`
lists these hazards line by line with the properties that cover them.

## The modules

| Module | Models | Built on |
|---|---|---|
| `Pool` | the candidate pool, the matching rules of reports (`app.go` 317-349) and the load rule of `storage.go` 54-61 | |
| `PoolRotation` | round-robin scheduling with a history of who was passed over | `Pool` |
| `PoolProofs` | theorems about `Pool` | `Pool`, TLAPS |
| `RotationProofs` | theorems about `PoolRotation` | `PoolRotation`, `PoolProofs` |
| `Sessions` | the session manager; `Pick`, which only tests call, is left out | `Pool` |
| `Dispatch` | concurrent connections in `dialScheduled`, against pool, sessions, plugins and shutdown | `Sessions` |
| `DispatchProofs` | theorems about `Dispatch` | `Dispatch`, `PoolProofs` |
| `Forward` | `tunnel` and the plain HTTP exchange, for one connection | |
| `Connection` | one connection from dial to end: the handshakes, the data from the upstream, the forwarding | `Forward` |
| `ConnectionProofs` | theorems about `Connection` | `Connection`, TLAPS |
| `Listener` | accept loop, handlers, tracked connections, `Close` and `Wait` | |
| `Config` | defaults, checks, and what the service makes of a configuration | |
| `Usernames` | the two forms of user names, and a reference definition of what they mean | |
| `Server` | the start from a configuration file, then the listener | `Listener`, `Config`, `Usernames` |
| `ServerProofs` | theorems about `Listener` and `Server` | `Server`, TLAPS |
| `LazyDialer` | the lazy dialer | |
| `RefCount` | what the lazy dialer promises: an instance that runs while it is used | |
| `LazyDialerProofs` | theorems about `LazyDialer` | `LazyDialer`, TLAPS |
| `Validator` | `Validate`: sending loop, workers, channels, cancellation | |
| `ValidateOnce` | what a validation promises | |
| `Refresh` | one plugin's refreshes in detail: import, validation, reports, snapshots, status | `Validator` |
| `RefreshProofs` | one validation after the other, and theorems about it and `Refresh` | `Refresh`, TLAPS |
| `Service` | refresh loops of several plugins, `runServe`, `pool.json`, exits and crashes | `Pool` |
| `ServiceProofs` | theorems about `Service` | `Service`, `PoolProofs` |
| `MC...` | the instances for TLC | |

Variables and definitions have the names of the code where they stand for one thing
of it. `PROJECT.json` "map" gives the lines each definition translates. Definitions
under a comment "Mutation of ..." are not part of the models: each is a plausible
mistake in the definition that follows it, and with it in place TLC finds a property
violated. They show that the properties can fail.

### Pool

One action per method, since each holds `Pool.mu` throughout. `items` maps
fingerprints to the fields that decide anything: source, report label, country,
latency, status, failures. A refresh's batch arrives in any order, because it comes
from the validator's workers. `AddValidated` and `ReplaceValidatedMatching` differ
only in what they remove, so both are `Upsert`. `random` scheduling may return any
eligible candidate; `round_robin` is the scan of the code. `rr` is kept modulo a
multiple of every pool size (RRModulus), which is all the code reads of it.
`failures` stops at MaxFailures, since the code only compares it with that. `evicted` is
a history variable: the candidates that an outcome or a load has put or left out of rotation,
until a refresh validates them again or removes them. So `EvictedUntilValidated` tells a
candidate that was validated from one that looks as if it had been.

### Sessions and Dispatch

Time is relative: a binding stores the ticks that remain. `GetBound` is one step,
although it locks the pool inside: nothing else of the session manager can run
meanwhile, and it reads the pool once. The handler's steps are: session lookup, scheduling,
dialer lookup and start of the dial, end of the dial, binding; or after a failure
`MarkFailure`, then `Unbind` and the next attempt. Between any two of them other
connections, refreshes, time and the shutdown act. A dial of a candidate in `Healthy`
succeeds unless the context is cancelled; when forwarding ends, any candidate may be charged, since
to answer a dial is not to serve a request (`server.go` 274-288, 387). `steady` is a history variable:
the healthy candidates that were eligible throughout the request.
Authentication and the parsing of user names only decide which `SessionInfo`
a request carries; these are the constant InfosOf. How they are decided is the subject
of `Listener` and `Usernames`.

### Forward

The two goroutines copy by read and write steps; `SetDeadline` on the destination
interrupts the other one. The verdict reads the byte counter while the other
goroutine may still write. Each end may close at any time or stay silent for ever. A plain
exchange may fail in any of its phases: an end has gone, or has sent what cannot be read.
`Connection` puts the dial before it. `dial` is the step the handshake is in; each step
writes a request or reads an answer. The upstream sends a script: the answers the
protocol asks for, or these up to one wrong answer, and then data. It may send any
part of it at any time, stop, or close. The response to CONNECT is read through a
buffer, which may take more (`ahead`); `bufferedConn` hands that out first, also when the
connection is closed or past its deadline. SOCKS5
answers are read to the byte. A candidate with its own dialer has no handshake here.

### Listener, Config, Usernames and Server

`stage` says where each handler is. It reads from its client in the stages `peek`,
`greeting`, `login`, `command`, `first` and `next`; what the client sends decides the
outcome of the stage and is chosen. `limit` holds the connections with a read deadline.
The accept loop tracks a connection and counts it in the wait group in steps of
their own, and the deferred calls of a handler are three steps, so that all
of them interleave with `Close`, which both the goroutine of `Start` and `runServe`
call, and with `Wait`. A connection counted while `wg.Wait` is about to return
reuses the group; Go panics then, and so may the model. Dials and tunnels are
one step here, being the subject of other modules.

`Config` has one field per setting; a text keeps what the checks distinguish. `Server`
reads a file, applies the defaults, checks, and starts the listener. A user name is a
sequence of tokens, separators and words; both parsers are operators. `Split` gives the
parts of a name under the positions of the separators before them, which is all the parser
needs, since it does not look at their order. A structured name may give a negative lifetime, for which the
default is taken. The second part of
`Usernames` defines, independently, what a client can wish for and how
`docs/sessions.md` says it is written: with suffixes, or structured, with the keys in any
order (TLC tries two opposite ones). `NamesParseAsDocumented` is about configurations that
ask for credentials; without them names are not parsed, and the check does not keep
a credential from looking like a name with a suffix.

### LazyDialer and RefCount

Methods are steps under the dialer's lock; dialling and the start of a timer's
callback are not covered by it. A callback that has been started waits for the lock
and cannot be stopped any more: that is the race the code must survive.
`RefCount` has two variables, `running` and `users`; `LazyDialer` implements it
with `running <- box` and `users` the dials and connections in progress.

### Validator, ValidateOnce and Refresh

A worker holds the position of its candidate, since a batch may hold a candidate
twice. Handing over through the unbuffered channel is one step of both sides. For a
caller a validation is `ValidateOnce`: it begins, and returns every candidate that passes
once, or after a cancellation some of them. `RefreshProofs` runs the
validator on its own, for any batches, `Refresh` within a plugin's loop.

`Refresh` has what `Service` abstracts from: which items of a source are imported,
skipped or passed over, the reports that the admin API shows, and the
snapshots with their directories (`safeName`), retention and pruning. A snapshot is a
time; `written` is a history variable with all that were ever written. The process may
be killed in any step, so also between the write of a snapshot and the pruning. The merge into
the pool is not repeated here: it is `ApplyReport` of `Pool`.

### Service

Per plugin: fetch, validate, one step per report, list, save, wait. For `runServe`:
serving, stopping (waiting for the loops), list, save, down. `List` and the locked
part of `SavePool` are separate steps, as in `SavePool(pool.List())`. A save either
replaces the file (rename) or leaves it. `Boot` starts the process from what is on
disk, after an exit or, if MayCrash, at any moment. A file that cannot be read, or
has another version, gives an empty pool. `Steady` are offers that their source shows
whenever it can be read and that pass any validation that is carried out; nothing
is assumed of the other offers, and any source may fail in any refresh.

## The runs

| Run | Instance | Result |
|---|---|---|
| `pool` | 2 plugins, 3 fingerprints (one offered by both plugins, one sing-box), round-robin, threshold 2 | passes, 15 972 states |
| `dispatch` | 2 connections (one with a session restricted to a country, one "fast"), 2 candidates (one healthy, one sing-box), 2 attempts, shutdown | passes, 163 717 states |
| `dispatch_shared` | 2 connections of one session | violates `SessionIsStable` |
| `dispatch_shutdown` | as `dispatch`, two plain proxies | violates `ShutdownSparesHealthy` |
| `lazy_dialer` | 3 users, idle time 2, 3 waiting callbacks | passes, 888 states |
| `forward` | one connection, 3 kinds of upstream, two chunks of data | passes, 21 135 states |
| `forward_abort` | one connection | violates `ClientAbortNotCharged` |
| `service` | 2 plugins with 3 sources, 2 candidates, shutdown, crashes | passes, 316 094 states |
| `server` | 291 configuration files; 2 connections, credentials required | passes, 174 924 states |
| `refresh` | one plugin of each kind, 2 workers, retention 1, 2 refreshes | passes, 274 802 states |
| `service_interrupted` | the same, no crashes | violates `SteadyIsKeptThroughout` |
| `service_shared` | one candidate offered by both plugins, no shutdown | violates `SteadyIsKept` |

What the passing runs show:

- `pool`: the order lists each candidate exactly once; eviction is at the
  threshold, and whoever is out of rotation stays out until a refresh validates it, whatever
  successes come late; a sing-box candidate in rotation has its
  dialer and none is leaked; the fast pool holds the fastest and is never empty;
  candidates that stay keep their order, and in round-robin none is passed over for
  longer than one round while the order stays and all requests are of one kind.
- `dispatch`: whoever is chosen is in rotation, matches the route and was not
  tried; with as many attempts as candidates a request is refused only if no healthy
  candidate was eligible throughout; while the service runs, a candidate that answers every dial is
  charged only by a connection that is forwarding over it; a session used by one connection keeps its proxy until a dial
  through it fails; every request ends.
- `lazy_dialer`: the use count is exact, no instance is closed under its users, and
  an unused one is closed in the end.
- `forward`: whatever the upstream answers, and in whatever step a dial fails, its connection is
  closed or handed over without a deadline and closed by the handler; the client gets what the
  upstream sent, from the first byte and without a gap, also what was read ahead; a
  tunnel ends when either end closes, leaves no goroutine behind, and
  credits a candidate that carried data by the end of the window.
- `server`: a configuration that passes the check is one the service can work with; with its
  credential every documented user name means what the documents say; a client that stops in the
  middle of a handshake is dropped; when `Wait` returns nothing it waited for is open, and the
  handlers end, apart from those that wait for an upstream's answer to a plain request.
- `refresh`: the numbers of each report add up and are those of its own candidates, if it has any; of
  every snapshot directory the most recent ones are there, and no more than the retention, one
  in progress and one for each kill; the validation within it implements `ValidateOnce`: it
  loses and doubles no candidate, and ends.
- `service`: no refresh loses a steady candidate while the service runs; a graceful exit leaves
  exactly the pool on disk; a shutdown ends.

The violations are disagreements of the code with its documents, listed under
"findings" with the quoted lines: sessions are not pinned when connections of one session
overlap (`CONTEXT.md` 17); a shutdown charges candidates that would have answered (ADR 0006); a client
that leaves its tunnel early makes the candidate be charged (ADR 0006); a shutdown during a refresh empties the pool and saves
it (ADR 0048); refreshes are not additive (ADR 0017, `persistence.md` 14).

### Bounds

- Two or three fingerprints: every relation in the code is between a candidate and
  one other (order, latency, retry) or a report and a candidate. Three in `pool` are
  needed for a fast pool that is neither one candidate nor all, and for the rotation.
- Threshold 2 in `pool` distinguishes one failure too many from one too few; elsewhere 1.
- TTL and sweep interval of one tick: a binding is live, expired and unswept, or swept.
- MCService: the query q2 finds nothing, which exercises the fallback of
  `filterCandidatesForReport`; the reports that need several labels are in MCPool.
- CallbackCap 3: callbacks waiting for the lock; the callbacks run under fairness, and three
  exceed what is needed for an old and a new one to meet.
- MCServer: two connections, so that one handler can be the last to leave while another is
  accepted. The files vary two settings at a time that are checked together, with the
  values on both sides of each boundary; other settings are independent in the code. Sessions
  of one or two words, among them words that read as a suffix or a lifetime.
- MCConnection: two chunks, one that is read ahead with the response and one that is not.
- MCRefresh: two workers, contents
  with no, one and two candidates and each kind of other item, two sources with one
  directory and two without; retention 1 and two refreshes make every snapshot
  either kept or pruned.
- RRModulus 6 (2 for two candidates) is exact, see `Pool`.

### Fairness

- `Dispatch`: weak fairness of the handler's steps. Goroutines are scheduled, lock
  sections are short, a dial ends with `dialAttemptTimeout`. Nothing is assumed of
  clients, time, plugins or forwarding.
- `Forward`: weak fairness of goroutine steps and the timer; the ends need not send or close,
  but take what is written to them (an end that neither reads nor closes would hold
  a write, and with it the tunnel). A silent upstream may keep a plain HTTP
  exchange waiting for ever: the code sets no deadline there. `Connection` adds that dials run
  and their deadline passes.
- `Listener`: goroutines run, read deadlines pass and dials end. Clients need neither send
  nor close, upstreams need not answer, and the signal need not come.
- `Validator`, `Refresh`: workers run, and a check ends with its timeout.
- `LazyDialer`: time passes, timers fire, callbacks run.
- `Service`: fetches, validations and saves end (they have timeouts or end with the
  context). Strong fairness of leaving the loop: `select` chooses at random between a
  ready timer and the cancelled context, so it cannot choose the timer for ever.

## The proofs

`PoolProofs`, for any finite set of fingerprints, any offers, labels and plugins, either
policy, and any threshold. Assumptions: those of `Pool` (fingerprints are finite in
number, offers are offers, the threshold and the modulus are positive, percent is in
1..100). The inductive invariant `PoolInv` joins type correctness,
`OrderEnumeratesItems`, `AvailableBelowThreshold`, `DialersHaveItems`,
`AvailableBoxHasDialer` and `EvictedUntilValidated`. The parts need each other: the dialers of available sing-box
candidates survive a refresh because a refresh removes dialers only with their candidates; the
bound on failures after `MarkFailure` needs the types. Lemmas
on `Enumerations` and `Agreeing` show that a kept order followed by the new
fingerprints again lists each candidate once. Each action then has its own lemma:
`Upsert` (any refresh), picks, outcomes, load. `PoolEvictedUntilValidated`
holds because an outcome makes no candidate available, and a refresh takes those it makes available out of
`evicted`. `PoolSurvivorsKeepOrder` is an action property from the same invariant: a kept order agrees with the
old one, and the new fingerprints come behind it. `PoolFastPool` counts: the stable sort gives
the eligible candidates distinct ranks below their number, so exactly as many as `FastKeep` says have a
rank below it, and whoever is faster ranks lower.

`RotationProofs`, with the assumptions of `Pool` and the policy `round_robin` (under `random` there is no
round). All requests share one counter, which no refresh adjusts. The inductive invariant `RoundInv`
gives each candidate in rotation its distance ahead of the counter, and bounds the distance and the picks that
passed it over, together, by one round. A pick that stops before the candidate brings it nearer by at least the
one step it counts; one that would go beyond it stops there. The lemmas on remainders say that the counter
may wrap at RRModulus, a multiple of each length, without moving its position. A rotation is an execution of
`Pool` (`RotationIsPool`), so that the theorems of `PoolProofs` hold of it.

`LazyDialerProofs`, for any finite set of users, idle time and callback bound. The
inductive invariant adds to the type that `active` is the number of
users in progress, that an instance in use is running, and that an unused running
instance is watched: its timer is armed, or a callback is waiting and the
idle time has passed since the last use. From it follow the exactness of the count, the
watch on idle instances, and step by step the refinement of `RefCount`.

`ServerProofs`, for any set of connections, with or without authentication, and any set of files. The
inductive invariant of the listener adds to the types that a working handler's connection is tracked and
counted, that an open connection has a working handler or is being accepted, and
that once `Wait` may return, what it waited for is closed. `WaitLeavesNoneOpen`
alone says nothing of the time before. The order of the deferred calls matters:
a handler leaves the wait group only after its connection is closed. The server that starts from a file
is shown to implement that listener (`ServerIsListener`), so the same holds of it. Its own
invariant, `StartInv`, says that the configuration keeps its types and that a checked one
is complete: the defaults are idempotent, though the URL's depends on another default, so `Check`, which
applies them again, checks what the server uses. From that, `CheckedConfigIsSound`. The one assumption on
files, `FilesAssumption`, is what decoding into `Config` guarantees: numbers are numbers, flags are
flags, texts are texts, and nothing is assumed of their values.

The user names are in `ServerProofs`, too. `NamesAreUnderstood` holds for any vocabulary in which
words are free of separators, the parser's own words are in lower case and "fast" is no duration
(`WordAssumption`), and any credential that the check lets pass and that has no `~`. It
needs no induction, for a name is put together from five parts: a lemma says what `Split`
makes of a text with one more part behind it, and the relation `Spells` (the parts that are
there are those of the keys written so far, each with the value wished for) is carried from one
part to the next, whatever the order of the keys. Where all keys are written, it says that the name is well formed and
what `Value` finds in it (`NamesInAnyOrder`). The names with suffixes go by cases of the wish: lemmas say
where the last `-` of a text is, and when its end reads as `-fast` or as a lifetime; the exceptions in
`HasLegacyForm` are exactly the cases in which the proof needs them.

`ConnectionProofs`, for any data and any script. The inductive invariant `ConnectionInv` keeps the
phases apart: nothing is forwarded before the dial is done, the connection is open
throughout a handshake, and a deadline exists only during one. From it, that the connection
always has one owner (`DialOwnsConnection`). A second invariant, `WireInv`, describes the wire: during the
handshake, what was sent and what is to come are as many answers as it still waits for, unless one of
these is wrong, and then the data; once it is done, what the client got,
the chunk on its way, what was read ahead, what was sent and what is to come make up exactly the
data, as long as the goroutine that copies from the upstream runs. `ReadAheadKept` is what that says of the client. `ForwardInv` keeps the
types and counts of the forwarding. `ConnectionHandsOver` relates the two modules: the dial leaves what a tunnel or an
exchange begins with, and from then on each step is one of `Forward`, because no deadline of the
dial can pass any more, or takes data that is still there although the connection has ended, of which
`Forward`, having no data, knows nothing. `NobodyWaitsInVain` is the safety that `TunnelEnds` and `NoCopierStays` rest
on. Its invariant, `SignalInv`, counts: the signals sent are those in the channel and those `tunnel` has
received (one before its verdict if the first goroutine ended early, one at the end); and whoever is
done has set a deadline for the other goroutine's read.

`RefreshProofs` has three parts. For the validator on its own, for any candidates, any finite
batches, any concurrency, with or without `skip_validation`: the inductive invariant joins the types with
`Accounted`; a returned validator's workers are gone. Each step of a validation under way stutters, and the
return is that of `ValidateOnce`: the results are the positions that pass, each once, since the
channel holds no position twice. For the same reason a worker always finds room in it
(`ResultsFit`), by the pigeonhole principle; with that, `ValidationGoesOn` says that sending loop, workers
and `wg.Wait` never all wait for each other, for which there must be a worker at all, also when the
configured concurrency is not positive.
For the snapshots, for any plugins, sources, contents and retention: `RecentSnapshotsKept` allows a surplus
in each directory; the inductive invariant says in which there may be one (the directory of the report
being applied, before it is pruned) and that no kept snapshot is older than a missing one.
Lemmas about the newest n of a set of times carry it over a write and a pruning.
For the reports: `ReportInv` joins the validator's invariant with what each report counts of its
source's items and, after the validation, of its results. What is imported is listed by
source and position, so that a report's candidates correspond to positions one to one and can be counted
(`Imported`, `Found`). `ReportsAddUp`, the types, and that `Refresh` implements `ValidateOnce`, also across a
cancellation, a kill and a restart, follow.

`DispatchProofs`, for any number of connections, candidates, sessions and attempts, any
lifetimes, with or without shutdown. The inductive invariant `DispatchInv` joins `PoolInv`, the
types of bindings and requests, and that a dial that failed while the service ran was not
that of a healthy proxy. From the last part, `DialsSpareHealthy`: no step other than the end of a
forwarding charges such a candidate. Each operation of the session manager and each step of the handler has
its lemma. `ReachInv` carries `RetryReachesHealthy`: every attempt adds a candidate
to those tried, so their number is the attempt's; none of those given up was dependable; so a
request that the scheduler refuses has no dependable candidate left outside the tried ones, and
one that has used up its attempts has tried all there are. `SessionIsStable` has a hypothesis,
`SessionsApart`: no two connections send requests of one session. That is what the run `dispatch` has
and `dispatch_shared` has not, where the property is violated. Its invariant says what a request knows
of the binding of its session in each of its steps. `DispatchIsPool` shows that the pool under
dispatch is an execution of `Pool`, although requests exclude candidates that have left it
since: the theorems of `PoolProofs` hold under concurrent requests, among them that a late
success revives no evicted candidate (`DispatchEvictedUntilValidated`).

`ServiceProofs`, for any plugins, sources and offers, with or without crashes. The inductive invariant
joins `PoolInv`, that what is on disk or about to be written can be loaded, and that once
`runServe` has begun to save, every loop has ended. `DownIsSaved` needs all of it: the list that is
written is that of the pool, which only outcomes reach any more, and these change neither
its order nor its members. `SteadyIsKept` has a hypothesis, `SourcesApart`: sources have names, and what
two of them offer is never the same candidate, as in the run `service` and not in `service_shared`, where
the property is violated. Its invariant says that the pool, on disk too, has each candidate under the name
of its one source, and that a refresh carries every steady offer to the report of its source.
`ServiceIsPool` shows that each step of the service is one of `Pool` or the start of a process, which loads what
was saved last: that may be older than the pool, unlike in `Pool`'s restart. So the invariants of the pool hold
throughout, among them `EvictedUntilValidated` (`ServiceEvictedUntilValidated`; a start begins
the history anew with what it loads, and so may bring back a candidate that was evicted after the last save), and the order is
kept between two starts (`ServiceOrderIsSteady`), for a start may also bring back an order of before.

Only model-checked: the liveness properties (`DispatchEnds`, `TunnelEnds`,
`NoCopierStays`, `ServingIsCredited`, `IdleBoxCloses`, `StopCompletes`, `HandlersEnd`,
`SilentClientDropped`, and that a validation ends), which are out
of the prover's reach. Of a tunnel and of a validation it is proved that no wait in them is in vain, which is what
their end needs besides fairness. The refinement theorems are of the safety part of
the abstract specification.

## Not modelled

Logging, the command line and the views of the admin API (output; the one state change
an admin request causes, `SessionManager.Count`, is in `Sessions`). The parsing of subscriptions,
proxy lists, search answers, YAML and durations, and the byte formats of the handshakes (data). What
clients send beyond their request: bytes read ahead with it are not passed on to a tunnel
(`server.go` 264). Durations, apart from their order, and a clock that goes back between two
snapshots. The failure to remove an old snapshot. The backup of an unreadable `pool.json`, which
atomic writes do not leave. Garbage-collector hints.

Noted while modelling, without a run of its own: a credential that contains `~` passes the check,
but no user name with it is accepted (`config.go` 410); `retry_attempts: 0` becomes 3, although
`docs/config.md` 46 says that 0 turns retries off (`config.go` 312); and source names that differ only in separators
share a snapshot directory (`storage.go` 170); `RecentSnapshotsKept` holds for what they share.

## Plan

Done, in this order: `Pool` with its proofs, `Sessions`, `Dispatch`, `LazyDialer` with
`RefCount` and its proofs, `Forward`, `Service`, `Listener` with its proofs, `Config`, `Usernames`,
`Server`, `Connection` with its proofs, `Validator` and `Refresh` with their proofs, the
proofs about `Dispatch` and `Service`, those about the rotation, the fast pool, the start, the
reports and what was read ahead, the two properties that hold where nothing is shared, and last the
user names, the hand-over from dial to tunnel, the waits of tunnel and validation, and the pool within
the service. Left are the parts under "Not modelled".

The proofs led to corrections of the models: the parser of names with suffixes had cases that overlap (a
user name equal to the credential with `-fast`), and the property about names had been stated
for configurations whose names are never parsed.
