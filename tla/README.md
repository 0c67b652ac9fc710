# TRAKSHYA-WAF: a TLA+ model

TLA+ modules that model the concurrent core of this repository, TLC
configurations that check them on small instances, and theorems, checked by
TLAPS, that hold for every instance. File names are relative to the root of the
repository; every definition is tied to its lines of code by the `map` of
`PROJECT.json`.

- [The system](#the-system): inventory of components
- [The modules](#the-modules): what models what, and how
- [The runs](#the-runs): what is checked, with which bounds
- [The theorems](#the-theorems): what is proved, and along which argument
- [What is not modelled](#what-is-not-modelled) and [The plan](#the-plan)

## The system

A client's request goes to the **proxy** (Rust, port 8080), which inspects it
and refuses it or forwards it to the **upstream server** (port 3000). The proxy
reports by HTTP to the **Go API** (port 8000), which keeps a DuckDB database and
serves the dashboard. A **C daemon** (port 9001) watches the host. A desktop
application, an npm command line, scripts and Kubernetes manifests start them.

```
client -> proxy --------------------------> upstream server
            |  record_incident, record_event, record_request (HTTP, 5 s, no retry)
            v
          Go API: handlers -> Store -> DuckDB <- correlation loop (5 s)
            |         |                          retention loop (6 h)
            |         +-> scans (one at a time), traffic generator
            v
          dashboard (WebSocket hub, server-sent events)
```

| Component | State | Operations | What makes it hard | What makes it correct |
|---|---|---|---|---|
| Proxy request path (`rust/trakshya-proxy/src/proxy.rs`, `inspector.rs`, `gateway.rs`) | one async handler per request, one spawned task per report | read, inspect, forward, record, answer | configuration changes between inspection and forwarding; lost calls; hang-ups; restarts | only what was let through reaches the upstream server; the records follow the verdict; a dead Go API stops nobody |
| Rate limiter (`rust/trakshya-rate-limiter`) | a bucket per client | `allow` | refill over time, the cap, the boundary at one token | never more than burst plus refill in any interval |
| Circuit breaker (`rust/trakshya-circuit-breaker`) | state, two counts, a time, each under its own async lock | `is_request_allowed`, `record_success`, `record_failure` | callers suspended between locks; two lock orders | opens at the threshold, probes after the timeout, closes after the quorum; calls return |
| Proxy configuration (`config.rs`, `api.rs`) | posture, limiter switch, trusted addresses, ... under one lock | `update_config`, `set_posture` | partial updates; lost at a restart | the configuration in force is the one last set |
| Rules engine (`rust/trakshya-rules`) | compiled rules | `check_attack`, `normalize_input` | loops that decode until nothing changes | normalisation ends and is idempotent |
| Event store (`go/internal/db/store_duckdb.go`) | a channel, a flush mutex, a table | `Ingest`, `flushLoop`, `drainBuffer`, `Close`, `PruneOldEvents` | overflow, refused batches, closing while flushing, kills | every event is accounted for once, in order |
| Correlation (`RunCorrelationRules`) | none but the table | eight windowed queries every 5 s | failing queries, synchronous callbacks, ageing rows, fields lost in decoding | an alarm says what happened; no pattern waits longer than a period |
| Incidents, analytics (`go/internal/api`) | rows | create, simulate, acknowledge, list | a row refused, a broadcast that panics or waits | what is told is in the table |
| Scans (`go/internal/api/vulns.go`, `vapt.go`) | a guard variable, rows, findings | start, run, conclude | failures of any database call; restarts | one scan at a time; the guard given back; rows that say what happened |
| Traffic generator (`go/internal/api/traffic.go`) | a flag, a ticker, a stop channel, none guarded | `Start`, `Stop` | start after stop; two stops at once | started means sending |
| Live feed (`go/internal/api/websocket.go`) | a set of connections | connect, broadcast, leave | broadcasts on old copies of the set, two writers on one connection, browsers that do not read | a connected client is told; a gone one is forgotten; one browser holds nobody else's connection up |
| Scanners (`go/internal/scanner`) | the stage of a scan | package commands and their fallback, probes, a TLS handshake | commands and a handshake without a timeout; findings that are made up | a scan ends; what it found is there |
| What an operator edits (`management.go`, `agents.go`, `config.go`) | rows of rules, blacklist, agents; a copy of the posture | create, toggle, delete, add, remove, register, three posture setters | seeding at every start; a posture in a field and another in a row, neither the proxy's | the tables are as they were last edited |
| Figures shown (`GetDashboardStats`, `GetSIEMStats`, `GetEventStats`, `GetVulnStats`, `GetVaptStats`) | none but the tables | read a whole, then a part | writes between two statements; statements that fail | a part is not more than its whole |
| Live log (`streamLogs`) | a cursor per browser | a first message, then polls | batches committed after their stamps; more events than a poll looks at | every event is sent once |
| Active response (`c/src/active_response`) | firewall rules | `block_ip`, `unblock_ip` | delayed removals | an address stays blocked as long as it was asked |
| Store without cgo (`go/internal/db/store.go`) | stamps as text | the same operations over SQLite | comparing texts of two layouts and zones | a window holds what is younger than it |
| SIEM engine (`go/internal/siem`; the server does not use it) | a list of incidents | `Ingest`, the cleaner | late stamps, truncation, the order of the rules | an alert is true of what arrived |
| SSE hub (`go/internal/ws`; not used) | a map of clients | connect, broadcast, leave | ids computed before the lock | a connected browser is told |
| Agents, webhooks (`go/internal/agents`, `webhooks`; not used) | a map; nothing | register, beat; send once | | |

The hazards that follow from this table, each at its line, are the `hazards` of
`PROJECT.json`, with the properties that watch them.

## The modules

| Module | Models | Abstracts |
|---|---|---|
| `BreakerPromise` | what a circuit breaker promises: no locks, counts or callers | |
| `CircuitBreaker` | the breaker's three methods, one action per stretch between two awaits | the times to "recent" and "elapsed" |
| `EventStore` | the ingestion pipeline, closing and restart | an event to its arrival number |
| `RateLimiter` | the token bucket | time to whole seconds, tokens to sixtieths |
| `Firewall` | what the proxy promises its upstream server | |
| `RequestPipeline` | the request path, its reports, the configuration and restarts; extends `RateLimiter`, whose actions are the limiter's part of an inspection | a request to its client, whether it writes, whether a rule matches |
| `ScanGuard` | starting and running scans, for both kinds | a scan to its request, a finding to its index |
| `ScanRun` | a scan from within, its commands or probes, and the statistics read of it; extends `ScanGuard` and implements it | what a probe finds to a number |
| `LiveFeed` | the WebSocket hub, its connections and those who broadcast | an incident to its reporter |
| `Correlation` | the correlation loop, its eight queries, retention and the decoding of events | an event to the fields that queries read; a query to an instant |
| `TrafficGenerator` | the generator, its loops and the handlers that start and stop it | the batches' content |
| `Tables` | what an operator edits, seeding and restarts | a row to its key and what a handler changes of it |
| `Overview` | the figures of three pages and what is written under them | a table to what is counted of it |
| `LogStream` | the live log: stamping, committing, the first message and the polls | an event to its stamp |
| `SiemEngine` | the SIEM engine: its list, its seven rules, its cleaner | thresholds and window to constants |
| `SseHub` | the hub of server-sent events | a message to a model value |
| `TextWindows` | time in the store without cgo | a stamp to a date, a mark and a time |

`MCCircuitBreaker`, `MCEventStore`, `MCRequestPipeline` and `MCCorrelation` only name the values
of constants. `MCParts` brings the modules together that share no state with any
other (`RateLimiter` on its own and the last six of the table): the first state of a behaviour chooses the one
that moves, so that one run checks them all. `X_proofs` holds the theorems about
`X` (those about `RateLimiter` are in `RequestPipeline_proofs`, those about
`ScanRun` in `ScanGuard_proofs`, those about the six parts in `Parts_proofs`), and
`DataTheorems` what several of them use of sums and sequences. A definition such as
`QuorumOffByOne` beside `Quorum` is a faulty variant that no specification uses:
it stands for a plausible mistake, and with it in place of the original the
property that `PROJECT.json` pairs it with fails, which shows that the property
depends on that line of the code.

**CircuitBreaker.** A caller's `pc` names the await it is suspended at.
`state_lock` and `failure_lock` are the write guards of `state` and
`failure_count`; the locks of `success_count` and `last_failure` never order two
steps (the first is taken only under `state`, the second is never held while a
contended lock is awaited) and are folded into the steps. The counters are
`u32` and wrap at `CountMod`. `probes` is history: the successes since the
breaker became half-open.

**EventStore.** `writeCh` is the channel; a *flusher* is whoever runs
`drainBuffer` (the flush loop, or a goroutine in `Close`), with its `batch` and
its `pc`. `writeBatch` is one transaction, so it is one step with two outcomes.
`rows`, `pruned`, `dropped`, `failed` and `killed` say what became of each
event. `Restart` forgets everything but the table: `main` has no signal handler
and leaves through `log.Fatalf`, so `Close` never runs there; it is modelled
because the store offers it and its tests use it.

**RequestPipeline.** `pc` is where a request's handler is suspended, `report`
where the task spawned by its inspection is. The configuration is read under its
lock with no await before the guard is dropped, so an inspection is one step; its
disjuncts follow the early returns of `inspect`: a trusted client, the limiter,
the posture, the rules, and a clean request, in that order. A call to the Go API
ends in `delivered` or `lost`; `lost` covers a refused call too, because nothing
reads the status of an answer or repeats a call. A count for a client without an
address is always refused: the API parses the address. `Hangup` is the server's
part (axum drops a handler whose connection closes); the spawned task survives
it, but not a `Restart`. `since` and `admitted` are history for the limiter's
property.

**ScanGuard.** The mutex is never held across a call, so each critical section
is a step. Any database call may fail where the code has a branch for it or
ignores the error. `unrecorded` is history: scans whose final update failed.

**ScanRun.** While `ScanGuard` says "scanning", `stage` names the command or
the probe that the scan waits for. `installedPackages` tries the platform's
manager and then three shell commands; a command that fails gives way to the
next, one that succeeds ends the search even if none of its lines parses, and a
scan left without a package takes the four of `fallbackPackages`, all of them
outdated. `dpkg`, `rpm` and `brew` lists carry no available version and an `apk`
list carries the installed one, so a real list has no outdated package
(`CommandLists`). An operating system without a supported manager is
`NothingParses` at the first stage. Neither scanner returns an error, so
`ScanFails` of `ScanGuard` is no step here, although the handlers have a branch
for it. `newest` and `view` are the two statements of `GetVulnStats` and
`GetVaptStats`, which both look for the newest scan. `kind` chooses which of the two scans a behaviour is about: their guards
and tables are separate.

**Tables.** A handler is one statement or one assignment; its early returns
change nothing and are left out. `Seeded` is what `seedDefaults` does at every
start. The histories `ruleEdit`, `banEdit` and `postureEdit` say what was asked
last; the property compares the tables with them.

**Overview.** One reader, of any of the three kinds, between its two statements;
`grew` is history: what was added to the whole meanwhile. A figure whose
statement fails stays 0 in `GetDashboardStats` and `GetEventStats`;
`GetSIEMStats` gives up.

**LogStream.** `stampOf` is given when an event is raised, `committed` when its
batch is, in any order. `GetRecentEvents` returns the newest by stamp, in any
order where stamps are equal, and the stream sends what is strictly later than
its cursor. `late` and `cut` are history: the two excuses for an event that is
never sent.

**SiemEngine.** `Ingest` holds the mutex from end to end, and so does a tick of
the cleaner. A rule is the set of alerts it may return, one for each address that
fills its threshold, because Go visits the keys of a map in any order; `Told` is
the first rule that returns one. Stamps are the senders': an incident may arrive
late. `Since` is the loop that filters the list, as a function of the steps it has
made. `arrivals` is history.

**SseHub.** `Name` reads the number of clients before the lock is taken, as the
code does; the read is one step, without the further outcomes of a data race. A
broadcast holds the read lock, so clients join and leave the map before or after
it (`Unlocked`); a channel is closed after the lock is given back.

**TextWindows.** SQLite has no type for time: the store writes RFC 3339 texts in
the sender's zone and compares them with `datetime('now', ...)`, in UTC, with a
space for the `T`. `TextBefore` is the comparison of such texts: the dates, then
that mark. Stamps are the senders', behind the clock or ahead of it by `MaxSkew`.

**LiveFeed.** `conn` is where the handler of a connection is, `pc` where a
reporter is: a handler that creates or simulates an incident, or the correlation
loop, which calls the same function from its callback. `snapshot` and `todo` are
the broadcast's copy of the hub's map, taken and released under `mu`; the later
critical sections are single steps. The connection is a library's
(gorilla/websocket): a write ends when the peer's buffers take it, fails when the
peer has gone, and waits, with no deadline, while the peer does not read; a
writer that meets another one panics, or does not notice. A panic ends a
handler's broadcast (the router recovers it) and, in the loop, the process.
`stored` and `reached` are history.

**Correlation.** `rows` is the table, `check` the place in the list of checks,
`due` the tick waiting in the ticker's channel, `incident` the alarm that is
being told. What a query selects (`Where`), groups by and measures is translated
query by query; thresholds and window lengths are constants. `Decode` is Go's
JSON decoding: it ignores case, not underscores, and the names are the sender's
(`names`). A stamp is the sender's too, unless it is missing: `Ingest` admits those
behind the clock (`Lag`) and those ahead of it (`Ahead`), and the queries, as in the
code, have no upper bound (`Recent`). Telling takes any time; `LiveFeed` shows when it ends. `quiet` is
history: for how long a rule has matched without an alarm, not counting the time
spent in callbacks and starting again when its own query fails.

**TrafficGenerator.** The fields are unguarded, so a test and the write after it
are separate steps. A loop waits on the ticker that was current when it came
round, and stops, when it ends, the ticker that is current then.

## The runs

| Run | Bounds | Shows |
|---|---|---|
| `breaker` | 3 callers, thresholds 1-2, quorums 0-2, counters modulo 4 | when the breaker opens, probes and closes; `ImplementsPromise`; calls return unless the two locks are taken in opposite orders (`CallsReturn`), and that inversion is never left (`InversionIsForEver`) |
| `store` | channel of 3, batches of 2, 4 events, 2 closing goroutines, 1 kill | no event is lost unaccounted for, duplicated or overtaken; closing is done once; queued events are settled |
| `store_loss` | no failure, no kill | `EverythingIsPersisted` fails: an overflowing channel drops events that were answered "queued" |
| `parts` | limiter: 2 clients, burst 2, 40 a minute, 5 s; SIEM: thresholds of 2, a list of 2, a window of 2 s, 4 arrivals, up to 1 s late; SSE: 3 connections, 2 broadcasts, channels of 1; windows: days of 3 ticks, zones one tick off UTC, stamps one tick off the clock, 2 rows, 8 ticks; tables: 2 seeds and a rule, 4 edits, 3 starts; figures: 2 clients, 2 incidents, 2 events; log: 4 events, messages of 1 and 2, 3 stamps | `RateBound` from every moment on; an alert is true of what arrived, and none is passed over; who misses a broadcast, or a line of the log, and why; what a text window gets wrong; where the tables are not as last edited; when a part exceeds its whole |
| `text_windows` | 1 sender in UTC with a right clock, 1 row, days of 3 ticks, a window of 1 | `CountsAreOfTheWindow` fails: what the SQLite store counts "in 5m" it counts from midnight |
| `pipeline` | 2 requests, 2 kinds, 3 configurations, 1 second, 1 restart, calls may fail | what reaches the upstream server, which records are made, `ImplementsFirewall`; calls to a dead Go API hold nobody up for ever (`CallsHoldNobodyUp`) |
| `pipeline_gap` | no lost call, no restart | `BlockedIsReported` fails: a write refused by the under-attack posture is never reported |
| `scans` | 2 requests of either kind, one with an https target, 2 findings, 1 restart, a reader | one scan at a time, the guard given back, rows and statistics that say what happened, findings that are made up, and that only a package command or a TLS handshake can hold a scan up for ever |
| `live_feed` | 2 connections, 1 handler and the loop, the database may refuse | the hub's map follows the connections; nobody is left out; handlers tell only of what is stored; a browser that does not read holds up at most the reports that write to it |
| `correlation` | 3 events of 4 kinds, one of them from a sender that names fields as the proxy does, stamps one unit behind the clock to one ahead, windows of 1 and 3 and a period of 2 units, thresholds of 1 and 2, retention at once after the longest window, 6 units of time | alarms err only by what senders write, whichever rule, and whatever ages or is deleted meanwhile (`IncidentsErrBySenders`); no pattern waits longer than a period |
| `correlation_proxy` | 2 events as the proxy writes them | `IncidentsAreTrue` fails: `source_ip` is lost, and one address is blamed for two clients |
| `traffic` | 2 requests at a time, 3 starts | `StartBeginsTraffic` fails: a stopped generator cannot be started again |

**Why the bounds suffice.** Three breaker callers are a success, a failure and a
question at once; the thresholds include the least and one above it, and the
quorum includes the degenerate zero. Two closing goroutines beside the flush loop
are the most that `closed` and `flushMu` have to tell apart; four events overflow
a channel of three and leave some behind a full batch. Two requests of one client
meet the limiter's boundary, and properties of requests name one request at a
time. Two scan requests are a running scan and one that meets it: in conflict,
after it, or reading its figures. What a third could add, the theorems about scans
hold for any number. In `parts`, three connections are two with the same id and one whose leaving
makes the number of clients repeat; a channel of one overflows with the second
broadcast; four arrivals overflow a list of two twice and leave room for an alert
that needs two, and a stamp may be older than all that is kept. (A stamp so late that it is dropped at
once needs a lag longer than the window, which the run does not have: that case is
`SiemTheorem`'s alone.) Days of three
ticks, with zones one tick ahead and behind, put a stamp on the day before and
after its window's. Three starts are a deletion, the start that undoes it and one
more. Four log events are a message of two and more behind it. Two connections are one that stalls or leaves and one that must not suffer
from it; a handler and the loop are the two kinds of reporter, whose panics
differ, and the least that can clash. Three events are a threshold of two and one
event too old, of another address or sender, ahead of the clock, or more than needed. The bounds `MaxEvents`, `MaxRows`, `MaxRestarts`, `MaxTime` and `MaxStarts` only cap
what would grow for ever; `CHECK_DEADLOCK FALSE` is set where all requests may
have been handled, or the clock has stopped, and nothing is left to happen. No run
uses symmetry.

**Fairness.** tokio's `RwLock` queues its waiters, so a caller that waits for a
lock that is free again and again gets it: strong fairness of a caller's steps.
Goroutines that can run do run, mutexes are not withheld for ever and tickers
tick: weak fairness of drains, ticks, handlers and what follows a scan. `select`
chooses at random among ready cases: strong fairness of a loop's exit. A call to
the Go API ends within the client's five seconds: weak fairness of the steps that
wait for one. Go's `sync.Mutex` hands itself
to a waiter that has waited long, and a socket with room wakes its writer: strong
fairness of a connection's and of a reporter's steps in `LiveFeed`. A probe of a VAPT
scan ends by its own timeout (8, 6 and 1 seconds): weak fairness of `Probe`. Nothing is
assumed of clients and browsers, of the upstream server (its client
has no timeout), of a package command or of a TLS handshake, which have none either.

**What the new parts show of the code.** A deleted built-in rule returns, enabled, at
the next start, and the posture that `GetDashboardStats` reads from its row is
for ever the seed's (`TablesFollowEdits` states both). A connection to the SSE
hub can be put out of the map, or removed from it, by another one that computed
the same id (`Displaced`). A log line committed after the cursor passed its stamp
is never sent (`late`). A vulnerability scan finds something only if it could list no
package (`FindingsAreMadeUp`). We know of no sentence of the repository that these
contradict; the properties say exactly how far they go.

Two more do contradict one. A window of the SQLite store begins at a midnight,
whatever its length: `WindowsErrByADay` says how far it errs, and `text_windows`
refutes the messages that say "in 5m", "in 10m" and "in 10s" of such counts
(`go/internal/db/store.go:1128`, `1158`, `1244`). And a stamp ahead of the clock is
counted, in both stores, until it has aged, so that the same words of the other
store's messages are not true of it either. No run is devoted to that: in
`IncidentsErrBySenders` it is an exception that is stated, and an alarm about
such events is shown to be true of them and of its window together.

**Disagreements.** The five runs that expect a violation each refute a sentence
of the repository: the `findings` of `PROJECT.json` quote it. `correlation_proxy`
refutes what the messages of alarms say (`IncidentsAreTrue`), with stamps that are
right; `correlation` shows how far it holds. The inversion of
the breaker's locks contradicts no sentence; it is kept as the exception in
`CallsReturn`, and `InversionIsForEver` says that the exception is a deadlock.

## The theorems

Every safety property that a passing run checks, invariants and action properties
alike, is proved for all values of the constants, from the assumptions of the
modules (`BreakerAssumption`, `StoreAssumption`, `LimiterAssumption`,
`PipelineAssumption`, `ScanAssumption`, `FeedAssumption`, `CorrelationAssumption`,
`SiemAssumption`, `SseAssumption`, `WindowAssumption`, `TablesAssumption`,
`OverviewAssumption`, `LogAssumption`), which state types, that the sets of
connections and of log events are finite, and that special values are not members
of the sets they stand beside; TLC evaluates them in every run. No theorem has any other
hypothesis. Each proof has the same shape: an
inductive invariant, that `Init` implies it, that every action keeps it, and
that it implies the property; refinements add that every step maps to a step or
a stutter of the abstract specification.

- **CircuitBreaker_proofs.** The invariant adds to the type that each lock is
  held by exactly the caller past its acquisition (`LocksHeldByTheirUsers`), that
  an opening caller still sees its decisive count (`DecisiveCountIsKept`, from the
  lock it holds), and that `probes` covers `success_count`. The first is what
  makes the others inductive: nobody can clear the count that another holds.
- **EventStore_proofs.** Conservation needs that the channel and each batch hold
  increasing numbers below `next`; order needs that whoever has a batch holds
  `flushMu`; the close needs that past the flag there is one closer.
- **RequestPipeline_proofs.** First the limiter: `RateBound` alone is not inductive,
  as a request could find a full bucket after the allowance was spent. Its
  invariant (`Paid`) bounds what was admitted *plus what the bucket would hold
  now*, and is reused as it stands for the request path. `Good`
  ties a handler's and a task's position to the verdict and to the calls made, one
  request at a time, so a step of one request leaves the others' alone
  (`OthersKept`).
- **ScanGuard_proofs.** The invariant adds what each position of a scan says of its
  row and its findings. `StepIsStep` maps every step of `ScanRun` to a step or a
  stutter of `ScanGuard`, given that `hits` is in its range, which `RunInv` says;
  so `ScanRun` implements `ScanGuard` (`Implementation`) and inherits its
  theorems. `FindingsAreMadeUp` needs that a scan with a listed package has
  returned with nothing (`Unfound`). `StatsTellTheScan` compares what was shown with
  what is, so its invariant (`StatsInv`) keeps of a reader between its statements
  what can still change under it: rows only move forward (`RowsMove`), and findings
  are only added by the scan that stores.
- **LiveFeed_proofs.** The properties are inductive once it is known that only a
  gone peer is in `broken` (`BrokenAreGone`, so that removing it takes nobody out
  who is served), that everyone in a copy is in `todo`, reached or gone
  (`CopyIsCovered`), that a broadcast has written to nobody before it copies
  (`FreshUntilCopied`), and that a handler inserts before it copies (`StoredFirst`).
- **Correlation_proofs.** Why no pattern waits longer than a period, whatever the
  lengths of the windows: between passes the count is at most the time since the
  last tick (`now % Period`), in a pass the rules looked at start from zero
  (`Attentive`), and no time passes but in a callback. `NextTick` is the step of
  arithmetic. How far alarms
  are true (`BlameTheorem`): an event of a sender with other names decodes to no
  address and no attack, so a group that has an address, or a wave, holds only
  events that decode to what was sent (`FoundIsExplained`); the alarm is true of
  these (`TrueOfItsGroup`) and stays true when more events come or age while it is
  told, because what it says is "at least" (`MoreEvents`). Where nothing is stamped
  ahead of the alarm, what its query counted is all in its window
  (`ExplainedErrsBySenders`).
- **Parts_proofs.** One inductive invariant for each part. *Windows*: a deleted row
  was out of the retention when it was deleted (`Pruned`), and `Dates` relates
  comparing dates to comparing times. *Tables*: the edits' histories speak of starts
  that have been (`EditsOK`), so a seed deleted now is not sown now. *Live log*: what
  was sent is at or behind the cursor (`StreamOK`), so a strictly later stamp has
  not been sent; `LeftOut` counts what a limit leaves out. *SSE hub*: whom a
  broadcast found served is visited still, reached, or displaced
  (`AudienceServed`), and the map holds only who is served. *Figures*: a reader
  between its statements has seen all but what has grown since (`SeesWhole`), and
  a part counted in the same state is within its whole because sums are monotone.
  *SIEM*: what is kept and young is an end of what was received and is young, and
  the young among the last `MaxEvents` are an end of it (`SiemInv`); every rule
  tells of a longer list with the same end what it tells of a shorter one
  (`RulesGrow`), so the list that is judged, in between, says no more than the
  one and no less than the other. `PartsAreParts` shows that a behaviour of the
  composition is one of each part, from which `PartsTypeCorrect` follows.
- **DataTheorems.** The library defines sums by recursion over sets, and `Since` is
  a recursion over positions. The prover cannot instantiate an induction rule, but
  the same follows from a least counterexample: `SmallestSet` and `LeastNatural`
  from the well-founded orderings of the library, `SumRecursion` and `SumMonotone`
  from the first, `AllSequences` (a set of sequences closed under `Append` has them
  all) from the second. `EndOf` says that a list is the end of another.

Some theorems state invariants that no run lists, because they are lemmas of
stronger properties or conjuncts of one: `OpenIsRecoverable`, `CloseIsLast`,
`StoredBeforeTold`, `StatusTheorem`, `LimiterTypeCorrect`.

Only model-checked: the liveness properties (`CallsReturn`, `QueuedIsSettled`,
`CloseReturns`, `CallsHoldNobodyUp`, `GuardIsGivenBack`, `OnlyAnUntimedStepHangs`,
`JoinsAndLeavesGoOn`, `OnlyAStalledBrowserHoldsUp`), since fairness and `ENABLED`
are out of the prover's reach; and the refuted sentences.

## What is not modelled

- The texts of pages, logs and headers, SQL, and what rules match.
- The breaker's, the limiter's and the store's methods that only read.
- The upstream URL and the other fields of the proxy's configuration; the block
  list, which nothing consults; `reload_rules`, which does nothing.
- The answer to a conflicting scan request, whose text is read outside the mutex.
- The pipeline, the rules and the tables of `go/internal/db/store.go`: they are those of
  `store_duckdb.go`, statement by statement, and modelled there.
- Listings, the map, the timeline and the other figures of the pages: single statements. Of
  the posture of the proxy, which neither copy of the Go API reaches, only the
  proxy's own setters are modelled. That one alarm per rule
  is reported at a time (`LIMIT 1`) and repeated while its window matches is in the
  model, and no property speaks of it.
- Some outcomes are in the model without a property that forbids them, because
  nothing in the repository does: a posture of the proxy that a restart forgets
  (`Restart`), events that `Close` leaves in the channel (`QueuedIsSettled` ends with
  the store), a live notice of an incident whose report was lost
  (`RecordsFollowVerdicts` asks only that the report was tried first), late
  successes in `ImplementsPromise`, which counts none (`ClosesAfterQuorum` does).
- `update_config` of the proxy applies its fields one by one and may refuse a posture
  after it took the upstream URL; the buckets of the limiter, and the requests a
  half-open breaker lets through, are not bounded; two stops of the traffic
  generator at once make one handler panic, which the router recovers.
- Agents and webhooks, which the server does not use; GeoIP, JWT
  and the proxy's own database, which the request path does not use.
- The C daemon's scans, the applications and the deployment files: sequential
  input and output.

## The plan

Done: the breaker, the store, the limiter, the request path, the scans and their
insides, the traffic generator, the live feed, the correlation loop, the
operator's tables, the figures, the log stream, the SIEM engine, the SSE hub and
the SQLite windows, with the theorems above. Next, in this order:

1. `ActiveResponse`: timed and permanent blocks of one address, delayed removals.
2. `Normalisation`: the loops of `normalize_input` as recursive functions over short
   inputs, against a reference definition.
3. Compositions: `RequestPipeline` with `EventStore` (an event that the proxy
   delivered is settled by the store), and `Correlation` with `LiveFeed` (an alarm
   reaches every dashboard that stays connected).
4. The posture's copies in the proxy and in the Go API as one register, refuted or
   implemented; the partial updates of `update_config`.
5. The agents' and webhooks' queues, if they come to be wired in.
