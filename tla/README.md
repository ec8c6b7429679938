# Cauce: models, checks and proofs

Cauce is a self-hosted metasearch server: a query fans out to a set of search
engines, the answers are merged, cached in SQLite and served over HTTP, SSE and
MCP; an answer loop lets a language model search and read before it replies.
This directory models the program's own logic in TLA+, checks it with TLC on
small instances and proves with TLAPS, for all instances, the type correctness of
what holds the system's state and the safety properties the runs check.

    tlc -workers 2 -config Breaker.cfg MCBreaker      # any pair of PROJECT.json "runs"
    tlapm BreakerProofs.tla

`PROJECT.json` holds the components, the runs, the map from each definition to
the lines it models, the hazards, the findings and the theorems.

## 1. The system

Paths are under `src/crates/`.

| component | state | operations | how it is reached |
|---|---|---|---|
| circuit breaker, `cauce-core/src/health.rs` | per engine: breaker, `breaker_until`, `probe_in_flight`, streaks, `probe_failures`; the policy | `admission`, `record_ok`, `record_err`, `probe_finished`, `reset`, `set_policy`, `load` | one critical section of the tracker's mutex each; called by fan-outs, the prober, the reset route, a config save |
| health persistence, same file, `pipeline/persistence.rs` | dirty set, pending transitions, `last_flush`, the `engine_health` table | `flush_due`, `flush`, `load` | every search after its fan-out, every prober pass, the reset route, boot, shutdown |
| singleflight, `admission.rs` | a slot per cache key: flight id and watch channel | `enter`, `Lead::complete`, `Lead::drop` | `run`, `run_stream`, `spawn_refresh` |
| engine permits, `admission.rs` | one FIFO semaphore per engine id | `acquire`, `acquire_within` | flights, `promote_deferred`, `queue_hedge`, refreshes |
| fan-out, `pipeline/fanout.rs`, `waves.rs` | JoinSet of engine tasks, waves, hedge timer and permit task | gate, promote, join, hedge, reconcile | one per flight |
| recovery prober, `pipeline/prober.rs` | its interval | `probe_due` | a background task; claims probes like a search does |
| search pipeline and merge, `pipeline/mod.rs`, `cache.rs`, `merge.rs` | cached rows, the merged list of a fetch | three cache tiers, flight, overflow, stale-while-revalidate, streaming, RRF | HTTP, SSE, MCP, the answer loop |
| store, `cauce-core/src/store`, `cauce-store-sqlite` | cache rows, pages, history, clicks, audit, full-text indexes; one writer, many readers | upserts, deletes, feeds, searches, sweeps | pipeline, admin handlers, MCP tools, the eviction task |
| configuration, `cauce-core/src/config`, `cauce-server/src/app.rs`, `handlers/config.rs` | the file, the raw tree, its resolution, the running pipeline | load, display, form and TOML save, engine toggle, hot apply | handlers; swaps the pipeline, keeps the health tracker |
| answer loop, `cauce-agent/src/answer.rs` | turns, tool calls, the held-back tail, the answers cache and log | run, assist, cancel | the answer route; calls pipeline and providers |
| answer route and limits, `cauce-server/src/handlers/answer.rs`, `threads.rs`, `limits.rs` | in-flight count, tallies of the day, thread rows | admission, `charge`, the thread upsert | HTTP |
| AI providers, `cauce-core/src/ai` | a call's buffer, partial tool calls, usage | `chat_stream`, the pump | answer loop, evals |
| engines, `cauce-engines` | the roster; specs and overrides; a warm child per exec engine; recorded fixtures | registration, toggles, verdict on a page, exec round trip, record, canary | factory, fan-out, CLI |
| page archive, `cauce-core/src/archive` | per-host buckets, pages | fetch with guarded redirects, index | MCP, admin |
| HTTP surface, `cauce-server/src/routes.rs`, `middleware.rs` | the route table, roles, cache headers | every request | clients and a shared cache in front |
| logs, `cauce-server/src/observability` | daily JSONL files, their writer's queue | write, rotate, prune; tail, trace | every component; CLI |
| terminal interface, `cauce-cli/src/cmds/tui.rs` | flights of searches and asks, what is shown | keys, messages | user, pipeline, answer loop |
| evals, `cauce-core/src/evals/ai.rs` | transcripts and cassettes | record, replay, report | CLI |

How they interact: a search goes pipeline → singleflight → permits → fan-out →
breaker → engine, and back through merge, store and health persistence. The
answer loop calls the same pipeline from its tools. A configuration save
replaces pipeline and admission, and keeps the health tracker and the store.

### What makes it hard, and what makes it correct

* **Breaker.** A call spans several lock sections and the flag does not say whose
  it is. Correct: a raised flag is lowered by somebody; a tripped engine rests
  for its window; undisturbed probes do not overlap; a recovered engine comes
  back with no traffic.
* **Persistence.** Flushes drain under the lock and write after it; writes fail;
  the process dies. Correct: the last health is on its way to disk, a transition
  is audited once, both arrive.
* **Singleflight, permits, fan-out.** Leaders panic, clients leave, a hedge timer
  races answers and permits. Correct: one fetch per key at a time, every waiter
  answered; no more calls than configured, no circular wait; every engine
  called under a permit and reported once.
* **Pipeline.** A row fetched for one question may be served for another; batches
  arrive in any order. Correct: results belong to this request's question, page
  and pin; ranking does not depend on arrival; a stream ends once.
* **Answers.** A deadline, a fault, a tool turn and a lost client race; threads
  are rewritten whole; midnight passes. Correct: frames in order, no metadata
  shown, only self-contained answers cached, threads that are one conversation.
* **Store.** Full-text tables keep no text, a page of history is several reads,
  a delete and its audit row are two calls. Correct: the tables do what the trait
  promises, and the audit log tells the truth.
* **Configuration.** Two editors, two critical sections, a crash before the
  rename. Correct: what runs is what is saved; a save changes its fields only
  and bakes no secret or template value in.
* **The rest.** Each part has one promise that is easy to break: section 3.

`PROJECT.json` "hazards" has the lines where these would go wrong.

## 2. The modules

### Breaker (`MCBreaker`, `BreakerProofs`)

One engine of `HealthTracker`; the tracker keeps engines apart, so one is
enough. `AdmitCall` and `AdmitProbe` are `admission`'s outcomes `Call` and
`Probe`; `RecordOk`, `RecordErr`, `ProbeFinished`, `Reset`, `SetPolicy` and
`Init` (a loaded row) are the other methods. `pc` follows each engine call:
`calling` or `probing` between admission and record, `recorded` until the
`ProbeGuard` drops, `panicked` until the fan-out reconciles it. The prober is one
more call, which starts only as a probe.

* `breaker_until` is kept as the ticks that remain (`wait`).
* Streaks and `probe_failures` saturate at `StreakCap` and `BackoffCap`.
  `PolicyAssumption` and `SaturationAssumption` say why nobody can tell.
* The jitter is any window in [3/4, 5/4] of the base; the code's factor is below
  5/4, so this allows one value more at the upper end.
* The fatal kinds of error are `abuse` (RateLimited, Blocked), `timeout` and
  `degraded` (all that feed `degraded_streak`).
* `healthy` is the upstream, turned by the environment.
* `quiet` counts ticks since the last trip, and `disturbed` remembers that
  somebody other than the probe itself lowered the flag under it. No action
  reads either.

### HealthPersist (`DurableProofs`)

Dirty set, transitions and flushes of several engines. Each lock section of
`flush_due` and `flush`, and each store call, is a step. A row's content is the
number of the change that produced it: what matters is which of two rows is the
newer. The reset route's own write races the flushes. `CrashAndLoad` forgets all
memory and starts from the rows. `high` is the newest row ever written and
`settled` the transitions whose fate is known.

### Coalesce, SingleFlight (`SingleFlightProofs`)

`Coalesce` is the contract of one key: one flight is open to newcomers, a value
is published before the flight closes, a client gets what its flight published
or learns that it vanished, and retries once. `SingleFlight` is the code: the
lookups, election, the flight's lexical tier, permits, fetch and overflow,
`Lead::complete` as two steps (`Send`, `RemoveEntry`), `Lead::drop`, the stale
serve and the refresh it spawns. A streaming request's leader runs the flight in
its own task, so it goes down with it. `Contract` instantiates `Coalesce` with
what the channels show.

A search leads at most two flights and owes at most one refresh, so `<<r, n>>`
stands for the ids of `next_flight`. `Recycle` clears the bookkeeping of a
finished search so that its place takes the next one: behaviours are unbounded.

### FanOut (`FetchProofs`)

One flight from its gate to its response. A step runs to the next await: `Gate`,
`Promote` (every primary is at rest), engine tasks that return or panic, and the
branches of the select loop. The clock is before the hedge point, past it, or
past the deadline. Of the merge only "at least `hedge.min_results`" is kept.

### Permits (`MCPermits`, `FetchProofs`)

All flights and the engines' semaphores. `wave` is the list a flight acquires,
`held` what it has; `inLine` and `ahead` are the FIFO queues. `Id` lets two
configured positions share an engine id, which config validation allows.

### Merge, Pipeline (`MCPipeline`, `PipelineProofs`)

`Merge` is the RRF accumulator with integer scores in units of 1/`Scale`: one
result after the other is added (`Add`), then sums are ranked (`Ranked`) and
hosts collapsed (`Collapse`). Next to it stands `Fused`, which defines the same
list from the pages alone: an engine's worth to a url, who is over whom, who has
fewer than the cap above it on its host. No order of arrival occurs in it. `Parts` takes each url apart (viewer, prefixes, host, path,
query) and `NormalizeUrl` folds it to the key the merge knows a page by. `Pipeline` composes it with the cache:
pin validation, exact, stale and lexical lookups, the flight's fallbacks, the
refresh, what is streamed, stored, logged and answered. A query is its set of
lexical tokens, the lexical tier's threshold a fraction of shared ones. Here
keys differ and rows have contents; the deaths and disconnects at one key are
SingleFlight's.

### AnswerLoop, AnswerServer (`MCAnswer`, `AnswerProofs`)

`AnswerLoop` is one run per request: cache lookup, provider turn, tool calls
with the execution budget and repeated calls, the tail window that keeps the
metadata object from the client, deadline, fault, cancellation, the answers
cache and the log. Text is counted in units, an answer is the set of source
numbers each sentence cites. `AnswerServer` adds the route: in-flight permit,
daily budget (`charge` reads the day before it takes the lock), the transcript
a client replays as history, and the thread row each turn upserts.

### Store, SqliteStore, StoreApi (`MCStore`, `StoreProofs`)

`Store` is the trait on plain tables, as `MemoryStore` behaves. `SqliteStore`
has the tables with rowids and counters, the triggers that add and retract
index rows, statements and upserts, and feeds read by several SELECTs with
snapshots of their own; `RefinesStore` maps it to `Store`. `StoreApi` drives it
as the search path, the admin handlers, the MCP tools, the eviction task and
crashes do, each with its audit row. The six MCP tools are there with what they
write and whether their audit row is strict; what the reading ones return is
not. A text is the set of its terms.

### The parts (`MCParts`, `PartsProofs`)

Ten parts that share no state with each other run in one configuration; `part`
picks the one a behaviour is about, so their states add up.

| module | models | promise |
|---|---|---|
| `Config` | file, raw tree, resolution, live runtime; form, TOML and toggle editors; save by rename; crash; restart | `LiveMatchesFile`, `SavesOnlyItsFields` |
| `ExecEngine` | the warm child of an exec engine, its pipe, timeouts, drops, respawn, v2 → v1 | `OwnAnswer` |
| `Engines` | embedded specs, overrides, entries, `CAUCE_ENGINES`, toggles, what a page is taken for | `AnswersAsWished` |
| `Provider` | both wire protocols, chunked SSE, folding of deltas and tool calls, ends of a stream | `NothingLostOnTheWire` |
| `Tui` | flights against what the user does meanwhile | `OnlyCurrentFlightsShow` |
| `Logs` | daily files, renames and pruning, `trace` and `tail --follow` | `ReadersMissNothing` |
| `Archive` | url checks at every hop, resolution, per-host bucket, the upserted row | `RowsAreFetchedPages` |
| `Evals` | parallel cases, recorded and replayed | `ReplayReproduces` |
| `Edge` | route table, roles, owners, cache headers, a shared cache in front | `EdgeRepeatsTheOrigin` |
| `Canary` | recording of fixtures (killed half-way too), offline replay, live drift check | `DriftIsTold` |

Comments at the head of each module say what its data stands for. `Logs` is proved
about in `DurableProofs`, the others in `PartsProofs`.

### How they fit

`FanOut` assumes of the breaker that any set of engines may be let through and
of the permits that they come or time out; `SingleFlight` assumes of permits and
fan-out that they end; `Permits` assumes that fetches end. Each is what the
other module shows: `FetchEnds`, `WaitsEnd`. `CallsHoldPermits` turns `Polite`
into a bound on calls, and `AdmittedAreCalled` is why `Breaker` may start a call
in the step of its admission. `Pipeline` takes one flight per key from
`OneFetch`; `StoreApi` takes from `Pipeline` which rows are written.

## 3. The runs

| run | asks | bounds | states |
|---|---|---|---|
| `breaker` | Is a raised flag owned, are undisturbed probes exclusive, is a trip a rest, does a recovered engine return? | 2 calls, prober, 2 policies, windows of 3 to 6 ticks | 42 k |
| `health_persist` | Does every change and every transition survive flushes, a reset, a failed write and a crash, and arrive? | 2 engines, search and prober, 2 changes, 1 failure, 1 crash | 48 k |
| `single_flight` | Does the code implement `Coalesce`; one fetch at a time; is everyone answered; is an owed refresh safe from its own flight? | a plain and a streaming search, recycled for ever, 2 panics | 130 k |
| `fan_out` | Permits, claims, reports and end of a fetch | 4 engines, all splits in waves | 74 k |
| `permits` | Politeness, circular waits, starvation | 3 flights, 2 + 1 engines, 1 permit | 21 k |
| `answer` | Frames, tail, cache, threads, who is refused | 2 runs, 3 kinds of ask, 1 tool turn, 3 tool calls, 1 thread, 1 answer a day, 2 days | 2.7 M |
| `store` | Do the tables implement the store; indexes, feeds, audit, sweeps | 2 keys, 1 url, 1 admin call, 3 ids; six mixes of operations (`MCBudgets`) | 0.7 M |
| `pipeline` | Whose results, which order, one end | 2 requests (one streams), 2 engines, 3 overlapping queries, 1 pin, 2 fetches, fresh then past ttl | 2.2 M |
| `parts` | The promise of each part above | see `Parts.cfg` | 2.6 M |
| `health_overtaken` | When nothing is left to write, is the store current? (violated) | no failure, no crash | |
| `permits_shared_id` | Circular waits when two engines share an id (violated) | 3 flights, 3 permits | |
| `answer_daily_budget` | Is the daily budget a bound? (violated) | 3 runs, 2 days | |

The type invariants (`TypeOK` of each module, `*TypeOK` of each part) hold in all
runs' instances and are kept out of the configurations, which spend their
properties on hazards. They are theorems (`TypeCorrect`, `QueuesTyped`,
`LogTypeCorrect`) but for the other parts, whose inductive invariants carry as much
of the types as the proofs need. Every
listed property has a mutant in `PROJECT.json` that breaks it: a change of one
definition such as a plausible slip in that code would make.

Why the bounds are enough to be interesting:

* *breaker*: two ordinary calls are a straggler and a probe, and with the prober
  three parties; thresholds of 1 and 2 begin, break and complete a streak; the
  second policy shrinks and grows windows under a resting engine; the backoff is
  capped at its second step; `MinRest` = 3 is the smallest window.
* *health_persist*: two changes of one engine are an old row and a new one; two
  engines let one of a flush's rows fail; three writers.
* *single_flight*: two deaths let a search lose its flight twice, which is where
  it gives up. Ids are reused, so nothing else is bounded.
* *fan_out*: four engines allow two in each wave, so a wave may be part answered,
  part skipped and part panicked.
* *permits*: with one permit each, three flights over three engines are the
  smallest circle that in-order acquisition has to exclude across waves.
* *answer*: a completion asks the same tool call twice and one call more than the
  budget; one turn of tools and a forced last turn; two runs share question,
  thread, client and cache row; the day turns once.
* *store*: rowids are reused after a delete, so three ids suffice; each mix gives
  the cache, the archive, the history and its feed the operations that can
  disturb it; the feed is read in three steps with writes between.
* *pipeline*: neighbours of the three queries share a token, so a row can be
  handed on twice and must not drift; two variants of one page make merge order
  matter; ttl, degraded ttl and grace let a row be fresh, in grace and gone.
* *parts*: two of everything that races (editors, searches, threads, requests,
  fetches, specs), with the bounds named in the module. Three log files of three
  days let a follower fall two files behind. The log's two requests are alike, so
  `RequestsInTurn` keeps the behaviours in which a chosen one comes first.

### Fairness

* Breaker: weak fairness of the clock, of the prober's claim (its interval ticks
  for ever) and of every call in progress (each runs under a timeout). None of
  searches, operator or upstream: `Recovery` assumes only that the upstream ends
  up healthy.
* HealthPersist: a flush that began goes on, the prober's flush comes every
  pass, the debounce elapses. Failures and crashes are bounded, so a write
  succeeds in the end; searches and resets need not happen.
* SingleFlight: spawned tasks are scheduled and a live request is polled.
  Lookups, disconnects, deaths and ageing are not fair.
* FanOut: the select loop is polled, engine calls and permit waits end (both
  carry a timeout), the clock moves.
* Permits: free permits are handed out and fetches end. `GiveUp` is not fair:
  waits must end without it.

The other modules state safety only: what ends them is a deadline, a timeout or
a user, and their end states are final (`CHECK_DEADLOCK FALSE`). `breaker`,
`health_persist`, `single_flight` and `permits` check deadlock.

## 4. What is proved

For all constants that meet the modules' assumptions. `tlapm` checks every leaf.
Each module defines an inductive invariant (`IInv`, or one per component), proves
that `Init` implies it and every step keeps it, with one lemma or step per
action, and draws the theorems from it. Every safety property of a run has its
theorem.

**BreakerProofs.** `IInv` adds to the types and to `ClaimHasOwner`

* `RestOwed`: while less than `MinRest` has passed since a trip, the breaker is
  Open and `quiet + wait >= MinRest`; so admission, which needs `wait = 0`,
  comes when the rest is complete;
* `UndisturbedFlag`: an undisturbed probe still has the flag up, so no second
  one can be admitted next to it.

`RecordErrEffect` and `ProbeRetryRests` isolate what a failure does and why a
jittered window is not below `MinRest`. `ClaimsAreOwned`, `ProbesExclusive` and
the action property `TrippedEnginesRest` follow. Assumptions: `PolicyAssumption`
(what config validation enforces, and that caps lie beyond thresholds),
`RestAssumption`, `ProberAssumption`, and `DoublingAssumption`: small powers of
two are positive naturals, which is true of all naturals and which TLC evaluates
for the instance.

**DurableProofs.** *Health*: `NothingLost` needs `HandsEmpty` (only a writing flush
holds rows or transitions, so draining overwrites nothing), `DiskBehind` (what a
restart loads is no newer than the newest row written) and `Numbered` (the
transition of a new change is in nobody's hands). `NothingLostAlways` holds for
any engines, searches, failures and crashes.

*Log*: `LogReadersMissNothing` rests on three invariants.

* `WrittenInv`, of the lines on file and in the queue, read one after the other:
  stamps are distinct, and of any two lines the later one is in order after the
  earlier (`Follows`): nothing of a span comes behind its close or before its
  opening. Stamps alone do not give this, since lines of different spans are
  queued out of their order; it follows from what the registry and the threads'
  hands hold, which the invariant carries along.
* `NamesInv`: no two files have one name. A rename needs a free name, a new dotted
  file is begun only if none of its day is left, and files are of ascending days.
* `FollowInv`: while nothing is unsettled the follower is on the last file or the
  one before it, or its file has been pruned; what it has printed is a run of
  neighbouring lines (`Chain`) that ends where it will read on (of a file pruned
  under it nothing is left to compare with).

A trace's lines are listed by the number of lines ahead of each in a strict
order (`SoonerStrict`, `TraceListed`), so each occurs once; an event finds its span
because `Follows` puts the opening, with the smaller stamp, ahead of it
(`TraceWhole`). A tail's recursion keeps the set of engine spans opened so far,
which `Follows` makes the least set closed under opening (`TailTold`).
`LogTypeCorrect` adds retention: never more than `MaxFiles` files lie there, since
only the file of a new day is one more, and beginning it prunes. Assumed: one file
at least is kept (`FilesAssumption`), no record is no line (`RecordAssumption`),
and the bounds are numbers that let the log begin (`LogBoundsAssumption`).

The run checks it where a follower sleeps through the beginning of two files,
which needs three days and three files. `unsettled` excepts that: `--follow` then
goes on to the newest file and skips the one between (section 5).

**SingleFlightProofs.** `SlotNamesLeader` (the slot names exactly the task that
leads, has concluded or has sent), `JoinedAwait` (who has joined awaits a task
that has begun), `RefreshesAlone`, and `FreshIds`: a search that still seeks has
used neither its next flight nor its refresh, and awaits the flight it leads.
`OneFetchAlways` and `RefreshesAreFree` follow. `Implements` is the refinement:
inner steps of tasks show nothing, `Send` is `Publish`, `RemoveEntry` and `Die`
are `Close`, `CloseChannel` is `Vanish`, `Recycle` is a `Leave` that forgets
flights nobody awaits. `FreshIds` is what makes election an `Open`: the id it
takes has shown nothing yet.

**FetchProofs.** *Permits*: `QueueInv` is `PermitsTypeOK`, `InOrder` (permits are
taken from the front of the wave and a second wave lies beyond the first),
`LinedUp` and `Polite`. `PoliteAlways` holds for any lists, also with shared
ids. `NoCircularWaitAlways`, for distinct ids: of all flights that wait take one
waiting for the greatest position. If it cannot go on, every permit of that
engine is held by flights that wait themselves, or by one that runs its fetch. A
waiting holder waits for a position beyond one it holds, which contradicts the
choice. `permits_shared_id` shows that distinctness is needed. *Fan-out*:
`WavesPartition` says in which wave each engine is at each phase,
`TasksAreGated` that the gated engines are those with a task, `CountedOnce` that
a report is made when a task joins or, for a panicked one, at the end,
`PermitsCover` that the loop holds the permits of all it has called.
`AccountedAlways` follows for any engines.

**PipelineProofs.** Three invariants, each resting on the one before.

* `IInv`: a row lies under the ask it was fetched for, an outcome answers its
  task's ask, and what a search's place says about its stream and its log is so.
  `AnsweredAsAsked`, `TypeCorrect`, `LoggedOnce` and `StreamEndsOnce` follow. The
  lexical tier keeps its property although a row may be handed on again: a served
  row keeps the ask it was fetched for and is stored under no other.
* `MergeInv`: the accumulator of a fetch holds exactly what the answers reported
  so far tell of each url (`Merged`): per engine its worth, the best spot, the
  first spot. Nothing in `Merged` knows the order of the reports, so it is enough
  that `Add` of one more page keeps it (`AddsPage`, by the least rank at which a
  page's recursion could go wrong). `Finish` of such an accumulator is `Fused`:
  `Above` is a strict order, so the place of a key is the number of keys above
  it (`Places`, `Lists`), and collapsing drops a key when the cap's number of its
  host is above it (`Collapsed`). `ArrivalIgnored` is then the statement that
  rows and served outcomes are `Fused` of the pages stored with them.
* `SentInv`: every page with results that a streaming search's own fetch has
  gathered is in some batch of its stream, and a served stream's batches are all
  results (`EmitNamed`). A `meta` frame orders the result urls, each of which is
  some page's: so it names only what was sent. `EndsAsTold` puts this next to
  `LoggedOnce` and `StreamEndsOnce`.

Assumed: positions are 1..n, weights and constants are naturals, pages are lists
of the urls `Parts` describes, the asks are not empty.

**AnswerProofs.** What a run promises depends on its stage. `FramesOf` relates
the stage to the frames sent (silent until an end, sources before a `done`),
`TextOf` the text cursor to what was shown (during a turn: all but the window),
`AnswerOf` says whose answer is held, and that one about to be cached is grounded
in its sources and comes from no conversation. `TableInv` says the same of the
cached rows; rows name runs that have begun, whose requests no longer change.
`Framing`, `TailHolds` and `CacheHolds` follow. For the route, `Conversations`: a
thread's row is one chain of runs, each of which replayed exactly those before it,
so a lost turn leaves a conversation; and `Tallied`: the tally of the day the
budget stands at is no more than what was spent on it. `ThreadsHold` and
`BudgetFair` follow. `LoopTypes` carries the guards of the loop: what was executed
is drawn from what was visited and without repetition, and a completion that calls
tools is not the last (`RunsAreBounded`); `ServerTypes` that no tally exceeds the
budget (`TypeCorrect`). Assumed: window, limits, days and a budget that are numbers
(`WindowAssumption`, `LimitsAssumption`, `DaysAssumption`), and asks of the
request's type (`AsksAssumption`).

**StoreProofs.** `SqlInv`: one row per key or url, indexes that are exactly the
rows' texts, answer ids below the sequence's counter. `CallInv`: what an admin
call has written and audited at each of its steps. `SweepInv`: a sweep's cutoff
lies its grace before now. `IndexesHold`, `AuditHolds` and `GraceHolds` follow, and
`Implements`: with `CacheOf` and `PagesOf` reading the tables as functions, each
upsert, delete, sweep or hit is one step of `Store`, and index and feed steps
show nothing. For the feed: a row among the newest `limit` of the whole is among
the newest `limit` of its own table, so cutting each table, merging and cutting
again loses none (`FeedHolds`). `FeedInv` follows the three SELECTs of a page,
with writes between them: a search row that the first SELECT took stays in what
was found, so a click shown has its query there, or the page is full
(`ClicksHold`). `TypeCorrect` needs `IdInv` besides: AUTOINCREMENT's counter is
moved by an insert that had an id left. Assumed: rowids are 1..n for some n, times and limits are
numbers, `None` is no row.

**PartsProofs.** One invariant per part.

* *Exec bridge* (`ExecInv`): one holder owns the child; a child put back is
  quiet; the one in use carries the holder's own query.
* *Configuration* (`ConfigInv`): the live tree resolves to the live
  configuration, the file is that tree except between a rename and its hot
  apply, one editor at a time is past its commit, and a candidate differs from
  the tree it was derived from in its own fields. `ConfigSavesItsFields` is an
  action property.
* *Terminal* (`ListInv`, `PaneInv`): rows come from flights of the current chain
  and each ask has the turn of its own number.
* *Archive*, *Engines*, *Canary*: what a fetch has checked at each stage; that a
  roster not touched since is the one its entries build; that what was printed is
  told of the present files, site and specs.
* *Shared cache* (`EdgeInv`): an entry was an answer for anybody, and is no older
  than its header allows. The theorem has the hypothesis that no caller asks for
  markdown: with one, the property is false (section 5).
* *Evals* (`EvalInv`): a recording has in its file what its loop has seen and in
  its relay what it is about to see; a replay's rest is what follows in the file.
* *Provider* (`WireInv`): for some number q of events, what the receiver has is
  the reading of the first q (`Taken`); where tool results are owed in the
  converted conversation, they come next (`Owed`, `Followed`). Assumed: events
  end at their sentinel (`EventsAssumption`), and a conversation's tool calls are
  answered right behind the message that made them (`TalksAssumption`), which is
  how the answer loop builds it.

The other parts assume that a mark for nothing (`NoChild`, `None`, `Absent`,
"gone") is not a thing, that a redacted key is no real one, and the types of
their inputs.

**How recursion is reasoned about.** The library's induction theorems take an
operator as a parameter, which the provers cannot instantiate. Two ways lead past
that here. A recursive function's equation is proved where it is needed by taking
the least number at which it fails (`LeastNumber`, `NumbersUpTo`, from the well
foundedness of the naturals as a statement about sets); and a sum or a place in an
order is characterised by a property that one more element preserves.

**Only model-checked.** Liveness (`Recovery`, `Persisted`, `EveryoneAnswered`,
`FetchEnds`, `WaitsEnd`), which needs fairness and ENABLED.
`NoCircularWait` and `OwnFlightNeverBlocksRefresh` are
proved, the progress they stand for is checked.

## 5. Where the code and its words differ

Three are runs that TLC refutes with a trace; details are in `PROJECT.json`.

1. *health.rs:35-37, 344-346*, the stored row keeps a restart from hammering a
   blocked engine: an older row may be written over a newer one
   (`health_overtaken`). What does hold is `NothingForgotten`.
2. *admission.rs:175-177*, flights cannot deadlock: with a shared engine id they
   wait for each other until a timeout (`permits_shared_id`).
3. *limits.rs:80-85, 106-108*, a client's answers of a day are bounded: a charge
   delayed across midnight clears the tallies twice (`answer_daily_budget`).
   What does hold is `NobodyRefusedEarly`.

Others met on the way, described here only:

* *health.rs:15-16*, exactly one call is let through as a probe: the flag has no
  owner, and a straggler or a reset lowers it under a probe. What holds is
  `ExclusiveUnlessDisturbed`.
* *health.rs:439-441*, only a probe's success closes the breaker: any late
  success does, also out of Open.
* *health.rs:35-37*, the row is on disk before the search that tripped the
  breaker returns: not when another flush has taken it.
* *admission.rs:144-145*, two concurrent misses never both lead: they do when the
  first flight ends between the second's lookup and its election.
* *routes.rs:64-68, spa.rs:56*: rows marked shared negotiate on `Accept` and send
  no `Vary`. The run has one `Accept`; with two, `EdgeRepeatsTheOrigin` fails.
* *normalize.rs:10, 74*, `normalize_url` is idempotent: one pass takes `/a//amp`
  to `/a/` and `/x.amp.amp` to `/x.amp`, the next takes those to `/a` and `/x`
  (`FoldedPath`). The merge keys on one pass, so such pages can stay apart.
* *mcp/mod.rs:666-669*, a url both indexed and cached is one hit, reported as
  `page`: it is reported as the list it ranks better in, and as `page` on a tie
  only (`Better`). A url in several cached rows counts once for each.
* *canary.rs:246*: the comment has a set intersection, the code counts repeats of
  page 1's urls on page 2.
* A TOML GET then PUT writes the last reader's file over a save in between, and
  writes `CAUCE_*` values into it.
* Two follow-ups of one thread at once: the later upsert replaces the earlier
  turn. The thread stays one conversation, an exchange is missing from it.
* *pages.rs* header speaks of INSERT OR REPLACE, the statement is an upsert.
* *cmds/tail.rs:89-96*: `--follow` prints a file again that was renamed under it,
  and skips a file when two are begun while it sleeps;
  *trace.rs:66*: a trace that reads while a file is renamed can miss it.
* Case names of evals that share a stem overwrite each other's files.
* An exec child that writes two lines for one request shifts the next answer by
  one; the deadline of the search after it puts that right.

## 6. Plan

Done, in this order, by weight in the search path: breaker, persistence,
singleflight, fan-out, permits; pipeline and merge; answers; store; the parts;
their proofs, in the same order.

Left, in this order:

1. **FanOut over Breaker** for several engines: a flight that spent its deadline
   in the queue calls engines with no budget, and the timeouts feed their
   streaks.
2. **Two pipelines over one tracker**: a hot apply builds a new admission while
   searches of the old pipeline run on, and the prober keeps the boot pipeline.
3. Liveness of an answer run and of a streamed search under their deadlines.

## 7. Not modelled, and why

* The latency window, EWMA and reliability ratio: inputs of the UI and of the
  hedge point's value, not of a decision modelled here.
* What `search_archive`, `exa_search`, suggestions, favicons and stats
  breakdowns return: reads with no state of their own. *stats.rs:226* takes totals and breakdowns in snapshots of their
  own, as the feed does, and promises nothing about it.
* Config validation rules field by field, the CSRF token, the request windows of
  `governor` (a library), article extraction: data or wording, no ordering.
* Metrics, the report bundle, the conformance suite: counters nothing reads
  back, output, and tests.
* The `answers` table is never evicted and `search_log` ids may be reused after
  the newest row is deleted; nothing reads them across that.
* Drawing and clipboard of the terminal interface, the web SPA, the Python SDK,
  edge functions, deployment: clients and packaging.
