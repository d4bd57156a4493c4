# WildToken in TLA+

WildToken is a self-hosted gateway for LLM APIs, one Go process over one SQLite
file. Clients send OpenAI- and Anthropic-style requests with a downstream token;
the gateway admits them under the token's quota and rate limit, chooses a channel
(an upstream account) and one of its keys, forwards the request, retries failures
on other channels, streams the answer back, and writes a log row per attempt
whose usage advances the token's stored total. Operators edit tokens, groups,
channels and settings through an admin API and a web console.

This directory models the parts of it where several goroutines, the database and
the network meet. Source paths below are relative to `src/internal/`.

## The system

| Component | State | Operations | What is hard | What makes it correct |
|---|---|---|---|---|
| Quota tracker `quota/tracker.go` | per token: running requests, metered usage | Admit, Meter, Settle, Release | bursts; usage in flight between handler and commit | admission leaves nothing owed out; holds are exact; keys do not leak |
| Log writer `proxy/logging.go` | bounded queue, carried usage, the batch being written | Schedule, CloseWithin, run, flush, the retried insert, the cleanup pass | full queue, failed batch, shutdown racing handlers | usage is stored once, in full, whatever happens to the row |
| Tokens and groups `db/token.go`, `db/group.go`, `middleware/auth.go` | api_tokens, groups, memberships | lookup, reset, create, edit, delete, the upgrade to digests | the total is read before admission; a group goes while others name it | see quota tracker; nothing dangles |
| Routing cache `proxy/matcher.go` | parsed snapshot, revision | getOrLoad, Invalidate, selection | three queries outside a transaction, loads racing edits, filters whose order matters | what is cached includes every answered edit; failover is orderly |
| Model list cache `appstate/state.go` | list per group, revision | Get, Revision, Set, Invalidate | the same | the same |
| Console edits `handlers/upstreams.go`, `groups.go`, `admin.go`; `db/upstream.go`, `upstream_keys.go` | channel and key tables | create, update, delete, archive, switch, export, import | a copy of the first key kept for older builds; key lists by id, value or single field | an edit answered is an edit served; the copy is the first key |
| Proxied request `handlers/proxy.go` | retry loop: excluded, cooling, refused, held failures; log guard; what was sent downstream | attempt, retry, replay, deliver, abort | a client that leaves; streams whose headers are out; keys shared with other requests | every attempt on a row, one outcome per request, no refusing account asked again, it ends |
| Upstream attempt `proxy/client.go`, `ssestream.go`, `bufferedstream.go`, `sse.go` | a log entry until it is logged; the observation of what was read | prime, Read, Close, drain, abandon, the buffered body | terminal event against disconnect against timeout; lines cut by reads | one row, one charge, all the usage that was reported |
| Key picker `proxy/keys.go` | rotation, benched keys | Pick, HasFresh, Bench, Clear | shared by all requests | no refused key while a fresh one is left |
| Stored response routes `handlers/response_routes.go`, `db/response.go` | response_routes | store, look up, pin | accounts edited under a key, IDs chosen by providers | a response is continued only where and for whom it was made |
| Health scores `proxy/health.go` | score per channel | failure, success, recovery, reset | recovery credited only when somebody looks | looking changes nothing |
| Rate limiters `ratelimit/limiter.go` | sliding windows | Check, cleanup | cleanup deleting a window in use; whole seconds | never more admitted than the limit |
| Admin credential `authstate/credential.go` | credential generation, verified-token cache, verification slot | authenticate, rotate, publish | rotation during verification, commits published out of order | an old credential is never accepted after a rotation is answered |
| Failure throttle `authstate/throttle.go` | gates, a bounded map of callers | Admit, RecordFailure, RecordSuccess | a full map, distributed guessing | a guesser is held back alone and in a crowd |
| Settings `db/settings.go`, `appstate/state.go` | one row with a revision, a copy in memory | compare-and-swap update | two editors | memory is never rolled back |
| Log store `db/log.go`, `logbody.go`, `logbody_migrate.go`, `stats.go`, `usage.go`, `logbody/` | log rows, records, shared chunks and metadata, hourly totals | batch, migration, keep-count, retention, sweeps, backfill, windows | sweeps racing the writer; passes and upgrades cut short | a row reads back what was stored; totals count each row once |
| Console feed `proxy/active.go`, `logging.go`, `handlers/admin.go` | registry of requests in flight, subscribers' queues | begin, set, release, publish, stream, poll, resync | a reader that cannot keep up | a page that stays connected catches up |
| Process `app/server.go` | the steps of start and shutdown | listen, drain, close | order of the steps, bounded waits | rows accepted in time reach the database |
| Secrets, backup `secret/`, `db/secret.go`, `app/secrets.go`, `app/backup.go` | key file, sealed columns, backups | pick or make a key, seal, back up, restore | crashes and power cuts anywhere | no value lost or left readable |
| Image store `imagestore/` | files of a directory | save, evict | a crash mid-write; the cap | no half image; newest kept |
| Client configuration `localfile/`, `integration/`, `ctl/integration.go` | a file of another program, its lock and copies | read, merge, apply | another run, the user's editor, a dead run | no edit is lost |

How they interact: `middleware/auth.go` reads the token, asks the tracker and the
rate limiter, and defers the release around the handler. The handler asks the
routing cache, the health scores and the key picker for every attempt, binds stored
responses to the account that made them, and hands its log entries to the log writer,
which meters their usage in the tracker, commits them in batches that also advance
the stored totals and the hourly ones, settles the tracker, and offers the rows to
the console's streams. Its cleanup pass trims the log store and the saved images.
Console handlers sit behind the throttle and the admin credential; they commit to
the tables, invalidate the two caches and replace the settings in memory. The
command line edits client configurations without the gateway.

`PROJECT.json` lists every component with its status, and under `hazards` what is
hard to test, at the line where it bites.

## Modules

| Module | Models | Run by |
|---|---|---|
| `Ledger` | what the accounting promises: usage incurred is owed until one commit stores it | refined by `QuotaLedger` |
| `UsageAmounts` | sums of usage over sets of log entries | `MCQuotaLedger` |
| `QuotaLedger` | admission, tracker, log writer, token edits | `MCQuotaLedger` |
| `ChannelCaches` | routing cache, model list cache, channel edits, their readers | `MCChannelCaches` |
| `ProxyAttempts` | one proxied request: retry loop, rows, guard, client | `MCProxyAttempts` |
| `LogStore` | rows, records, chunks, metadata, totals; the writer, the upgrade and the cleanup pass | `MCLogStore` |
| `SSEObservation`, `AttemptAnswer` | what is observed of an answer, and its body from first read to its row | `MCService` |
| `HealthScores` | channel scores | `MCService` |
| `ConsoleFeed` | requests in flight, log events, the console's stream and page | `MCService` |
| `AdminAuth` | the admin credential: verification, cache, rotation, restart | `MCService` |
| `Lifecycle` | the process from start to last step of the shutdown | `MCService` |
| `Throttle` | failure gates and penalised callers | `MCConsole` |
| `RateLimiter` | sliding windows and their cleanup | `MCConsole`, `MCLimiter` |
| `Routing` | selection, draw after draw | `MCConsole` |
| `ResponseRoutes` | stored responses and their accounts | `MCConsole` |
| `RuntimeSettings` | settings row, copy, editors | `MCConsole` |
| `ChannelRecords` | channels, keys, the mirrored key, import and rollback | `MCConsole` |
| `TokenGroups` | tokens, groups, memberships, import, upgrade | `MCConsole` |
| `Secrets` | key file, sealing, backups | `MCConsole`, `MCSecrets` |
| `ImageStore`, `LocalFiles` | saved images; a client's configuration | `MCConsole` |
| `*_proofs` | theorems of the module they extend | |

The components of `MCService`, and those of `MCConsole`, share no state in the model.
One behaviour of the instance runs one of them (`running`) and leaves the others as
they started, so every state of each is reached and none of their products. They are
instances of their own questions, collected in two runs; nothing is claimed of their
interplay.

### QuotaLedger

A request goes `Lookup` (the SELECT of `auth.go:213`), then `Admit`,
`AdmitUnlimited` or `Refuse` (`auth.go:236`), then up to `MaxLogs` times `Hold`
followed by `Enqueue` or `Drop` (the two halves of `LogWriter.Schedule`), then
`Release`. The tracker's operations run under its mutex, so each is one step
inside the action that calls it. The writer goroutine `Receive`s entries, begins
a flush (`FlushBatch`, `FlushLastBatch`, `FlushCarried` on the tick,
`FlushAtClose`), and either commits and settles entry by entry or gives up and
carries everything again. `Close` is `CloseWithin`; its lock is the guard that no
`Schedule` is in progress. A closed queue is an absorbing flag: what happens when
`CloseWithin` stops waiting is that the process ends wherever the writer is,
which every prefix of a behaviour covers.

Log rows are only names with a usage. Counters are naturals: the code saturates
sums at the ends of `int64`, which no realistic total reaches. The body budget of
the queue, which shortens rows and does not touch usage, is left out, and so is
the recovery of a flush that panics.

### ChannelCaches

The content of the tables is the number of edits committed to them; a query reads
that number and a snapshot holds one per query, so a snapshot torn between two
commits is visible. An editor commits, reads its row back where the code does,
and takes the two invalidations as three steps (`InvalidateModels`,
`AdvanceRevision`, `DropSnapshot`): the revision of the routing cache moves
before its lock is taken. A reader either routes (`Get`, `Observe`, three
queries, `Publish`) or lists models (`ListGet` to `ListSet`). `acked` and `floor`
are history: the edits answered so far, and those answered when a reader began.

### ProxyAttempts

The request is alone; other requests appear as keys being benched and cleared,
the operator as channels switched and keys removed, the client as `gone`. One
pass of the selection loop is one step, for nothing another actor does can be
observed inside it. Statuses are classes, so are the ways an attempt ends:
`NoAnswer`, `Answer`, `Stream` with `Primed`, `PrimeFails` and `RememberFails`. A row is
`pending` while its attempt is held; `attempt` is a row marked retried, `outcome`
one that counts. `Released` is the deferred function of `runProxyAttempts`, taken
with every exit. `met`, `turned` and `late` are history and appear in no guard.

What other actors change is changed only at the steps that can see it
(`ElsewhereAt`): a change between two other steps has the same effect one step
later. Weights and priorities are left out of selection, so any candidate may be
drawn (`Routing` has them); the charges to health scores are left out except the one for refusals.
The row an unprepared attempt writes of itself (`guard.logAttempt`, always marked
retried) is not counted among `rows`. Bodies, headers and model names are left out.

### LogStore

The writer takes a batch in two steps, `PrepareBatch` (records are encoded and chunks
looked up before the transaction, `db/logbody.go`) and `CommitBatch`; `BatchFails` is
the transaction rolled back. `StartUp` is one step of `db.Init` at a time: old payload
rows are moved in batches, hourly tables filled, the old table dropped. `StartPass` and
`PassStep` are the cleanup pass, one batch or one statement per step: the keep-count,
retention, orphaned metadata, then the mark and sweep of chunks; `PassFails` and
`Crash` end it, or the process, anywhere. `history` is what was ever committed and
appears in no guard.

A row has two snapshot slots instead of four (they work in pairs that share chunks),
a body is a short sequence of pieces, and what `FromLegacy` would split arrives split.
Records are stored as encoded (`bodies`), with chunk ids as differences, and read back
by the decoder. Truncation of bodies and damaged records are left out.

### SSEObservation and AttemptAnswer

`SSEObservation` is the observer: `Buffer` cuts what is read into lines, keeps a
bounded tail of an oversized one, and merges the usage each event tells. An answer is
a sequence of named lines of a few sizes; reads cut it anywhere. `AttemptAnswer` runs
one attempt over it: `Prime`, then `ReadHeld`, `ReadHeldErr` and `ReadUpstream` for
`sseStream.Read`, `WriteFails` for a client's connection, `Close` and `Drain`,
`Abandon` for a stream another attempt replaces, and the buffered body. `Leave` is the
client, the clock of the attempt runs out inside a read. `Finish...` are the outcomes
`finishLog` is called with; they may be reached only while `entry` is pending.

### HealthScores, ConsoleFeed, AdminAuth, Lifecycle

`HealthScores` has an action per method of `AutoWeightManager`; `unread` is the same
table had nobody looked. The policy is fixed for a behaviour: the code applies an
edited policy retroactively to time not yet credited.

`ConsoleFeed`: `CommitRows` and `PublishRow` are the writer, `BeginRequest`,
`SetUpstream`, `SetKey` and `Release` the registry, `OpenStream`, `SendRow`, `AfterRow`,
`Poll` and `AuthCheck` the handler's loop, `Hangup` and `Reload` the page. A `Hangup`
also stands for the process stopping. The first connection of a page does not reload
the listing, later ones do. The rates a page shows are left out.

`AdminAuth`: a request reads the snapshot, waits in the bounded queue for the one
verification slot, verifies, rechecks the generation, and stores its proof; `Rotate`
commits and `Publish` installs, each on its own. `Restart` forgets what is in memory.
A rotation that commits and then fails to read the row back is left out.

`Lifecycle` is one process: `Listen` or `BindFails`, handlers that log, the writer, and
the shutdown (`Interrupt`, `RequestsDrained` or `RequestsOutliveDrain`, `CloseQueue`,
`QueueDrained` or `QueueOutlivesDrain`, `CancelJobs`, `CloseDatabase`, `Exit`).

### Throttle and RateLimiter

The throttle's methods run under its mutex and are one action each; `verifying` counts
the callers between admission and judgement. The address of a caller is its model
value and its gate; the trusted header it may come from is left out.

A `Check` of the limiter is `BeginCheck` (the time is taken), `Lookup`, `Create` when
there is no window, and `Decide` under the window's own lock; the cleanup lists the
windows, prunes each and reclaims the empty ones. Clocks of checks may lag by
`MaxDelay`. A window is its buckets by second and their running total.

### Routing and ResponseRoutes

`Routing` is one request against one parsed snapshot: `Select` is `SelectUpstream`
with its filters as operators of the same names, followed by what the caller does with
the channel (`KeysCool`, `PassedOver`, `Attempt`, `AttemptFails`). `HealthTurns` is
any other request, or time. A draw by weight is any channel that has some.

`ResponseRoutes` is a request from its arrival to its delivery: `LoadResponseRoute`,
`Forward` (the pin and the comparison of credential digests), `ProviderAnswers`,
`RememberResponse` (the conditional insert), `DeliverResponse`; operators edit the
account behind a key, replace keys, and delete channels and tokens between any two of
them. An account is what a credential digest tells apart. Providers choose IDs
freely, so two of them may choose the same.

### RuntimeSettings, ChannelRecords, TokenGroups

Settings: `ShowSettings` fills a form, `UpdateRuntimeSettings` is the compare-and-swap
on the row's revision, `GetRuntime` and `SetRuntime` the two calls that then replace the
copy in memory.

Channels: an action per handler, with the edit of the key list it carries; the
handlers that look before they write (`LookToSwitch`, `LookToImport`) have two.
`StopForRollback`, `OlderBuildAdds` and `MigrateUpstreamKeys` are a rollback to a build
that knows one key per channel and the return from it. The credential headers of an
import and the names of keys are left out, and so is an older build editing the
mirror of a channel that has keys. The switch of a channel writes whatever the
channel has become since it was looked at, as the code does.

Tokens and groups: an action per handler; an import looks up group names and writes
later; `MigrateTokens` is the upgrade to digests at a start.

### Secrets, ImageStore, LocalFiles

`Secrets` takes a start step by step (`PickKey`, `NewSecretKey`, `WriteKey`, `SyncKey`,
`SealSecrets`), and lets `StopService` (any death of the process) and `PowerCut` (which
takes what was not synced) come between. Ciphertext is a value tagged with its key.
Two backups in one second, the rewriting of freed pages, a failed sync of the
directory and an operator removing a key file with a key in it are left out.

`ImageStore`: a save is `Save`, `WriteImage`, `RenameImage` under the store's lock, the
cleanup evicts oldest first until the total fits. Failed deletions and the removal of
empty directories are left out, and switching the feature off.

`LocalFiles`: `Plan` reads and merges, `Lock`, `Compare`, `BackUp`, `PublishFile` and
`Unlock` are `Apply`; `EditFile` is the user, who takes no lock, and `RemoveLock` the user
again, after a run died.

## What is checked

| Run | Instance | Result |
|---|---|---|
| `quota` | 2 requests, 2 tokens, costs {0, 3}, limits {none, 3}, queue of 1, batches of 2, 2 write attempts, 1 fault, 1 edit | 7 properties hold, 340,904 states |
| `quota_liveness` | the same with 1 token and 2 faults | 2 properties hold, 127,534 states |
| `quota_stale` | no faults, no edits | `NoSpentBudgetHandedOut` is violated |
| `channel_caches` | 2 editors, 2 readers, 1 group, 2 commits, 1 failed reload | 4 properties hold, 2,554,480 states |
| `channel_reload` | the same | `EditsReachCaches` is violated |
| `proxy_attempts` | 2 channels, one with 2 keys and one without, 2 retries, 1 edit | 8 properties hold, 2,035,976 states |
| `proxy_remember` | the same | `RequestCountedOnce` is violated |
| `log_store` | batches and old tables named in `MCLogStore`, batches of 1 everywhere, hours of 2 ticks, 4 ticks, 5 rows, 1 fault | 5 properties hold, 18,400 states |
| `service` | 5 streams, 2 health policies, 1 viewer, 2 admin requests, 3 handlers | 7 properties hold, 152,246 states |
| `console` | `MCConsole` and its cfg | 7 properties hold, 1,071,326 states |
| `limiter_orphan` | 1 id, 2 checks, 1 limit, 5 ticks of half a second | `NeverPastTheLimit` is violated |
| `key_on_disk` | 1 secret, 1 environment key | `KeyOnDiskFirst` is violated |

Why the bounds are enough to meet the interesting cases:

- A queue of one place with two requests fills, so rows are dropped while others
  are committed; a batch of two makes a full and a partial batch; one fault comes
  before, between or after the retries, and a second one, in the liveness run,
  hits the flush that repeats the first. A cost of 3 spends a limit of 3 and a
  provisional charge of 2 does not, so one running request leaves room for a
  second and one finished request does not. One edit is a reset, a new limit or a
  deletion at any point of the pipeline.
- Two editors and two readers let a load be overtaken by another load, by an
  invalidation, or by both between any two of its steps, and two commits make the
  three queries of one load disagree. The entries of different groups do not
  interact, so one group is enough. `MaxWrites` also bounds renames of groups.
- Two retries are three attempts: a stream that fails before content, then a
  refusal, then an answer or another failure. One channel with two keys meets
  staying for another key and a channel left to cool; a channel without keys is
  the other route.

- `log_store`: batches of one row make every batched pass of the code take several
  batches, so that the writer, a crash or a failure comes between any two of them;
  five rows with two old ones are more than the keep-count and cross the hour; pieces
  are shared between rows and between the two slots of a row.
- `service`: the streams open, end well, report an error that is the channel's and
  one that is the request's, and a body that is not a stream; a line may be longer than
  the longest kept; reads hand over up to 3 units. A queue of one event with two
  rows in one batch overflows. Two admin requests with one waiter's place race each
  other's rotation and a restart. Three handlers are more than the queue holds.
- `console`: three callers, one of them local, with room for one in the map, two of them
  admitted at once, and a clock that sees a window, a cooldown and the round after, where
  the bound on failures is reached; two checks
  under a cleanup; a routing table with an exact match, a mapping or prefix, and a spare
  that may be weightless, and six requests on it; two key values, two groups, an
  import between them; a key from the environment and two made; two images at once under
  caps that fit none, one or both; two runs and a user.

Every run has `CHECK_DEADLOCK FALSE` because each model does end: requests
finish, the writer returns, edits run out. `service` takes about 2¼ minutes, `console`
about 1¾, the others less.

Properties and the hazard each is for:

- `HeldExactly`, `TrackedExactly`, `ReservationsExact`: what the tracker holds is
  what is in flight, entry by entry; a hold that outlived its commit would refuse
  a token until the process restarts.
- `AdmissionSound`: an admission on a total that is current leaves out neither
  usage owed nor a running request. `NothingStranded`: no entry stays in a queue
  whose writer has returned. `ImplementsLedger`: with what is owed as the
  refinement mapping, every step is a step of `Ledger` or stutters.
- `WriterStops`, `DebtIsStored`: under weak fairness of the writer goroutine and
  of a `Schedule` that has begun.
- `CachedIncludesAcknowledged`, `ServedIncludesAcknowledged`,
  `SettledIsCurrent`: caches against edits, above.
- `EveryAttemptLogged`, `OutcomeIsTheAnswer`: the rows are all written, and those
  that count say what the client got. `NothingAfterHeaders`: after a held
  stream's headers no error document. `NobodyAskedInVain`, `NoChannelLeftUntried`,
  `RefusalsChargedFairly`: who is asked, who is not, and who pays. `RequestEnds`: the
  loops terminate, whatever others do.
- `ReadsBack`: a row reads back as it was committed, through sharing, sweeps, passes
  and upgrades cut short. `NewestBodiesKept`: the keep-count never takes a newest
  body, though its threshold moves. `TotalsAreExact`: hourly totals hold every row
  once, and a window cut out of them and of the part hours is right at its edges.
  `UnlistedChunksCollected`: nothing is left behind for good.
- `AccountIsTheAnswer`: one row and at most one charge whichever end comes first, and
  all the usage that was reported, however reads cut the lines.
- `HealthIsEarned`: looking at a score never changes what it will be.
- `FeedsCatchUp`: a page that stays connected shows every row and the requests in
  flight in the end, though its queue overflowed.
- `GrantsAreCurrent`, `EveryRequestAnswered`: no token of a generation whose
  replacement was answered, and nobody left holding or waiting for the slot.
- `ShutdownKeepsRows`: no row accepted in time is lost to the order of the shutdown.
- `GuessersAreHeldBack`: a full map evicts nobody's penalty, and many addresses together
  get only what the gate lets through.
- `WindowsAreStrict`: seconds, pruning and late clocks all err on the strict side.
- `RequestsAreRouted`: a request's channels come from better to worse and none that
  refused it twice; it is told there is no route only when the best matches left have
  no weight; a stored response goes back only to the account that made it.
- `NeverRolledBack`: of two saves that install in the other order, the newer stays. It
  rests on forms whose revision the process served; a client of the API that guesses
  revisions ahead is not modelled.
- `RecordsAgree`: the copy of the first key an older build would use, and every
  reference between tokens, channels and groups, at any point of import, deletion
  and upgrade.
- `DiskIsWhole`: secrets, images and a client's file, through every crash.

### Fairness

`QuotaLedger!FairSpec` assumes weak fairness of the writer's steps together, for the goroutine
runs until the process ends and its timers fire, and of the second half of a
`Schedule`, which never blocks. Nothing makes clients send, handlers return or
operators edit. Faults are bounded; a database that fails for ever stores nothing.
`ProxyAttempts!Fairness` is weak fairness of the request's own steps: an attempt
is bounded by its timeout, a pause by a timer, and the delivery by the connection.
It asks no fairness of other requests, of the operator or of the client, nor of
`SelectFails`: a database that fails is not what ends a request, so a selection
loop whose passes stopped narrowing would show as `RequestEnds` violated.
`ChannelCaches` states no liveness: its loader has no bound on how often edits
may make it start over.

`LogStore!Fairness`: a start goes on, a pass that began goes on, and a collecting pass is
started again and again (the writer's ticker does), not prevented by crashes and
failures, which are bounded. `ConsoleFeed!FeedFairness`: the writer offers what it
committed, the page reads when it is told to, and each case of the handler's `select` is
taken in the end though others are ready as well, for Go chooses among them at random
and the tickers keep coming. Nothing makes a connection stay up; the property is about
those that do. `AdminAuth!AuthFairness`: a request's own steps, and strong fairness of
the slot, for a channel's waiters are served in turn.

### Where the code and its comments disagree

- `quota_stale`: `tracker.go:31-32` says admission weighs both kinds of usage the
  stored total does not show, or "it hands out budget that is already spent". The
  stored total is read at `auth.go:213` and weighed at `auth.go:236`; a batch that
  commits and settles in between is in neither figure. `AdmissionSound` is the
  property with that window left out.
- `channel_reload`: an edit that committed and whose row could not be read back
  (`db/upstream.go:516`) returns the error before the handler comes to the
  invalidations; `matcher.go:122-123` and `state.go:54` promise them.
- `proxy_remember`: a held stream whose account cannot be remembered is logged at
  once as a 500 that counts (`ssestream.go:194-197`), and then replaced by another
  attempt, which counts as well; `client.go:456-458` and `db/log.go:51-53` say a
  replaced attempt is not counted. `OutcomeIsTheAnswer` leaves that row aside.
- `limiter_orphan`: `limiter.go:75-79` promises that nothing is admitted which a precise
  window would have refused. A check that holds a window the cleanup deletes before it
  records (`limiter.go:84`) records in an orphan; the next check makes a new window and
  may admit as many again. `WindowsAreStrict` says of one window what holds.
- `key_on_disk`: `keyfile.go:64-65` says a key is on disk before anything is sealed under
  it. A start killed between the write and the sync leaves a file that the next start
  reads and seals under without syncing it. `DiskIsWhole` leaves keys so adopted aside.

Two more are not runs of their own, for no line states the opposite outright:

- A terminal event that only lacks its closing blank line "has arrived" for `Close`
  (`ssestream.go:238-240`) and for `prime` (`ssestream.go:160-164`), which settle it. A `Read`
  that fails after it does not (`finishInterrupted`, `ssestream.go:332-362`), and the
  stream is accounted as interrupted. `EndsAsItWas`, of `AccountIsTheAnswer`, therefore
  asks for the blank line as well.
- Exclusion precedes the scoring of models so that a ruled-out exact match does not
  shadow a prefix match (`matcher.go:317-320`). Weight comes after it: an exact match
  without health does shadow, and the request is told there is no route. `FailoverIsOrderly`
  says so in its last conjunct.

## What is proved

The theorems hold for every value of the constants that satisfies the named
assumptions: sets of requests, tokens, channels, keys, readers and editors of any
size, any capacity, batch size, costs, limits, windows and clocks. The assumptions:

- `MaxUseAssumption`, `QuotaAssumption`, `CachesAssumption`, `LifecycleAssumption`,
  `KeepAssumption`, `BatchAssumption`, `HealthAssumption`, `LimiterAssumption`,
  `SettingsAssumption`, `FeedAssumption`: bounds are naturals; capacities, batch sizes, limits, intervals
  and the provisional charge are positive; there are finitely many requests;
  `Nothing` is no cached value.
- `ObservationAssumption`, `AnswerAssumption`: a line has a size, and the tail kept of one too
  long fits in it; an upstream sends lines that the instance knows.
- `AttemptsAssumption`: a row of `upstream_keys` belongs to one channel.
- `RowAssumption`, `ClockAssumption`: rows are well formed, those of an upgraded database are
  finitely many with positive ids of their own, and the clock runs at least an hour.
- `AuthAssumption`, `ImagesAssumption`, `FilesAssumption`: finitely many admin requests, and no
  actor has the name that says a lock is free.
- `SecretsAssumption`: a key of the environment is none of those the gateway makes.
- `RoutingAssumption`, `RecordsAssumption`, `TokenGroupsAssumption`, `ResponsesAssumption`:
  snapshots are finite and channel names unique (a UNIQUE column), priorities are
  integers, an edit is one the API's types allow, group names are finitely many,
  and neither a token nor a response id is empty.
- `ThrottleAssumption`, `BackoffAssumption`: finitely many callers, and the order the code's
  constants have: first delay, longest delay, reset; cooldown within the window.

`QuotaLedger_proofs`: `TypeCorrect`, `HeldIsExact`, `ReservationsAreExact`,
`TrackerDoesNotLeak`, `QueueIsDrained`, `AdmissionIsSound`, `LedgerImplemented`.
The inductive invariant `IInv` joins to `TypeOK`, `HeldExactly`,
`ReservationsExact` and `TrackedExactly` three facts that none of them gives:

- `Located`: an entry is in one place (being scheduled, queued once, or in the
  batch) and was logged. Without it, moving an entry would not keep the sum over
  the unsettled ones.
- `WriterHolds`: what the writer holds at each of its steps. It makes `Settle`
  find what it settles, and the queue empty at the end.
- `ReservedRun`: only running requests are reserved.

`HeldExactly` is what keeps the subtraction of `Settle` exact, and so the tracker
from losing another request's usage: the code's clamp at zero is never taken.
`AdmissionIsSound` and `LedgerImplemented` are action properties proved from
`IInv`, the second with one lemma per kind of step (`HoldOwes`, `CommitOwes`,
`OwedKept`). Sums over sets of entries are cardinalities of sets of units
(`UsageAmounts`), whose laws are proved first, from the finite-set theorems.

`ChannelCaches_proofs`: `TypeCorrect`, `CachesAreFresh`, `ReadersAreFresh`,
`SettledCachesAreCurrent`. The invariant says of every load in flight that, as
long as the revision it observed has not moved, what it has read covers every
edit that has passed the advance of that revision. Publication only under an
unmoved revision then carries this to the cache, and the lock-free advance of the
revision before the drop of the value is where the proof needs the order the code
chose.

`ProxyAttempts_proofs`: `TypeCorrect`, `AttemptsLogged`, `OutcomeIsReceived`,
`NothingFollowsHeaders`, `RefusalsAreFair`, `NobodyIsAskedInVain`, `NoChannelIsLeftUntried`: the
safety properties of the run, all of them. While the loop runs (`LoopInv`):

- `RowsInv`: a row is pending exactly while its attempt is held (`Held`): the one being
  made, the last failure, or the stream that failed; any other has been marked
  retried. It is what makes one row the outcome when one of them is returned.
- `HeadersInv`: headers are out exactly when a held stream was begun, and then that stream is
  still held. `PinInv`: a pinned request leaves its only channel when a stream of it failed.
- `TurnedInv`: who turned the request away is out of routing or its key is, but for
  the attempt just turned away; `KeysInv` and `RouteInv` carry it over the keys that other
  requests bench and clear meanwhile.

After it, `OthersClosed`: every attempt but the one returned has had its last word.

`Service_proofs`, each under its component's own specification: `AuthTypesCorrect`,
`OldCredentialsAreRefused`, `LifeTypesCorrect`, `ShutdownLosesNoRow`, `HealthTypesCorrect`,
`LookingChangesNothing`, `FeedTypesCorrect`; and under that of the run,
`ServiceTypesCorrect`, which takes the answer's part from `AttemptAnswer_proofs`.

- `AuthInv`: generations go from the table to memory to the operator in order
  (`GenerationsInv`); a cached proof is of the generation it names (`CacheInv`); what a
  request has read was current when it arrived or later (`Sound`); one request has
  the slot (`SlotInv`).
- `LifeInv`: every accepted row is in one place, and the database stays open while the writer
  has any (`ClosingInv`).
- `HealthInv`: a score and the score nobody looked at differ by recovery not yet
  credited, and by nothing once it is (`AsUnread`).
- `FeedInv`: a queue is in order between the row its stream opened at and the last one
  published (`InOrder`), so the row offered next goes at its end; the opening snapshot is a
  sequence because every rank among the requests in flight is taken once (`NewestIs`).

`AttemptAnswer_proofs`: `AnswerTypesCorrect`, `AccountedOnce`, `CutsDoNotMatter`,
`ObservedIsSaid`, `LinesAreRead`, `AccountsAreTrue`. The last is the safety property of the component,
`AccountIsTheAnswer`, and goes in four parts.

- What the observer is. `AnswerInv`: an unlogged answer has no row and no score unless its
  body is already read whole (`LedgerInv`, `ScoredInv`), so whoever finishes it writes the
  only row. What the observer holds (`Observations`) is closed under every piece of every
  cut: a run of bytes splits into pieces without line breaks (`SegmentsArePieces`), and the
  fold over them goes through observations only (`ObserveChunkIs`).
- Cuts. `CutsDoNotMatter`: observing a read and then another is observing both as one. One
  more byte either ends the last line or makes it longer (`OneMoreByte`); a line buffered in
  two goes is buffered as in one (`BufferTwice`), past the limit as well, for the end of the
  end kept is the end (`KeptTwice`). So an observer has at any time seen exactly
  `ObserveChunk(Unobserved, Received)`, however the reads fell.
- Lines. `ObservedIsSaid`: what that one observation says is what the lines say, taken from
  the whole run at once as the property does (`Reported`, `ErrorOf`, `TextOf`, `EndedInFull`).
  `Told` is the invariant of the fold, line by line (`LineTold`): each count is the last one
  given, the error the first, the text the sum. And those facts are of the lines the upstream
  sent: `LinesAreRead` takes the bytes of any lines (`Bytes`) back to what each says, of one
  too long to keep the usage if it starts in the tail kept.
- The account, `AccountInv`. `ObservedInv`: the observation is that of what was received,
  finished once the stream's end was read. `UnloggedInv`: while no row is written, no end
  was seen once all that was held is handed over, none was handed to a client that left, and a
  failure met by a read is still to be told.
  `RowInv`: a row says what was true when it was written (`RowIs`); what comes later, more
  bytes handed over or a client that leaves, does not make it false (`RowStays`). The property
  speaks of a closed stream only, and of rows; none of it is inductive without what the
  observer knew at each earlier step. Every action has its lemma (`PrimeAccounts` to
  `LeaveAccounts`).

`LogStore_proofs`: `TypesStay`, `CommittedReadsBack`, `NewestBodiesStay`, `TotalsStayExact`.
`StoreInv` says where each committed log is read from, in whichever table an upgrade
has it (`HistoryInv`, `TablesInv`, `LegacyInv`), and that a chunk a sweep may take is one no
record lists (`CleanupInv`) although the writer lists chunks it looked up before its
transaction (`SnapshotsInv`). Under it are lemmas on records (what was encoded is
decoded), ids (never reused), and on the newest n of a set of rows. `TotalsInv`
adds that no log is deleted before the totals have their last form, and that a window is
its hours and its two edges.

`Console_proofs`, under the specification of the run: `SettingsOnlyGrow`, `EditsAgree`,
`DiskStaysWhole`, `RequestsStayRouted`, `WindowsStayStrict`, `GuessersStayHeldBack`,
`ConsoleTypesCorrect`. The run's own bounds are constants like any other; that only one
component runs is not used, for each step of `Next` is a step of every component or leaves
it alone (`EditorsStep`, `DisksStep`, `RequestsStep`).

- Settings (`EditorsInv`): a save between its commit and its install is alone,
  and ahead of what is served.
- Records (`OnlyOf`, `MirrorsInv`): an edit touches only its own channel's keys, so
  the other mirrors stay right; a channel of an older build has no keys. Groups:
  every token row is digested or as the older build left it.
- Secrets (`SealingInv`): what is stored and in any backup is sealed under keys that stay,
  for those only grow. Images (`SavingInv`): a file is temporary while its saver has
  the lock. Files (`Compared`): past its comparison a run can have missed only an edit
  that overtook it.
- Routing (`OrderInv`): what a draw left aside stays behind it, whatever turns healthy
  meanwhile. Responses: the invariant of `ResponseRoutes_proofs`.
- Limiter (`LimiterInv`): the admissions of a window map one to one to slots of its
  buckets, each in a bucket no earlier than the moment it was asked (`Covers`). So the
  total, which is all `Decide` reads, is at least what a precise window counts.
- Throttle (`Fits`): what failed since any moment of the last window is what the gate
  counts, if it counts since before; otherwise so many rounds' worth and what it counts now,
  less those still to be judged while it is closed. A penalty is the last failure plus the delay
  of its streak, which only grows. The bound the property states was found this way: a
  count that the fixed window has just ended comes on top of the rounds, which the
  smaller instance checked before did not show.

`ResponseRoutes_proofs`: `TypeCorrect`, `ResponsesAreAtHome` (`ResponsesStayHome`, a
conjunct of the run's `RequestsAreRouted`, under the component's own `ResponsesSpec`).
The invariant follows a request (`Rightful`): the route it has read says who made the
response it names; once sent, so does the account it signed in with, because the
credentials are compared as they are at that moment and not as they were when the
route was read; before it delivers, its own row is stored. Rows that clients rely on
(`Bound`) go only with their token or channel.

Induction over data is done without the library's induction theorems, whose operator
parameters the provers cannot instantiate: the sets for which a fact fails have a least one
(`LeastNatural`, from the well-foundedness of strict inclusion on finite sets).
`SumsAre`, `DelaysAre` and the folds of the observer (`StepsExist`, `JoinsExist`) are proved
that way. No module declares a RECURSIVE operator.

Only model-checked is liveness (`WriterStops`, `DebtIsStored`, `RequestEnds`,
`UnlistedChunksCollected`, `FeedsCatchUp`, `EveryRequestAnswered`), since the prover does
not treat fairness and `ENABLED`. Every safety property of every run that passes is the
subject of a theorem.

## Not modelled

- Probes and model tests (`sendAndLogProbe`, `AdminTestUpstreamModel`, `AdminDebugUpstream`),
  model discovery and account balances: one request to an upstream at an operator's
  wish, whose row and usage take the same way as any other.
- Listings, rankings, overviews, health history, system information: read-only queries,
  whose results are functions of the tables; their paging cursors are left out too.
- Reclaiming free pages of the database, detaching old tables and creating indexes:
  they change where data is, not what it says.
- Configuration, schema text, request and header construction, conversion of bodies
  between protocols, token estimates, the content-defined cut of bodies, ciphers and
  password hashes: functions of single values without state. Where a model needs one
  it takes what the property tells apart: an account for a digest, a piece for a chunk.
- Metrics: counters nothing else reads.
- Bench lengths and rotation of the key picker: `ProxyAttempts` lets a bench expire at
  any moment and any fresh key be picked, which covers every rotation.
- The command line's other commands, the desktop shell, the web console and the
  scripts, save the restore script, which `Secrets` has: they hold no state the gateway's
  correctness rests on.

## Plan

1. Done: `QuotaLedger` with `Ledger`, `ChannelCaches` and their proofs; `ProxyAttempts`.
2. Done: the guards at the door (`RateLimiter`, `AdminAuth`, `Throttle`), the answer of an
   attempt (`SSEObservation`, `AttemptAnswer`, `HealthScores`), what the database keeps
   (`LogStore`, `Secrets`, `ChannelRecords`, `TokenGroups`, `RuntimeSettings`), routing and its
   memory (`Routing`, `ResponseRoutes`), the console's feed, the process, files.
3. Done: proofs of the safety properties of every run.
4. Compositions left: health with routing, key benches and their clock with the retry
   loop, and a shutdown with the whole `QuotaLedger` in place of `Lifecycle`'s writer.
