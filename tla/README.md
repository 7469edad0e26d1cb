# A TLA+ model of siriusec

siriusec is an access plane in Go (a Teleport code base). Auth servers keep the
cluster's state in a key/value backend and issue certificates; proxies, nodes and
agents join, follow that state through caches, keep tunnels and heartbeats alive,
and record sessions. This directory holds TLA+ modules of the parts whose
correctness depends on the order in which several actors take their steps, the
models that TLC checks, and the theorems that TLAPS proves about them. Paths
below are relative to `src/`; `PROJECT.json` maps each definition to the lines it
was translated from.

## 1. Inventory

| component | state | operations | interacts with | what is hard | correct when | covered |
|---|---|---|---|---|---|---|
| Backend lock, `lib/backend/helpers.go` | a record with an id and a time to live; a caller and a refresher goroutine per call | AcquireLock, Release, resetTTL, RunWhileLocked | backend | expiry against refresh, Get-then-Delete, crash of the holder | fn runs only while its record is live; nobody waits for ever | modelled |
| CA rotation, `lib/auth/rotate.go`, `lib/auth/auth.go`, key stores | one authority per type: phase, mode, active and additional keys; several auth servers with tickers | RotateCertAuthority, autoRotateCertAuthorities, autoRotate, ensureLocalAdditionalKeys, addAddtionalTrustedKeysAtomic | backend (compare-and-swap), key store | stale reads, lost races, lost answers, requests that stop half way, rollback | trust is never taken from signing keys; a rollback restores; a rotation ends | partly (no external authorities) |
| Processes in a rotation, `lib/service/connect.go`, `lib/auth/state.go` | identities and rotation state on disk, identities in use | connect, firstTimeConnect, rotate, reRegister, reload | auth server's cache, disk | crash between the two writes, a phase that passes during a request | whoever keeps up stays trusted, can talk and can be restarted | partly (one service per process) |
| Event buffer, `lib/backend/buffer.go` | ring of events, tree of watchers, channel and backlog per watcher | SetInit, Reset, Clear, Close, Emit, NewWatcher, Events, Close of a watcher | backends emit, caches consume | full channels, grace period, asynchronous removal | each watcher gets OpInit, then every event once and in order, or is closed | modelled |
| Caches and fan-out, `lib/cache`, `lib/services/fanout.go`, `lib/backend/etcdbk` | collections, read guard, tombstone, watcher; fan-out to the next cache | fetchAndWatch, update, read, processEvent, Close, New | backend, other caches, disk | writes between watch and fetch, half-done apply, restart from disk | no missed event, no half-applied read, convergence | partly |
| Semaphores, `lib/services/semaphore.go`, `local/presence.go`, `api/types/semaphore.go` | leases in one record; what each holder believes | AcquireSemaphore, KeepAliveSemaphoreLease, CancelSemaphoreLease, DeleteSemaphore; the keep-alive loop of a holder | backend (compare-and-swap), session limits | keep-alive against expiry and cancellation, lost answers, handlers that go on without a caller | never more sessions than leases; a lease lasts as long as its holder believes | modelled |
| Audit streams, `lib/events/auditwriter.go`, `lib/events/stream.go`, `lib/auth/grpcserver.go` | the writer's buffer of unconfirmed events, the stream, slices and parts of an upload | EmitAuditEvent, updateStatus, recoverStream, Close; receive, flush, complete, cancel of ProtoStream; ProtoReader | auth server, uploads | resumption with replay, parts that arrive late, crash of the auth server, close during recovery | what is confirmed is stored; the recording is a prefix of what was accepted; a closed session ends | modelled |
| Session upload, `lib/events/filesessions`, `lib/events/complete.go` | parts, recordings | UploadPart, ListParts, CompleteUpload, CheckUploads | audit streams | completer against a stream that lives, or another completer | every session that has parts gets its recording | partly (not the uploader from disk) |
| Access requests, `local/dynamic_access.go`, `lib/services/access_request.go`, `lib/auth/auth.go`, `api/types/access_request.go` | state, roles, thresholds, reviews, expiry in a record | CreateAccessRequest, SetAccessRequestState, ApplyAccessReview, DeleteAccessRequest | backend (compare-and-swap) | concurrent reviews, retries, lost answers, expiry | reviews decide when and only when enough said so, unless an administrator does; a denial is final; no review is lost | partly |
| Tunnel agents, `lib/reversetunnel`, `lib/utils/workpool` | leases and their counts, claims, the set of known proxies | claim, release, expiry, discovery, connect, grant of a lease | proxies behind a load balancer | return of a lease that is not counted yet, claim against expiry, late discovery lists | one agent per proxy, every proxy gets one | partly (one address, no stop) |
| Lock watcher and monitors, `lib/services/watcher.go`, `fanout.go`, `lib/srv/monitor.go` | the view of the locks, its staleness, subscribers | fetch, watch, retry, notifyStale, Emit; check, subscribe and disconnect of a monitor | cache, connections | subscription after a check, full queues, failure detection | connections a lock applies to end; a stale view is noticed in time | partly (not the proxy collector's own loop) |
| Function cache, `lib/cache/fncache.go` | entries with a loaded channel | Get, cleanup | cache | shared loads, expiry | one load at a time per key, no result older than the ttl | planned |
| Heartbeat, `lib/srv/heartbeat.go` | announce / keep-alive state | fetch, announce | auth API | lost keep-alives | the record stays alive while the server runs | planned |
| Sessions, `lib/srv/sess.go` | parties, lingering timers | join, leave, close | terminals | last party leaves while one joins | a session ends once | planned |
| Supervisor, `lib/service/supervisor.go` | services, events, waiters | Start, BroadcastEvent, WaitForEvent | all services | event before wait | no waiter misses an event | planned |
| Trusted clusters, `lib/auth/trustedcluster.go` | remote authorities | UpsertTrustedCluster, RotateExternalCertAuthority | remote cluster | two clusters rotate | authorities agree in the end | planned |
| Users and logins, `local/users.go`, `lib/auth/methods.go` | failed attempts, tokens | AddUserLoginAttempt, lock | backend | attempts that race | the account is locked after the limit | planned |
| Other backends: memory, lite, DynamoDB, Firestore | a key/value store | CRUD, expiry, events | disk, cloud | event polling | the same contract | what the modules need of them only |
| Limiter; auth API and RBAC; Kubernetes, database and application proxies; web UI, client, CLI; bpf, PAM, configuration, multiplexer | mostly none shared | | | | | no: sequential, pure functions, presentation or I/O |

Vendored code (`vendor/`), generated protocol buffers, `docs/`, `examples/`,
`assets/`, `frontend/` and `webassets/` are not part of the system's own logic.

## 2. Modules

| module | role |
|---|---|
| `BackendLock` | the lock; one step per backend call, relative time |
| `CAPhases` | `processRotationRequest` as operators on one authority, and the abstract specification `PhaseSpec` in which every request is atomic |
| `CARotation` | the auth servers that compute those transitions from reads and write them with compare-and-swap; implements `CAPhases` |
| `NodeRotation` | processes that follow a rotation of one cluster through a cache; built from `CAPhases` |
| `EventStream` | what `Backend.NewWatcher` promises: an unbounded queue per watcher, OpInit first, events once and in order, or closed |
| `EventBuffer` | `CircularBuffer` with ring, channels, backlogs and grace period; implements `EventStream` |
| `CacheSync` | one or two caches in a row, the fan-out between them, and the event loop of the etcd backend |
| `Semaphore` | one semaphore, the handlers that change it and the holders of its leases |
| `AuditLog` | what a session recording promises |
| `AuditStream` | writer, gRPC stream, ProtoStream, upload, completer and reader of one session; implements `AuditLog` |
| `RequestLife` | an access request in which every call takes effect at once |
| `AccessRequest` | the handlers with their reads, races, retries and lost answers; implements `RequestLife` |
| `TunnelAgents` | work group, agent pool, tracker and agents of one tunnel address |
| `LockWatcher` | the watch loop that follows the locks of the cluster, and the monitors of connections |
| `*Proofs` | theorems: `BackendProofs` about `BackendLock` and `EventBuffer`, `SessionProofs` about `Semaphore` and `LockWatcher`, the others about the component they are named for |
| `MC*` | instances for TLC |

How they fit together: `CARotation` and `NodeRotation` are built from `CAPhases`,
so that the two views of a rotation (who writes the authority, who follows it)
have the same transitions. `CacheSync` takes `EventStream` as the contract of a
watcher: a queue that is closed when it is full; `LockWatcher` takes a cache of
`CacheSync` as the source of its stream. `Semaphore`, `AccessRequest` and
`CARotation` use the same contract of the backend: compare-and-swap on one item,
which may vanish when it expires, with an answer that may be lost after the
write has happened.

### Correspondence to the code

* **BackendLock.** `item` is the record under `.locks/<name>` with the ticks it
  has left. A call is a caller (`pc`) and a refresher (`ref`). Every backend call
  is one step; what the code does between two backend calls belongs to the step
  before. `late` and `refLate` are how long a due backend call has been waiting:
  `MaxDelay` is the slowest scheduler and network admitted. `lapsed` (history) has
  the calls whose `resetTTL` was ended by a backend error: from then on the code
  does not refresh any more, and only cancels the context of fn.
* **CAPhases / CARotation.** An authority is phase, state, mode, an identity of
  the rotation, active and additional keys. Keys are pairs of a store and a
  number: with raw keys all servers share a store, with HSMs each has its own and
  can only sign with its own keys. A task of a server is a request, a ticker pass
  or a start; it reads (`get`), swaps (`cas`), and adds a key of its own
  (`addget`, `addcas`). `BackendFails` ends a task anywhere, with a lost answer
  after a write that has happened.
* **NodeRotation.** `disk` has the current and the replacement identity and the
  rotation state, `mem` the identities in use. `cas` is the authority, `view` the
  cache of it that processes see. `WriteIdentity` and `WriteState` are two writes
  with a crash between them. `kept` (history) has the processes that joined with
  their identity on disk and were done with every change when the next one came,
  `strays` those that joined in the middle of a rotation or recorded a phase whose
  identity they lack (section 5).
* **EventBuffer.** `Events` (take the channel) and `Receive` are two steps, since a
  consumer may hold the channel of an earlier call. `CloseWatcher` marks the
  watcher; its removal from the tree is a step of its own, as it is a goroutine in
  the code. `Tick` ages backlogs against the grace period.
* **CacheSync.** `store` is the backend, `wire` the events the database has sent
  and the event loop has not handled, `queue[i]` channel and backlog of cache i's
  watcher. `pc` walks through `fetchAndWatch`; `todo` and `snap` are the
  collections still to fetch or apply and what was fetched. `ok` is the read
  guard, `healthy` is generation > 0, `tomb` is the tombstone on disk. A key
  stands for a collection.
* **Semaphore.** A lock of the model is one call of `AcquireSemaphoreLock` with its
  lease identifier; `locks` is what the holder knows (its ticker, the expiry it
  last got, what it waits for). A call is a handler in an auth server, which reads
  and writes in two steps. The two may part: a caller may give up on a deadline
  while the handler goes on, and an answer may be lost.
* **AuditStream.** `writer` is AuditWriter with `processEvents` and `recoverStream`,
  `streams[s]` the s-th stream it opens: connection, events on the way, ProtoStream
  with its current slice, the part being uploaded, the finished parts and the
  status on its way back. `stored` are the parts of each upload by number,
  `sealed` the uploads that were completed, `recording` is the completed recording,
  `checking[c]` what a completer has listed and is about to complete, `log` (history)
  the events accepted. `mishaps` (history) records what the code does nothing against:
  a stream that is resumed while a predecessor has more than one part to store
  ("crowded"), a part that takes the number of another ("overwritten"), a completer
  that leaves out a part stored since it listed them ("missed"), an upload that is
  completed again ("again"). They only record: no action waits for them or is kept from
  happening by them, and a completer takes any upload at any time, since it goes by the
  upload's age and the model has no age.
  `PlayBack` is ProtoReader, which skips events that do not follow the last one: an
  event is played if only smaller ones come before it (`Played`).
* **AccessRequest.** A call is a handler that reads, computes and compares and
  swaps, from the start again after a conflict, `MaxAttempts` times at most. `Tally`
  and what is made of it are `calculateReviewBasedResolution`; `Sets` is the
  role-threshold mapping. A call may set any state, PENDING as well
  (`AccessRequestUpdate.Check`): `decided` and `settled` (history) tell what reviews
  have decided from what an administrator has set since. `now` moves past the two ends
  of life of a request.
* **TunnelAgents.** `target`, `active` and `notify` are the fields of a work group
  and its channel of capacity one; `group` is where its goroutine is, `seeker` where
  the pool's. `tracked`, `claimed` and `age` are the proxy set. A slot of `agent` is
  one agent; its `inbox` are names its discovery goroutine has still to feed, and
  may outlive it. The count is unsigned and wraps at `W`.
* **LockWatcher.** `pc` walks through `resourceWatcher.runWatchLoop` and `watch`;
  `stream` is its subscription at the cache, `view` the collector's current locks.
  After a fetch the puts are passed on one by one (`todo`), so that subscribers may
  come in between. A monitor checks the view (`Check`), subscribes (`Subscribe`) and
  handles its queue. Two histories: `gap` is what passed between its two steps, and
  `overdue` how long ago a watch first ended with an error, if the view has not been
  updated since. The code's own count, `failing` (`failureStartedAt`), starts later.

### Abstractions

Times of a rotation's schedule are left out (a phase is due sooner or later);
certificates are the key that signed them; the radix tree of prefixes is the set
of keys a watcher matches; contents of collections are numbers; expiry inside a
cache, filters and secrets of `Fanout`, and metrics are left out. The two key
schemas of an authority (before and after the migration) are one pair of key sets.
An audit event is its index; a slice may reach its size at any event, and sizes,
padding and compression are left out. Reasons and annotations of access requests
stand for the call, or the review, that gave them. The limiter of an agent pool is a delay before
the next grant; the pool, the work group and the limiter (at most 8 seconds) catch
up within a unit of the time in which entries age (three minutes). A claim of a
proxy leaves the target alone, as `claim` does. `Tracker.Stop` has no caller
outside tests and `Start` is called for one address, so there is one proxy set.
In `LockWatcher` time is relative and does not pass while the loop or the stream
has something to do; one slot is used for sessions one after the other, in either
locking mode.

## 3. Runs

| run | question | instance | shows |
|---|---|---|---|
| `lock` | is fn covered by the lock, and does everybody get it in the end? | 2 calls that refresh, ttl 11, each backend call up to 1 tick late, failing calls and crashes | `HeldWhileRunning`, `AcquireEnds` |
| `rot_raw` | does a rotation end well? | 2 types, 2 tasks, raw keys, 4 rotations, 2 requests | `RollbackRestores`, `OldKeysDropped`, `AutoCompletes` |
| `rot_hsm` | does trust survive concurrency? | 1 type, 2 servers with HSMs, forced rotations | `OriginRecoverable`, `SigningKeysTrusted`, refinement `PhaseSpec` |
| `rot_rollback_late_key` | does a rollback restore with HSMs? | 2 HSMs, 4 requests | `RollbackRestores` is violated: section 5 |
| `node` | does a process that keeps up stay connected? | auth process and a process that joins at any point, rollbacks, one fault, changed principals | `KeptTrusted`, `InStepTrust`, `CanRestart`, `SyncedTrusted`, `CatchesUp` |
| `buffer` | is the stream complete and in order? | ring of 2, channel of 1, 2 watchers with overlapping keys, 4 events | `RingIsTail`, `NoStrandedBacklog`, refinement `StreamSpec` |
| `cache` | do caches miss anything? | 2 caches (one on disk), 2 collections, 2 writes, 1 fault | `NoMissedEvent`, `ReadableWhole`, `Converges` |
| `semaphore` | is the limit of sessions kept? | 2 holders, 1 lease, two renewals, one fault | `LeaseCovered`, `BoundedHolders`, `GoneStays`, `NoneStuck` |
| `audit` | is a recording what was recorded? | 2 events, 2 emitters, 2 streams, 2 faults, a completer | `ConfirmedStored`, `SkipProtects`, `SessionEnds`, refinement `Recorded` |
| `access` | do reviews decide, whatever races? | 3 calls, 3 authors, 2 roles, 3 thresholds, 2 attempts | `DecidedByReviews`, `ReviewsKept`, `Progress`, refinement `Implements` |
| `tunnel` | does the pool reach every proxy? | 2 proxies, 3 slots, one change, one broken connection | `ClaimHeld`, `NoLostWakeup`, `LeasesCounted`, `ReachesAll` |
| `watchers` | do locks end connections? | 1 lock, 1 connection at a time, 2 puts, one outage, queue of 1 | `ViewFollows`, `MonitorsTold`, `StaleBound`, `SessionsEnd`, `WatcherTypeOK` |

What some of the answers rest on:

* `lock`: `HeldWhileRunning` and the theorems about exclusion are conditioned on
  `lapsed = {}`. Before a `resetTTL` fails nothing can go wrong, even with
  other backend calls failing. After it, fn goes on without a record until it
  looks at its context, and a `Release` may meet another call's record (section 5).
* `semaphore`: a lease is covered because a renewal asks for an expiry one tick
  later and because `Expiry <= 2 * TickRate`: a handler that was given up on cannot
  write a lease that ends before what its holder has learnt since.
* `audit`: the model leaves nothing out of the way: streams flush late, emitters race,
  completers take uploads that are being written, and several uploads may come to have
  parts. The code does not promise much then (section 5), and the properties say how
  long it promises what. `ConfirmedStored` holds until a part takes the number of another
  or the writer takes events out of order, whatever else happens; `SkipProtects` says
  when the first of these can happen at all; `Recorded`, a condition on each step, until
  the history of the session has one of the mishaps in it or two uploads have parts
  (`Undisturbed`); `SessionEnds` always.
* `node`: the properties are about processes in `kept`, and all but `SyncedTrusted`
  about those outside `strays`; each member of `strays` is one of the cases of
  section 5.
* `tunnel`: `ReachesAll` needs a balancer that does not avoid a proxy for ever
  that is up whenever an agent dials.
* `watchers`: `MonitorsTold` allows what passed between check and subscription
  (`gap`); `SessionsEnd` shows that the next fetch makes up for it. It excepts a
  connection whose subscription was cancelled, which the code leaves open, and, like
  `StaleBound`, says nothing of a view whose watches end without an error: one that
  waits for its `OpInit` for the whole refetch period does.

TLAPS proves the type invariant of every component, and the runs spend their time on
the other properties; `watchers` checks its type invariant as well, since that bounds
the queues.

### Bounds and why they are enough

* Lock: two calls are a holder and one that takes over; `ttl = 11` is the smallest
  for which `refreshAfter + 5 * MaxDelay < ttl` with a delay of 1 leaves room for
  each call to be late. The theorems cover all numbers of calls, ttls and delays
  with that inequality.
* Rotation: the second rotation is where leftovers of the first one matter, so the
  runs that concern leftovers allow at least two; two stores are enough for a key
  of another server, two types for a request that stops half way.
* Nodes: one rotation with every possible rollback, with the crash or failed call
  at every step. The theorems cover any number of rotations and processes.
* Buffer: four events overrun a ring of two twice and a channel of one with a
  backlog of two; capacity 2 is the smallest ring that wraps with two indices.
* Caches: two collections are enough for a fetch or an apply half way, two writes
  for one before and one after, and two caches for the handover of OpInit. Queues of
  one event make every channel overflow reachable.
* Semaphores: the time of two leases, so that a renewal of a renewal, and a late
  handler of the first one, are there; one lease makes both holders compete.
* Audit: two streams are one recovery, with a late flush of the first stream before,
  during and after the parts of the second; two events are one in a part and one to
  replay, or two parts that may come in the wrong order; two faults break two streams, or
  one on top of a crash or of a failed part; every one of the four mishaps happens. Two
  recoveries, the fewest with which two streams resume behind the same parts, were
  checked with one fault (`MaxStreams = 3`, `MaxFaults = 1`), which takes longer than a
  run should. The theorems cover any number of all of them.
* Access: three thresholds, of which one is met by two users together and one by
  either of two; three calls are two that race and one that comes late, and two
  attempts make the last one reachable. Calls are symmetric, and there is no
  liveness in that run.
* Tunnel: two proxies give a target that grows and shrinks; a third slot is needed
  because a slot whose discovery goroutine has names left is not free. `MaxAge` of 1
  lets an entry expire between any two units of time.
* Watchers: two puts are one before and one after a fetch or a delete; a queue
  of one overflows at the second; the periods are the smallest for which the watch
  period is longer than the staleness allowed, as in the code. `Timed` is empty:
  a session with a timer differs only in that it does not return when its
  subscription is cancelled.
* `MaxWrites`, `MaxFaults`, `MaxRequests`, `MaxRotations`, `MaxKeys`, `MaxNames`,
  `MaxChanges`, `MaxOutages`, `MaxTime` and `MaxEvents` only bound how often the
  environment acts. `CHECK_DEADLOCK FALSE` is set where the system rests once
  the bounds are used up.

### Fairness

* Lock: goroutines that are not blocked run on, fn returns, time passes. Strong
  fairness of `RefreshStops` stands for the random choice of Go's `select` among
  ready cases. No call has to start, fail or crash.
* Rotation: the ticker fires again (a Go ticker with jitter, `auth.go:351`), tasks go
  on, a phase is due in the end, and a read or write that is tried again and again
  does not lose every race (strong fairness of `CompareAndSwap` and the two outcomes
  of a ticker's read). Nobody has to send a request.
* Nodes: processes go on and are restarted (the supervisor and the init system), the
  cache catches up. Nobody has to move the rotation.
* Caches: update loops have an endless retry with backoff (`cache.go:616`), the event
  loop goes on, a closed stream is set up again, processes are started again.
* Semaphores: handlers and holders go on, time passes up to its bound.
* Tunnel: the group, the pool and every agent go on; some discovery list is sent and
  fed while some can be (the server sends it on the first heartbeat, on changes, and
  when its watcher refetches, every ten minutes); a pool offered a lease again and
  again takes one (strong fairness of `Grant`, whose other branch of the `select` is a
  notification); the balancer is fair (strong fairness of `Connect` to each proxy).
* Watchers: the loop, the fan-out's initialisation and monitors that have something
  to do go on, a source that is up answers, time passes. A source that is down may
  stay down, and nobody has to connect or to leave.
* `audit` states the end of a session as an invariant of the states in which
  nothing of the program can run (`Progress` is the disjunction of the guards of what
  goroutines and the completer do by themselves); no behaviour of that model is
  infinite.

## 4. Proofs

The theorems hold for every value of the constants that satisfies the named
assumptions (`LockAssumption`, `RotationAssumption`, `NodeAssumption`,
`BufferAssumption`, `CacheAssumption`, `SemaphoreAssumption`, `WatcherAssumption`,
`AuditAssumption`, `NoPartAssumption` and `NoRecordingAssumption`, `RequestAssumption`, `TunnelAssumption`): any
number of calls, tasks, processes, stores, watchers, keys, holders, sessions, locks,
events, streams, reviewers, thresholds, proxies and agents, and any bound. Where a
theorem needs more it says so in its `ASSUME`: `Dependable` of the lock, `OneStore` and
`LeaseErrors = FALSE`; the runs of the same properties have constants that satisfy it.

* **BackendLock** (`TypeCorrect`, `FnRunsWhileHeld`, `Exclusion`, `ReleaseIsSafe`,
  `LockNotTakenOver`). "fn has the lock" is not inductive: a record may be
  this call's own and expire at the next tick. `HeldInv` adds how much time the
  record must have left (`Need`), from the state of the refresher: the ticks until
  it wakes and the delays its remaining calls may have. The inequality `Timely` is
  what makes a new record satisfy it. The first theorem and the last need no
  timing; the others assume `Dependable`, timely calls that all refresh, and
  conclude for as long as no `resetTTL` has failed.
* **CARotation** (`RotationTypeCorrect`, `RotationImplementsPhases`,
  `RotationOriginStays`, `RotationKeepsTrust`, `RotationStaysScheduled`). What a task
  is about to write was computed from an old read. `RInv` says of each task (`TaskOK`)
  that `new` is a legal successor of `old`, whatever the stored authority is by now.
  The compare-and-swap then makes every write a step of `PhaseSpec`, or the
  addition of a key; everything else stutters. The other properties are proved on
  the atomic machine and carried over by the refinement.
  `SharedRollbackRestores` and `SharedOldKeysDropped` are about servers that share one
  key store (`OneStore`), since with several the first of them is false (section 5).
  Their invariant `SharedInv` says where the keys of before a rotation are in each
  phase (`Placed`), that no task adds a key to a rotation under way, and that what a
  task is about to write is a next phase of the authority it has read or starts a
  rotation of it with a key that is not active there.
* **NodeRotation** (`NodeTypeCorrect`, `ProcessesRestart`, `KeptUpTrusted`,
  `PhasesKeepTrust`). `IInv` follows the order of the two writes: `Ready` says which
  identities the state on disk, and the state about to be written, can rely on.
  `TrustInv` adds the order of phases: records are ranked, a process that has
  kept up has recorded this phase or the one before (`KeepsUp`), and for each pair
  it says which keys its identities on disk and in use are signed with and trust
  (`Fit`, `UsedFit`, `Planned`). That the authority's keys are swapped once
  and dropped at the end (`History`) does the rest.
  `SyncedStayTrusted` is about strays as well: a process that joined in the middle of
  a rotation and has recorded it as it is. `StrayInv` says what such a process may
  have on disk and in use, and that a process that joins is trusted under the record
  it has read (`JoinsTrusted`). The first version of the property had no such proof,
  and TLC found the reason: `kept` counted a process as following although it
  could not write the identity it joined with (`connect.go:425`), and a restart
  then used the older one. `kept` now asks for the identity on disk.
* **EventBuffer** (`BufferTypeCorrect`, `NobodyStranded`, `BufferImplementsStream`,
  `RingHoldsTheLatest`).
  The abstract queue of a watcher is its channel followed by its backlog. The
  inductive invariant `BufferInv` says that a backlog implies a full channel while
  somebody waits on it, and that there is no backlog before OpInit. The key lemmas
  are that a flush moves a prefix of the backlog and that a receive takes the head
  of the whole. `RingInv` ties the indices of the ring to the history: it is as
  full as it can be, it has not wrapped before it is full, and `i` places behind
  `start` there is the `i`-th of the last events.
* **CacheSync** (`CacheTypeCorrect`, `NobodyReadsHalf`, `NothingMissed`). Type correctness needs the
  order of streams: `processEvent` is well defined only because no OpInit can be in
  the queue of a cache that watches, which in turn needs that a source without OpInit
  has emitted nothing and that its watchers wait (`Orderly`). `Guarded` says that a
  cache is not readable during an apply and that a tombstone exists only while the
  process is down. `NothingMissed` needs `FollowInv`: for each watcher that is open,
  the events in its queue, those its source has in hand and what the cache holds or
  has fetched make up what the source holds (`Follows`); events that are still to be
  emitted never take a source back behind its own contents (`Settled`), which is what
  allows a fetch to be newer than the events that follow it; and whoever emits can be
  read (`Served`). The theorem assumes that every lease can be resolved; an event loop
  that skips an event misses it for good (section 5).
* **Semaphore** (`SemaphoreTypes`, `LeasesCovered`, `HoldersBounded`,
  `GoneLeasesStay`). The invariant ties each handler to its lock: which kinds may
  be at work in which state of the holder (`Phased`), what a renewal that was not
  read yet may ask for (`Timely`), and that what a handler is about to write changes
  nobody else's lease but to remove an expired one (`Prepared`). `Spaced` relates
  ticks, lease and clock. The bound of holders follows from the number of leases
  and from a live holder having one.
* **LockWatcher** (`WatcherTyped`, `ViewIsFollowed`, `MonitorsAreTold`,
  `StalenessIsBounded`). `WatcherInv` has a part for each: the order of events in a
  live stream; the last event about a lock in it is what the source has, and a lock
  without one is in the view (`FollowInv`); how long ago a watch first ended with an
  error at each place of the loop while the view counts as current (`ClockInv`), which
  needs that the code counts from at most one wait later (`LagInv`); and that a monitor
  that attends has in its queue, or missed between check and subscription, the
  put of every lock in the view that applies to it and was passed on (`MonitorInv`).
* **AuditStream** (`AuditTyped`, `SkippedNumberProtects`, `ConfirmedIsStored`,
  `RecordingImplementsLog`, `ClosedSessionsEnd`), none with a hypothesis. `PhaseInv`: only
  the last stream is connected, each has the fields its phase allows. `NumberInv`: until
  a stream is resumed in a crowd, what a stream may still store is not stored
  yet (`Fresh`) and comes before every number that a later stream of the upload can
  still take (`Apart`), but for the number left free, and the current stream has all
  parts behind it (`Past`). That gives `SkippedNumberProtects`. `RecordInv` holds until
  a part takes the number of another or an event overtakes another: the buffer is the
  end of the history (`HistoryInv`); the events a stream can still store are in order, and
  each has what was accepted before it in the same stream or in a part below
  (`Carries`); parts are in order (`PartsOrderly`); and a stream that the writer sends
  to has everything before the next event (`SentInv`). So an index in a status
  vouches for everything accepted before it. Out of order, a status for a later index
  would confirm an earlier event that is still to come. What the reader skips is settled
  by `StoredIsPlayed`: in parts that are in order, the first part with an event has
  nothing later before it. Once an upload is completed its streams store no more, so
  that what they carry is promised for the others only (the last argument of `Carries`).
  `RecordingImplementsLog` is the refinement: the history is `log`, `Confirmed` is what the
  buffer no longer has, and the hard steps are a completion, and a confirmation behind
  one. The stream completes the upload from the parts that it knows of (`Mine`), which
  are not all that is stored: a predecessor may still add one. That these alone are in
  order, hold what is confirmed, and are continued by what the stream still has is
  `TrackInv`, the same properties as in `RecordInv` but relative to fewer parts; so those
  lemmas are about any sequence of parts (`Tracks`). `LastInv` says that only the last
  stream is asked to complete, when the writer has ended (`EndInv`). `SealInv` is about an
  undisturbed session: the upload that is completed has parts, so it is the only one
  that has; before, there is no recording; and while the writer still writes, the
  recording is made of all parts, which are all that there will be, so that a status on
  its way confirms nothing that is not in it. That a session which is undisturbed after a
  step was so before it (`UndisturbedBefore`) needs that parts are not removed and
  mishaps not forgotten. `ReadsLog` then shows that what is read of parts in order is a
  beginning of the history: the set of events played is closed downwards
  (`StoredIsPlayed` again), and its elements are counted through the bijection with their
  indices in the history (`Counted`).
  `ClosedSessionsEnd` proves `SessionEnds`. The guards of the
  actions are operators of their own (`CanReceive`, `CanStart`, ...), so that "nothing
  can run" is their negation and needs no ENABLED. `RestInv` adds to `PhaseInv` that a full
  slice belongs to an open stream that may upload it (`Ready`), that a stream which is
  still connected and open when the writer has ended was asked to complete (`Awaits`),
  and that a sealed upload is a recording. A writer in the middle of a replay then has
  a stream that receives, uploads, refuses or is broken; an open stream receives,
  uploads, completes or flushes; a drained one reports or closes; and the completers
  take what is left.
* **AccessRequest** (`TypeCorrect`, `LifeImplemented`, `ReviewsDecide`, `ReviewsStay`,
  `RetriesAreOwed`, `ExpiryIsRight`). What a call writes it has found it may
  (`CallInv`), and the swap succeeds only on what it read. A count of reviews is a
  number of different users because nobody reviews twice (the lemma that the
  tally of a state is the cardinality of its voices). Every review goes through all
  reviews, and the first of them that triggers anything decides, for what it proposes
  (`FirstDecides`); so a request that is pending after a review has no prefix of reviews
  that triggers (`Undecided`), also if it had been decided and set back before.
  `RetriesAreOwed`: each attempt beyond the first was caused by another
  write. `LifeImplemented` maps each swap to one step of `RequestLife`.
* **TunnelAgents** (`TypeCorrect`, `ClaimsAreHeld`, `WakeupsAreKept`,
  `LeasesAreCounted`, `TargetIsNamed`). `LeasesCounted` is not inductive: `Counted` adds
  what the goroutine of the group knows at its select and between the send of a
  lease and its count, when the unsigned count may be one less than zero, that is
  `W - 1`. `W` has to be larger than the number of proxies.

Only model-checked: all liveness (`AcquireEnds`, `AutoCompletes`, `CatchesUp`,
`Converges`, `NoneStuck`, `ReachesAll`, `SessionsEnd`), because TLAPS does not handle
fairness. The reader of a recording is stated without
recursion, so that theorems can be about it: `Played` says which events the reader
keeps, `PlayBack` puts them in order. `MCAuditStream` compares that with `Read`, which
folds over the parts like `ProtoReader`, for every sequence of up to three parts of up to
two events (`PlayBackIsRead`); that the two agree on every sequence is an induction
with an operator as a parameter, which the provers cannot instantiate.

## 5. Findings

**A key that is added in the middle of a rotation becomes active in a rollback**
(`init.go:350`, run `rot_rollback_late_key`). A server that starts without a local active
key of the Host CA (a second HSM) adds one to the additional keys in whatever phase it
finds. TLC's trace: `t1` requests `init` and `update_clients`, which swaps the key sets;
`t2` starts, and its `AddSwap` succeeds at once, with no conflict; `t1` requests
`rollback`, which makes the additional keys active, the old one and that of `t2`. The
comment at `rotate.go:183` says that the "cluster goes back to the original state".

Observations that were met while modelling and that no run states as a violation.
Where a model excludes one, the reason is named in section 3.

* Lock: after a failed refresh, `Release` compares the id with a Get and deletes by
  key (`helpers.go:96`); the record may have become another call's between the two.
* Rotation: after a forced rotation the keys of another HSM server stay additional
  keys and the next rotation takes them for its own; a scheduled rotation goes on in
  automatic mode after a failure, although the comment at `rotate.go:194` says that it
  becomes manual; a grace period of zero is documented to force a rotation, but
  `CheckAndSetDefaults` generates a schedule from it (`rotate.go:48`); an authority
  migrated from the old key schema in the middle of a rotation
  (`api/types/authority.go:324`).
* Processes: `firstTimeConnect` only logs that it could not write its identity and
  records the state nevertheless (`connect.go:425`), and records `update_clients` or
  `update_servers` without the replacement identity that `connect` reads in that phase,
  so such a process cannot be started again; a process that reads its state after its
  identity may record a phase it has no identity for (`connect.go:412`); one that
  missed `update_clients` is let into `update_servers` (`connect.go:788`); in
  `update_servers` with changed principals every pass installs the same replacement
  (`connect.go:796`); `GenerateServerKeys` says that it reads "state from the DB" when a
  process asks under another rotation (`auth.go:1513`), but calls `GetCertAuthority`,
  which asks the cache again (`auth.go:2123`), so that `ReRegister` needs no second read.
* Events: an event whose lease cannot be resolved is skipped while the watchers stay
  open (`etcd.go:458`; `LeaseErrors` of `CacheSync`), so that caches keep the old
  value until they start anew; `Reset` has to wait for the goroutine that emits
  (`etcd.go:441`); a cache expires items by itself and so runs ahead of the backend
  (`cache.go:843`).
* Audit: a resumed stream without known parts starts at part 1 like its predecessor,
  which may still flush one (`stream.go:280`). The number that a resumption skips
  protects one late part, but not two, and not after two resumptions that know of the
  same parts: the first starts behind the free number and its part is late as well, the
  second starts at that same number, is confirmed, and its part is overwritten
  (`SkipProtects` draws the line). The comment there says that "it's ok if resume of P2
  overwrites any data of P1": not if P1 stores three parts after the list was made and
  P2 overwrites the second of them and dies; a third process then resumes behind the
  third part of P1, and what it replays is skipped by the reader. `NewProtoStream`'s own
  documentation speaks of "continuous globally ordered" events (`stream.go:222`), but
  `EmitAuditEvent` sends an event after it has let go of the lock under which
  `setupEvent` numbers it (`auditwriter.go:277`, `559`), so that concurrent emitters may
  swap two; one of them is then skipped, and the confirmation of the later one drops
  both. The completer looks at the age of an upload alone (`complete.go:129`): of a
  session that runs for longer than a day (`defaults.go:274`) it completes the upload
  under the stream's hands. A part stored between its list and the removal of the
  upload is confirmed and lost; later parts fail; and when the stream completes the
  upload once more, the recording is emptied before the parts are found to be gone
  (`filestream.go:113`, `142`; in the model a
  completion is one step, so that two at the same time, of which the second empties the file
  before it finds it locked, are one after the other). The completers of two auth servers with one directory of
  recordings can do the same to each other. A part
  that failed is skipped at completion (`stream.go:611`); after padding, a retry reads
  the slice without its end (`stream.go:759`); a recovery whose stream breaks during the
  replay fails for good.
* Access requests: `AccessRequestUpdate.Check` admits a state of PENDING, so that an
  approved request can be set back; it then has enough approvals and is pending. The next
  review, whatever it proposes, finds the old threshold met and decides the request as
  before: a denial approves it. `DecidedByReviews` is stated so that this is in it.
* Tunnel: `claim` of a name nobody announced creates an entry and leaves the target
  alone. `addAgent` would give the lease back if `NewAgent` failed (`agentpool.go:294`),
  but all that `NewAgent` refuses `NewAgentPool` has refused before.
* Watchers: `MaxStaleness` is "a maximum acceptable staleness" and the view is stale when
  it "has failed to be updated for longer" (`watcher.go:64`, `158`). The code exceeds it
  by a refetch period and two waits when a watch hangs after one that failed
  (`StaleBound` is the limit it keeps). A watch that waits for its `OpInit` until it is
  time to fetch again returns nil (`watcher.go:245`), so a hang that begins after a
  successful fetch never sets `failureStartedAt`: the view is then taken for current, and
  strict connections stay open, for as long as the cache gives no `OpInit`. In the model
  that is `up` FALSE, `stream` opened and never closed, `overdue` at `NotOverdue`.
  `notifyStale` emits before it marks the view; the
  loop is started before the fan-out it emits to is initialised, and `Emit` panics
  before `SetInit` (`watcher.go:466`; the only listed hazard without a property, as the
  window is a few instructions against a round trip); a monitor without timers returns
  on a cancelled subscription, with the connection open, even with a put in its queue
  (`monitor.go:242`), and nothing ends that connection for a lock any more; events from before a fetch are applied again after it, so that a
  put that was deleted since may disconnect.

## 6. Plan

Done: authorities and their rotation, the processes that follow it, the backend's lock
and event buffer, caches, semaphores, recordings, access requests, tunnel agents,
lock watcher and monitors.

Next, in this order:

1. `Heartbeat`, `FnCache`, `Supervisor`: small, one liveness and one safety property
   each; the keep-alive of a heartbeat against the expiry of its record.
2. `Sessions`: parties that join and leave, the lingering timer, on top of `AuditStream`
   and `Semaphore`.
3. `Logins`: the window of failed attempts and the lock that follows.
4. `TrustedClusters` over two `CAPhases`.
5. `CacheSync` extended: reads through `fnCache` while the cache is down, expiry of
   items, the etcd loop with its two goroutines, a lite poller as another source.
6. `SessionUpload`: the uploader with its checkpoints in front of `AuditStream`; plugin
   data of access requests.

New questions about a component that has a run go into that run; a run holds one
instance, two to four actors, one or two faults, and takes a few minutes at most.

Theorems still worth proving: that a recording without faults is all that was accepted; what a cache read
during an outage may show; and that what one server's ticker does not complete is left
in a state that another one continues.

### Not modelled, and why

Limiter, the auth API and role checks, protocol proxies, user interfaces and host
integration (the last row of section 1) have no state that several actors change:
they are sequential, pure functions of large records, presentation or I/O. DynamoDB
and Firestore are external services. Most of the repository's lines are generated
protocol buffers, API definitions and these parts, which is why the modules cover a
small share of its lines. The components marked "planned" can be modelled and have not
been yet.
