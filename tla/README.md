# A formal model of the Statsig forward proxy

The proxy keeps payloads of an origin (config specs, deltas of them, id lists and
their files) in memory and serves them to SDKs over HTTP and gRPC. Several pods
share a Redis, which holds a backup of the payloads and, when enabled, the members
of every id list in a form that can be queried by member. This directory models
the parts of the proxy in which several tasks, pods and an unreliable Redis or
origin meet. Paths below are relative to `src/src/`.

## The system and its parts

| Part | State | Operations | What is hard |
| --- | --- | --- | --- |
| Id-list sync producer (`datastore/idlist_membership/redis_syncer.rs`, `redis_syncer/planning.rs`) | manifest snapshots; in Redis the producer lock, queue, task metadata, `__all`, `__ready` | elect, read and plan, write tasks, schedule removals | ticks that overlap, old or missing manifests |
| Id-list worker (`worker/{run,reload,delta,streamed_diff,removal}.rs`) | in Redis the state hash with its checkpoints, a forward set per version, the reverse sets, the dictionary | pop, claim, load, append, diff, commit, reindex, remove | a crash between any two writes, takeover, mode changes |
| Work lock and renewal (`work_lock.rs`, `worker/run.rs`) | the claim key and its TTL; a local flag | acquire, renew, release, give up | no fencing: exclusion rests on time |
| Membership reader (`redis_membership.rs`, `redis_membership/forward.rs`, `servers/http_apis/user_enrichment_api/`) | a fetcher per company, a cached dictionary, lookups in flight | resolve a key, read, name tokens, filter, refresh | Redis and the manifest change between two reads |
| Fetch pipeline (`datastore/data_providers/`, `sdk_key_store.rs`, `config_spec_store.rs`, `id_list_store.rs`) | key store, payload store, locks, backoff, response hashes, the HTTP client | foreground fetch, poll, fall back, notify | check and write under separate locks, dropped calls |
| Deltas store (`datastore/deltas_store.rs`) | a position per context, a capped sequence of deltas per key | poll, keep, combine, register, forget | three writers of one position, answers out of order |
| Id-list files (`id_list_file_store.rs`, `id_list_file_refresh_observer.rs`) | a cached body per file, a fetch lock per hint | serve a range, fetch, refresh, evict | hints newer than the body, suppressed fetches |
| gRPC streams (`servers/grpc_server.rs`, `streaming_channel.rs`) | a broadcast channel per context, a counter, a queue per client | open, broadcast, heartbeat, end, shut down | lag, updates between two reads, lost clients |
| Backup cache (`datastore/caching/redis_cache.rs`) | leader key, a hash per context, remembered versions | check, write, renew, delete | two transactions, dead leaders |
| Redis authentication and pools (`caching/redis_auth.rs`, `redis_pool.rs`) | the published token, the refresh task, connections with the token they were opened with | mint, back off, check out, check in, reap | margins against lifetimes, outages |
| Log events; dispatch shaping; warmup; metrics, compression, formatting | | | not modelled, see below |

The parts interact in these places. A fetch notifies its observers: the stores
synchronously, the backup cache, the channels and the refresh of files in a spawned
task. A failed fetch reads the backup. The id-list sync takes its manifests from
the same polls; its workers exclude each other with the work lock, and the
membership reader reads what they write. All of them use connections of the Redis
pools. `PROJECT.json` lists every part with its status, and every hazard at the
line where it bites.

## Modules

| Module | Models | Checked with |
| --- | --- | --- |
| `SyncPlanning` | the decision "nothing, delta or full load, and of which file" of `planning.rs` | through `IdListSync` |
| `IdListSync` | producer, queue, workers and Redis for one list | `MCIdListSync` |
| `WorkClaim` | what the claim on a list promises, without time | implemented by the next two |
| `IdListClaim` | `IdListSync` with its use of the claim mapped to `WorkClaim` | `MCIdListSync` |
| `WorkLock` | the claim key in discrete time | `MCWorkLock` |
| `MembershipReader` | requests of one key for one id, dictionary and refreshes, and what the sync does to Redis meanwhile | `MCMembershipReader` |
| `FetchPipeline` | one request context in one process | `MCFetchPipeline` |
| `DeltasStore` | the deltas of one SDK key, its contexts and one client | `MCDeltasStore` |
| `IdListFiles` | one file, its cache, fetches, refresh and readers | `MCIdListFiles` |
| `GrpcStream` | the streams of one context | `MCGrpcStream` |
| `BackupCache` | the backup of one dcs context and the leader key, for several pods | `MCBackupCache` |
| `TokenRefresh` | the Entra token, its refresh task, pools and connections in discrete time | `MCTokenRefresh` |
| `IdListSync_proofs`, `IdListRollback_proofs` | theorems of `IdListSync` and `IdListClaim`, the second module resting on the first | TLAPS |
| `WorkLock_proofs`, `TokenRefresh_proofs`, `FetchPipeline_proofs`, `MembershipReader_proofs`, `GrpcStream_proofs`, `BackupCache_proofs` | theorems of these modules | TLAPS |

Most modules have a constant `Setups`: a set of situations (participants, faults
and their number, configuration), one of which is chosen in `Init`. Operators
named `X_variant` stand before `X` and are plausible mistakes in the code that `X`
models; each property is known to fail for one of them.

**IdListSync.** Each Redis write of a worker is an action; reads are taken with
the write that follows them, which is sound while the worker holds the claim.
Commands of one pipeline are separate actions, and `SplitPipelines` says whether
a worker may stop between them. `Abort` stands for a crash, an error, a failed
release and a failed or short download. A file is a sequence of lines that add
or remove a member; bytes, ranges and encodings are abstracted to how many
lines a download reaches (`Reach`). A manifest that is old (`ServeStale`) also
stands for pods that poll at different times. `ChangeMode` redeploys the fleet
with reverse indexing switched; claims outlive it. `ClaimExpire` happens only
when the holder is not in a task: this is what `WorkLock` establishes.
`EarlyReturn` and `Ahead` admit two situations that the runs treat one by one:
a removed list that returns before its removal is done, and an origin that
serves more of a file than the manifest says.

**WorkLock and WorkClaim.** Delays are constants: `Lag` bounds a timer's delay and
half a round trip, `Burst` the time a worker writes between two looks at the flag.
With `Timely`, time does not pass a deadline. Replies may be lost after a command
has run, a stopped renewal may still reach Redis (`GhostRenew`), and a release
spawned by `Drop` may be late (`StrayRelease`). `WorkClaim` has only a holder and
a set of writers. `WorkLock` implements it (`ImplementsClaim`), and the workers of
`IdListSync` use no more than it promises (`UsesClaim`): the two models meet in
that interface, so that neither needs the state of the other.

**MembershipReader.** A request walks from the company of the key over the fetcher
(built once per company, `get_or_try_init`) and the Redis reads to the filter.
With the reverse index it reads tokens and names them from the cached dictionary;
without it it reads a version and then that version's set. The periodic refresh
and the lookups of unknown tokens are processes of their own. The actions of the
last part (token allocation and removal, loads, commits, discovery and change of
a company, change of a manifest) are the steps of the sync and of the manifest
observers as a reader sees them. A version is known by the name of its set, and a
list that was removed and returns uses the names of its files again. `Unread` is the
timing assumption this needs: a set neither expires nor is loaded again under the
same name between a request's read of the version and its read of the set. The
first is `old_version_ttl_s`, the second says that a removal and a whole new load
take longer than one read. The company of the key may be unknown, and its manifest
empty, when the first request comes. Requests that are turned away before Redis is
asked (an unknown key, the rate limiter, too many lookups) change nothing the model
has and are left out.

**FetchPipeline.** A reader walks through `foreground_fetch` one await or lock
operation at a time; a task walks through `process_request`. The two observers
are a check and a write each. `Drop` cancels a call at an await, `BuildFails` is a
client that cannot be built. The edge that answers may be behind the origin, and a
download whose blob metadata is not newer than what was asked from is skipped
(`SkipsDownload`). A context is of kind `dcs` (versions are compared) or
`idlists` (a hash and a limiter of one request a minute). `prompt` is a timing
assumption: notifying observers, which does not await, takes less time than a
round trip that starts after it began, and a reader needs less than the thirty
seconds of an eviction to get from `has_key` to the map of locks (`late` marks
those that were on that way when the eviction was put to sleep). `Excluded` says
that nothing lets `foreground_fetch` return without an attempt while another reader
waits: one reader, or a dcs context without errors. `Orderly` is both together. The
safety properties are stated where they need it; outside of it they fail, see the
known limits.

**DeltasStore.** The origin is a log of changes, several of which may carry one
time. A delta holds the newest value of each part of the config that changed in
its period; a client applies a combined answer the same way. `jumps` records
positions that were not reached by keeping a delta: taken from a client or from
the config loop, or moved past a delta that could not be decoded. The times that
other clients send are those of changes there have been (`OtherRegisters`).

**IdListFiles.** A body is its length: a file only grows. A reader asks for the
whole file, for the bytes after those it has, or for them with the size its
manifest names. The refresh task is one more caller. A lock of the map is per hint,
as two requests with different hints are different contexts. `prompt` says that a
download is not overtaken by another one.

**GrpcStream.** The broadcast channel keeps one message; a receiver that is two
behind lags and subscribes anew. The client's queue has room for one message.
The asynchronous observers of a fetch may reach the channel late; `prompt` says
that they are done before the next fetch. A poll notifies every answer that differs
from the version it asked from: with `stale` the edge that answers may be behind the
origin, and the channel is then told of an older version, which the stores leave
alone. A poll that fails reads the backup, which the store takes if it is newer and
the channel is not told of (`Fallback`). Calls start with `since_time` 0, for a
context that the origin accepts.

**BackupCache.** The commands of the first transaction are sent again with each later
one, because the code uses one pipeline object for all of them. `prompt` says that a
task ends before its pod's next poll and before the leader's lease. The task is told of
every answer, with `stale` also of one older than the pod has seen, and
`active_cache_keys` remembers it before the first command is sent: a pod may remember a
version it never wrote. A failed check may have run in Redis, and the task goes on to
renew. `check_lcut` is on. A crashed leader's name in Redis becomes `"gone"`, as a new
process has a new uuid.

**TokenRefresh.** Times count down in one unit; timers fire in the unit they are due,
and a token request ends within `RequestTimeout`. The endpoint reports any lifetime,
answers late or fails. Pools are built one after the other (`InTurn`). The life of a
token starts when it is made, while the proxy counts from the answer. A connection is
opened, checked out for at most `Hold`, checked in and reaped; the idle timeout and the
lifetime that bb8 has by default are left out.

## Runs

| Run | Expected | Distinct states | What it shows |
| --- | --- | --- | --- |
| `takeover` | pass | 923,354 | Two pods, a crash at any write of a load, delta or rotation: a list that is caught up has the members of its file in both indexes (`CaughtUpSetExact`, `CaughtUpIndexExact`), a diff checkpoint means what a takeover assumes (`DiffProgress`), and workers write only under the claim (`UsesClaim`). |
| `converge` | pass | 452,850 | Load, rotation and removal with a crash, expired sets or task metadata, a mode change, an old or a missing manifest: skipped writes are repaired before the list counts as caught up (`CaughtUpIndexExact`), dead tokens have no members (`DeadTokensEmpty`), nothing rolls back (`NoRollback`), no unjustified removal (`RemovalJustified`), and Redis comes to hold what the manifest says (`Convergence`). |
| `claim` | pass | 28,032 | A pod that writes holds the claim (`WritersHoldClaim`), a claim becomes free again (`ClaimsFreed`), and the lock implements `WorkClaim` (`ImplementsClaim`). |
| `reader` | pass | 242,164 | Answers name only lists that held the id (`AnswerTrue`) and that the key sees (`NothingHidden`), and miss none that held it throughout (`NothingMissing`); requests end (`EveryRequestEnds`); the dictionary comes to name every token (`TokensNamed`). |
| `fetch` | pass | 463,011 | What is registered is stored (`RegisteredIsStored`), polls start from what is stored (`PollFromStored`), a dcs payload never goes back (`NeverOlder`), the origin's version arrives (`Refreshed`). |
| `deltas` | pass | 357,858 | A client moved by deltas has every change before its time (`NothingMissed`), never goes back (`ClientForward`) and catches up (`CatchesUp`). |
| `files` | pass | 293,809 | Answers hold the bytes at the position asked for, and only a position beyond the end is refused (`CopyExact`); they are not shorter than a hint while nothing fails (`HintHonoured`), requests keep their rate (`RateLimited`), readers come to have what the manifest lists (`Delivered`). |
| `stream` | pass | 310,959 | Heartbeats name what the client has (`HeartbeatHonest`); updates ascend, after the first payload too while edges are up to date and observers prompt (`StreamForward`); what the channel keeps reaches the client (`Distributed`); a lost client gives its place back (`PlacesReturned`). |
| `cache` | pass | 220,504 | The backup does not go back (`BackupForward`), a pod renews only the version it was given last, and none older than it has fetched while edges are up to date (`RenewsWhatItKnows`), a dead leader is replaced (`LeaderReplaced`). |
| `token` | pass | 665,447 | A token in use is alive (`HeldTokenAlive`), the refresh comes before checkouts are refused (`RefreshBeforeGuard`), recovery is prompt (`PromptRecovery`), there is no hot loop (`MintSpacing`), connections with an old token go away (`StaleRetired`). |
| `removal_returns` | violation | | A list returns while its interrupted removal has taken the token from some members: nothing gives it back. `worker/run.rs:52` says failures are recovered from Redis state. |
| `cut_cleanup` | violation | | A connection lost inside the cleanup pipeline: the list has left `__all`, nothing schedules the removal again. `worker/removal.rs:72` says a later worker retries. |

**Bounds of the id-list runs.** Two members, two files of three lines and batches of two
give additions, removals of an earlier member, batches that end inside and at the end of
a file, and two partitions. Histories of two or three entries give growth, rotation,
removal and return. `takeover` has one crash, two pods and pod symmetry (no liveness is
checked there). It starts with reverse indexing on. `converge` has one pod, which may
still find its own claim after a crash, starts in either mode, and has one fault of one
of six kinds, or a crash and an expired set together. Other combinations and a second
crash during the repair of the first are not explored by TLC (the theorems have no such
bound). `claim` uses a TTL of 9 with delays of 1: `Slack` then holds with nothing to
spare.

**Bounds of the other runs.** `reader`: two companies, lists and requests, tokens and
versions up to two, at most nine changes of Redis or of the key, one failure; five
situations, each with what it is about at its largest. Nine changes are what it takes to
load, remove and load a version again under a read. `fetch`: three versions, one or two
readers, one or two faults per situation. With two versions the races of two checks and
two writes end in the newest one and do not show. `deltas`: up to four changes of two
parts, caps of one and two deltas, one or two contexts. A cap of one makes a client too
old after two polls. `files`: a file that grows once, two readers and the refresh, up to
two faults. `stream`: a limit of one stream and two clients, so that the limit is met
and overrun; backups, late observers and stale edges with one client. `cache`: two pods,
three versions, two faults, edges that are up to date or not. `token`: units of 15
seconds, the margins and delays of `redis_auth.rs`, lifetimes below the minimum, at it
and above the maximum, one connection (connections do not affect each other).

Deadlock is checked except in two runs: `stream` stops once calls are used up and the
streams have ended, and `files` once every reader has the whole file.

**Fairness** is weak fairness of what the program's loops and timers do.
`IdListSync`: producer ticks, pops, each pod's steps, expiry of locks, return of
a missing manifest. `WorkLock`: time, workers, renewals, late releases.
`MembershipReader`: steps of requests and of the refresh loop of each fetcher, not
lookups. `FetchPipeline`: readers, tasks, polls, the eviction, the ends of backoff
and minute. `DeltasStore`: the delta loop, the steps of polls and of the config loop
once begun, a client that keeps asking. `IdListFiles`: callers, readers that keep
asking, evictions of locks and ends of backoff. `GrpcStream`: store and channel
updates, each stream's task, clients that read. `BackupCache`: updates, expiry of the
leader key, and updates of other contexts of each pod. `TokenRefresh`: time, the
refresh task, handshakes, check-ins and the reaper. Tokio polls every task that is
ready and fires timers, and the requests have timeouts, which is what these
assumptions ask for. Faults, publications and crashes have no fairness.

## Proofs

| Theorem | Module | States |
| --- | --- | --- |
| `TypeCorrect` | `IdListSync_proofs` | every variable is typed, and no task, plan or checkpoint names a version that was never advertised |
| `ClaimExcludes` | `IdListRollback_proofs` | a worker inside a task holds the claim |
| `NeverRolledBack` | `IdListRollback_proofs` | `NoRollback`, which `converge` checks |
| `SyncUsesClaim` | `IdListRollback_proofs` | `UsesClaim`, which `takeover` checks: `IdListSync` implements `WorkClaim` |
| `WritersOwnTheClaim` | `WorkLock_proofs` | `WritersHoldClaim`, which `claim` checks, under `Slack` and `Timely` |
| `LockIsClaim` | `WorkLock_proofs` | `ImplementsClaim`, which `claim` checks: `WorkLock` implements `WorkClaim`, under the same bound |
| `TypeCorrect` | `TokenRefresh_proofs` | every variable is typed |
| `HeldAlive` | `TokenRefresh_proofs` | `HeldTokenAlive`, which `token` checks |
| `AheadOfGuard` | `TokenRefresh_proofs` | `RefreshBeforeGuard` |
| `Recovers` | `TokenRefresh_proofs` | `PromptRecovery` |
| `NoHotLoop` | `TokenRefresh_proofs` | `MintSpacing` |
| `TypeCorrect` | `FetchPipeline_proofs` | every variable is typed |
| `FetchesAlone` | `FetchPipeline_proofs` | `SingleFlight`: under `Orderly`, at most one reader of a context fetches |
| `NotifiesAlone` | `FetchPipeline_proofs` | `OneNotifies`: under `Orderly`, at most one fetch notifies its observers |
| `RegisteredStored` | `FetchPipeline_proofs` | `RegisteredIsStored`, which `fetch` checks |
| `PollsFromStored` | `FetchPipeline_proofs` | `PollFromStored`, which `fetch` checks |
| `StoreForward` | `FetchPipeline_proofs` | `NeverOlder`, which `fetch` checks |
| `TypeCorrect` | `MembershipReader_proofs` | every variable is typed |
| `AnswersTrue` | `MembershipReader_proofs` | `AnswerTrue`, which `reader` checks |
| `AnswersVisible` | `MembershipReader_proofs` | `NothingHidden`, which `reader` checks |
| `MissesNothing` | `MembershipReader_proofs` | `NothingMissing`, which `reader` checks |
| `TypeCorrect` | `GrpcStream_proofs` | every variable is typed |
| `CountExact` | `GrpcStream_proofs` | `CountInv`: the counter is the number of streams that hold a place |
| `HeartbeatsHonest` | `GrpcStream_proofs` | `HeartbeatHonest`, which `stream` checks |
| `NeverBack` | `GrpcStream_proofs` | `StreamForward`, which `stream` checks |
| `TypeCorrect` | `BackupCache_proofs` | every variable is typed |
| `OneWriter` | `BackupCache_proofs` | `WriterInv` while Redis is prompt: who may write holds the leader key and has a newer version |
| `NeverBack` | `BackupCache_proofs` | `BackupForward`, which `cache` checks |
| `RenewsKnown` | `BackupCache_proofs` | `RenewsWhatItKnows`, which `cache` checks |

They hold for every number of pods, members, files, pools, connections, readers,
clients, companies, lists, requests and versions, every history and every value of
the delays, from the named assumptions on the constants. These assumptions say that
bounds are numbers, that model values are distinct from the markers `"none"`,
`"gone"` and `"unknown"`, and that a situation uses declared participants; `Slack` and
`TimesAssumption` are the only ones about the sizes of constants.

`NoRollback` is not inductive: `commit_reload` does not compare versions, so the
comparison made when the task was planned must still be valid when it commits.
The invariant is `TypeOK`, `ClaimHeld` and `LoadInv`: a worker on its way to a
commit loads a version that supersedes the committed one. Another worker could
break it only by committing in between, which `ClaimHeld` excludes.
`SyncUsesClaim` rests on `ClaimHeld` too: every step of a pod maps to a step of
`WorkClaim` by that pod, or to none. The typing of the worker's steps is long:
`IdListSync_proofs` first types what a worker computes, then what its writes leave in
Redis, and then puts the actions together.

`WritersHoldClaim` needs to know how much of the TTL is left at each stage.
`PodInv` gives that amount for the worker, its renewal task and a late release:
each stage hands the next one less of it, and a renewal gives it back. The sum
is `Slack == Interval + 4 * Lag + Burst < TTL`. With the default TTL of 60
seconds the interval is 20. `LockIsClaim` uses the same invariant to show that a
claim is never taken over, nor lost, while its old holder writes.

The theorems of `TokenRefresh` rest on the assumptions about the constants of
`redis_auth.rs` (`TimesAssumption`), of which two are the point: the floor of the
refresh margin exceeds the checkout margin by more than a request takes, and the
checkout margin covers a late answer and a command. Lemmas about `RefreshMargin`
and `RefreshDelay` bound the delay for every lifetime and configured margin. The
invariant relates what is left of the token's life, of the refresh timer and of a
request in flight. Whether the refresh is behind is part of it, because an outage
breaks the first relation; the backoff then bounds the way back.

The theorems of `FetchPipeline` follow from one fact: under `Orderly` the check of a
store and the write after it are never parted by another fetch. `OrderInv` shows it.
Readers exclude each other because a map without their lock means that its thirty
seconds are over (`SharedInv`), or because there is one (`SingleInv`). A reader fetches
only while the key is absent and the poller only while it is present, so that a poll
starts after a foreground fetch has registered the context, and its answer comes
after that fetch's last write (`ExclInv`). `DataInv` then says for each stage of a
notification what key and store are: between the two stores the fetch carries the
payload that makes up for the key. `RegisteredIsStored` without clearing needs only
`KeptInv`, as nothing ever takes a payload away.

The three theorems about answers of `MembershipReader` share one invariant, `ReaderInv`.
Every place that can name a token (Redis, the cached dictionary, the snapshot of a
refresh and the answer of a lookup that are not stored yet) gives it the same name:
a token is never given out twice, so a stale name is wrong about nothing (`TokenInv`).
All steps except the allocation of a token only shrink what these places say, which
makes the many interleavings of refresh, lookup and request one argument. Between the
read of the tokens and their naming, whatever a place may say of a token is a list
that held the id (`TokensRead`); between the read of a version and of its set the same
holds of the set (`SetsRead`), with `Unread` instead of the uniqueness of tokens.
That nothing is missed needs that a snapshot about to be stored forgets no name that
still holds (`SnapInv`), which is what the lock of the refresh is for. `Told` and `Seen`
relate what a request has gathered to the lists that held the id, and to what the key
saw, since it started. `MissesNothing` is about lists whose token the dictionary knew
when the request came, or had yet to load: others are looked up for the next request.

`HeartbeatHonest` needs `Honest`: while a stream listens, the client's queue, or what
the client read last if the queue is empty, is the version the task remembers. A task
is in `listen` only after its send has succeeded. `StreamForward` has two parts. For
updates `ChainInv` is enough: the update read last, the one in the queue and the one the
task holds are in this order and bounded by `last_updated`, which only grows; nothing is
assumed of edges and observers. For the first payload, which does not pass through the
channel, `AscendingInv` is needed: with edges that are up to date and prompt observers
what is read, queued, remembered and kept is bounded by the newest answer, in this
order. A lag and a new subscription keep both. `CountExact` is part
of the type invariant, because the counter is a natural number only as a cardinality.

`BackupForward` needs `WriterInv`: the answer of the first transaction, leader and
version, still holds when the second one runs. A second writer would have to become
the leader in between, which takes an expiry or the end of a task that is prompt.
`TaskInv` says that a task and a touch carry what `active_cache_keys` remembers, from
which the first part of `RenewsWhatItKnows` follows, and that with edges that are up to
date this is the version the pod asks from, which gives the second.

Only model-checked:

- the liveness properties, which are out of the prover's reach;
- the exactness of the indexes (`CaughtUpSetExact`, `CaughtUpIndexExact`,
  `DiffProgress`), which rests on counting and on replaying files, and
  `NothingMissed`, which rests on folding deltas: induction over data is out of
  reach too;
- `DeadTokensEmpty`, `RemovalJustified`, `ClientForward`, `CopyExact`,
  `HintHonoured` and `RateLimited`, for which no inductive invariant has been worked
  out.

## Known limits of what is claimed

- Nothing fences the writes of a worker that stalls beyond `Slack`
  (`server.rs:742` speaks of fleet-wide exclusion). `Timely = FALSE` shows it.
- With `SplitPipelines`, a delta pipeline cut between the reverse and the forward
  write of an added member, followed by a rotation, leaves the token with a member
  for good. Convergence is checked for pipelines that run as a whole.
- With `Ahead` and a crash between a batch and its checkpoint, retries of a load
  fail their cardinality check until the pending set expires after a day.
- A pending set that becomes empty and is filled again has no TTL
  (`worker/delta.rs:167`). The old forward set has none if a worker stops between
  the commit and its `EXPIRE` (`worker/reload.rs:302`).
- Expiry of a forward set that a task is reading, task metadata torn between two
  ticks (`redis_syncer.rs:379`), and pods with different partition limits
  (`worker/streamed_diff.rs:38`) are not modelled.
- A read of the forward sets assumes that the TTL of the old version outlasts it, and
  that the list is not removed and loaded again under the same file name within it
  (`Unread`). Otherwise the version that was read can name a set that is still being
  filled.
- Outside of `Orderly` (without `prompt`, or with two readers that fetch at the same
  time after a failure) the check and the write of a store may be parted by another
  fetch (`sdk_key_store.rs:23`, `config_spec_store.rs:46`): an older payload may replace
  a newer one, or the store may stay behind the key, until the next version.
- Without `prompt`, or when the edge that answers is behind the origin, the first update
  of a stream may be older than the first payload, which comes from the store. A backup
  that is stored after a failed poll is not broadcast at all.
- Without `prompt`, a late leader may write an older backup, and a late touch may renew
  one. With an edge behind the origin, `active_cache_keys` goes back with the answer, and
  the pod then renews a backup older than what it has fetched before (the comment at
  `redis_cache.rs:335` is about failed writes only).
- A call that is dropped while it fetches leaves a lock that says "fetched" and no
  eviction (`background_data_provider.rs:102`, `:125`): a context that was not
  registered by then is not fetched again. gRPC calls can be dropped.
- The fallback of an id-list request stores a backup without comparing it
  (`id_list_store.rs:38`; `docs/monitoring.md:206` speaks of "a newer payload"), and
  the unchanged response hash hides the newer payload until the next manifest.
- When nothing was attempted, `foreground_fetch` removes whatever lock is in the
  map (`background_data_provider.rs:121`). Two readers of a dcs context may then fetch
  at the same time, and with three callers of a file a failure lets two requests of
  one hint through within thirty seconds; `fetch` leaves that combination out and
  `RateLimited` is stated for situations without errors.
- The position of a delta context may jump past changes no kept delta holds
  (`jumps`). A client at such a position is told there is nothing new until the next
  change. `NothingMissed` and `CatchesUp` except these positions.
- A request for deltas registers any time but 0 as the position of its context
  (`http_server.rs:355`). One ahead of the origin would keep the delta loop from learning
  anything until the origin gets there; the model has only times an SDK was given.
- Downloads of a file that overtake each other may put a shorter body over a longer
  one; a body evicted within thirty seconds of its fetch is answered with 401 until
  the lock is gone. `HintHonoured` is stated for neither, `Delivered` for both.
- A stream that lags skips the message the channel still keeps, the order to shut
  down included; an update between the first payload and the subscription reaches
  the client with the next one; more streams than the limit may be admitted.

## Not modelled

- **Log events** (`log_event_store.rs`). One cache of hashes that is written before a
  batch is sent and cleared when it is full. What counts as a repetition is a matter
  of string keys and of a randomly seeded hash, and no other part reads the cache.
- **Dispatch shaping and interval tracking.** Jitter, ranks and durations; the
  models leave the order and the distance of launches open.
- **Startup warmup, signing of blob URLs, request contexts' header parsing, HTTP routing,
  health checks, TLS.** Parsing, signing and configuration of external libraries.
- **Growth and pruning of the request backoff.** Durations, in models without time.
- **Id-list contexts of the backup cache, several files and content encodings,
  several contexts in flight.** They repeat what is modelled for one.
- **Metrics, logging, compression.** Formatting and reporting.
