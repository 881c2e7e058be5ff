# p2p-gpu: TLA+ models, model checking and proofs

p2p-gpu is a volunteer GPU-compute system: a **coordinator** (C++, one event loop)
cuts jobs into ranges and leases them to **workers** (native programs and browser
tabs) over WebSockets, judges what they send back by comparing the answers of
several of them, and writes its tasks to SQLite. Workers are slow, go away, come
back, lie, and lose their GPU. This directory holds TLA+ models of that system,
the TLC instances that check them, and TLAPS proofs about them.

Paths below are relative to the repository. `job.cpp`, `session.cpp`, ... are in
`src/coordinator/`, their headers in `include/p2pgpu/coordinator/`.

## 1. Inventory

### 1.1 The coordinator

Everything below runs on one event loop (`net.cpp`): a frame handler
(`Session::Dispatch`) and a tick of the sweep timer (`Server::Sweep`) each run to
completion, so an interleaving is an order of handlers. That is why one handler is
one action here.

| component | state | operations | talks to |
|---|---|---|---|
| Task lifecycle, `task_state.hpp` | one `TaskState` | `Advance`, `IsTerminal` | job manager |
| Job manager, `job.cpp` | `tasks_`, `queue_`, `jobs_`, `next_id_`, the carving cursor, dirty sets, partial results | `CreateJob`, `Grant`, `Renew`, `Submit`, `Release*`, `SweepExpiredLeases`, `RequestReplica`, `RestartValidation`, `IssueKnownRange`, `IssueSpeculative`, `CancelSiblingsOf`, `RecordPartial`, `AdoptRecovered`, `JobComplete` | called by sessions and the sweep |
| Quorum, `quorum.cpp`, `validator.cpp` | none | `Decide`, `RequiredAgreementFor`, payload agreement | session |
| Session, `session.cpp` | identity, handshake stage, cancelled/completed sets, last window | one handler per frame: hello, benchmark, lease request, progress, partial, result, release, goodbye, signalling, assets | all of the coordinator |
| Spot checks, `spot_check.cpp` | known answers, issued probes | `Remember`, `Maybe`, `MarkIssued`, `Judge` | session |
| Reputation, `reputation.cpp` | score, streak, probation per identity | `RecordAccepted/Rejected`, `Score`, blacklisting | session, quorum policy |
| Fleet, `fleet.cpp` | last heard, caches, benchmark per identity | `Join`, `Heard`, `SweepLost`, asset holders | session, sweep |
| Sizer, `sizer.cpp`, affinity, `affinity.cpp` | none | `ComputeTaskSize`, `PreferCached` | session, job manager |
| Compositor, `composite.cpp` | latest payload per tile | `AcceptTile`, `LeastSampledTile` | session, tile scheduling |
| Store, `store.cpp` | SQLite file | `Open`, `Flush`, `LoadAll` | sweep, start-up |
| Server loop, `net.cpp`, `main.cpp` | sockets, registry, stall marks | accept, dispatch, `Sweep`, shutdown | all of the above |
| Metrics, event log, params, kernel manifests, reference check | counters, files, constants | reporting, parsing | nothing decides on them, or they are pure |

### 1.2 The worker and the wire

| component | state | operations |
|---|---|---|
| Task loop, `worker-core/task_loop.cpp` | inbox, held tasks, parked grants, pending fetch, backoff | `Poll`, frame handlers, run a task, upload, release |
| Device recovery, `worker-core/recovery.cpp` | healthy, unrecoverable | loss, release of leases, bounded re-acquisition |
| Kernel host, accumulator, asset cache, bench | GPU buffers, cached blobs | dispatch, accumulate, store |
| Protocol, `protocol/*.cpp` | none | framing, verification, invariants 1-7 |
| Transport, `transport/*.cpp` | sockets, data channels | send, receive, signalling |
| Mock worker, `mock-worker/virtual_worker.cpp` | connection, simulated task, counts | a worker of the chaos harness: poll, misbehave, count |
| Scene, `scene/bvh.cpp`, `kernels/pathtrace_tile.wgsl` | node and primitive arrays | build, serialise, load, walk |
| Web client, browser shell | presentation | |

### 1.3 How they interact

A lease request runs spot-check selection, `Grant` (queue first, fresh range
second) and then `IssueSpeculative`; a result runs lease check, checksum, `Submit`,
spot-check judgement, `Decide`, and then replica / restart / accept, and accepting
cancels the siblings of the task, feeds the compositor and the spot-check pool and
moves reputations. The sweep expires leases, declares silent workers lost and
releases what they hold, and flushes the dirty rows. A connection's end releases
the worker's leases. Restarting reads the file back into the job manager.

### 1.4 What is hard here

* orders of handlers: a lease expiring before, after or between a result, a
  release, a cancellation of a race, a departure;
* the same task passing through many hands, with the answers of all of them
  counted and none of them counted twice;
* decisions that depend on who answers last (adaptive agreement);
* a crash between any two handlers, with the file behind memory;
* group boundaries, the last range, the end of the keyspace;
* something must eventually happen: no task may be lost from the queue or wedged.

### 1.5 What makes each component correct

* job manager: the queue is exactly the waiting tasks; ranges tile the keyspace;
  a lease and its holder agree; completion is final and means every unit is
  accepted; every job completes while honest workers keep working;
* quorum: no wrong answer is accepted, no worker counts twice, nobody is charged
  without evidence;
* spot checks: the pool holds true answers only;
* store: never ahead of memory, complete once flushed, consistent by itself;
* sessions, fleet: registry, records and leases never point at what is gone;
  whoever is silent loses its leases; whoever lost a race is told;
* worker: a healthy worker asks for work for ever; nothing stays parked; a kernel
  runs with its inputs; the bytes kept under an address are its bytes;
* kernel host: a result has every unit once; no buffer is left with the driver;
* reputation: waiting launders nothing and no blacklisting is for ever;
* render jobs: every sample granted once, every pixel painted;
* frames, chunks, trees from strangers: nothing outside the buffer is read, and
  what one side makes the other accepts.

`PROJECT.json` lists, at its line of the code, everything here that is hard to test
(`hazards`), with the properties that cover it.

## 2. The modules

| module | models | how |
|---|---|---|
| `TaskState` | `task_state.hpp` | the transition function as `Advance`; an illegal edge gives a value that is no state |
| `QuorumDecide` | `quorum.cpp`, `Decide` | clusters of equal answers, first-largest cluster, the verdict |
| `JobManager` | `job.cpp` and the handlers of `session.cpp` / ticks of `net.cpp` that drive it | one action per handler outcome |
| `KeyspaceJob` | what a job promises its submitter | the abstract specification: carve, accept, announce completion |
| `Durability` | `store.cpp`, flush in `Server::Sweep`, `AdoptRecovered` | JobManager plus the file, sweeps that flush, restarts |
| `Sessions` | `session.cpp`, `fleet.cpp`, `net.cpp` | connections, identities, records, the registry, and the task queue as a session sees it |
| `Worker` | `task_loop.cpp`, `recovery.cpp`, the hosts | one worker, its socket, one peer, and the coordinator reduced to its leases |
| `KernelHost` | `RunTask` in `kernel_host.cpp` | one task, dispatch by dispatch |
| `PeerSignalling` | `task_loop.cpp`, `peer_link.cpp` | workers that fetch from one another, both ends |
| `TileRender` | the render branch of `job.cpp`, `composite.cpp` | tiles, slices of samples, snapshots, pixels |
| `MockWorker` | `mock-worker/virtual_worker.cpp` | one virtual worker with the transport's thread |
| `Standing` | `reputation.cpp`, `RequiredAgreementFor` | scores, blacklist, probation, resume tokens |
| `Bvh` | `scene/bvh.cpp`, the walk in `pathtrace_tile.wgsl` | build and serialise, or receive; load within the caps; walk |
| `Wire` | `protocol/*.cpp`, both ends of a chunk | frames and chunks with `size_t` arithmetic |
| `Sizing` | `sizer.cpp` and what feeds it | one worker's estimate |
| `Validator` | `validator.cpp`, Exact and Tolerant | one comparison |
| `MCJobManager`, `MCDurability`, `MCWorker`, `MCValidator`, `MCComponents` | instances for TLC | symmetry, or values of constants; `MCComponents` puts the nine modules that share no state side by side and looks at one of them per behaviour |
| `Erasing` | `std::erase`, `std::erase_if` | an operator on sequences, by the rank of what stays |
| `DataLemmas` | queues of ids, quotients, least members, erasing | lemmas |
| `JobManagerProofs`, `VoteProofs`, `DurabilityProofs`, `SessionsProofs`, `WorkerProofs`, `ComponentProofs`, `ContentProofs` | theorems | see section 5 |

### 2.1 JobManager

State: `task` is `tasks_` (a function from ids to records with the fields of
`struct Task` that decide anything), `queue` is `queue_`, `nextId` and `nextUnit`
are `next_id_` and `Job::next_unit`, `known` and `expected` are the spot-check
pool, `verdict` and `charged` record what an acceptance composited and whom it
charged (ghosts of the calls made to compositor and reputation table),
`dirtyTasks` and `dirtyJob` are the dirty sets.

| action | code |
|---|---|
| `GrantQueued`, `CarveFresh` | the two halves of `JobManager::Grant` |
| `IssueSpeculative` | `Grant` came back empty, then `IssueSpeculative` |
| `SpotCheckQueued`, `SpotCheckFresh` | `Grant`, then `IssueKnownRange` in its place, then `Requeue` |
| `Renew` | `OnProgress` with `request_renew`, an accepted partial upload |
| `OnRelease`, `Depart`, `SweepExpiredLeases` | release, connection end or lost worker, expiry |
| `ChecksumMismatch` | a payload that fails its checksum is given back before `Submit` |
| `RequestReplica`, `RestartValidation`, `AcceptResult` | the three outcomes of a complete result |
| `Tick` | time |

Choices made in translating:

* a request for several tasks is as many consecutive single turns of the loop;
  a grant that turns out to have no kernel spec is a grant followed by a release;
* one job; the keyspace is an interval; carving by tile (render jobs) is not here;
* a lease is the number of ticks left of it, so no clock grows;
* tasks released together join the queue in any order, because the code meets
  them in the order of a hash table;
* what `RequiredAgreementFor` returns depends on reputations, so it is any member
  of `Agreement` at each result; a singleton set is a fixed policy;
* whether a request is answered by a spot-check is a free choice (`Maybe` draws);
* a partial upload matters here only as a renewal;
* answers are checksums: equal or not. The comparison of payloads by tolerance is
  not here.

### 2.2 Durability

`row` and `rowUnit` are the file. `SweepAndFlush` is a sweep with a working store,
`JobManager`'s own sweep is one whose flush failed (rows stay dirty). `Restart`
forgets everything that is not in the file, and `Recovered` is `AdoptRecovered` on
one row. Workers keep their identities over a restart.

### 2.3 Sessions

A connection (`conn`, `ident`, `rejected`, `abusive`, `signals`) is a `Session` with
its socket data, `fleet` is `Fleet::workers_`, `live` is `Server::live_`, and
`holder` and `over` are what a session can see of the job manager. An identity is
the number of the connection that first had it; a resume token brings it to another
connection, also while the first is open, which is where the three disagree. Actions:
`Open`, `Close`, `OnHello`, `OnBenchmarkResult`, `OnLeaseRequest`, `GiveBack`
(`OnRelease`), `OnResultUndecided`, `OnResultAccepted`, `OnSignal`, `OnGoodbye`,
`OtherFrame`, `TextFrame`, `BadFrame` with eviction, and `Sweep` whole: expiry, lost
workers, pushed revokes, the stall counter, the signal windows. Which task is granted
and what a quorum decides are choices; `JobManager` has them. `over` holds the tasks that
are accepted or cancelled. Winning a race cancels the rivals that are leased; one that
waits in the queue stays there and may be granted, as in `job.cpp:789-791`.

### 2.4 Worker

One `TaskLoop`. `held`, `queue`, `parked`, `fetch`, `peer`, `resident` are `held_`,
`queue_`, `waiting_on_asset_`, `fetch_`, `peer_` and `resident_asset_`; `down` holds the frames on the
network and in `inbox_`. A step of `Poll` is an action, so callbacks of the socket, the peer and the
device fall between any two of them. A chunk is the asset's own bytes or some
other bytes; a peer may send either. `ExecuteBegins` binds what is resident then.
`FinishAssetFetch`, `RejectBytesAndRetry` and `AbandonAssetFetch` are the three ends
of a fetch, called from whichever handler the code calls them from.

### 2.5 The others

`KernelHost` has a program counter over the waits of `RunTask`; a map request is
answered, refused, or given up and answered later, and the device may be lost in any
wait, upon which the callback replaces it. The accumulator is the number of times
each candidate was evaluated. `PeerSignalling` has for each worker a link it offered
and the links it serves; signals may be lost. `TileRender` counts samples; a unit is
one sample of one tile. `MockWorker` separates the steps of `Poll` from the callbacks
and names the data race on `in_flight_` ("undefined") where they overlap. `Standing`
counts alpha and beta in quarters, the smallest severity. `Bvh` leaves the place of a
split open; a foreign blob is any node array and palette from a small set. The palette
stands for the materials: how many there are, the highest that a primitive names, whether
all kinds are known. The builder has no caps and the loader has three, so a built tree
may be refused; `main.cpp:199-204` does that at the start, with its own blob. Sizes are
counted in nodes of 32 bytes, and past `BlobLimit` (4 GB) the serialiser's sums wrap and
its copies leave the buffer ("overrun"). `Wire` reckons lengths
modulo `SizeMax`, since the browser's worker is a 32-bit program. `Sizing` counts time in
ticks and the correction in tenths, rounded down. `Validator` has any
format of a sign bit over magnitudes that are in the order of their values; the instance
of `MCValidator` is one sign bit, two exponent bits and one mantissa bit, which has zeros
of both signs, a subnormal, an infinity and a NaN.

## 3. The runs

| run | asks | instance |
|---|---|---|
| `MC_speculation` | the queue, the leases, the race at the end of a job, the refinement of `KeyspaceJob`, and that the job completes | 2 workers, 20 units in ranges of 19 and 1, agreement 1 or 2, 4 ids, fair |
| `MC_quorum` | votes of 3 honest workers and 2 liars, agreement 3, cap 4 | 2 tasks |
| `MC_spot` | spot-checks, groups and mixed agreement | 3 honest and 1 liar, 3 units, groups of 2, 3 ids |
| `MC_durability` | the file, across crashes and restarts | 2 workers, 3 ids |
| `MC_sessions` | connections, identities, registry, revokes, silence, stalls | 2 connections, 2 tasks of one race, timeout of 1 sweep |
| `MC_worker` | fetches, parking, held tasks, device loss, asking again | 2 tasks with an asset each, 2 chunks, 1 peer attempt, 2 frames under way |
| `MC_components` | nine components without common state | see below |
| `MC_recovered_queue`, `MC_requeued_sibling`, `MC_adaptive_payload`, `MC_stale_inputs`, `MC_comparison` | disagreements between code and its own text, section 6 | the smallest that shows them |

**Bounds.** `MaxTasks` bounds the ids handed out and is the only bound in a guard.
Four ids hold an original that is almost everything, a small one, and two replicas
that race it, which is what the race needs: 19 of 20 units is the first fraction
that reaches the threshold of 0.95, so speculation starts as in the code. Two workers
are enough to hold an original and its replica, and agreement of 1 or 2 puts a vote's
replicas into the same race; size 19 alone, so that the ids always suffice for the job. Five
workers exceed the cap of 4 answers, so a vote can split at the cap, restart and go
on with workers that have not answered. Three units in groups of 2 give a group cut,
a last partial group and a size larger than what is left. `LeaseTicks` is 1: a
lease is either running or out, and a renewal restores it; longer leases only add
ticks between the two. Ids are never reused within a run, so more of them repeats
the same situations with more tasks; the proofs remove the bound for what they
cover.

In `MC_sessions` the second connection may be a newcomer or the first one's identity
come back, and the two tasks are one race, so one worker can lose to the other or to
itself. In `MC_worker` two assets suffice for one fetch to supersede another, and two
chunks for a mixture of senders; `MaxDown` is the length from which nothing more is
sent. In `MC_components`: ranges of up to 4 units that begin before, at and after a
window of 5 stand for tasks around a multiple of 2^32; two workers fetch from each other with
one serving slot each; renders of 3x3 and 3x1 pixels in 2x2 tiles are clipped both
ways and have samples to share out; three tasks take the mock worker past its honest ones;
`MaxRecord` of 17 quarters reaches blacklisting, redemption and blacklisting again;
six primitives reach trees deeper than the stack of 3, trees over each of the caps (7
nodes, 5 primitives, 1 material) and one too large for the serialiser, and five foreign
nodes shared children and links out of the array; `SizeMax` of 8 makes sums wrap with every
`fb_len`; assets of 1, 2, 3 and 5 bytes in chunks of 2 have full and short last
chunks; a worker four times slower than it claims has to be learned from expiries.

**Symmetry** is over the honest workers only, and only in runs without liveness.

**Deadlock.** Every run but those of `MCComponents` and `MCValidator` checks for it: the sweep, or the host's
poll, is always enabled. In `MC_components` several parts do stop (a kernel run ends,
a tree is walked, a comparison is made).

**Fairness** (`MC_speculation`): weak fairness of the sweep (a timer that re-arms
itself, `net.cpp`) and of the clock; weak fairness of each worker's lease request
(a connected worker polls with backoff, `task_loop.cpp`); strong fairness of each
worker's results, because a lease may run out every time before the worker
delivers. Nothing is assumed of renewals, releases, corruption or departure, which
are free to happen for ever, short of preventing delivery for ever. What is claimed is completion for a
fleet that is large enough for the agreement in force: with fewer workers than
opinions needed the job stalls, which the code says itself (`net.cpp:172-189`).

`Sessions` states `SilentHolderLosesLease` and `StallReported`
with weak fairness of the sweep, the same timer. `Worker` has weak fairness of draining
the inbox, of running what is queued, of the lease and fetch timeouts and of the
lease request, all steps of a `Poll` that the hosts call every few milliseconds
(`worker-native/main.cpp`, the browser's main loop), and of the end of
a recovery, which makes a bounded number of attempts. `PeerSignalling`: the peer deadline and the reaping are in
`Poll`, and a connection's end is reported by the transport. `Standing`: the clock, and
an idle worker that asks (the same `Poll`). `Sizing` assumes nothing; its two
temporal properties carry their premises (leases that go on expiring, results that go
on coming). No fairness is assumed of the network: any signal or frame may be lost.

## 4. What the runs show

Each property is in the module of what it is about, with a comment. Several are
conjunctions of named parts, so that a violation can be narrowed down by checking the
parts; what types there are to keep is proved (section 5) and not among the properties of
the runs.

* `QueueHoldsExactlyTheQueued`, `LifecycleAtRest` (`NoWedge`, `HolderIffLeased`): no mix
  of grants, votes, expiries and races loses a task, queues it twice, leaves it in a
  state that nothing leads out of, or leaves a holder behind.
* `OneLiveReplica`: one race per original at a time.
* `ImplementsKeyspaceJob`: a cancelled task counts as done, and still no job completes
  early or takes completion back; to the outside the manager only carves, accepts and,
  once, announces. `CompleteMeansComputed`: so also after a restart.
* `NoSelfAgreement`, `NoWrongAnswerAccepted`, `HonestNeverCharged`,
  `PayloadIsValidated`: with agreement fixed at 3, two colluding liars cannot get an
  answer in, whatever the order of submissions and restarts.
* `KnownAnswersAreTrue`, `CarvingIsExact` (`OriginalsTileKeyspace`,
  `TasksStayInOneGroup`): with probes displacing grants, the pool learns only what is
  true and the keyspace is still cut without gap or overlap.
* `FileFollowsMemory` (`FileBehindMemory`, `UnflushedIsDirty`), `FileIsConsistent`
  (`FileTilesKeyspace`, `FileCancelledHasWinner`): the file may lag but never leads, every
  difference is marked for the next flush, and it is a consistent state by itself.
* `JobEventuallyCompletes`: liveness under the fairness above.
* `KeptIsReachable` (`LiveIsOpen`, `RecordIsReachable`, `LeaseHasRecord`,
  `PeersAreReachable`): with resumed identities, evictions and lost workers, what the
  coordinator keeps about a worker is reachable by a connection that is open. `RacesEnd`
  (`RevokedIsOver`, `OverIsFree`), `RevokesPushed`: what is revoked is finished, a task
  that is finished is not leased again, and whoever lost a race is told. Not that a range
  is never leased again: a sibling that waits in the queue is (section 6, item 2).
  `SilentHolderLosesLease`, `StallReported`: what the sweep owes.
* `ParkedIffFetching`, `HeldIsComing`, `AsksAgain`: the worker is never retired by an
  asset that does not come, a revoke, silence or a recovered device.
  `ResidentIsItsAddress`: nor fooled by a peer. `LeaseNotForgotten`: nor does it sit on a
  lease, the loss of its device apart.
* `ResultIsWhole`, `BuffersComeBack`: `RunTask` under timeouts and device loss.
  `FetchEnds`, `OpenedSlotComesBack`: peers.
* `RenderBooks` (`SamplesGrantedOnce`, `EvenlyGranted`, `SnapshotOnlyWhileOpen`),
  `PictureIsWhole`: renders. `ExperimentIsSound` (`TasksAccounted`, `OneTaskAtATime`,
  `SleeperEarnsTrustFirst`): the experiments' books. `WatchedUntilTrusted`,
  `BlacklistEnds`: standing.
* `BuiltTreeIsWalked` (`BuiltTreeLoads`, `OverrunIsOverCaps`, `EveryPrimitiveTested`): the
  loader refuses a built tree for its size only. `LoadedIsWalkable`: a foreign one is
  safe to walk. `FramesAgree` (`RegionsInsideFrame`, `OwnFrameComesThrough`), `ChunksAgree`
  (`ReassembledIsWhole`, `ServedIsTaken`): the wire. `OversizedLearns`, `StallForgotten`:
  sizes. `ComparisonIsSound` (`SameAgrees`, `NanNeverAgrees`, `UlpCountsSteps`): a
  payload matches itself; NaN on either side and infinity on the left match no number;
  ULPs are right between numbers of one sign. The other side and the other sign are
  items 5 and 6 of section 6.

Every property has a mutant (`PROJECT.json`): a plausible bug in a modelled
definition, defined next to it, that makes TLC violate the property.

## 5. The proofs

Every invariant and every action property that a passing run checks is a theorem, for
all values of the constants that meet the named assumptions of its module and the
hypotheses that 5.2 and 5.3 name. What the runs
check and no theorem states is liveness (5.6). All proofs are safety proofs: an inductive
invariant, one lemma per action or group of actions, and a theorem that combines them.

### 5.1 Tasks, queue, keyspace (`JobManagerProofs`)

| theorem | property |
|---|---|
| `TypeCorrect` | `TypeOK` |
| `QueueCorrect` | `QueueHoldsExactlyTheQueued` |
| `NeverWedged`, `HolderCorrect`, `LifecycleCorrect` | `NoWedge`, `HolderIffLeased`, `LifecycleAtRest` |
| `CompletionCorrect`, `CompletionFinal` | `CompleteMeansComputed`, `CompletionIsFinal` |
| `JobImplemented` | `ImplementsKeyspaceJob` |
| `CarvingCorrect` | `CarvingIsExact` |
| `OneRaceAtATime` | `OneLiveReplica` |

`IInv` is about tasks and queue: types, the lifecycle of each record (no
intermediate state, a holder exactly while leased), ids handed out in order, and
the queue enumerating the waiting tasks. The queue property alone is not
inductive: that an id pushed is not queued already follows from its task being
leased, that a new id is new follows from the order of ids, and that a release
finds a lease follows from the lifecycle. There is one lemma per action, and each
also classifies the action as one of three kinds of step: *quiet* (tasks are kept,
probes and replicas may appear), *carving* (a fresh range appears and the cursor
moves) or *accepting* (one leased task is accepted and some of its leased relatives are
cancelled).

`KInv` is about the keyspace and is proved from the three kinds alone: replicas
cover the range of a listed original, ranges lie below the cursor, every carved unit
lies in a listed task, and the range of a cancelled task was accepted from another
task. With it, a job that is exhausted and has only finished tasks has an accepted
answer everywhere, so a step that announces completion is a legal step of
`KeyspaceJob`; quiet steps stutter there, carving steps carve, accepting ones finish.
That originals do not overlap follows from each fresh range beginning at the cursor and
ending before the next boundary; that they stay in a group, from quotients
(`DataLemmas`). One replica at a time: a replica begins only where none of its original
is live, and no step brings a finished one back (by the lifecycle of the kinds of step).

### 5.2 Votes (`VoteProofs`)

| theorem | property | hypotheses |
|---|---|---|
| `OneWorkerOneVote` | `NoSelfAgreement` | none |
| `PayloadCorrect` | `PayloadIsValidated` | `FixedRequirement(n)` |
| `AcceptedAnswersAreTrue` | `NoWrongAnswerAccepted` | `FixedRequirement(n)`, `FewLiars(n)` |
| `OnlyLiarsAreCharged` | `HonestNeverCharged` | `FixedRequirement(n)`, `FewLiars(n)` |
| `PoolIsTrue` | `KnownAnswersAreTrue` | `Agreement` within {1, 2}, `FewLiars(2)` |

`FixedRequirement(n)`: the policy asks for `n` equal answers at every result, as None (1)
and Fixed2x (2) do, and `2n <= MaxReplicas + 2`, which the defaults 2 and 4 of
`quorum.hpp:54-57` meet. `FewLiars(n)`: fewer liars than `n`. They are needed: with the
adaptive policy, or a worker on probation, the requirement changes between two results of a
task and `PayloadIsValidated` is false, which is finding 3 of section 6.

*Ballots*: whoever submitted to a task is in its `prior`, and `prior` outlives the
answers, so a worker that is offered the task again is refused; that makes one
submission per worker and task. *Undecided*: with a fixed `n`, no cluster of the answers a task has
kept has reached `n`, or the task would have been decided at that result. So the result that decides makes its own cluster the
largest, the submitter is one of those who agree, and the payload composited is the one confirmed. With fewer than `n` liars, a cluster of `n` voters has an honest one, honest
workers answer the truth, so the winning answer is true and whoever is outvoted lied.
The pool needs less: `Remember` takes only what two workers gave, so as long as every
requirement is one or two, no answer had two votes before the result that decides, what the
pool learns is the answer just confirmed, and with at most one liar it is true.

### 5.3 The file (`DurabilityProofs`)

| theorem | property | hypotheses |
|---|---|---|
| `FileCorrect` | `FileFollowsMemory` | none |
| `LifecycleSurvivesRestart` | `LifecycleAtRest` | none |
| `OneVoteSurvivesRestart` | `NoSelfAgreement` | none |
| `FileConsistent` | `FileIsConsistent` | `SpotChecks = FALSE` |
| `CompletionSurvivesRestart` | `CompleteMeansComputed` | `SpotChecks = FALSE` |

These are about `Durability`'s specification, where a restart may fall between any two
handlers and a flush may fail. `FInv`: a row reads as what its task was at the last flush,
and where the two differ the task is marked. An upsert writes only some columns, so the
invariant has it that range and origin of a task never change once it has a row. `DInv`
says twice, once of memory with the cursor in memory and once of the file with the cursor
in the file, that every carved unit lies in a listed task and that a cancelled task's range was
accepted from another. Both halves are needed: a flush makes the file what memory is, a
restart makes memory what the file is. With spot-checks neither theorem is claimed: a probe's row comes back as an ordinary
task of the job (`job.cpp:142`, noted at the hazard of recovery).

### 5.4 Sessions, workers, frames (`SessionsProofs`, `WorkerProofs`, `ComponentProofs`)

| theorem | property | theorem | property |
|---|---|---|---|
| `TypeCorrect` (Sessions) | `TypeOK` | `HostTypes` | `HostTypeOK` |
| `NothingDangles` | `KeptIsReachable` | `BuffersAlwaysComeBack` | `BuffersComeBack` |
| `RacesHaveOneEnd` | `RacesEnd` | `LinksBelongToFetches` | `LinkIsForFetch` |
| `RevokesArePushed` | `RevokesPushed` | `OldTokensAreDead` | `NewestTokenOnly` |
| `NobodyLeftParked` | `ParkedIffFetching` | `FallenAreWatched` | `WatchedUntilTrusted` |
| `PeersBelongToFetches` | `PeerOnlyWhileFetching` | `NothingOutsideFrame` | `RegionsInsideFrame` |
| `ResidentBytesAreGenuine` | `ResidentIsItsAddress` | `OwnFramesComeThrough` | `OwnFrameComesThrough` |
| `HeldTasksAreComing` | `HeldIsComing` | `FramesAreAgreed` | `FramesAgree` |
| `NoLeaseForgotten` | `LeaseNotForgotten` | | |

In `SessionsProofs` the parts are inductive together and not one by one:
that a sweep may forget a record needs the registry to be right about who speaks for it, that a lease has a
record needs the close of a connection to release before it forgets, and that no
finished task is leased needs revokes to name finished tasks only. `RacesHaveOneEnd` is
about tasks, not ranges: it says nothing of a sibling that waited in the queue.

In `WorkerProofs`, `FetchInv` types the fetch and its neighbours; the three ends of a fetch have a lemma
each, and every handler is one of them or leaves the fetch alone. `LeaseInv` adds the
leases: what is held is queued or running, nothing is leased to a worker that is off, and every revoke on its
way (`Regranted`) is of a lease the coordinator has no more, or has granted again in a
frame behind that revoke. The last part is what `LeaseNotForgotten` rests on: without it
a worker could drop, at a late revoke, a lease it has been given since. `std::erase_if`
on the queue is `Erased`, since the provers know nothing of `SelectSeq`, a recursive
definition.

`ComponentProofs` proves each property from a small invariant of its module (whoever
fell is barred, or has not asked since, or is on probation; a frame is accepted exactly if
all eleven checks pass, and below the limit the sum of step 6 does not wrap).

### 5.5 What is handed on (`ContentProofs`)

| theorem | property | invariant |
|---|---|---|
| `ResultsAreWhole` | `ResultIsWhole` | each candidate of the dispatches done was evaluated once, no other, while the device is the task's own |
| `ChunksAreAgreed` | `ChunksAgree` | chunks are a partition by division; what is put together is a prefix |
| `LoadedTreesAreWalkable` | `LoadedIsWalkable` | a node reached was reached from its one parent, which is taken |
| `BuiltTreesAreWalked` | `BuiltTreeIsWalked` | `Laid`, `Covered` |
| `RendersBookRight`, `PicturesAreWhole` | `RenderBooks`, `PictureIsWhole` | samples by tile and slice; the tiles partition the pixels |
| `VerdictsAreSound` | `ComparisonIsSound` | a verdict is that of the payloads looked at |
| `ExperimentsAreSound` | `ExperimentIsSound` | one outstanding request, each task granted once, every task in one column |

`VerdictsAreSound` is for every format that meets `FormatAssumption` (magnitudes below the
infinity are in the order of their values); the steps between two numbers of one sign are
counted by a bijection with the magnitudes between theirs. It leaves out what the code
gets wrong, an infinity on the right and distances across zero.

`BuiltTreesAreWalked` is for scenes of any size and caps that meet `CapsAssumption` (what
they allow is smaller than 4 GB, as with 8M nodes, 4M primitives and 64K materials): the
loader takes a built tree if and only if it is within the caps. The tree of the builder has the longest argument. `Laid(d, o)` has a depth `d` for each node
and an owner `o` for each primitive: a node whose call is to come is blank and owns the
range of the call, a finished leaf owns what it lists, an inner node owns nothing and its
children are one deeper. Both functions are grown with the tree, by a witness at each
split, so nothing has to be defined by recursion; that the loader's recursive depth is
`d` is shown by the least node where they would differ (`LeastMember`, from the
library's facts on well-founded relations). `Covered(d, o)`: a primitive was tested as often as
its owner was taken; the entry at height `k` of the stack is a node at depth `k` or deeper,
so a tree no deeper than the stack never overflows it; and what was not taken is on the
stack or under something not taken.

Invariants were model-checked on small instances before they were proved; `TreeInv` with
`d` and `o` sought among all functions, on scenes of up to 3 primitives.

### 5.6 What is only model-checked

* Liveness, which the prover does not do: `JobEventuallyCompletes`,
  `SilentHolderLosesLease`, `StallReported`, `AsksAgain`, `FetchEnds`,
  `OpenedSlotComesBack`, `BlacklistEnds`, `OversizedLearns`, `StallForgotten`.
* Votes under requirements that change between two results of a task, where what holds
  depends on the mix (`MC_spot`, `MC_adaptive_payload`).
* What `KernelHost`, `Wire` and the others say of one another: they share no state here.

## 6. Where the code and its text disagree

Six are found by TLC in five runs that it must find violated (`findings` in
`PROJECT.json`); 5 and 6 are the two elements of one comparison:

1. `MC_recovered_queue`: a task that was Queued when the process died comes back
   Queued and in no queue (`job.cpp:132`); it is never granted again.
2. `MC_requeued_sibling`: a speculative sibling that is back in the queue when the
   race is won is not cancelled, since Cancel is not legal from Queued
   (`job.cpp:789`), and a finished range is handed out again.
3. `MC_adaptive_payload`: the agreement needed is that of the last submitter, and
   the payload used is the last to arrive (`session.cpp:1361-1365`, 1484). A worker of
   whom two answers are required answers and waits for a replica; a trusted one, of
   whom one is required, answers otherwise; of two clusters with one vote each the first
   is taken, and accepted; the second worker is charged, and its payload composited.
4. `MC_stale_inputs`: a task is queued because its asset is resident; a second grant,
   under way because `lease_requested_at_` is never assigned and its timeout has
   therefore always passed (`task_loop.cpp:205`), fetches another asset into its
   place; the kernel of the first is dispatched without its inputs
   (`task_loop.cpp:1748`), which the code calls a process abort.
5. `MC_comparison`: with an infinity on the right the allowance is infinite too
   (`validator.cpp:133-135`), so it agrees with every number, against
   `tests/unit/test_validator.cpp:173`, which tries the left only.
6. `MC_comparison`: `to_ordered` puts negatives above positives
   (`validator.cpp:38-43`, against 24-25), so neighbours of zero are about 2^32 ULPs
   apart. The figure decides how hard a dissenter is charged (`reputation.cpp:13-20`).

The others were met while modelling. They are notes of the hazards in
`PROJECT.json`, and the models have them as behaviours:

* job manager: probes come back from the file as ordinary tasks of the job
  (`job.cpp:142`); a replica can be granted to the worker that computed its original
  (`job.cpp:194`); the completion fraction ignores ranges won by a replica
  (`job.cpp:689`); with mixed requirements a one-one split is decided for whoever
  was first and the other worker is charged (`session.cpp:1425`, against 1400-1402).
* sessions: the close of an old connection ends the leases of the identity's new one
  (`session.cpp:1559`); the loser of a race is answered LeaseNotHeld, against
  `session.cpp:1117-1122`.
* renders: `AcceptTile` replaces although a tile's samples are carved into several
  tasks (`composite.cpp:86`); a new holder's snapshots are refused until its sequence
  passes the old one's (`job.cpp:398`); a cancelled sibling's snapshot is kept, since
  only `Finish` erases (`job.cpp:513`).
* worker: a parked task that was resumed is not in `held_` and is dropped unreleased
  when the device is lost, and `OnDeviceLost` walks `held_` while `SendRelease`
  erases from it (`task_loop.cpp:1804`); late chunks of a superseded fetch are taken
  for the new one; a corrupt chunk kept over a peer's timeout spoils the fallback to
  the coordinator once (against the comment at 1581-1583); neither host reconnects.
* peers: an accepted link that never opens keeps its slot (`task_loop.hpp:342`); an
  answer of a peer that is also being served is dropped (`task_loop.cpp:1327`).
* kernel host: the device is replaced inside the callback, so the check at
  `kernel_host.cpp:787` passes and the next dispatch aborts; a task across a
  multiple of 2^32 keeps its `base_hi` (`kernel_host.cpp:795-799`).
* standing: between the end of a cooldown and the next request a worker is neither
  barred nor on probation (`quorum.cpp:200-207`); no code writes or reads back the
  reputation rows.
* sizes: the prediction leaves out the throttle that the size has (`session.cpp:848`),
  and one slot of prediction serves all tasks in flight.
* tree: the loader does not bound the depth, and the walk passes over what does not
  fit its stack (`pathtrace_tile.wgsl:298`); parser and builder have none of the
  loader's caps (`bvh.cpp:357-368`), and the serialiser's 32-bit sums wrap at 4 GB
  before the loader is asked (`bvh.cpp:299-306`).
* mock worker: `in_flight_` is emptied on the transport's thread
  (`virtual_worker.cpp:132`); a request that is never answered is never repeated.

## 7. Plan

The modules of section 2 are done. Left, in this order:

1. Proofs: that `Durability`, restarts included, still implements `KeyspaceJob` up to
   the ranges a restart computes again; the votes under an adaptive requirement, as far
   as they hold.
2. Tolerance clusters and policy None in `QuorumDecide`.
3. Probes in the file (`MC_durability` runs without them).

## 8. Not modelled, and why

* Kernel arithmetic, the Statistical comparator and the reference renderers: floating
  point over whole images, without shared state.
* Manifest and scene parsing, parameter layout, and the field checks of
  `invariants.cpp` that are single comparisons.
* What is inside WebGPU, WebRTC, uWebSockets, FlatBuffers and SQLite; the models have
  what the code may be told by them.
* Metrics, event log, dashboards, HTTP routes and the web client: nothing decides on
  them. Benchmarks and checksums: pure.
* Several jobs at once: they share ids and the queue only, and no handler looks from
  one into another.
* The reputation rows of the store, which no code of the program writes or reads.
