# A TLA+ verification project for BetterScale

BetterScale serves Qwen3.5 on Ascend NPUs along two routes.  The *live* route
(`src/src/betterscale/live/`) is a serving host of its own: an asynchronous
ingress, a completed-wave scheduler, a table of resident seats that keeps
conversations hot, and a live root that owns state, graphs and their
lifecycle.  The *production* route (`models/`, `patches/`) changes a native
engine that is not part of this repository: resident leases around its
scheduler, fair prefill, and banked publication of step metadata from the host
to the device.

This directory holds modules that model those protocols, TLC runs that check
them on small instances, and TLAPS proofs of what holds for every capacity.
Paths below are relative to `src/src/betterscale/`.

Contents: [inventory](#inventory) · [modules](#the-modules-and-the-code) ·
[runs](#the-runs) · [bounds](#bounds) · [fairness](#fairness) ·
[proofs](#proofs) · [limits](#what-is-not-modelled) · [plan](#plan)

## Inventory

### The live serving host (`live/llm/qwen35/`)

| component | state | operations | hard behaviour | what makes it correct |
|---|---|---|---|---|
| resident table (`residents.py`) | per seat: tokens, pages, incarnation, request, touched, salt; a stack of free pages; a sequence and a generation | `acquire`, `can_reserve`, `reserve`, `commit`, `finish`, `evict` | `clear_seat` may raise inside an eviction; leases outlive their request, seat or table; reservation at the limit of the pool | pages are partitioned, tokens are covered by pages, a lease that resolves sees only its own history, a hot hit is an exact prefix under the same salt |
| completed-wave scheduler (`scheduler.py`) | `waiting`, `active`, `results`, `keys`, `pressure_drain`; per request the saved output, progress, age | `submit`, `cancel`, `tick`, `close` | recompute preemption, requeueing, batching by family, failure in the middle of a tick | every request streams a prefix of its greedy answer and ends; first come, first served; no lease leaks; no step starves |
| generation protocol (`generation.py`) | position of a coroutine: pages, draft, propose, verify, repair; per-seat continuation state | the steps it yields; clean-up when it is closed | closing at any yield point; anchor, cursors and tokens of one seat must move together | the continuation state always belongs to the committed history |
| ingress (`ingress.py`, `http.py`) | command queue, futures, stream offsets, the pump task | `submit`, `cancel`, one pump turn, shutdown; followers replay commands | cancel racing completion; ranks in lockstep; delivery from snapshots | one answer per future, streams equal the committed output, ranks decide alike |
| live root (`root.py`, `graphs.py`, `state.py`, `execution.py`, `gdn_candidates.py`, ...) | state tensors, captured graphs | bind, clear a seat, execute a wave | rebinding replaces the table; candidate rows of recurrent state | numerical, mostly outside this method |

The ingress has one writer: an event loop in which `submit` and `cancel` run
between ticks.  A tick of the scheduler calls the table (`acquire`,
`can_reserve`, `reserve`), resumes generation protocols, which call `commit`
and, on every way out, `finish` or `finish` and `evict`, and hands one family
of steps to the live root, which writes through the page maps the protocols
captured.

### The live runtime (`live/core/`, `live/runtime/`)

| component | state | operations | hard behaviour | what makes it correct |
|---|---|---|---|---|
| LiveModule (`live_module.py`) and invocations (`invocation.py`) | phase, active invocations, generation | activate, admit, retire, poison, close | two invocations failing together; close racing work | close is reached; a poisoned module admits nothing; nothing is retired twice |
| host state transfer (`host_state.py`) | snapshots with pins, keys in flight, committed bytes | offload, restore, release, observe a handle | the lock is given up before the copies are enqueued; an enqueue that raises with copies on the stream; a release while a restore reads | the newest State of a request is never lost; no completion finds its snapshot gone; the budget |
| state planning and capacity (`state_tensor.py`, `state_backend.py`, `grouped_state.py`, `capacity.py`, `memory.py`) | plans, extents, agreed capacity, device bytes | plan, calibrate, size, agree, allocate | ranks with different memory, any of which fails to allocate while the others wait | ranks agree on one capacity each can hold, nobody is left in a collective, the memory floor holds |
| graph capture (`graph_backend.py`) | census of warmed programs, pools, metadata programs, executions, calibration handoffs | warm up, capture, retain, replay, close, retire a generation | captures and resets that raise; buffers that outlive their capture; a census keyed by a reusable identity | what a backend owns is accounted for exactly; a captured program was warmed |
| shadows, metadata values, pipeline (`shadow.py`, `meta_tensor.py`, `pipeline.py`, ...) | tensors and plans | replay, partition | torch dispatch | outside this method |

### The production route (`models/qwen35/`, `patches/`)

| component | state | operations | hard behaviour | what makes it correct |
|---|---|---|---|---|
| resident leases (`resident_leases.py`, `seat_scheduler.py`) | seats with owner, epoch, fence, frontier; pending hot publications | offer, claim, retire, publish, invalidate, evict, discard | frames in flight after a request finished; offers that go stale | no seat is taken before its last queued frame retired; a claim finds what was offered |
| prefill round robin (`prefill_round_robin.py`, `fair_schedule.py`) | ring of requests, grants | plan, prepare, rotate | a head the native allocator rejects; decodes first | every prefill gets its turn; budgets are kept |
| banked publication (`patches/qwen_gdn/publication.py`, `patches/qwen_fia/wave.py`) | two frames per shape, uploaded and consumed events | acquire, publish, release | host, copy and compute streams | no bank is overwritten before its consumer, no source before its upload |
| banked host sources (`patches/async_decode/`, `patches/cross_step/`) | source banks with their events, producer slots, an admission, a deferred receipt | enter and leave a preparation, update, prepare (natively or on a slot), build, launch, correct | host tensors corrected while a copy reads them; three streams; preparations that raise | every wave reads the inputs and the metadata of its own step; the host's bound covers the device's progress |
| state addressing, kernels, remaining patches, launch | addresses, device buffers | | device kernels | outside this method |

`PROJECT.json` lists every component with its files and status, and the
hazards: the places in the code where something can go wrong that a test would
hardly reach, each with the properties that watch it.

## The modules and the code

| module | models | role |
|---|---|---|
| `ResidentTable` | `live/llm/qwen35/residents.py` | the table as a record, each method as an operator on it |
| `ResidentLeasing` | the table with arbitrary callers | state machine, invariants, action properties |
| `CompletionService` | what a client is promised | abstract specification |
| `LiveScheduler` | `scheduler.py`, `generation.py` over `ResidentTable` | state machine; refines `CompletionService` |
| `LiveSchedulerProofs` | | TLAPS lemmas about `ResidentTable`, what each method leaves behind and keeps, and proofs about `ResidentLeasing` and `LiveScheduler`: what their states keep and what clients are promised |
| `Ingress` | `ingress.py`, the handlers and rank loops of `http.py` | state machine; the scheduler reduced to what the ingress sees |
| `IngressProofs` | | TLAPS proofs about `Ingress` |
| `LiveLifecycle` | `live/core/live_module.py`, `live/runtime/invocation.py`, `live_graph.py` | state machine of phases, generations and invocations |
| `GraphBuilds` | `live/runtime/graph_backend.py` | what one rank's graph backend owns, each method an operator on it |
| `Activation` | `activate` and `close` of `live_module.py`, `state_backend.py`, `capacity.py`, `memory.py` over `GraphBuilds` | state machine of one generation on several ranks |
| `ActivationProofs` | | TLAPS lemmas about `GraphBuilds`, what each method of the backend keeps, and proofs about `Activation` and `LiveLifecycle` |
| `HostState` | `live/runtime/host_state.py` | state machine of the backend, the device copies and contract-keeping callers |
| `HostStateProofs` | | TLAPS proofs about `HostState` |
| `Containers` | Python's lists and dicts | filter, sort, remove and set an entry, as functions |
| `ResidentLeases` | `models/qwen35/resident_leases.py` | the pool of seats and the frontier as values, each method an operator |
| `PrefillRing` | `models/qwen35/prefill_round_robin.py` | the grants of one scheduling attempt and the rotation |
| `SeatScheduler` | `models/qwen35/seat_scheduler.py`, `fair_schedule.py`, `state_address.py`, `state_slots.py` over the two | state machine of the production scheduler with queued frames |
| `SeatSchedulerProofs` | | TLAPS proofs about `SeatScheduler`: its types, seats, pages and turns |
| `SeatCheckpointProofs` | | TLAPS proofs about `SeatScheduler`: what the device holds; extends the former |
| `WaveMetadata` | what the publication promises the model runner | abstract specification |
| `FrameBanks` | `patches/qwen_gdn/publication.py`, `patches/qwen_fia/wave.py` | state machine of the host and two device streams; refines `WaveMetadata` |
| `FrameBanksProofs` | | TLAPS proofs about `FrameBanks` |
| `HostSources` | `patches/cross_step/`, `patches/async_decode/` | state machine of the host, the ingress and the compute stream; refines `WaveMetadata` |
| `HostSourcesProofs` | | TLAPS proofs about `HostSources` |
| `MCResidentLeasing`, `MCLiveScheduler`, `MCSeatScheduler`, `MCActivation`, `MCHostState` | | instances for TLC (the other cfgs give plain values and need none) |

**ResidentTable.** A table is a record `[seats, free, generation, sequence]`.
`Acquire`, `Reserve`, `Commit`, `Finish` and `Evict` return the table the method
leaves behind, so that a caller that makes several calls in one step composes
them; `AcquireAccepts`, `ReserveAccepts`, `CommitAccepts` and `Resolves` say
which calls do not raise.  `FailedEvict` is an `evict` in which `clear_seat`
raises: the identity has been erased and the incarnation advanced, but the pages
have not been returned.  The stack of free pages is a set, because which free
page a reservation gets is never observed; the pages of a seat stay a sequence.
`reserve` evicts coldest-first until the pool covers the need; `Shed` says the
same declaratively: an idle seat with pages goes if the free pages and the pages
of all colder victims do not suffice.

**ResidentLeasing.** The table under every order of calls.  A caller is what it
was told and did: its lease, the tokens its continuation holds, the pages it may
write through.  Every method of every lease ever handed out may be called at any
time; one that does not resolve is refused, as `_resident` does.  Clears fail
wherever they happen, and the whole table may be replaced (`_rebind_live_state`
in `execution.py`) while callers keep their leases.

**LiveScheduler.** One tick is taken apart into its loop iterations by `phase`:

| phase | code in `Scheduler._tick` | actions |
|---|---|---|
| `idle` | between ticks | `Submit`, `Cancel`, `Close`, `BeginTick` |
| `admit` | the admission loop | `Admit`, `AdmitFails`, `AdmissionDone` |
| `consume` | replies sent to the protocols | `Start`, `Follow`, `CommitPrefill`, `Verify`, `CommitRepaired`, `ConsumptionDone` |
| `reserve` | page requests, oldest first | `ReservePages`, `Preempt`, `ReserveFails`, `PreemptFails`, `ReservationDone` |
| `batch` | one family of steps | `Wave`, `WaveFails` |
| `failed`, `closed` | an exception left the tick; after `close()` | `Close` |

`req[k].point` is the `yield` at which `generation_steps` of request `k` is
suspended.  The language model is a constant operator, `Greedy`: the token that
follows a sequence.  Per seat, `anchor` is the prediction the last target step
left in the continuation state, and it stands for all of that state: anchor
token, draft cursor, hidden seeds.  How many draft tokens agree with the target
is nondeterministic (`\E n \in 1 .. width`).  When a protocol ends, or is closed
by `cancel` or a preemption, its lease is finished (and its seat evicted) in the
same step, as the `except` and `finally` blocks of `generation_steps` do.

**Ingress.**  An event loop runs one coroutine up to its next `await`, so each
action is the code between two awaits:

| code | actions |
|---|---|
| `Ingress.execute` up to `await future`, and from there on | `Execute`, `Resume` |
| `events()` of `http.py`: the wait, the send, the check behind the loop | `Watch`, `Sent` |
| a handler without a stream; a disconnect | `Answer`, `Disconnect` |
| one turn of `Ingress.pump`, its failure, its rest | `PumpTurn`, `PumpFails`, `PumpRest` |
| the `finally` of the leader, the loop of a follower | `Shutdown`, `Follow` |

The leader obeys a submit at once and a cancel in the next turn; a follower obeys
both when the batch arrives.  A batch carries, for the property `LockStep` only,
the state in which the leader's tick starts.  A cancelled task whose future already
has its result is "overtaken": the cancellation wins and the result is dropped,
as `asyncio` does.  Of the scheduler only `submit`, `cancel` and `tick` remain,
with admission in order and tokens counted; a wave is any subset of the running
requests, the same on every rank because collectives join them.

**LiveLifecycle.**  A root and its children.  Every public call is one action,
with whatever it raises, because it runs under the lock of its module: `activate`
(`Activate`, `ActivateFails`, whose rollback may leave hooks behind that raised),
`invoke` (`Invoke`), the steps of an invocation (`ShadowReplay`, `Replay`,
`Retire`, each of which may `Abort`), and `close`, which has five ways to end:
nothing was ever activated (`CloseCreated`), the module is a member of its
parent's generation (`CloseMember`), a graph raises (`CloseFailsInGraph`), a hook
raises (`CloseFailsInHook`), or all is released (`CloseDone`).  A generation is
numbered by the attempt to activate that made it; graphs, bound states and the
resources of hooks each remember the generation they belong to, which is what
the properties compare.

**GraphBuilds, Activation.**  `LiveLifecycle` takes `activate` as one step;
`Activation` takes it apart, on every rank of a capacity group.  `pc` of a rank is
where its thread is:

| pc | code | actions |
|---|---|---|
| `start`, `planning` | plain: `realize_state` plans, the units are agreed | `Plan`, `PlanFailed`, `Realize`, `RealizeFailed` |
| `start`, `calibrating` | fitting: State of the minimum size, a vote | `Calibrate`, `CalibrationFailed`, `CalibrationAgreed` |
| `initialize`, `warm`, `capture` | hooks, warm-up of the portfolio, its captures | `Initialize`, `Warm`, `Capture` |
| `retain` | fitting: calibration executions retired, inputs and native graphs kept | `Retain` |
| `size`, `sizing` | `realize_state_fitting`: the State sized from what the driver calls free, a vote | `Size`, `SizeFailed`, `SizeAgreed` |
| `allocate`, `allocating` | the State allocated, the floor looked at, a vote | `Allocate`, `AllocateFailed`, `AllocationAgreed` |
| `rebind`, `recapture`, `settle` | the portfolio captured again, the floor looked at once more | `Rebind`, `Capture`, `Settle` |

Any of it may raise (`BuildFailed`); a rank that waits for one that left times out
(`PeerTimeout`); both end in `RolledBack`, where the reset of a native graph may
raise too.  A collective is a sequence of votes per rank, so that a rank that
leaves early simply has fewer.  `Restart` is a next generation in the same
processes: their graph backends stay.  `GraphBuilds` is what such a backend owns;
device bytes follow from it, with an allocator that caches what is released.
`warmed` notes the attempt that warmed a program, where the code has a set of keys.

**HostState.**  A lock covers `offload`, `restore`, `release` and the observation of
a handle, but is given up before the copies are enqueued: `Offload` and `Restore`,
`Enqueue` or `EnqueueRaises`, `Copy` (the device), and `Finish` are steps of their
own.  An enqueue that raises may leave copies of some lanes on the stream
(`orphaned`), which still run.  The callers are external; they keep what the
class asks of them: the device lease of a source until its offload is terminal, a
destination unpublished until its restore is.  They may release too early, which
the backend must refuse.  A State is a request and a version, so that an older
copy is told from the newest one.

**ResidentLeases, PrefillRing, SeatScheduler.**  `ResidentLeases` is a pool
`[seat, order]`; `Offer`, `Claim`, `Discard`, `Transferred`, `Retire`, `Invalidated`
and `Evicted` return the pool the method leaves behind, `Advance` and `Checkpoint`
are the frontier's.  A fence is the number of queued frames that may still write
the seat.  `PrefillRing` is the plan: decodes first, then one turn of the ring.  Both
take their lists and dicts from `Containers`.
`SeatScheduler` is a scheduling attempt of the native engine with the repository's
hooks in it, taken apart into loop iterations:

| phase | code | actions |
|---|---|---|
| `idle` | between attempts | `Arrive`, `Abort`, `ResetPrefixCache`, `UpdateFromOutput`, `BeginSchedule` |
| `schedule` | running requests, oldest first | `ScheduleRunning`, `EvictForRunning`, `PreemptLast` |
| `schedule`, `allocate` | waiting requests: offer, discard, allocate, claim | `ConsiderWaiting`, `Admit`, `EvictForWaiting`, `RejectWaiting` |
| end, `collect` | the frame is queued; an empty one waits for a result | `EndSchedule`, `UpdateFromOutput` |

`attempt.next` is where the loop over the running requests stands; it passes over
requests that may have no token (`ToServe`) without a step.  The loop over the waiting
requests moves those without a grant to the native skipped queue (`PassedOver`), which
the next attempts visit first: `waiting` lists both queues, `skipped` says who is in it.  Up to `Depth` frames are
queued.  `device` is what the worker's state of a seat
holds, as tokens: it clears a seat of another epoch, accepts a run of drafts, and
stops writing at the output limit where the row runs as a verify row (`VerifyRole`).  `UpdateFromOutput` runs the oldest frame and
gives its result to the native scheduler and to the frontiers.  The native engine
is external; its module header names what is taken from it.

**FrameBanks.**  The host runner publishes the metadata of a wave
(`_build_attention_metadata`: `Publish`), prepares the FIA frame of a full graph
(`Prepare`), and launches the forward (`Launch`), which may raise with some of
its kernels launched (`LaunchFails`).  The device is two streams, sequences of
what was put on them, that run in order and at their own pace.  An event is the
number of the work it was recorded behind: `uploaded` of a frame is waited for by
the host before it fills the pinned source again (`Reusable`) and by the forward;
`consumed` is waited for by the next copy to the slab (`Consumer`).  Source and slab
have two halves and a copy and a forward take two steps, so that data which
changes under them is seen torn.  Warm-up and capture choose their bank, and a
dummy wave does not alternate: both are the choice of `b` and `dummy` in `Publish`.

**HostSources.**  The host prepares one wave after the other; `runner.at` is where it
is between two calls of the native runner:

| at | code | actions |
|---|---|---|
| `idle` | the preparation scope opens: `HostSourceSlots.scope`, natively `synchronize_input_prep` | `Enter` |
| `entered` | `_update_states` with `CrossStepBounds.update_states` | `Update`, `UpdateDeferred` |
| `updated` | `_prepare_inputs` with `correct_bounds`, or `DecodeProducer.prepare` | `PrepareNative`, `PrepareOnSlot`, `PrepareDummy` |
| `prepared`, `built` | `DecodeMetadata.build`; the scope closes | `Build`, `Leave` |
| `ready`, `launched` | `model_forward`: the target is enqueued, then the receipt | `Launch`, `Correct` |
| `sampling` | the native sampler | `Sample`, `DummyDone` |
| any | exceptions in the scope, in the forward | `Fail`, `LaunchFails` |

The TP route has `cross_step` alone over the native tensors; the DP route has two
banks, the producer and dummy waves as well, and fences of its own.  `compute` and
`ingress` are the two streams: what was put on them, and how far they are.  An event
is a place on a stream.  A copy compares what it was meant to find in its bank with
what it finds when it runs, so that a source changed too early shows.  The number of
accepted tokens is chosen when the sampler runs on the device; the host knows it
with the receipt.  `slack` is what `reference_begin` asserts of it, without the
synchronisation that makes the assertion cheap to hold.  The fences of the slots'
pinned halves (`ready.synchronize`) turn out to be implied by the wait for the
receipt: without them nothing goes wrong in the model.

**WaveMetadata** says what the runner relies on: waves are submitted, and each in
turn computes with its own metadata.

**CompletionService** is what all of it must look like from outside: a key is
submitted, streams a growing prefix of one fixed answer, and ends with the whole
answer or cancelled.

## The runs

| run | instance | properties | shows |
|---|---|---|---|
| `resident_leasing` | 2 seats, 3 pages of 2 tokens, 3 requests (two of one prompt family, two salts) | `PageOwnership`, `TokenCoverage`, `LeaseIntegrity`, `IdentityStable`, `LiveSeatKept` | the table is sound under every order of calls, failed clears, stale leases and rebinds |
| `live_scheduler` | 2 seats, 3 pages of 2 tokens, 3 requests whose horizons do not fit together | `LeasesMatch`, `CallsAccepted`, `HotIsAnswered`, `ReadyBound`, `IsService` | caching, batching, speculation, preemption, cancellation and failures are invisible to clients |
| `live_scheduler_contention` | 3 seats that may all run, 3 pages, short and long requests, under `FairSpec` | `FirstComeFirstServed`, `HistoryExact`, `EveryRequestEnds` | requests that preempt one another, one of them twice, keep their order and output, and all end |
| `ingress` | 3 tasks, one of them streamed, queue of 2, 1 execution seat, answers of 2 tokens, one follower, under `FairSpec` | `LockStep`, `ExactStreams`, `EveryTaskEnds`, `OrphansLeave` | ranks decide alike, streams lose and repeat nothing, no wake-up is lost, every client gets an answer and an orphan leaves every rank, whatever clients do and when the pump fails |
| `ingress_streams` | 1 streamed task | `StreamsEndExact` (violated) | a stream can be refused although its answer is complete; see below |
| `live_lifecycle` | a root and a child, 3 attempts to activate, 3 invocations | `GenerationWhole`, `NoHookForgotten`, `OwnGeneration`, `FailStop` | whatever raises and however often a close is tried, generations are whole or gone, nothing leaks, invocations keep theirs |
| `live_lifecycle_abort` | the same | `NoInvocationStuck` (violated) | a second failing invocation is stuck; see below |
| `frame_banks` | 2 capacities, 4 waves, under `FairSpec` | `SourceKept`, `SlabKept`, `OwnMetadata` | both fences hold, every forward reads its own wave, and the waits never form a circle |
| `host_sources` | 2 drafts, slots for 1 and 2 requests, 4 waves of any kind, both routes, under `FairSpec` | `BoundCovers`, `OwnInputs` | the deferred receipt is corrected neither too early nor twice, no copy or target finds another wave's inputs, and the fences never form a circle |
| `activation` | 2 ranks with devices of 14 and 16 bytes, 3 graphs of which two share everything, 2 generations, fitting or plain | `SameUnits`, `NobodyAbandoned`, `WarmedFirst`, `OwnedExactly`, `FloorKept` | whatever fails on which rank, capacities agree, votes are never missed, the floor holds and nothing is left over |
| `host_state` | 2 requests of 2 and 3 bytes, a budget of 4, 2 selections of blocks, 4 transfers | `NothingLost`, `CompletionSound`, `BudgetAlone` | State survives every order of transfers, releases and raising enqueues |
| `seat_scheduler` | 3 requests of one family, 2 seats, 5 pages of 3 tokens, 2 queued frames, one abort or reset, fair attempts | `OneWriter`, `NothingRaises`, `CheckpointExact`, `PagesExact`, `OneTurn`, `EveryRequestEnds` | queued frames, speculation, eviction and preemption never corrupt a resident, lose a page or starve a request |

What the properties say:

- `PageOwnership`: every page is free or belongs to one seat, once, although a
  failed eviction leaves pages on a seat without identity.
- `TokenCoverage`: committed tokens lie in the seat's pages, and a hot seat has
  no page beyond them.
- `LeaseIntegrity`: while a lease resolves, its seat holds exactly the promised
  prefix and what its caller committed, still maps every page the caller writes
  through, and no second caller resolves there.
- `IdentityStable`, `LiveSeatKept`: within one incarnation tokens only grow,
  stay in their pages and keep their salt; a running request's seat is not taken.
- `LeasesMatch`: the live seats of the table are exactly those of the active
  requests, one each, until `close`.
- `CallsAccepted`: the table refuses no call the scheduler makes; in particular
  a commit always fits the pages that were reserved ticks before, with the
  lookahead of speculation, and `can_reserve` and `reserve`, which count pages by
  different code, agree.
- `FirstComeFirstServed`: nothing that waits is older than anything that runs, also
  after a preemption.  The comment "the oldest request can always progress alone"
  depends on it.
- `HotIsAnswered`: an idle seat keeps tokens only as the whole history of a request
  that was answered, under its salt.  A protocol closed before its end may have run a
  step that nobody committed; what it held is finished and evicted.
- `HistoryExact`: across preemptions, streamed tokens are the saved output and
  what was emitted since, and the seat's tokens are the part recomputed so far.
- `ReadyBound`: at most `execution_seats` waves pass before a ready step runs.
- `IsService`: the refinement; `EveryRequestEnds`: its liveness.
- `LockStep`: when a follower has replayed a batch, its scheduler is in the state
  the leader's was in when it ticked, and no submit of the batch is refused there.
- `ExactStreams`: what a stream was handed is exactly the tokens up to its offset,
  and a stream whose future has its result was handed all of them.
- `EveryTaskEnds`, `OrphansLeave`: again and again no client waits for an answer, and no
  rank works for a client that is gone.
- `GenerationWhole`: a generation is held by all its modules or by none; failed
  activations and closed roots leave no graph and no bound state behind.
- `NoHookForgotten`: resources of hooks belong to the module's own generation: a
  close that was tried again has released all of them.
- `OwnGeneration`: from admission to retirement, an invocation of the module that
  activated works on that generation's graph and state.
- `FailStop`: a module whose invocation failed admits no other in that generation.
- `SameUnits`: ranks with final State hold the same number of units, within the
  maximum of each, and a fitted rank goes on only after all have their storage.
- `NobodyAbandoned`: with fitting, a failure to allocate or to size is voted; a
  rank is alone in a collective only if its peer failed in the build between.
- `FloorKept`: fitted State never breaks the floor it was sized for, and a final
  capture breaks it only by taking more than its calibration took.
- `WarmedFirst`: a census that outlived its generation would let a program be
  captured that was not warmed; it is retired with all that may outlive it.
- `OwnedExactly`: users of pools, input buffers and metadata programs are those of
  the open captures and handoffs; a failed or closed rank owns nothing, unless a
  native reset raised.
- `NothingLost`: the newest State of a request is where it computes or in its one
  snapshot, also while a restore reads that snapshot and somebody releases it.
- `CompletionSound`: no completion is stale, no restore has lost its snapshot.
- `BudgetAlone`: committed bytes are those of the snapshots, and stay within the
  budget while no two offloads are in flight together.
- `OneWriter`: no two leases have queued frames for one seat; a seat whose owner
  left is fenced behind the last of them.
- `NothingRaises`: the adapter's assertions hold, and an offer is still good when
  its allocation succeeds, evictions in between included.
- `CheckpointExact`: a hot checkpoint names exactly the tokens that the device's
  state of the seat holds, although host and device count them apart.
- `PagesExact`: the reference count of a page is the number of its holders.
- `OneTurn`: no prefill that could be served is passed over for more than a turn.
- `SourceKept`, `SlabKept`: nothing that a copy, or a forward, still has to read is
  overwritten.
- `OwnMetadata`: the refinement of `WaveMetadata`, with its liveness.
- `BoundCovers`: the length the host plans a wave with is at least the exact length on
  the device, and at most the drafts of one wave more.
- `OwnInputs`: the refinement of `WaveMetadata`, with its liveness, and the host comes
  back from every wave it began.

**The violated runs.**  `events()` sends what is pending, and its loop ends when
the task is done after that send (`http.py` 221).  If the stream is suspended in
`await response.write(...)` while the pump hands over the last tokens and resolves
the future, the task is done when the send returns, the loop is left with those
tokens still pending, and the comparison behind it (`http.py` 224) raises instead
of sending the end of the stream.  The README of the route promises "exact-token
SSE streaming" (`live/llm/qwen35/README.md` 67).  `StreamsEndExact` states that
promise; TLC finds the trace.

A failing invocation poisons its module under the assertion that the module is
`READY`: "an active invocation escaped its READY module" (`live/core/live_module.py`
1130).  But several invocations of a module may be active, and the first failure
poisons it.  The second then meets the assertion inside `_abort`
(`live/runtime/invocation.py` 266-272), before its last transition: it stays
`ABORTING` among the module's active invocations, the error that made it fail is
masked, and `close` refuses from then on, although a poisoned module may be closed
(`live_module.py` 992-1001).  `NoInvocationStuck` is the assertion.

The definitions marked "Faulty" in the modules are single mistakes in the code's
place (a forgotten salt, a lease checked without its generation, a drain that
never ends, ...).  `PROJECT.json` pairs each with the property that must fail
when it replaces the right definition, so no property is vacuous.

## Bounds

Two resident seats let one conversation be hot, or half-cleared, while another
runs, and let two leases compete.  Three pages of two tokens make a partly
filled page, a page boundary inside a prompt, and a pool that two requests
exhaust.  In `Ingress`, three tasks over a queue of two and one execution seat make
one request run, one wait and one be refused or come after an end; two tokens give
a stream something to have sent and something pending; `MaxBehind` (1) lets the
leader be one batch ahead, which is what a broadcast that waits for its receivers
allows.  In `ResidentLeasing`, `MaxCallers` bounds leases and rebinds together
(3), `MaxIncarnation` the evictions of one seat (2), `MaxTokens` the tokens one
seat commits (3).  Pages are symmetric.  In `LiveScheduler`, `MaxRequests` (3)
bounds what clients submit; the horizons of the questions (six, six and four
tokens of six) force preemption; the first question is long enough to speculate
three wide, the second has a wide prefill chunk and a tenant's salt, the third
stops early and leaves a seat that is hot for the first.  With two running
requests a preempted one is the oldest when it runs again, and is never preempted
twice; `live_scheduler_contention` therefore lets three run, each in a page of its
own until it grows, so that the newest is preempted while it recomputes the output
its first preemption saved.  Answers take values
that depend on length and last token, so that an anchor of another history is
seen.  Ages, sequence numbers and outputs need no bound: every execution of a
bounded number of requests bounds them.

In `LiveLifecycle`, a root and one child have every relation of the tree: a
child that activates before its parent, or is a member of it.  Three attempts
allow a failure, a success and an activation after a close; three invocations
allow two that fail together and one on the other module.  In `FrameBanks`, four
waves (`MaxWaves`) use each bank of a capacity twice when none is a dummy, and one
frame four times in a row when all are; the second capacity is a frame that
shares the streams but not the fences.  The proofs need neither bound.

In `Activation`, the devices (14 and 16 bytes) and the budgets (7 and 5) order the
two ranks differently, so that the least capacity is once the one's and once the
other's; captures take one or two bytes, so that a final one may take more than its
calibration, and one byte of padding may tip the floor.  Of three graphs two share
program, pool and metadata, which is what sharing needs; the third is apart.  Two
generations let the second meet what the first left.  In `HostState` either payload
fits the budget of four bytes and both do not; four transfers (`MaxTransfer`) are an
offload and a restore of each request, or a retry of both; two versions
(`MaxVersion`) tell an old copy from a new one.  In `SeatScheduler` the second
request continues the first one's conversation and misses exactly one token after
the hit, the case that is widened to a verify row; a third, longer one contends for
pages and is preempted; two frames (`Depth`) let a request finish with a frame
still queued; one abort or reset (`MaxDisturbances`) comes at any point between
attempts.

In `HostSources`, four waves (`MaxWaves`) use each bank and each slot twice and still
leave one wave for another kind, so that a stale bank, an inherited admission or a
receipt counted twice reaches a target; with two drafts (`Drafts`) a count may be
right, too small by one and too small by two; slots for two request counts share the
producer's sequence.  `Count` stands for what changes in the batch: which waves are
stable is free otherwise.

`CHECK_DEADLOCK FALSE`: when every lease, request or transfer of the bound has
ended, or after `close`, the system stops.  `Activation` has a step, `Over`, for
that instead, because there a deadlock would be a hazard.

## Fairness

`FairSpec` assumes weak fairness of `TickStep`, the disjunction of everything a
tick does.  `Ingress.pump` calls `tick` in a loop as long as the scheduler is
busy (`ingress.py` 45-67), and a tick's loops run to their end.  Nothing is assumed
of clients (`Submit`, `Cancel`, `Close`) and no failure is required or excluded:
`EveryRequestEnds` excuses only a failed pump and a closed scheduler.

In `Ingress` the event loop runs each coroutine that is ready: weak fairness of
`PumpStep`, of `Resume` and of each rank's `Follow`.  Strong fairness of the turn
that brings every running request a token stands for what `LiveScheduler` shows
(`EveryRequestEnds`).  Nothing is assumed of clients, of their sends or of their
disconnections.

In `SeatScheduler` the engine loop runs: it finishes the attempts it begins, begins
one when it may, and collects the results of queued frames.  `FairSpec` writes this
as the three facts that weak fairness of `Attempt` and `UpdateFromOutput` amounts
to, because no other step does those things.  Nothing is assumed of clients.

In `FrameBanks` each device stream eventually runs what it holds and may run; that
is what a stream is.  The host owes nothing: it may stop between any two waves.

In `HostSources` each stream runs what it holds and may run, and the host goes on with
a wave it has begun (`Continue`); it need not begin another.

## Proofs

### The resident table

The first two parts of `LiveSchedulerProofs` prove of `ResidentLeasing` (whose
specification, initial states and steps carry `Leasing` in their names, so that they
stand beside those of `LiveScheduler`, whose proofs use the same lemmas), for every
number of seats and pages, every page size, token set, salt set and set of requests:

| theorem | statement |
|---|---|
| `TypeCorrect` | `LeasingSpec => []LeasingTypeOK` |
| `PagesOwned` | `LeasingSpec => []PageOwnership` |
| `TokensAlwaysCovered` | `LeasingSpec => []TokenCoverage` |
| `LeasesProtect` | `LeasingSpec => []LeaseIntegrity` |
| `IdentityIsStable` | `LeasingSpec => IdentityStable` |
| `LiveSeatIsKept` | `LeasingSpec => LiveSeatKept` |

Assumptions: `CapacityAssumption` (positive capacities, no more execution seats
than resident seats, a finite non-empty pool, `NoSalt` is a salt) and
`CallersAssumption` (the types of what callers ask).  Both are checked by TLC on
the instance.

The inductive invariant is `LeasingInv`: `LeasingTypeOK`, `TableOK` (pages partitioned, tokens
covered), `LeasesKnown` and `LeaseIntegrity`.  `LeaseIntegrity` alone is not
inductive: `acquire` hands out request number `sequence + 1`, and an old lease
with the same seat, incarnation, generation and that number would resolve to the
new request.  `LeasesKnown` (no lease of this generation carries a number above
the sequence, none is of a later generation) rules that out.  The argument goes
method by method: the `...Fields` lemmas say what each
operator leaves behind, further lemmas that it keeps pages partitioned and tokens
covered, the `...Keeps` lemmas that other leases resolve as before; then
the callers take one step per action.

### The completed-wave scheduler

`LiveSchedulerProofs` uses the same lemmas for the table inside the scheduler and
proves, for every number of seats and pages, every set of questions, every greedy
model, set of prefill widths and number of requests:

| theorem | statement |
|---|---|
| `InvariantHolds` | `Spec => []IInv` |
| `ServedInOrder` | `Spec => []FirstComeFirstServed` |
| `LeasesFollowRequests` | `Spec => []LeasesMatch` |
| `AnchorsFollowTokens` | `Spec => []AnchorSound` |
| `StreamsSurvivePreemption` | `Spec => []HistoryExact` |

Assumptions: `CapacityAssumption` and `SchedulerAssumption` (the types of questions;
a captured prefill is wider than one token; the model predicts a token for every
history that fits the context, and an anchor that was erased is none).

`IInv` is `Sound` until `close` and `Ended` after it.  No conjunct of `Sound` is
inductive alone.  `HistoryExact` says that a seat's tokens are a prefix of prompt,
saved output and emissions; that a commit keeps this needs `Going`: a protocol in
prefill has emitted nothing and commits the next tokens of prompt and output, one in
decode stands exactly at their end, and either has a width that fits the pages
granted.  That this seat is written by no other protocol needs `Held`, which gives
each running protocol a lease that resolves and a seat of its own, and says that
there are no other live seats.  A preemption saves what the seat holds beyond the goal; it
equals the emissions because of `Going` again, and does not exceed the quota because
of `Streams`.  A preempted request returns to its place because the queue is sorted
and the newest running request is the victim (`FirstComeFirstServed`, with
`Submitted`: keys are handed out in order).  `AnchorSound`, that the continuation state
of a seat belongs to exactly its committed tokens, is proved and not checked by a run of
its own: a stale anchor shows in what clients are answered, and breaks `IsService`.  It
holds because whatever clears a seat's tokens (`ClosedTable`, `Unanchored`) clears the
anchor, and whatever commits writes it.  A preemption whose clear failed leaves a protocol that is closed
but active; `Protocols` says that this is so in the phase `failed` only.

Its second half goes on from there to what clients are promised:

| theorem | statement |
|---|---|
| `AnswersHold` | `Spec => []Answers` |
| `SchedulerServes` | `Spec => IsService`, the refinement of `CompletionService` |
| `TableAccepts` | `Spec => []CallsAccepted` |
| `StepsDoNotStarve` | `Spec => []ReadyBound` |

`IInv` says that histories are kept, not that they are right.  `Answers` does: what a
request short of its answer has streamed `Follows` its prompt, has no stop token, and
so does the chunk that waits for a repair.  The greedy answer is defined as *the*
sequence that follows the prompt up to a stop or the quota (`Answer`, by `CHOOSE`), so
the refinement needs that one exists and that two that follow the same prompt are
prefixes of each other (`ContinuationExists`, `FollowsUnique`, `AnswerPrefix`).
Existence is an induction on the length; the induction theorems of the library being
out of reach, it is by the least length that has none.  Then each step emits what
follows (`ThreeFollow`: the anchor, the accepted draft, the target's own token), up to
the first stop or the last token of the quota (`UpToStopFollows`), and so maps to a
step of the service or to a stutter (`Serves`).

`TableAccepts` adds counting.  The scheduler checks `can_reserve`, which adds up the
pages of *all* idle seats, and then calls `reserve`, which evicts only as many as it
takes; that the two agree at the last page is `ReserveAsPromised`, a lemma about the
table.  `acquire` finds a seat because no more are held than requests
run (`SeatsHeld`), and tokens left to answer with because of `Answers`.

`ReadyBound` says that no step waits for more waves than there are execution seats.  A
bound on the age of one step is not inductive: a wave serves one family, and the
others grow older together.  `Aged` counts them: of the steps that have waited for n
waves or longer there are at most `ExecutionSeats - n`.  A wave keeps that because it
serves a family with a step that has waited as long as any (`LongestServed`, from the
order `Precedes` on families).

### The production scheduler

`SeatSchedulerProofs` proves, for every set of requests, seats and pages, every prompt,
quota, salt and token set, every budget, page size, number of drafts and depth of the
queue:

| theorem | statement |
|---|---|
| `TypeCorrect` | `Spec => []Typed` |
| `SeatsHaveOneWriter` | `Spec => []OneWriter` |
| `AssertionsHold` | `Spec => []NothingRaises` |
| `PagesAreExact` | `Spec => []PagesExact` |
| `PrefillsWaitOneTurn` | `Spec /\ []DecodesLeaveRoom => []OneTurn` |
| `CheckpointsAreExact` | `Spec /\ []SamplesVerified => []CheckpointExact` |

The last one is proved in `SeatCheckpointProofs`, from the invariant and the lemmas of the
former.

Assumptions: `SeatAssumption` (finitely many seats, with numbers; nobody is no request)
and `EngineAssumption` (the types of what is asked; finitely many requests and pages; no
empty prompt, which the native engine refuses; positive sizes).

`OneWriter` says whom a queued row may write for, and is broken long before it is false:
when a row is queued for a seat that changed hands since it was scheduled, or when a seat
changes hands that a queued row still waits for.  `Inv` says both.  A row of the attempt
in progress has the epoch and the owner of its seat (`RowsHeld`); a row in the queue has
its epoch, and the seat is owned by its request or waits for at least as many frames as
are before the row (`RowsKept`).  Epochs move on a seat that is free and waits for
nothing, and only there (`FreeSeatChanges`), so every discard, claim and eviction keeps
both.  A request that leaves fences its seat behind the last frame with a row of it
(`LastFrameCovers`).  A preemption takes the last running request while the loop still has
one to serve, so it has no row in this attempt (`AttemptKept`: rows belong to requests the
loop has passed).  When the frame is queued, `RowsHeld` becomes `RowsKept` for its last
place; when one retires, every fence and every place come down by one (`ElapsedKeeps`).

`NothingRaises` needs more of a pending checkpoint: its seat waits for the same frame
(`PendingKept`), and none is left behind when that frame has retired (`NoneDue`); so the
seat is nobody's until the checkpoint is published.  An offer still stands when its
request is admitted (`OfferKept`), because evictions in between spare its seat and the
candidate stays the first of the queue.

`PagesExact` compares a counter per page with what is held, and is inductive only with
the shape of what is held (`PagesInv`, which rests on `Inv`).  A count moves by one for a
list of pages, so no list may have a page twice, and a request that takes free pages, next
to those it has or takes over, must not have them yet (`FreeUnlisted`).  Publication
replaces the pages of a seat, so a seat has at most one pending checkpoint and no pages
beside it (`Listed`); the pages of a due checkpoint are split between the seat and the free
list (`KeptAndOthers`).  An admission lets go of what the seat had, which is the hit: for a
cold offer nothing, since `ConsiderWaiting` emptied the seat before the pages were charged
(`ColdKept`), and no eviction in between refills it.  Each step is then an equation
between four numbers, `HowMany` lists of requests, seats, pending checkpoints and deferred
frees have the page (`OneList`, `SplitLists`, `PairedLists`, `RenamedLists`).

`OneTurn` needs a hypothesis.  The plan reserves the decodes before it serves the ring,
so that in an attempt whose decodes use up the budget every prefill is passed over, as
often as that happens; TLC finds this in the instance of `seat_scheduler` when its budget
is set to one or two tokens.  Decodes can be large, too: a preempted request that resumes
counts as one when it is past its prompt, and asks for all the tokens it had.
`DecodesLeaveRoom` says that whenever an attempt may begin, what the decodes reserve
leaves room for one verify row.  The qualified configuration is sized for that (16
sequences with two drafts each, 4096 tokens).  In the instance it holds in every state with
a budget of four tokens; with the three of the run it does not, though `OneTurn` does.
The ring is then counted by places (`RingInv`): with N requests, the one at the i-th place
was passed over at most N - i times in a row.  A member that leaves brings the others forward,
newcomers join at the end (`MembersPlaces`), and every attempt turns the ring by one place
(`RingTurns`), so whoever is passed over gains a place; the head is not, because a row that
is eligible has its grant when the budget allows (`HeadGranted`).  That in turn needs a
prefill to ask for something.  One that is to be admitted has a token beyond its hit
(`OfferLeaves`).  One that runs has computed less than its prompt, but would still ask for
nothing if its placeholders were negative.  They are not: results of queued rows take
placeholders back, and `CountsInv` says that what a request has covers what the rows of
its present lease may take, from any place of the queue on (`Owes`).

`CheckpointExact` compares three parties that never meet: the native scheduler's counters,
which run ahead by everything queued; the adapter's frontier, which moves when a frame is
observed; and the device, which moves when it runs one.  When a frontier says that it is
known and no frame is queued, all that is between them must have cancelled out.  The
invariant (`DeviceInv`) therefore follows a lease through the queue.  Its rows, by their
places there and in the attempt, are its lane (`Lane`).  A course (`Course`) gives for each
place how much of the prompt is computed before it: it starts at the frontier's cursor,
each row takes it on from where the row before left it (`Leads`: chunk by chunk with
exactly the tokens of the prompt that come next, and once the prompt is through by rows
that follow a sample), and it ends where the native counters are (`Ends`), for as long as the request
owns the seat.  So a row scheduled now continues what is queued (`RunningLeads`), and the
frame that retires is the course's first step (`TrackedStep`).  The device holds what the
frontier says (`Exact`), or will when the lane's first row has prepared the seat
(`Ready`): only a first row sets a limit, and until it runs the seat may hold what an
earlier lease left there.  What a verify row accepts is free, and frontier and
device take the same tokens for every such number (`VerifyRow`, `FrontierStep`).  An
ambiguous verify row, with prompt left, makes the frontier unknown for good.

`CheckpointsAreExact` needs a hypothesis, too: the rows that follow a sample run as verify
rows (`SamplesVerified`).  The length limit keeps queued rows from a finished seat only in
that role (`state_slots.py` 43-57).  The role is the frame's when all its rows are past
their prompts and none is wider than the drafts (`DecodeFrame`); in any other frame it is
that of the rows with drafts.  There a decode that was cut to its one sampled token, because
the other decodes used up the budget, is a prefill row, and could run past the limit.  A prefill beside it needs a grant, which is given after the decodes have
theirs, so the other row is a preempted request that computes its prompt, or more than
`1 + Drafts` tokens, again.  Where the decodes leave room in the budget no decode is cut;
in the instance of `seat_scheduler` TLC found `SamplesVerified` in every state.

An admission starts a new lane.  A cold one prepares an empty state (`FirstExact`); a warm
one continues the checkpoint of a hot seat, so that seat must already hold it
(`HotExact`: no frame of the seat is queued, the device has its epoch and its tokens) and
the checkpoint must begin the tokens of this very request (`OfferInv`, from the search of
the offer on to the admission, past the evictions in between).  That the offer leaves a
token to compute, and a limit of one or more, needs a request that has output left to give
(`RequestsInv`).  A checkpoint is published from a frontier whose lane is empty
(`DueExact`).  A seat is claimed under a larger epoch than the device has seen
(`EpochsBelow`), so what is left of an earlier lease is never taken for it.  TLC checked
`DeviceInv` on a small instance before it was proved.

Filters, sorted lists and running loops (`Only`, `Ascending`, `Grants`, `Ended`) are
functions in the model.  A loop runs through (`LoopRuns`) and keeps what each turn keeps
(`UpTo`), which is an induction by the least turn that does not.

### Banked publication

`FrameBanksProofs` proves, for every set of token capacities and every number of
waves (assuming only that the number is a natural one, `BanksAssumption`):

| theorem | statement |
|---|---|
| `TypeCorrect` | `Spec => []TypeOK` |
| `SourceIsKept` | `Spec => []SourceKept` |
| `SlabIsKept` | `Spec => []SlabKept` |
| `ReadsItsOwn` | `Spec => Service!Init /\ [][Service!Next]_Service!vars` |

`SlabKept` speaks of forwards and slabs; the reason it holds lies in what the host
recorded waves earlier.  The inductive invariant `IInv` follows the data.  The
event of a frame is that of its *last* upload, and the source still holds it
(`LastUpload`), because the host waits for it before it fills the source.  The
consumed event of a frame covers every launched wave that was put into it
(`Covered`), so that a copy waits for all waves that were in its frame before
(`Ordered`).  A copy that runs therefore overwrites nothing that a wave still needs
(`SlabHolds`, with `Waited` for the copy under way), a forward that waited for its
uploads (`Waits`) finds its own wave in all its slabs, and has read nothing else
(`Reading`, `ReadOwn`).  `Covered` excepts a failed runner: the GDN frame of a forward
that failed is not released, and no later copy needs it, because nothing is published
after it.

### The ingress

`IngressProofs` proves, for any set of followers, every number of execution seats and
requests, every queue limit, set of streams and length of answers, and however far a
broadcast is ahead:

| theorem | statement |
|---|---|
| `TypeCorrect` | `Spec => []TypeOK` |
| `RanksAgree` | `Spec => []LockStep` |
| `StreamsAreExact` | `Spec => []ExactStreams` |

Assumption: `IngressAssumption` (seats, answers and the distance are positive numbers,
streams are asked for by tasks that may start).

`LockStep` speaks of the batch a follower is about to obey, and the leader decided it
long before, so it is not inductive.  `Chained` says it of every batch on its way, in
the state in which the follower will come to it (`Start`), and of the commands that are
not a batch yet, in the state the follower will have reached by then (`Arrival`).  Each
arrival and each cancellation adds one command to those, and the leader's next tick
starts where the follower gets by obeying one more (`InStepAppend`).  That needs two
facts about lists, because the leader submits at once and cancels when it ticks while
a follower does both in the order of the commands: a key may be dropped before or
after another is submitted (`SubmitCancelled`), and dropping twice is dropping the
union (`CancelledTwice`).  The first holds only as long as no key is submitted that a
waiting command cancels (`KeysStarted`: keys are new).  A follower refuses nothing,
because it has dropped what the leader still holds (`CanSubmitFewer`).  A turn makes the
commands a batch, and a follower that obeys it moves every place by one (`LineTail`).

`ExactStreams` follows from `Handed`: an offset never exceeds what its request has
produced, and a request whose future has a result is in no list of the scheduler, so
that no later wave adds a token behind the last one its stream was handed.

What `Dropped` and `Replayed` compute is defined by recursive functions, whose
existence is shown for every length by the least length without one (`LoopRuns`).
TLC checked `IInv` on the instance of the run before it was proved.

### Banked host sources

`HostSourcesProofs` proves, for both routes, every number of drafts, every set of
request counts the producer has slots for and every number of waves (assuming only
that these are numbers, `SourcesAssumption`):

| theorem | statement |
|---|---|
| `TypeCorrect` | `Spec => []Typed` |
| `BoundsCover` | `Spec => []BoundCovers` |
| `ReadsItsOwn` | `Spec => Service!Init /\ [][Service!Next]_Service!vars` |

The last one is the safety part of `OwnInputs`; that every target is reached and the
host comes back stays with TLC.

`BoundCovers` compares a number the host wrote down waves ago with one the device
computes only now.  In between, samples and preparations of several waves are queued,
each sample takes a number of tokens nobody knows yet, and the host has or has not
corrected what it assumed of it.  `BoundInv` therefore replays the compute stream on
paper.  A course (`Course`) gives for each place of the queue the length the requests
will have there, with every sample that has not run counted in full (`Leads`).  It starts
at the device's length, and each sample takes it on by its width; the plan of a queued
preparation covers it.  It ends where the host's budget is (`Planned`), with what the
host owes for the last wave added: in full as long as the receipt is not there, exactly
once it is, and with the correction that is pending taken off.  When a sample runs and
accepts less than its width, the whole course behind it drops by the difference.  The
plans behind it are still covered, and exceed it by the drafts of one wave at most,
because a plan behind a queued sample lay exactly on the course (`Leads`), and because
only the last sample that is queued may be wide (`Samples`), so that no second
difference adds to the first.  `LastCounted` keeps the receipt's wave and the last wave
together.

`OwnInv` adds what a target reads.  A copy that is queued finds its source as it was
meant to (`CopiesKept`): the host writes a bank only behind the event that covers all
copies from it, for which the scope, the callback or both wait.  A derivation that is queued
finds its own wave in its slot, once its upload has run (`DerivesKept`), and an upload
waits for every earlier derivation from its slot (`UploadsKept`).  The metadata and the
admission of a wave are its own (`Attributed`), also after a wave that failed between
its admission and its target.  `Numbered` counts the targets along the queue and follows
the wave the device inputs come from: each target is the next one and stands behind the
preparation of its own wave (`Carries`).  TLC checked both invariants on a small instance
before they were proved.

### Host state

`HostStateProofs` proves, for every set of requests and blocks, every budget and any
number of transfers and versions:

| theorem | statement |
|---|---|
| `StateNeverLost` | `Spec => []NothingLost` |
| `CompletionsSound` | `Spec => []CompletionSound` |
| `BudgetHolds` | `Spec => []BudgetAlone` |

`NothingLost` says where the newest State is now; that it stays there through a
transfer needs to know who else is in those blocks and payloads.  `IInv` adds:
one transfer per key (`OneTransfer`); what a transfer in flight may rely on, a
snapshot that is pinned or one that does not exist yet (`Endpoints`); the payload of
a snapshot is that of a finished offload, which no copy writes (`Published`); nobody
is in the blocks of a request or of a restore that may still write, and that
includes the copies an enqueue that raised left on the stream (`Exclusive`);
destinations hold the newest State when their copies are done (`Restored`).
`CompletionSound` then follows from `OneTransfer` and `Endpoints`.  For the budget,
`Ledger` adds that an offload that is alone passed its check with all others finished.
The sum of the snapshots is the size of a set of bytes, because the prover can reason
about the size of a set and not about a fold.

### The lifecycle

`ActivationProofs` also holds the proofs about `LiveLifecycle`, whose initial states,
steps and specification carry `Lifecycle` in their names so that they stand beside
those of `Activation`.  For every set of children and any number of attempts and
invocations:

| theorem | statement |
|---|---|
| `WholeGenerations` | `LifecycleSpec => []GenerationWhole` |
| `HooksRun` | `LifecycleSpec => []NoHookForgotten` |
| `OwnGenerationKept` | `LifecycleSpec => []OwnGeneration` |
| `FailedModuleStops` | `LifecycleSpec => FailStop` |

Assumption: `LifecycleAssumption` (the root is no child).  In `LifecycleInv`, states are
bound to the generation of their module, and graphs to it or to none (`Physical`); a
generation belongs to the module that activated it, which still has members
(`Rooted`), and its members are its whole subtree (`Whole`).  The heart of it is
`Idle`: if a module closes because it has no active invocation of its own, no module
below it has an invocation that owns its generation, because what is below belongs
to the generation of the one that closes.  That is the gap between what `close`
looks at, one module, and what it takes down, a subtree.  `Stopped` (a module with a
failed invocation of its generation is not `READY`) gives `FailStop`: only an
activation makes a module `READY`, and its generation is fresh.

### Activation

`ActivationProofs` proves every property the run `activation` checks, for every group
of ranks, every portfolio and every sharing of programs, pools and metadata in it, all
sizes of devices, budgets, State, padding and captures, and any number of generations:

| theorem | statement |
|---|---|
| `Agreement` | `Spec => []SameUnits` |
| `FailuresVoted` | `Spec => []NobodyAbandoned` |
| `CapturedWarm` | `Spec => []WarmedFirst` |
| `NothingLeft` | `Spec => []OwnedExactly` |
| `FloorSafe` | `Spec => FloorKept` |

Assumptions: `GraphAssumption` (a finite portfolio, with its keys) and
`ActivationAssumption` (a finite group, sizes are numbers, a unit and a capture take
something).  The module shows first, method by method, that the backend stays
`Sound`: what it owns is `Owned` by open captures and handoffs, and what is open is
`WarmedBy` its generation.  `Released` of all open captures is the empty backend,
however they came about, and `retire_generation` refuses exactly when one is left
(`LiveMeansOpen`).  Bytes are counted as the size of a set, so that the prover knows
that the bytes of a portfolio of any length are a number.

`IInv` of `ActivationProofs` has a local and a global half.  Local: how often a rank
has voted at each `pc` (`Placed`), which captures are open (`OpenIn`), what a failed or
closed rank leaves (`Ended`) and, after the sizing, that the State it offered fits the
device beside the captures, the floor and the rounding (`Sized`).  Global: a rank that
is past an agreement knows that all have said yes (`Agreed`); a rank that is bound to
units is bound to the minimum of all offers (`BoundRight`); a rank that left after its
second vote has seen a zero or been deserted (`Excused`).  Votes are only ever added
to, so what one rank has concluded stays true whatever another does (`Lasting`); each
action is then shown to be `Allowed`, a condition on the one rank that steps.
`FloorSafe` follows from `Sized` and the arithmetic of `Budget`: the minimum of the
offers is no more than the rank's own.

### Only model-checked

Liveness (`EveryRequestEnds`, `EveryTaskEnds` and their like, and the part of
`OwnMetadata` and `OwnInputs` that needs fairness), which is beyond this prover; of
`SeatScheduler`, `OneTurn` where decodes may use up the budget; and of `LiveScheduler`,
`HotIsAnswered`.

## What is not modelled

- Numerics, kernels, graph capture, weight loading, HTTP parsing and text: no
  protocol of their own.  Statistics counters of the scheduler.
- In `HostSources`: the packets around a target (`_packet.py`, `_target.py`), captures
  and warm-up, and what is in a tensor beside its wave and its budget.  The tokens of
  the requests that stay in the batch are one number; a request that joins or leaves
  shows as a wave that is not stable.  The native runner is external: it prepares
  within its preparation scope, enqueues its forward behind that scope, and its
  callback of the last count is as `vllm` defines it.
- The widths of a captured graph beyond the set `PrefillWidths`; padding.
- In `LiveScheduler` the continuation state is one anchor per seat: which
  candidate row is selected and how the draft cursor shifts is left to a
  speculation module (see the plan).
- A failing `clear_seat` while a request is cancelled leaves it "lost": in no
  collection but the set of keys, until `close`.  While one is preempted, the
  victim stays active with a protocol that is closed.  A failing clear inside
  `Close` itself is not modelled.
- In `LiveLifecycle`: calls are atomic, because each runs under the lock of its
  module; a root and a child have locks of their own, and calls on both at once
  are not interleaved.  `Activation` interleaves the steps of ranks, not of modules.
  Pipelines, `clear_state_blocks`, the registration of graphs and a publication that
  fails while an execution is bound are left out.
  A root may close under an invocation of a child, which is a hazard that
  `OwnGeneration` does not cover: the roots of this repository register all
  graphs on themselves.  Hooks that raise in a rollback keep their resources,
  which `NoHookForgotten` excepts.
- In `Activation`: a plain activation leaves the peers of a rank that cannot plan to
  the timeout of the group, by design (only positive capacities are negotiated), so
  `NobodyAbandoned` is about fitting.  A collective that times out on a rank which is
  only slow, other processes that take device memory, several elastic domains, and
  the byte layout of State are left out.  A rank whose native reset raised
  (`broken`) ends the group.
- In `HostState`: a handle observed by two threads, the selection of lanes and the
  run-length split of copies.  Two offloads in flight together can commit more than
  the budget, because the check counts committed snapshots only; nothing in the
  repository promises otherwise, so `BudgetAlone` excludes the case and the hazard
  says so.
- In `SeatScheduler`: the cap of the model's length on a demand (prompt and quota are
  taken to fit it), the native engine's waits for grammars, remote caches or streams, and device kernels with their address arithmetic.
- In `FrameBanks`: graph resources, capture fixtures, the FIA planner and the
  layout of the slabs.  A failed forward is final, as the native engine ends with
  it.
- In `Ingress`: preemption and the seats of the scheduler (`LiveScheduler`),
  followers after the leader failed (their collectives end with its processes),
  the parsing of requests and the text of answers.
- `close` after an admission failed: a protocol created and never started runs
  no clean-up when it is closed, so its seat stays leased.  `Close` models that,
  which is why `LeasesMatch` stops at `closed`.
- A tick that fails is final: `phase = "failed"` allows only `Close`, as the pump
  hands the exception to every future and ends.

## Plan

In order of importance; each module gets an MC module where it needs one, a run and
mutants.

1. `ResidentTable`, `ResidentLeasing`, proofs: done.
2. `LiveScheduler` refining `CompletionService`, with the proof of its order, leases,
   anchors and histories: done.
3. `Ingress` over an abstract scheduler, with the proof that ranks stay in step and
   streams are exact: done.
4. `ResidentLeases`, `PrefillRing` and `SeatScheduler`, with the proof that seats have
   one writer, pages are counted exactly and prefills wait one turn: done.
5. `FrameBanks` refining `WaveMetadata`, with the proof of the two fences for any
   number of waves: done.
6. `LiveLifecycle`, `GraphBuilds` and `Activation`, with their proofs: done.
7. `HostState` with its proofs: done.
8. `HostSources`, refining `WaveMetadata`, with the proof of both: done.
9. `Speculation`: candidate rows, draft cursor and hidden seeds of one seat,
   refining the anchor of `LiveScheduler`.

Theorems to follow: the part of `OneTurn` that is only model-checked.
