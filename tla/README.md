# EngineDLL-GPU in TLA+

Models, model checking and machine-checked proofs for the GPU signal engine:
`GpuEngine.dll`, the pipe service and client DLL in front of it, and the
MetaTrader programs that call it; and `GpuBridge.dll`, the bridge it replaces.
Paths are relative to the repository's root,
which `PROJECT.json` calls `src/` (so `src/src/engine_core/...` is
`src/engine_core/...` of the repository).

Run everything inside this directory:

    tlc -workers 2 -config EngineHub.cfg MCEngine     (a run of PROJECT.json "runs")
    tlapm EngineProofs.tla                            (proofs; likewise OneJobProofs, PipeProofs,
                                                       HubProofs, HubWindowProofs, CyclesProofs,
                                                       ProcessorProofs and BridgeProofs)

`PROJECT.json` holds the runs, for every definition the lines it translates
(`map`), for every property a plausible bug it detects (`mutants`), the places
where the code is hard to test (`hazards`) and the disagreements between the
code and its documents (`findings`).

## 1. The system

| Part | Source | State it keeps | Operations | Model |
|---|---|---|---|---|
| Engine core | `src/engine_core/src/GpuEngineCore.cpp` | `m_running`, `m_job_queue`, `m_jobs`, `m_next_id`, workers, statistics, last error | Initialize, Shutdown, SubmitJob, PollStatus, FetchResult, GetStats, WorkerLoop, RunKalmanTracker | `Engine`, `Cycles` |
| CUDA processor | `src/engine_core/src/CudaProcessor.cu` | one stream, one set of eleven device buffers, plan cache | Initialize, Shutdown, Process, AcquirePlan | `Processor`; `Engine` (two workers on one set of buffers), `Cycles` (choice of the periods) |
| Engine exports | `src/engine_core/src/exports.cpp` | the one Engine | `GpuEngine_*` | `Cycles` (arguments of SubmitJob) |
| Pipe service | `src/service/src/*.cpp` | the pipe instance, the engine, the sizes of every job (`m_jobs`) | Run, ProcessClient, one branch per command | `PipeService` |
| Client DLL, protocol | `src/client_ipc/src/Client.cpp`, `Include/ipc` | `m_pipe`, `g_mutex` | EnsureConnected, SendCommand, ReadMessage, Close; `GpuEngine_*` again | `PipeService` |
| Hub | `Experts/GPU_EngineHub.mq5`, `Include/GPU/GPU_Engine.mqh` | `m_ready`, `g_jobs`, result arrays, the window of the chart | OnInit, OnDeinit, OnTick, OnTimer: submit, poll, publish | `Hub`, `HubWindow` |
| GPUShared | `Include/GPU/GPU_Shared.mqh` | the published result | Publish | `Hub` |
| Indicators | `Indicators/GPU_WaveViz.mq5`, `GPU_PhaseViz.mq5` | plot buffers | OnCalculate | `Cycles` (the ranking) |
| Hotkeys, subwindows | `Include/GPU/GPU_Hotkeys.mqh`, `GPU_Subwindows.mqh` | key table, attached indicators | lookups, attach, detach | not modelled |
| Legacy bridge | `MQL-GPU/gpu` | the one GpuContext: four configurations, six streams, plans, buffers | GpuSession*, Configure*, Run*, the spectral functions | `GpuBridge` |
| Legacy indicators | `Indicators/legacy`, `MQL-GPU/Include/FFT` | does the session exist, has the GPU been given up | OnInit, OnCalculate, OnDeinit; CGpuParallelProcessor | `GpuBridge` (as users of the bridge) |
| Deployment | `scripts`, `tooling` | files | copy | not modelled |

How they interact. The hub's event handlers, run by the terminal one after the
other, call the engine through CGpuEngineClient: either `GpuEngine.dll` in the
same process or `GpuEngineClient.dll`, which forwards every call over
`\\.\pipe\WaveSpecGpuSvc` to the service, the only other caller of the
engine. Calls are synchronous; a job is submitted, polled and fetched by handle.
Inside the engine two worker threads take job ids from a queue under
`m_queue_mutex`, and write the record of the job they hold without a lock,
published by an atomic `status`. They share `CudaProcessor`, which has one
stream and one set of buffers. What the hub fetches it sizes, copies and
publishes in GPUShared, which the indicators draw.

The legacy indicators call `GpuBridge.dll` directly. The DLL is loaded once per
terminal, so every chart with such an indicator, each in a thread of its own,
shares one GpuContext: whoever opens the session opens it for all, whoever
closes it closes it for all, and a Configure for one window replaces the
configuration for another.

What is hard here:

- *Concurrency*: the lock-free hand-over of records by `status`; a condition
  variable whose predicate reads an atomic that Shutdown changes outside the
  mutex; a device that two workers drive at once.
- *Order*: READY is stored before the time of a job is repaired, before its
  error is cleared and its statistics are counted; ERROR before its message;
  the service notes the sizes of a job after it has answered.
- *Failure*: device calls fail at any step, in the middle of an allocation or a
  pipeline; clients and the service die in the
  middle of a message; the single pipe instance must come back.
- *Shared devices*: eleven buffers laid out by three strides (window, frame,
  cycle); plans made outside any lock; calls that return an error while their
  operations are still in a stream; a transform on one stream read on another.
- *Staleness*: job ids start again at 1 at every Initialize, and neither the
  service's `m_jobs` nor a caller's handles know.
- *Sizes and indices*: three programs size arrays for one another, by the
  request, by the result and by the result before; frames are chronological
  and series count back from the newest bar.

What makes each part correct is stated by the properties of section 3.

## 2. The modules

`Engine` — class Engine with the shared part of CudaProcessor. The caller's
program counter `cpc` walks through the critical sections of Shutdown and
Initialize (`BeginStop`, `Drain`, `NotifyAll`, `Join`, `ReleaseProcessor`,
`Start` or `FailToStart`), SubmitJob (`SubmitJob`, then `NotifyOne`) and
FetchResult (`CopyResult`, then `EraseJob`). Each worker's `pc` walks through
WorkerLoop; inside Process it makes four steps on the shared buffers `dev`. A
step is what happens between two points at which another thread can look. The
mutex is not a variable: a critical section is one step, and the only place
where a worker holds it over two steps (predicate false, not yet asleep) is
`pc = "blocking"`. Data are identities: a record's `wave` says *whose* frames
it was computed from. Initialize and Shutdown share their steps;
`initialising` says which one is under way.

`JobLifecycle` — what a caller may rely on: no threads, locks or buffers. A job
is accepted, ends ready or failed, is retrieved once, and the data are its own.
`Engine!Lifecycle` is the refinement mapping, `ImplementsLifecycle` the
property. `PipeService` and `Hub` both build on this abstract engine
(`Lib == INSTANCE JobLifecycle`), so what they show holds for the composition
as far as their use of it keeps to one job in flight; with more, Engine only
implements it up to the identity of the data, which neither of them looks at
for more than one job. That Engine implements it for one job in flight is proved
(`LifecycleImplemented`), and that the hub has no more (`HubHasOneJob`).

`PipeService` — clients, pipe and service with that engine. A message is two
pieces, header and body, as both sides write and read them; WriteExact waits
until the piece before it was read (FlushFileBuffers). Clients are sequential
processes (`g_mutex` is held over a call); `srv` walks through Run and
ProcessClient. `shape` stands for the sizes in the engine's records, `meta` for
those in the service's `m_jobs`, so that disagreement can be seen. Any process
in `CanCrash` may die in any step. The last read of a Shutdown and the client's
own Close are two steps (`ReadBody`, `CloseAfterShutdown`): the service may hang
up in between, and does so on a client that has its answer.

`Hub` — the hub's handlers over the abstract engine: OnInit, the two halves of
OnTick/OnTimer call by call with a fetch that may fail, OnDeinit. With `Remote`
the engine is in the service and may go with it at any step.

`HubWindow` — the plan of a batch, the pivots made into a series
(`BuildZigZagSeries`) and the frames cut from it. A pure pipeline over all small
charts and inputs.

`Cycles` — one job's cycles from the arguments of `GpuEngine_SubmitJob` to
the ranking on the screen: the periods given or found in the spectrum, the
selection of RunKalmanTracker with its two fallbacks, and GPU_WaveViz's order.
Floating point is chosen freely: every spectrum of small energies and, for each
cycle, every outcome of the filter. Periods are counted in parts of a bar
(`Grain`), fine enough that no two bins have the same one, as no two have in the
code (`GrainAssumption`).

`Processor` — the device side of CudaProcessor: Initialize piece by piece with a
failure after any of them, Shutdown, AcquirePlan by several workers, and every
stage of ProcessInternal on buffers whose cells know the frames, masks and
periods they come from. A buffer is a function that becomes longer when it is
written past its end, so an overrun is visible; a stage fails before or after
its effect. The plans stride by the window, the kernels by the frame, the cycles
by the job.

`GpuBridge` — the legacy session: the four configurations with the handles they
hold, Shutdown, every Configure with a failure after any piece, and the calls as
programs of CUDA operations. A call enqueues; `Device` carries out the head of a
stream later; copies back and synchronisations wait. RunCwtOnGpu does not look at
the result of its one cudaMalloc: when it fails the kernel is launched all the
same and the call ends with the error found after the launch
(`LaunchUnallocated`). Two kinds of users: the
indicator that works on the CPU from its first failure on, and the wrapper
CGpuParallelProcessor, which retries. Data are sets of call numbers, so that a
result which mixes two calls can be seen.

`EngineProofs`, `PipeProofs`, `HubProofs`, `HubWindowProofs`, `CyclesProofs`,
`ProcessorProofs`, `BridgeProofs` — theorems about the modules they are named
after; `OneJobProofs` goes on from `EngineProofs` (section 5). `MC*`
modules only instantiate: symmetry and tuples a configuration file cannot write.

Definitions introduced by a comment "Mutant" (in `Engine`, the section "Faulty
variants") are not part of the models. They are the slips that the properties
are shown to notice.

## 3. The runs

Passing runs check every invariant and property named on an exhaustive state
graph; a violation run shows one disagreement. "States" are distinct states.

| Run | States | What it asks |
|---|---|---|
| `EngineHub` | 69 k | The hub's discipline, one job in flight, handles dropped at Shutdown, two starts: is every result the job's own (`FetchReturnsOwnJob`), are statistics exact, does a missing time stay only as long as a worker is about to repair it, does Shutdown return, does the engine implement `JobLifecycle`? |
| `EngineFree` | 245 k | Any caller, one start, two jobs in flight, handles kept over a Shutdown: queue, records and map stay consistent, no wake-up is lost, the processor outlives the workers, a polled READY can be fetched, results are frozen, accepted jobs end. |
| `PipeCrashes` | 236 k | One client and the service, each may crash in any step, two jobs of two shapes: the stream stays in step, the service's metadata agree with the engine's records, and the service hangs up only on a client that has read its answer (`AnswersAreRead`). |
| `PipeShared` | 283 k | Two clients share the one instance, one of them and the service may crash: calls that got the pipe return, and the pipe comes free again unless a client that makes no call keeps a dead end of it. |
| `HubJobs` | 227 | The hub over any number of starts, three jobs each, jobs and fetches that fail, a service that dies: it never loses track of the jobs the engine holds, a ready job is published. |
| `HubWindows` | 24 k | All charts of up to five bars: every bar has a price between its neighbouring pivots, two windows that overlap agree on every bar that is settled (`WindowsAgree`), a plan fits the bars that were fetched and its frames follow the chart. |
| `CyclesFound` | 82 k | All spectra of five bins and all outcomes of the filter: the bins chosen are the strongest that are not next to a stronger one, given periods survive being rewritten in place, arrays stay parallel on all four ways out of the tracker, the dominant cycle is the best and the one shown first. |
| `ProcessorLife` | 1.27 M | Two processors in a row, two workers, four shapes of job, failures everywhere: no buffer is overrun (`InBounds`), no sample of a job that ran alone, with frames as long as the window, comes from another frame, cycle or job (`FramesStayApart`), and what is on the device is the running processor's but for two leaks that are named (`DeviceIsAccounted`). |
| `BridgeSessions` | 785 k | Two charts with windows of different lengths share the legacy session: nothing on the device is without an owner, a configuration that is ready is usable, what a call returns comes from its own input (`OwnResults`) or, for the waveform transforms, from no further back than the last call that began on empty streams and ended well (`NoStalerThanCleanCall`), and a chart alone is served whatever charts before it left behind. |
| `EngineMixedResults` | violation | With two jobs in flight a fetched result holds another job's data. |
| `PipeTornReply` | violation | Through the pipe, a fetch of a job without `cycle_count` never returns. |
| `CyclesLoudest` | violation | A bin is chosen although a louder one, the neighbour of a chosen one, is left out. |

### Bounds, and why they are enough

- `Workers`: two, the code's `kDefaultWorkerCount` and the least with any
  interference between workers. The proofs are for any number of two or more.
- `MaxJobs = 2`, `MaxEpochs`: two jobs are the least that can be mixed up,
  reordered or taken twice, two epochs the least in which an id or a counter
  can survive a start. `MaxJobs` bounds jobs *between two starts*.
  `EngineFree` has one start, as two starts with two jobs in flight cost four
  times as many states: there a kept handle meets a stopped engine but no newer job with its
  id. `EngineHub` has two starts with no handle kept. The proofs of the
  safety properties of `EngineFree` hold for any `MaxEpochs`, kept handles included.
- `MaxOutstanding`: 1 is what the hub does (`HubHasOneJob` proves it), 2 any
  other caller.
- `PipeService`: one job per client when two clients are there, two shapes
  (with cycles and without) when one is. Handles are any id, own or foreign. A
  crashed service starts again without bound.
- `Hub`: three jobs between two starts; the hub has one at a time, so the
  third finds what the second left behind. Starts and deaths of the service are
  without bound.
- `HubWindow`: five bars hold four pivots on either side of a gap, up to three
  frames, and every relation of hop to frame length from 0 to larger;
  prices are multiples of 12 so that the divisions of the bridge mode by 1 to 4
  are exact. A negative `InpHop`, which nothing refuses, is outside the inputs.
- `Cycles`: five bins are the least on which two chosen bins have a common
  neighbour and a third is left over; three energies give ties, order and
  silence; a list of three periods can lose a first, middle and last.

- `Processor`: a window of three has two bins, so the strides by window and by
  bin differ; a batch of two has a second frame to mix up and a short batch to
  leave old samples behind; two cycles, asked for as 0 to 3, given and chosen.
  `MaxJobs = 2` gives every pair of shapes and every interleaving of two
  workers, `MaxStarts = 2` the processor after a failed or stopped one.
  `Breaks`: Initialize fails in the buffers or in the events; the proofs have
  every break. Frames longer than the window are outside (see section 4).
- `GpuBridge`: two charts are the least that share, of two lengths, so that
  each undoes the other's configuration, one of each kind of user. The
  indicator makes the waveform FFT it was written for; the wrapper that FFT, its
  inverse, the batch, the wavelet and the power spectrum. `MaxCalls = 2`: one
  call before or beside another is what every property speaks of. RunSupDem has
  the shape of the batch call and the other spectral functions that of the power
  spectrum (`OnScratch`); they are in the model, for all of which the proofs
  speak, and not in the run.

Deadlock is checked everywhere but in `HubWindows`, `CyclesFound` (pipelines
that end), `ProcessorLife` (the jobs are bounded) and `PipeTornReply` (whose
point is that all wait).

### Fairness

- Engine: a caller inside a call goes on (`CallGoesOn`), and each worker that
  can step steps (`WorkerStep`): operating-system threads run, CUDA calls and
  filter iterations end. `EraseJob` alone needs strong fairness: it waits for a
  mutex that workers waking spuriously can take and release for ever, and
  a mutex that is free again and again is taken in the end. Nothing makes a
  caller start a call, nothing makes a worker wake spuriously.
- Pipe: the service's thread, the engine and each client inside a call run; no
  client has to start a call, nobody has to crash. Neither does anything make
  a waiting client get the pipe, which an idle other client may keep. The pipe
  has one instance at most, so CreateNamedPipeW may fail as long as a client
  holds its end of an instance that is gone; Run tries again every second
  (`Service.cpp:162-168`), which is a step that changes nothing. So the fairness
  of the service does not count on `Create` while there are such `DeadEnds`, and
  a client gets rid of its own only in its next call.
- Hub: handlers that began end, the terminal keeps sending timer events
  (`EventSetTimer`), and the engine's threads run. That the chart keeps the hub
  is not assumed: `ReadyIsPublished` allows for its removal.
- `HubWindow`, `Cycles`, `Processor`, `GpuBridge`: none; only safety is asked.

## 4. Where code and documents diverge

Shown by a run (quotes in `PROJECT.json`):

1. Two jobs in flight share the device buffers (`CudaProcessor.cu:393`); the
   documents promise parallel batches with buffers of their own. The hub is
   safe because it keeps one job in flight.
2. `cycle_count == 0` with no arrays is documented, and hangs the client
   through the service (`Service.cpp:552`).
3. API.md:158 and :175 promise the `cycle_count` bins of the greatest energy.
   The code takes them in the order of their energy but never two neighbours
   (`CudaProcessor.cu:578-598`), so a quieter bin is chosen before the louder
   neighbour of a chosen one (`CyclesLoudest`). What the rule of the code gives is
   `StrongestBinsChosen`.

Met while reading, without a run of their own. In the engine and its callers:

- `GPU_EngineHub.mq5:754`: only a READY job leaves `g_jobs`. One in STATUS_ERROR
  stays there, and while it does the hub submits nothing more. Nor does it after
  the service has died with a job: the new service does not know the handle,
  PollStatus fails, and the job stays until the hub is loaded again.
- `GPU_EngineHub.mq5:832`: g_plv_cycles_shared and g_snr_cycles_shared are sized
  after a fetch, for the cycles it found (`:868`), and not before the next one.
  The first fetch passes empty arrays, for which the engine skips the copy
  (`GpuEngineCore.cpp:957-960`); a later job with more cycles than the one before
  would write past their ends. Whether it gets that far is not settled by the code:
  the import of GpuEngine_FetchResult (`GPU_Engine.mqh:73-105`) has no direction_out,
  power_out, velocity_out, plv_cycles_out and snr_cycles_out, while the wrapper passes
  all five (`GPU_Engine.mqh:322-365`) and the DLL takes them. The models take the
  call as the wrapper makes it, and leave these two arrays out.
- `GPU_WaveViz.mq5:258`: the wave, a chronological frame, is stored in a series
  buffer without being turned round; API.md:156 says frames are chronological.
- `Service.cpp:575`: the engine erases a job in FetchResult, before the answer is
  written; if the client dies then, nobody has the result.
- `GPU_Shared.mqh:10`: GPUShared is a set of globals of an include file. Hub and
  indicators are separate programs and each has its own; no statement carries
  what the hub publishes to the others, although
  `docs/GpuEngine_Architecture.md:30` and the header comment say they read it.
- `GpuEngineCore.cpp:1023-1025`: ERROR is stored before its message, and any
  other job's success clears the message; `docs/GpuEngine_API.md:168` tells the
  caller to read it after an error. For a failed Initialize this cannot happen
  (`StartErrorStays`).
- `GpuEngineCore.cpp:1031`: READY is stored before `elapsed_ms` is repaired, so a
  quick fetch can return 0 (`TimedOnceReleased` shows that the window closes).
- `GpuEngineCore.cpp:883`: FetchResult answers IN_PROGRESS for a job that failed
  (API.md:167) and for one dropped from the queue by Shutdown, which is polled
  IN_PROGRESS from then on (`:723`).
- `GpuEngineCore.cpp:762` refuses `periods == nullptr` with a count; API.md:158
  says the engine then selects by itself. It does so for a list that begins
  with EMPTY_VALUE, or a count of 0.
- `CudaProcessor.cu:568-572`: a silent band makes every bin a candidate;
  API.md:158 speaks of bins within the band.
- `GpuEngineCore.cpp:523-588`: when no cycle reaches `plv_threshold` the best is
  promoted, and if none has any lock all stay with empty `*_all` arrays;
  API.md:176 says cycles below the threshold are discarded.
- `CudaProcessor.cu:511`: `cycles.periods` points into the vector that is cleared
  and refilled from it. By the letter of C++ that is undefined; the build leaves
  the memory, and the in-place rewrite is right (`GivenPeriodsKept`).
- `GPU_EngineHub.mq5`: with `InpMaxCandidates = 0` the hub passes empty cycle
  arrays while the engine selects up to `mask.max_candidates`; `g_cyclePeriods`
  is resized to the cycles found and never filled (`:851`), so labels show
  periods of another list.
- `Service.cpp:243`, `GPU_Engine.mqh:377`: the result of GetLastError is tested
  the wrong way round, so the message is not read.
- `STATUS_QUEUE_FULL` is never returned; the client's GetStats is not
  implemented.
- Hold mode shows on the last pivot's own bar the price of the pivot before, and
  another once a newer pivot comes; the other modes change on the bars after the last
  pivot. `WindowsAgree` is about the bars that are settled, and says which they are.

In the CUDA processor:

- `CudaProcessor.cu:202`: when Initialize fails, `m_initialized` is still false and
  the destructor's Shutdown returns at once; buffers and stream stay
  (`DeviceIsAccounted` names them). The capacities stay set too: the same object
  initialised again would skip its allocations; the engine makes a new one.
- `CudaProcessor.cu:306`: AcquirePlan works on `m_plan_cache` without a lock. The
  model has the entry one of two workers loses; what else a race in
  `std::unordered_map` may do is not modelled.
- `CudaProcessor.cu:393`: nobody compares `frame_length` with `window_size`. Longer
  frames would overrun the buffers (`ShapesAssumption` is what `InBounds` needs);
  shorter ones are transformed with the stride of the window, so frames mix
  (`FramesStayApart` is about frames as long as the window, which is what
  API.md:155 asks for and the hub submits). In a window of one sample nothing is
  left of a frame when its mean has been removed, so the property asks for two.
- The periods are read back from `freq_filtered` after an inverse transform, to
  which cuFFT gives no promise that a complex input survives.

In the legacy bridge and its users:

- `GpuContext.cpp:209`: Shutdown resets three of the four configurations before
  cudaDeviceReset. The batch one keeps `ready` and pointers to memory that is
  gone (`outlived`), and a RunBatchWaveformFft after the next GpuSessionInit uses
  them; `BatchWaveformFft.cu:71` and `:159` say the memory is reused for ever.
- `MQL-GPU/gpu/GPU_SETUP.md:38` explains NOT_CONFIGURED by a configuration that
  was forgotten at the start. Two charts of different windows that both
  configured undo each other's and get it as well; and one that closes ends the
  session of the other. `LoneChartIsServed` is what remains true.
- `WaveformFft.cu`: upload and transform go to one stream and what reads their
  result to another, with no event between them. A call may return STATUS_OK with
  the spectrum or samples of the call before. Not always of the call before: one
  that failed leaves operations in the streams, which can carry older data past
  the next call that returns STATUS_OK. Only a call that began on empty streams
  and ended well puts an end to what is older (`NoStalerThanCleanCall`).
- A failed call returns without waiting, so its operations run under the next
  one; an indicator that fell back to the CPU leaves the session open.
- D2Z writes only the lower half of `d_fft`; the rest is what was there before.
- The result of `cufftSetStream` for the batch plan is not looked at.
- `CwtKernels.cu:206`: the result of the cudaMalloc of `d_dominant_temp` is not
  looked at; when it fails the kernel is launched with a pointer nobody has set.
  What it then writes to is undefined. The model lets it be the scratch buffer an earlier
  call of that chart had at the same place (`LaunchUnallocated`), and the cudaFree
  of it do nothing; a write to other memory of the device is left out.
- `MQL-GPU/gpu/GPU_SETUP.md:27` says that a program removes itself on any status other
  than 0 and does not go on with the CPU; the legacy indicator does go on with the CPU
  (`GPU_WaveViz_1.0.4_legacy.mq5:3166-3196`).
- FindDominantScaleKernel looks at the first 256 scales only.
- CGpuParallelProcessor imports RunWaveformFftBatch, which `exports.cpp` does not
  export.
- `README_GpuParallel.md:302` says MQL5 is single-threaded; the charts of a
  terminal that share the DLL are not.

## 5. The proofs

`EngineProofs` proves, for every `Workers` with at least two elements, all
`MaxJobs`, `MaxEpochs`, `MaxOutstanding` above 0 and both values of
`KeepsHandles` (`WorkersAssumption`, `BoundsAssumption`, `KeepsAssumption`):

| Theorem | States |
|---|---|
| `TypeCorrect` | `[]TypeOK` |
| `InvariantHolds` | `[](TypeOK /\ IInv)` |
| `QueueSound`, `RecordsExclusive`, `NothingLost` | queue, records and workers agree |
| `NoLostWakeUp`, `ProcessorKept`, `StopIsComplete` | Shutdown wakes, waits for and clears everything |
| `ReadyIsAPromise` | a READY that was polled can be fetched |
| `ResultsFrozen` | a final status and its buffers never change |
| `StartErrorKept` | the message of a failed start stays |
| `TimedInTheEnd` | a READY record without its time is about to be repaired |

`TypeOK` of Engine is inductive alone. The others are not: that no worker sleeps when
Shutdown joins (`ShutdownWakesEveryone`), for example, needs to know where
workers can be at every point of Shutdown, and that no record is written by
two workers needs to know that ids of the queue are below `m_next_id`, are
queued once, and that a worker has a job exactly while it is busy. The inductive
invariant is

    IInv == ThreadsFollowCalls /\ JobsFollowWorkers /\ RepliesHold

- `ThreadsFollowCalls`: which threads exist, what `m_running` and `m_processor`
  are and whether the queue is empty, by the caller's program point;
- `JobsFollowWorkers`: a worker's program point and its job's status agree, all
  ids in use are below `nextId`, and the three invariants about queue, records
  and losses, which need one another;
- `RepliesHold`: the record behind a READY answer is still there.

`ThreadsStep` needs only types; `JobsStep` the first part, `RepliesStep` the
second. Each is proved action by action; what pushing and popping do to the set
of queued ids is in two lemmas, and groups of actions that disturb the same
conjuncts share one (`JobsUnmoved`, `JobsPublished`, `JobsLeft`, ...). The
action properties follow from the invariant, one step per action.

`EngineProofs` also proves `EveryJobIsCounted`, `Spec => []StatsAreExact`. The
invariant is the property with `IInv`; the proof counts. A step that
stores READY adds one record and one worker to its two sets (`OneMoreReady`), one
that adds to the statistics takes one worker away (`OneMoreCounted`), and
ResetState finds no worker and clears every record (`NothingToCount`).

`OneJobProofs` proves, from the same assumptions, for a caller with
`MaxOutstanding = 1` and `KeepsHandles = FALSE`:

| Theorem | States |
|---|---|
| `FetchedResultsAreOwn` | `Spec => []FetchReturnsOwnJob` |
| `LifecycleImplemented` | `Spec => ImplementsLifecycle`: the initial states and every step |

Without those two hypotheses both are false (`EngineMixedResults`): every
worker computes on the same buffers. What saves the careful caller is
`OneInFlight`: a job that waits, is on the device or about to get its status is
the one whose handle the caller has, so no two workers are inside Process at
once (`OneProcesses`). Hence the buffers hold, stage by stage, what the one
worker put there (`BuffersFollowJobs`), and so do the records
(`ResultsAreOwn`); these and the property are `OwnInv`, inductive on top of
`IInv`. For the refinement the same invariant says what each step is for
`JobLifecycle`: most are stutters (`LifecycleStutters`), the drain of the queue,
the start, the submit, the two stores of a status and the fetch are not.

`PipeProofs` proves, for any clients, jobs, shapes and any set of processes that
may crash (`ClientsAssumption`, `ShapesAssumption`):

| Theorem | States |
|---|---|
| `ConversationHolds` | `[]PipeInv` |
| `PipeInSync` | `[]StreamInSync` |
| `NotedSizesFit` | `[]MetadataFits` |
| `NoAnswerCutOff` | `[]AnswersAreRead`: the service hangs up on no client that waits for something |

None of the three properties is inductive, and `MetadataFits` depends on the
other end of the pipe: the service notes a shape that it read from the stream,
and only a stream in step holds the shape that was asked for. `PipeInv` is the
conversation as a whole: who is connected to whom (`Connected`), what the
service has still to read (`Incoming`), how far the connected client's call and
the service have come with one another (`Conversation`), and that the shape
noted for a job is the engine's, but for the job whose submission is just being
answered (`Noting`). It is shown for the
steps of a client, of the service, and for crashes in turn, conjunct by
conjunct.

`HubProofs` proves, for any number of jobs, local or remote, failing or not, `HubKeepsTrack`
(`[]HubKnowsItsJobs`) and `HubHasOneJob`: while the hub has the engine, at most
one job is in it. The latter is the hypothesis `MaxOutstanding = 1` of
`OneJobProofs`, so that the two together cover the hub on the engine. `HubInv`
follows `g_jobs`, which is empty or holds one job: the one the engine has, or,
between FetchResult and RemoveJob, one it has just given away.

`HubWindowProofs` proves, for charts of any length, any frame length, hop, batch
size and prices (`PricesAssumption`, `InputsAssumption`):

| Theorem | States |
|---|---|
| `FramesFollow` | `[]FramesFollowTheChart` |
| `SeriesFilled` | `[]SeriesIsFilled` |
| `WindowsSettle` | `[]WindowsAgree`: what lies between the pivots of two windows is the same in both |

The first is arithmetic: the span of the planned frames fits the chart
(`PlanFits`), and division finds a sample's frame and place again (`Places`,
`Sample`). The others rest on the pivots next to a bar: a set of bars has a
newest and an oldest member (`MinIsLeast`, `MaxIsGreatest`, by the
well-foundedness of `<`), so a bar between the first and the last pivot lies
between two neighbours (`Inner`), and in each of the modes its price between
theirs (`BetweenThePrices`; integer division rounds down, but never past either
of them, `PartOfDifference`).
`WindowsSettle` compares a window with the part of it that another window has:
between the pivots of both, a bar has the same two neighbours (`SameNeighbours`),
and what is left are the bars at and after the last pivot of the part, which
each mode settles in its own way (`BridgePivot`, `HeldAfterLast`).

`ProcessorProofs` proves, for any window, size of batch, number of cycles
(`ConfigAssumption`), set of workers, and jobs whose frames are no longer than the
window (`ShapesAssumption`):

| Theorem | States |
|---|---|
| `BuffersSuffice` | `[]InBounds`: EnsureBuffers makes room for everything Process writes |
| `NothingElseLeaks` | `[]DeviceIsAccounted`: after Shutdown only the two named leaks are left |
| `FramesAreOwn` | `[]FramesStayApart`: a job that ran alone reads back its own frames, masks and periods |

`InBounds` needs, with `BufferInv`, what each worker is about to write: past the
guard its shape fits the batch, and its `cycles` and `cycle` are below
`MaxCycles`. The rest is arithmetic: a batch laid out by frame or by window fits
`MaxBatch` windows (`FrameRoom`), and row `c` of a job's rows lies below row
`MaxCycles` of the largest (`Rows`). `DeviceIsAccounted` needs to know who made
every plan: `AccountInv` says that workers at work have jobs of their own, that a
cached plan has one owner, that a worker between Find and Emplace is marked as
raced if another is there too, and where the memory and the plans belong.

`FramesStayApart` speaks of the end of a job; `FramesInv` follows the buffers to
it. While a worker is alone, all others are idle (`AloneInv`), so what its stage
finds is what its last stage left, and `HasSoFar` says for each program point
what that is, by frame and place within the frame: its own samples and mask
(`Raised`), the spectrum of its frames as it is and masked (`Transformed`), the
filtered series and what it leaves as noise (`Inverted`), and the masks of its
periods with as many cycles as it has come to (`Gained`). Cells beyond the job's own, where other jobs
may have left anything, are never read, because the transforms stride by the
window and a frame is as long as the window. The steps are arithmetic on places (`CellIs`,
`CellOf`: a place has one row and one column), what a write leaves alone
(`PutHolds`), and one lemma per stage.

`CyclesProofs` proves, for every frame length, list of periods, spectrum, band,
count, limit, and outcome of the filter (`SizesAssumption`, `ValuesAssumption`,
`GrainAssumption`):

| Theorem | States |
|---|---|
| `GivenSurvive` | `[]GivenPeriodsKept`: the list that is rewritten while it is read keeps its periods, in order |
| `StrongestAreTaken` | `[]StrongestBinsChosen`, in whatever order equal energies are sorted |
| `RoomForAll` | `[]FitsTheRequest` |
| `ResultsParallel` | `[]ArraysAreParallel`, on all four ways out of the tracker |
| `BestIsDominant` | `[]DominantIsBest` |
| `DominantIsDrawnFirst` | `[]TopIsDominant`: engine and indicator agree, ties included |

The assumptions are what the code has anyway: SubmitJob insists on a
`frame_length` above 0 and Initialize on a `max_cycle_count` of 0 or more,
`exports.cpp:89` on a band that begins at 1 or later; the values stand for
energies and locks that are not negative; and two bins `b` have two periods
`frame_length / b`. Each property is about what
one stage of the pipeline leaves, so each is established by the step into its
stage, from the types of what the stages before have left (`Inv`). The work is in
the loops. They are recursive functions on the number of turns; that such a
function is what its equation says is in `KeepRunIs`, `ChooseRunIs` and
`RankRunIs`, and what is true after every turn in `KeptSoFar` (the entries
written so far are the periods read so far, and the place of writing never passes
the place of reading), `ChosenSoFar` (the chosen bins are the strongest of those
looked at that have no chosen neighbour) and `ShownSoFar`. Induction on the turns
is `Climbs`: a set of numbers that has 0 and with each number the next has them
all, since otherwise it would lack a least one. `AscendingIs` and `FirstBestIs` say that the two choices the
definitions make exist and what they are.

`BridgeProofs` proves, for any charts, sizes and uses (`ChartsAssumption`) and any
`MaxCalls` (`BoundAssumption`):

| Theorem | States |
|---|---|
| `NothingLeft` | `[]NothingIsOrphaned` |
| `ReadyCanBeUsed` | `[]ReadyIsLive` |
| `LoneChartServed` | `[]LoneChartIsServed` |
| `OwnResultsReturned` | `[]OwnResults`: off the waveform buffers a call returns what comes from its own input |
| `NoneStaler` | `[]NoStalerThanCleanCall`: on them, nothing from before the last clean call |

The invariant of the first two is `BridgeInv == ConfigInv /\ ScratchInv /\ CallInv`: what a
configuration holds is nothing or, when ready, all its pieces, on the device
unless a session ended under it; what else is on the device is the scratch of a
chart in a call; and what a call has yet to do allocates only scratch of its own
chart (`ProgramsAreMine`, over all ten programs). A Configure and a Shutdown
are proved once each (`BuildKeeps`, `ShutdownKeeps`). The third rests on
`LoneInv`: while a chart is alone, no other has the session open, and what a
Configure leaves is what the chart asked for (`BuiltSuits`).

Both theorems about data rest on `DataInv == StreamsInv /\ BusyInv /\ OwnInv`:
an operation waiting in a stream belongs to a call that has begun and works on
buffers of the calls that use that stream; two calls of one configuration that are in
progress have met, and no two have the same number; and, for a call off the
waveform buffers that has met no other (`OwnRun`), every buffer it will still
read either will be written before by what it has yet to do, or will hold its
own data alone once its stream has been carried out (`Good`). Operations that a failed call
left in the stream come before its own, and what they leave its own overwrite:
that is why such a call cannot be fooled, on one stream, by what it does not wait for.

On the waveform buffers that argument fails, for two streams share them without
an order. `WaveInv == QueueInv /\ GoingInv` bounds the damage by the number of
the last clean call, `okay`: a buffer is `Young` if nothing in it is older.
`QueueInv` says what may wait on the two streams, and that what it will read is young or
will be overwritten first; `GoingInv` says of a call in progress that it
transforms what it has uploaded itself or what is young (`Shaped`), that, having
met no other, it reads what is young (`Fresh`), and that, having begun on
empty streams, its buffers hold nothing but its own in the end (`OnlyOwn`),
which is what makes it the next clean call.

Every invariant and every action property of the passing runs is stated by a
theorem, and so is the refinement's safety. Only model-checked are the liveness
properties, which need fairness and so ENABLED, beyond the prover: `StopReturns`
and `AcceptedJobsEnd` of `Engine`, `ConnectedCallsReturn` and
`ServiceIsReachableAgain` of `PipeService`, `ReadyIsPublished` of `Hub`. The
library's induction rules take an operator as a parameter, which the backends
cannot instantiate; where an induction is needed (`MinIsLeast`, `Climbs`), the
least counterexample takes its place.

## 6. What is left out

- Numbers: FFT, masks, the filter's arithmetic, phases, envelopes, wavelets and
  the reductions inside a kernel. The models
  keep which data went in and which choice came out.
- What the indicators draw: which bar a value of a frame lands on.
- Encoding of payloads, log, HUD, labels, colours, the preview mask.
- Protocol errors no client of the repository produces: Ping, a wrong magic or
  version, malformed payloads.
- Which of the some twenty `*_all` arrays of a result is which: they are one field
  (`all`), and an array that alone was not refilled would not be seen. Periods, PLV,
  cycles and the dominant's single arrays are told apart.
- Memory exhaustion (`std::bad_alloc` while a critical section is held).
- Concurrent calls into the engine: the DLL's exports take no lock of their
  own, but the hub and the service are single-threaded callers.
- The parts marked "not modelled" in section 1.

## 7. Plan

Done, in this order: `Engine`, `JobLifecycle` and the refinement, `EngineProofs`,
`PipeService`, `Hub`, `HubWindow`, `Cycles`, `GpuBridge` and `BridgeProofs`,
`Processor` and `ProcessorProofs`, `OneJobProofs` with the proof of the
refinement, `PipeProofs`, `HubProofs`, `HubWindowProofs`, `CyclesProofs`, and the
theorems about data in `BridgeProofs` and `ProcessorProofs`.

Next modules:

1. The reductions over blocks of threads in `SpectralAnalysisKernels.cu` and
   `CwtKernels.cu`, as operators against a reference over bounded inputs.
2. Hotkeys, toggles and the attaching of indicators by the hub.

Next proofs:

1. For whatever a new module adds, beside it.
2. The parts of the liveness arguments that are safety: that a caller in Shutdown
   always has a thread that can go on, and that each such step brings it nearer
   to the end.
3. The hub on the engine and the service on the engine as one state machine, with
   `LifecycleImplemented` and `HubHasOneJob` joined formally.
