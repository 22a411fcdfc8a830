-------------------------------- MODULE Hub ---------------------------------
(***************************************************************************)
(* The expert adviser that drives the engine (GPU_EngineHub.mq5, through    *)
(* CGpuEngineClient of GPU_Engine.mqh) and what it publishes in its GPUShared *)
(* (GPU_Shared.mqh).  MetaTrader runs the event handlers of one program one *)
(* after the other; the engine's threads run beside them, so a handler is a *)
(* step per call into the DLL.  The engine is JobLifecycle, in the same     *)
(* process or behind the pipe service, which may die.                       *)
(***************************************************************************)
EXTENDS Naturals, Sequences

CONSTANTS
    MaxJobs,    \* bound: jobs accepted between two starts of the engine
    JobsFail,   \* may a job end in STATUS_ERROR?
    Remote      \* is the DLL GpuEngineClient.dll, with the engine in the service?

ASSUME KindsAssumption == JobsFail \in BOOLEAN /\ Remote \in BOOLEAN

VARIABLES
    phase, stage, answer,   \* the engine (see JobLifecycle)
    pc,         \* the hub: off the chart, idle, or where its handler is
    ready,      \* CGpuEngineClient::m_ready
    jobs,       \* g_jobs
    shared      \* the job whose buffers the hub's GPUShared holds

engine == <<phase, stage, answer>>
vars   == <<engine, pc, ready, jobs, shared>>

Lib == INSTANCE JobLifecycle

JobIds == Lib!JobIds

Init ==
    /\ Lib!Init
    /\ pc = "off" /\ ready = FALSE /\ jobs = <<>>
    /\ shared = 0

Goes(from, to) ==
    /\ pc = from
    /\ pc' = to

-----------------------------------------------------------------------------
(* On and off the chart *)

\* OnInit: without an engine, INIT_FAILED and the hub is taken off again.
InitEngine ==
    /\ Lib!Open
    /\ Goes("off", IF phase' = "open" THEN "init" ELSE "off")
    /\ ready' = (phase' = "open")
    /\ UNCHANGED <<jobs, shared>>

\* OnInit goes on: with the ZigZag indicator the hub waits for events.
InitDone ==
    /\ Goes("init", "idle")
    /\ UNCHANGED <<engine, ready, jobs, shared>>

\* CGpuEngineClient::Shutdown, when iCustom gave no ZigZag and in OnDeinit.
\* A service that was started again has no engine to stop.
ShutdownEngine ==
    /\ IF phase = "open" THEN Lib!BeginClose ELSE Lib!Forget
    /\ pc \in {"init", "idle"}
    /\ pc' = "closing"
    /\ ready' = FALSE
    /\ UNCHANGED <<jobs, shared>>

\* OnDeinit frees g_jobs and the buffers; GPUShared keeps what it has.
Leave ==
    /\ phase = "closed"
    /\ Goes("closing", "off")
    /\ jobs' = <<>>
    /\ UNCHANGED <<engine, ready, shared>>

-----------------------------------------------------------------------------
(* OnTick and OnTimer: SubmitPendingBatches, then PollCompletedJobs *)

Event ==
    /\ Goes("idle", "submit")
    /\ UNCHANGED <<engine, ready, jobs, shared>>

\* Mutant: the hub does not wait for the job it has submitted.
SubmitAlways ==
    \E i \in JobIds :
       /\ Goes("submit", "poll")
       /\ Lib!Accept(i)
       /\ jobs' = <<i>>
       /\ UNCHANGED <<ready, shared>>

\* SubmitPendingBatches sends one batch at a time.
SubmitBatch ==
    \E i \in JobIds :
       /\ jobs = <<>>
       /\ Goes("submit", "poll")
       /\ Lib!Accept(i)
       /\ jobs' = Append(jobs, i)
       /\ UNCHANGED <<ready, shared>>

\* A job is out, the chart has too few bars or pivots, or SubmitJob refuses.
SubmitNothing ==
    /\ Goes("submit", "poll")
    /\ UNCHANGED <<engine, ready, jobs, shared>>

PollReady ==
    /\ jobs # <<>> /\ stage[Head(jobs)] = "ready"
    /\ Goes("poll", "fetch")
    /\ Lib!Forget
    /\ UNCHANGED <<ready, jobs, shared>>

\* No job, or one that is not READY: in progress, in error or unknown.
PollOther ==
    /\ IF jobs = <<>> THEN UNCHANGED answer
                      ELSE stage[Head(jobs)] # "ready" /\ Lib!Forget
    /\ Goes("poll", "idle")
    /\ UNCHANGED <<phase, stage, ready, jobs, shared>>

Fetch ==
    /\ Goes("fetch", "publish")
    /\ Lib!Retrieve(Head(jobs))
    /\ UNCHANGED <<ready, jobs, shared>>

\* FetchResult fails, and RemoveJob ends the job all the same: the engine with
\* which it was READY is gone.
FetchFails ==
    /\ Goes("fetch", "idle")
    /\ stage[Head(jobs)] # "ready"
    /\ Lib!Forget
    /\ jobs' = Tail(jobs)
    /\ UNCHANGED <<ready, shared>>

\* Mutant: DispatchSignals only when cycles were found.
PublishCycles ==
    /\ Goes("publish", "idle")
    /\ shared' \in {answer.data, shared}
    /\ jobs' = Tail(jobs)
    /\ UNCHANGED <<engine, ready>>

\* DispatchSignals fills the hub's GPUShared, and RemoveJob ends the job.
Publish ==
    /\ Goes("publish", "idle")
    /\ shared' = answer.data
    /\ jobs' = Tail(jobs)
    /\ UNCHANGED <<engine, ready>>

EngineStep ==
    /\ \/ Lib!Closed
       \/ \E i \in JobIds : Lib!Finish(i) /\ (~JobsFail => stage'[i] = "ready")
    /\ UNCHANGED <<pc, ready, jobs, shared>>

\* The service dies, and its engine with all jobs; what was fetched is the hub's.
ServiceDies ==
    /\ Remote /\ phase # "closed"
    /\ phase' = "closed" /\ stage' = [i \in JobIds |-> "unknown"]
    /\ UNCHANGED <<answer, pc, ready, jobs, shared>>

Handler ==
    \/ SubmitBatch \/ SubmitNothing \/ PollReady \/ PollOther
    \/ Fetch \/ FetchFails \/ Publish \/ Leave

Next ==
    \/ InitEngine \/ InitDone \/ ShutdownEngine
    \/ Event \/ Handler \/ EngineStep \/ ServiceDies

\* Handlers end, timer events keep coming, and the engine's threads run.
Spec ==
    /\ Init /\ [][Next]_vars
    /\ WF_vars(Handler) /\ WF_vars(Event) /\ WF_vars(EngineStep)

-----------------------------------------------------------------------------
(* Properties *)

\* The jobs an open engine holds are those in g_jobs, so that the hub never
\* has two jobs in flight (the engine's workers share the device buffers) and
\* never forgets one whose record the engine would keep for good, not by a fetch
\* that fails either.  While a result is being published its record is gone and
\* its job still listed.
HubKnowsItsJobs ==
    phase = "open" =>
        {i \in JobIds : stage[i] \in {"accepted", "ready", "failed"}} =
        IF pc = "publish" THEN {} ELSE {jobs[k] : k \in DOMAIN jobs}

\* The result of a job that is ready is published, if the hub stays on its chart
\* and the engine lives: no event handler loses a result between PollStatus,
\* FetchResult and DispatchSignals.
ReadyIsPublished ==
    \A i \in JobIds :
        (jobs = <<i>> /\ stage[i] = "ready") ~> (shared = i \/ ~ready \/ stage[i] = "unknown")
=============================================================================
