---------------------------- MODULE OneJobProofs ----------------------------
(***************************************************************************)
(* Proofs about Engine for a caller like the hub, which keeps one job in    *)
(* flight and drops its handles at a Shutdown: although the workers share    *)
(* the device buffers, what it fetches is its own.                          *)
(***************************************************************************)
EXTENDS EngineProofs

\* The groups of variables that the actions leave unchanged.
USE DEF poolVars, workerVars, callVars, callerVars, recVars

\* The handle the caller has, or is about to get.
Current == IF cpc = "wake" THEN {<<epoch, nextId - 1>>} ELSE held

\* A job that waits or is being processed is the one whose handle the caller has.
OneInFlight ==
    /\ \A g, h \in held : g = h
    /\ \A h \in held : h = <<epoch, h[2]>>
    /\ cpc = "erase" => reply.status = "READY" /\ reply.of \in held
    /\ cpc \in {"wake", "start"} => held = {}
    /\ \A i \in Queued : <<epoch, i>> \in Current
    /\ \A w \in Workers : pc[w] \in Processing => <<epoch, job[w]>> \in Current

\* The device holds the data of the job that is on it, as far as it has come.
DeviceHolds(w, own) ==
    /\ pc[w] = "transform"  => dev["input"] = own
    /\ pc[w] = "synthesize" => dev["spectrum"] = own /\ dev["filtered"] = own
    /\ pc[w] = "download"   => dev["filtered"] = own /\ dev["cycles"] = own
    /\ pc[w] = "publish"    => wave[job[w]] = own /\ cycles[job[w]] = own

BuffersFollowJobs == \A w \in Workers : DeviceHolds(w, <<epoch, job[w]>>)

ResultsAreOwn ==
    \A i \in JobIds : status[i] = "READY" => wave[i] = <<epoch, i>> /\ cycles[i] = <<epoch, i>>

OwnInv == OneInFlight /\ BuffersFollowJobs /\ ResultsAreOwn /\ FetchReturnsOwnJob

-----------------------------------------------------------------------------
(* Which handle is out, and which jobs are under way *)

\* A caller that keeps at most one handle submits only when it has none.
LEMMA NothingHeld ==
    ASSUME OneInFlight, MaxOutstanding = 1, Cardinality(held) < MaxOutstanding
    PROVE  held = {}
<1> SUFFICES ASSUME held # {} PROVE FALSE
  OBVIOUS
<1>1. PICK h \in held : TRUE
  OBVIOUS
<1>2. held = {h}
  BY <1>1 DEF OneInFlight
<1>3. Cardinality(held) = 1
  BY <1>2, FS_Singleton
<1> QED
  BY <1>3

\* Where a worker comes from that is on the device or about to store a status.
LEMMA Phases ==
    /\ {"upload", "transform", "synthesize", "download", "publish", "fail"} = Processing
    /\ {"off", "loop", "lock", "blocking", "waiting", "exited",
        "timing", "clearing", "counting", "reporting"} \cap Processing = {}
  BY DEF Processing, OnDevice

\* A step that gives out no handle, starts no job and finishes none.
LEMMA FlightKept ==
    ASSUME OneInFlight, UNCHANGED <<held, epoch>>, Queued' \subseteq Queued,
           cpc # "wake", cpc' \notin {"wake", "start"},
           cpc' = "erase" => reply'.status = "READY" /\ reply'.of \in held,
           \A w \in Workers : pc'[w] \in Processing => pc[w] \in Processing /\ job'[w] = job[w]
    PROVE  OneInFlight'
  BY DEF OneInFlight, Current

\* The calls keep at most one job under way.
LEMMA FlightKeptByCaller ==
    ASSUME TypeOK, IInv, OneInFlight, MaxOutstanding = 1, ~ KeepsHandles,
           CallStarts \/ CallGoesOn \/ EraseJob
    PROVE  OneInFlight'
<1>1. CASE RejectConfig \/ RejectJob
  BY <1>1, FlightKept DEF RejectConfig, RejectJob, Queued
<1>2. CASE SubmitJob
  <2>1. held = {} /\ held' = {} /\ epoch' = epoch /\ cpc' = "wake" /\ cpc = "idle"
        /\ nextId' = nextId + 1 /\ pc' = pc /\ job' = job
    BY <1>2, NothingHeld DEF SubmitJob
  <2>2. Queued' = Queued \cup {nextId}
    BY <1>2, QueuedAfterPush, Ids DEF SubmitJob, TypeOK
  <2>3. Queued = {} /\ \A w \in Workers : pc[w] \notin Processing
    BY <2>1 DEF OneInFlight, Current
  <2>4. Current' = {<<epoch, nextId>>}
    BY <2>1 DEF Current, TypeOK
  <2> QED
    BY <2>1, <2>2, <2>3, <2>4 DEF OneInFlight
<1>3. ASSUME NEW init \in BOOLEAN, BeginStop(init) PROVE OneInFlight'
  BY <1>3, FlightKept DEF BeginStop, Queued
<1>4. ASSUME NEW h \in held, PollStatus(h) \/ RefuseFetch(h) \/ CopyResult(h) PROVE OneInFlight'
  BY <1>4, FlightKept DEF PollStatus, RefuseFetch, CopyResult, Queued
<1>5. CASE Drain
  <2>1. Queued' = {}
    BY <1>5 DEF Drain, Queued
  <2> QED
    BY <1>5, <2>1, FlightKept DEF Drain
<1>6. CASE NotifyAll
  <2>1. \A w \in Workers : pc'[w] \in Processing => pc[w] \in Processing /\ job'[w] = job[w]
    BY <1>6, Phases DEF NotifyAll
  <2> QED
    BY <1>6, <2>1, FlightKept DEF NotifyAll, Queued
<1>7. CASE Join
  BY <1>7, FlightKept, Phases DEF Join, Queued
<1>8. CASE ReleaseProcessor \/ Start \/ FailToStart
  <2>1. held' = {} /\ cpc' \in {"idle", "start"}
    BY <1>8 DEF ReleaseProcessor, Start, FailToStart, ResetState, OneInFlight
  <2>2. \A w \in Workers : pc'[w] \in {"off", "loop"}
    BY <1>8 DEF ReleaseProcessor, Start, FailToStart, ResetState, IInv, ThreadsFollowCalls
  <2>3. Queued' = {}
    BY <1>8 DEF ReleaseProcessor, Start, FailToStart, ResetState, IInv, ThreadsFollowCalls, Queued
  <2> QED
    BY <2>1, <2>2, <2>3, Phases DEF OneInFlight
<1>9. CASE NotifyOne
  <2>1. held' = {<<epoch, nextId - 1>>} /\ Current = held' /\ Current' = held' /\ epoch' = epoch
        /\ cpc' = "idle" /\ job' = job /\ Queued' = Queued
    BY <1>9 DEF NotifyOne, OneInFlight, Current, Queued
  <2>2. \A w \in Workers : pc'[w] \in Processing => pc[w] \in Processing
    BY <1>9, Phases DEF NotifyOne, TypeOK, Waiting
  <2> QED
    BY <2>1, <2>2 DEF OneInFlight
<1>10. CASE EraseJob
  <2>1. /\ held' = held \ {reply.of} /\ cpc = "erase" /\ cpc' = "idle"
        /\ UNCHANGED <<epoch, pc, job, queue>>
    BY <1>10 DEF EraseJob
  <2>2. status[reply.of[2]] = "READY"
    BY <2>1 DEF IInv, RepliesHold
  <2>3. \A i \in Queued : reply.of # <<epoch, i>>
    BY <2>2 DEF IInv, JobsFollowWorkers, QueueIsSound
  <2>4. \A w \in Workers : pc[w] \in Processing => reply.of # <<epoch, job[w]>>
    BY <2>2 DEF IInv, JobsFollowWorkers, OneWorkerPerJob
  <2> QED
    BY <2>1, <2>3, <2>4 DEF OneInFlight, Current, Queued
<1> QED
  BY <1>1, <1>2, <1>3, <1>4, <1>5, <1>6, <1>7, <1>8, <1>9, <1>10 DEF CallStarts, CallGoesOn

\* A worker takes the one job that waits, or goes on with the one it has.
LEMMA FlightKeptByWorker ==
    ASSUME TypeOK, IInv, OneInFlight, NEW w \in Workers, WorkerStep(w) \/ SpuriousWake(w)
    PROVE  OneInFlight'
<1>1. UNCHANGED <<held, epoch, cpc, nextId, reply>> /\ Current' = Current
      /\ \A v \in Workers : v # w => pc'[v] = pc[v] /\ job'[v] = job[v]
  BY DEF WorkerStep, CheckRunning, LeaveWait, TakeJob, FindNothing, GoToSleep, SpuriousWake, Upload,
     Transform, Synthesize, Download, ProcessFails, PublishReady, FixTiming, ClearError, CountJob,
     PublishError, ReportError, Step, TypeOK, Current
<1>2. CASE TakeJob(w)
  <2>1. Queued = Queued' \cup {Head(queue)}
    BY <1>2, QueuedAfterPop DEF TakeJob, IInv, JobsFollowWorkers, QueueIsSound
  <2>2. pc'[w] \in Processing => job'[w] = Head(queue)
    BY <1>2, Phases DEF TakeJob, Step, TypeOK
  <2> QED
    BY <1>1, <2>1, <2>2 DEF OneInFlight
<1>3. CASE ~ TakeJob(w)
  <2>1. queue' = queue /\ (pc'[w] \in Processing => pc[w] \in Processing /\ job'[w] = job[w])
    BY <1>3, Phases DEF WorkerStep, CheckRunning, LeaveWait, FindNothing, GoToSleep, SpuriousWake, Upload,
       Transform, Synthesize, Download, ProcessFails, PublishReady, FixTiming, ClearError, CountJob,
       PublishError, ReportError, Step, TypeOK, OnDevice
  <2> QED
    BY <1>1, <2>1 DEF OneInFlight, Queued
<1> QED
  BY <1>2, <1>3

-----------------------------------------------------------------------------
(* Whose data is where *)

\* Only one worker is processing a job.
LEMMA OneProcesses ==
    ASSUME TypeOK, IInv, OneInFlight, NEW v \in Workers, NEW w \in Workers,
           pc[v] \in Processing, pc[w] \in Processing
    PROVE  v = w
<1>1. <<epoch, job[v]>> \in Current /\ <<epoch, job[w]>> \in Current
  BY DEF OneInFlight
<1>2. <<epoch, job[v]>> = <<epoch, job[w]>>
  BY <1>1 DEF OneInFlight, Current
<1>3. job[v] # 0
  BY DEF IInv, JobsFollowWorkers, Busy
<1> QED
  BY <1>2, <1>3 DEF IInv, JobsFollowWorkers, OneWorkerPerJob

\* The data stays where it is, and nobody gets on with a job.
LEMMA DataKept ==
    ASSUME BuffersFollowJobs, ResultsAreOwn, UNCHANGED <<dev, wave, cycles, status, epoch>>,
           \A w \in Workers : pc'[w] \in Processing \ {"upload", "fail"} => pc'[w] = pc[w] /\ job'[w] = job[w]
    PROVE  BuffersFollowJobs' /\ ResultsAreOwn'
  BY Phases DEF BuffersFollowJobs, ResultsAreOwn, DeviceHolds

LEMMA DataKeptByCaller ==
    ASSUME TypeOK, IInv, BuffersFollowJobs, ResultsAreOwn, CallStarts \/ CallGoesOn \/ EraseJob
    PROVE  BuffersFollowJobs' /\ ResultsAreOwn'
<1>1. CASE CallStarts \/ EraseJob \/ Drain \/ ReleaseProcessor
  BY <1>1, DataKept DEF CallStarts, RejectConfig, RejectJob, SubmitJob, BeginStop, PollStatus, RefuseFetch,
     CopyResult, EraseJob, Drain, ReleaseProcessor
<1>2. CASE NotifyAll \/ Join \/ NotifyOne
  <2>1. \A w \in Workers : pc'[w] \in Processing => pc'[w] = pc[w]
    BY <1>2, Phases DEF NotifyAll, Join, NotifyOne, TypeOK, Waiting
  <2> QED
    BY <1>2, <2>1, DataKept DEF NotifyAll, Join, NotifyOne
<1>3. CASE Start \/ FailToStart
  <2>1. \A w \in Workers : pc'[w] \in {"off", "loop"}
    BY <1>3 DEF Start, FailToStart, ResetState, IInv, ThreadsFollowCalls
  <2>2. \A i \in JobIds : status'[i] # "READY"
    BY <1>3 DEF Start, FailToStart, ResetState, BlankRecords
  <2> QED
    BY <2>1, <2>2 DEF BuffersFollowJobs, ResultsAreOwn, DeviceHolds
<1> QED
  BY <1>1, <1>2, <1>3 DEF CallGoesOn

\* A step of Process takes its own data one buffer on, as no other worker is at it.
LEMMA DataMovedOn ==
    ASSUME TypeOK, IInv, OneInFlight, BuffersFollowJobs, ResultsAreOwn, NEW w \in Workers,
           Upload(w) \/ Transform(w) \/ Synthesize(w) \/ Download(w)
    PROVE  BuffersFollowJobs' /\ ResultsAreOwn'
<1>1. /\ pc[w] \in Processing /\ job' = job /\ UNCHANGED <<epoch, status>>
      /\ \A v \in Workers : v # w => pc'[v] = pc[v]
  BY Phases DEF Upload, Transform, Synthesize, Download, Step, TypeOK
<1>2. \A v \in Workers : v # w => pc'[v] \notin Processing
  BY <1>1, OneProcesses
<1>3. job[w] \in JobIds /\ status[job[w]] = "IN_PROGRESS"
  BY <1>1 DEF IInv, JobsFollowWorkers, OneWorkerPerJob, TypeOK
<1>4. DeviceHolds(w, <<epoch, job[w]>>)
  BY DEF BuffersFollowJobs
<1>5. DeviceHolds(w, <<epoch, job[w]>>)'
  <2>1. CASE Upload(w)
    BY <1>1, <2>1 DEF Upload, Step, DeviceHolds, TypeOK, Buffers
  <2>2. CASE Transform(w)
    BY <1>1, <1>4, <2>2 DEF Transform, Step, DeviceHolds, TypeOK, Buffers
  <2>3. CASE Synthesize(w)
    BY <1>1, <1>4, <2>3 DEF Synthesize, Step, DeviceHolds, TypeOK, Buffers
  <2>4. CASE Download(w)
    BY <1>1, <1>3, <1>4, <2>4 DEF Download, Step, DeviceHolds, TypeOK
  <2> QED
    BY <2>1, <2>2, <2>3, <2>4
<1>6. BuffersFollowJobs'
  BY <1>2, <1>5, Phases DEF BuffersFollowJobs, DeviceHolds
<1>7. \A i \in JobIds : i # job[w] => wave'[i] = wave[i] /\ cycles'[i] = cycles[i]
  BY DEF Upload, Transform, Synthesize, Download, TypeOK
<1>8. ResultsAreOwn'
  BY <1>1, <1>3, <1>7 DEF ResultsAreOwn
<1> QED
  BY <1>6, <1>8

\* A READY job's result was its own when the worker came to publish it.
LEMMA DataPublished ==
    ASSUME TypeOK, IInv, OneInFlight, BuffersFollowJobs, ResultsAreOwn, NEW w \in Workers,
           PublishReady(w) \/ PublishError(w)
    PROVE  BuffersFollowJobs' /\ ResultsAreOwn'
<1>1. /\ UNCHANGED <<epoch, wave, cycles, job, dev>> /\ pc'[w] \notin Processing
      /\ \A v \in Workers : v # w => pc'[v] = pc[v]
  BY Phases DEF PublishReady, PublishError, Step, TypeOK
<1>2. \A i \in JobIds : status'[i] = "READY" =>
          status[i] = "READY" \/ (i = job[w] /\ pc[w] = "publish")
  BY DEF PublishReady, PublishError, Step, TypeOK
<1>3. ResultsAreOwn'
  BY <1>1, <1>2 DEF ResultsAreOwn, BuffersFollowJobs, DeviceHolds
<1>4. BuffersFollowJobs'
  BY <1>1, Phases DEF BuffersFollowJobs, DeviceHolds
<1> QED
  BY <1>3, <1>4

LEMMA DataKeptByWorker ==
    ASSUME TypeOK, IInv, OneInFlight, BuffersFollowJobs, ResultsAreOwn,
           NEW w \in Workers, WorkerStep(w) \/ SpuriousWake(w)
    PROVE  BuffersFollowJobs' /\ ResultsAreOwn'
<1>1. CASE Upload(w) \/ Transform(w) \/ Synthesize(w) \/ Download(w)
  BY <1>1, DataMovedOn
<1>2. CASE PublishReady(w) \/ PublishError(w)
  BY <1>2, DataPublished
<1>3. CASE CheckRunning(w) \/ LeaveWait(w) \/ TakeJob(w) \/ FindNothing(w) \/ GoToSleep(w)
           \/ SpuriousWake(w) \/ ProcessFails(w) \/ FixTiming(w) \/ ClearError(w) \/ CountJob(w)
           \/ ReportError(w)
  <2>1. /\ UNCHANGED <<dev, wave, cycles, status, epoch>>
        /\ pc'[w] \notin Processing \ {"upload", "fail"}
        /\ \A v \in Workers : v # w => pc'[v] = pc[v] /\ job'[v] = job[v]
    BY <1>3, Phases DEF CheckRunning, LeaveWait, TakeJob, FindNothing, GoToSleep, SpuriousWake, ProcessFails,
       FixTiming, ClearError, CountJob, ReportError, Step, TypeOK
  <2> QED
    BY <2>1, DataKept
<1> QED
  BY <1>1, <1>2, <1>3 DEF WorkerStep

-----------------------------------------------------------------------------
(* What is fetched *)

\* The handle the caller fetches is of this epoch, and so is the result.
LEMMA FetchedIsOwn ==
    ASSUME TypeOK, OneInFlight, ResultsAreOwn, FetchReturnsOwnJob, [Next]_vars
    PROVE  FetchReturnsOwnJob'
<1> USE DEF FetchReturnsOwnJob
<1>1. ASSUME NEW h \in held, CopyResult(h) PROVE FetchReturnsOwnJob'
  <2>1. h[2] \in JobIds /\ status[h[2]] = "READY" /\ h = <<epoch, h[2]>>
    BY <1>1 DEF CopyResult, OneInFlight, TypeOK
  <2>2. wave[h[2]] = h /\ cycles[h[2]] = h
    BY <2>1 DEF ResultsAreOwn
  <2> QED
    BY <1>1, <2>2 DEF CopyResult
<1>2. ASSUME NEW h \in held, PollStatus(h) \/ RefuseFetch(h) PROVE FetchReturnsOwnJob'
  BY <1>2 DEF PollStatus, RefuseFetch, Answer
<1>3. CASE RejectConfig \/ RejectJob \/ SubmitJob \/ \E init \in BOOLEAN : BeginStop(init)
  BY <1>3 DEF RejectConfig, RejectJob, SubmitJob, BeginStop, NoReply, Answer
<1>4. CASE CallGoesOn \/ EraseJob
  BY <1>4 DEF CallGoesOn, Drain, NotifyAll, Join, ReleaseProcessor, Start, FailToStart, NotifyOne, EraseJob
<1>5. ASSUME NEW w \in Workers, WorkerStep(w) \/ SpuriousWake(w) PROVE FetchReturnsOwnJob'
  BY <1>5 DEF WorkerStep, CheckRunning, LeaveWait, TakeJob, FindNothing, GoToSleep, SpuriousWake, Upload,
     Transform, Synthesize, Download, ProcessFails, PublishReady, FixTiming, ClearError, CountJob,
     PublishError, ReportError
<1>6. CASE UNCHANGED vars
  BY <1>6 DEF vars
<1> QED
  BY <1>1, <1>2, <1>3, <1>4, <1>5, <1>6 DEF Next, CallStarts

\* Own data in every buffer, at every step, for a caller with one job in flight.
LEMMA OwnInvHolds ==
    ASSUME MaxOutstanding = 1, ~ KeepsHandles
    PROVE  Spec => []OwnInv
<1>1. Init => OwnInv
  <2>1. "off" \notin Processing \cup {"transform", "synthesize", "download", "publish"}
    BY Phases
  <2> QED
    BY <2>1 DEF Init, OwnInv, OneInFlight, Current, Queued, BuffersFollowJobs, DeviceHolds, ResultsAreOwn,
       FetchReturnsOwnJob, NoReply, Answer
<1>2. TypeOK /\ IInv /\ OwnInv /\ [Next]_vars => OwnInv'
  <2> SUFFICES ASSUME TypeOK, IInv, OwnInv, [Next]_vars PROVE OwnInv'
    OBVIOUS
  <2>1. FetchReturnsOwnJob'
    BY FetchedIsOwn DEF OwnInv
  <2>2. CASE CallStarts \/ CallGoesOn \/ EraseJob
    BY <2>1, <2>2, FlightKeptByCaller, DataKeptByCaller DEF OwnInv
  <2>3. ASSUME NEW w \in Workers, WorkerStep(w) \/ SpuriousWake(w) PROVE OwnInv'
    BY <2>1, <2>3, FlightKeptByWorker, DataKeptByWorker DEF OwnInv
  <2>4. CASE UNCHANGED vars
    BY <2>4 DEF vars, OwnInv, OneInFlight, Current, Queued, BuffersFollowJobs, DeviceHolds, ResultsAreOwn,
       FetchReturnsOwnJob
  <2> QED
    BY <2>2, <2>3, <2>4 DEF Next
<1> QED
  BY <1>1, <1>2, InvariantHolds, PTL DEF Spec

\* For a caller with one job in flight that drops its handles at a Shutdown,
\* everything FetchResult returns was computed from the frames of the job it asks
\* for, although every buffer of the device is shared.
THEOREM FetchedResultsAreOwn ==
    ASSUME MaxOutstanding = 1, ~ KeepsHandles
    PROVE  Spec => []FetchReturnsOwnJob
<1>1. OwnInv => FetchReturnsOwnJob
  BY DEF OwnInv
<1> QED
  BY <1>1, OwnInvHolds, PTL

-----------------------------------------------------------------------------
(* For that caller the engine implements JobLifecycle *)

\* What has become of a job, its record being of the right type.
LEMMA Stages ==
    ASSUME TypeOK, IInv, NEW i \in JobIds
    PROVE  StageOf(i) = IF i >= nextId THEN "unknown"
                        ELSE IF i \notin jobs THEN "retrieved"
                        ELSE IF status[i] = "READY" THEN "ready"
                        ELSE IF status[i] = "ERROR" THEN "failed" ELSE "accepted"
<1>1. status[i] \in {"IN_PROGRESS", "READY", "ERROR"} /\ i \in Nat /\ nextId \in Nat
  BY Ids DEF TypeOK, Statuses
<1>2. CASE i >= nextId
  <2>1. ~ (i < nextId) /\ i \notin jobs
    BY <1>1, <1>2 DEF IInv, JobsFollowWorkers
  <2> QED
    BY <1>2, <2>1, Zenon DEF StageOf
<1>3. CASE ~ (i >= nextId)
  <2>1. i < nextId
    BY <1>1, <1>3
  <2> QED
    BY <1>1, <1>3, <2>1, Zenon DEF StageOf
<1> QED
  BY <1>2, <1>3

LEMMA StagesNext ==
    ASSUME TypeOK', IInv', NEW i \in JobIds
    PROVE  StageOf(i)' = IF i >= nextId' THEN "unknown"
                         ELSE IF i \notin jobs' THEN "retrieved"
                         ELSE IF status'[i] = "READY" THEN "ready"
                         ELSE IF status'[i] = "ERROR" THEN "failed" ELSE "accepted"
<1>1. status'[i] \in {"IN_PROGRESS", "READY", "ERROR"} /\ i \in Nat /\ nextId' \in Nat
  BY Ids DEF TypeOK, Statuses
<1>2. CASE i >= nextId'
  <2>1. ~ (i < nextId') /\ i \notin jobs'
    BY <1>1, <1>2 DEF IInv, JobsFollowWorkers
  <2> QED
    BY <1>2, <2>1, Zenon DEF StageOf
<1>3. CASE ~ (i >= nextId')
  <2>1. i < nextId'
    BY <1>1, <1>3
  <2> QED
    BY <1>1, <1>3, <2>1, Zenon DEF StageOf
<1> QED
  BY <1>2, <1>3

\* The records stay, and with them what has become of the jobs.
LEMMA StagesKept ==
    ASSUME UNCHANGED <<nextId, jobs, status>>, NEW i \in JobIds
    PROVE  StageOf(i)' = StageOf(i)
  BY DEF StageOf

\* A caller that is in no call of FetchResult, or in its middle, has no answer.
LEMMA NoAnswerNow ==
    ASSUME reply'.call # "fetch" \/ reply'.status # "READY" \/ cpc' = "erase"
    PROVE  AnswerNow' = Lifecycle!NoAnswer
  BY DEF AnswerNow, Lifecycle!NoAnswer

LEMMA AnswerKept ==
    ASSUME UNCHANGED <<reply, epoch>>, cpc = "erase" <=> cpc' = "erase"
    PROVE  AnswerNow' = AnswerNow
  BY DEF AnswerNow

\* A call that answers something and moves no job is the abstract Forget.
LEMMA CallsForget ==
    ASSUME TypeOK, UNCHANGED <<running, pc, nextId, jobs, status>>, AnswerNow' = Lifecycle!NoAnswer
    PROVE  Lifecycle!Forget
<1>1. \A i \in JobIds : StageOf(i)' = StageOf(i)
  BY StagesKept
<1> QED
  BY <1>1 DEF Lifecycle!Forget, Lifecycle!NoAnswer

\* A step that changes no record, no answer and not whether threads exist.
LEMMA LifecycleStutters ==
    ASSUME TypeOK, UNCHANGED <<running, nextId, jobs, status>>, AnswerNow' = AnswerNow,
           running \/ ((\A w \in Workers : pc[w] = "off") <=> (\A w \in Workers : pc'[w] = "off"))
    PROVE  UNCHANGED Lifecycle!vars
<1>1. \A i \in JobIds : StageOf(i)' = StageOf(i)
  BY StagesKept
<1> QED
  BY <1>1 DEF Lifecycle!vars

\* Initialize and Shutdown.
LEMMA StopAndStartImplement ==
    ASSUME TypeOK, IInv, TypeOK', IInv',
           \/ \E init \in BOOLEAN : BeginStop(init)
           \/ Drain \/ NotifyAll \/ Join \/ ReleaseProcessor \/ Start \/ FailToStart
    PROVE  Lifecycle!Next \/ UNCHANGED Lifecycle!vars
<1>1. ASSUME NEW init \in BOOLEAN, BeginStop(init) PROVE Lifecycle!Next
  <2>1. AnswerNow' = Lifecycle!NoAnswer
    BY <1>1, NoAnswerNow DEF BeginStop, NoReply, Answer
  <2>2. CASE running
    <3>1. ~ running' /\ \A i \in JobIds : StageOf(i)' = StageOf(i)
      BY <1>1, StagesKept DEF BeginStop
    <3>2. pc' = pc /\ \A w \in Workers : pc[w] # "off"
      BY <1>1, <2>2 DEF BeginStop, IInv, ThreadsFollowCalls
    <3>3. Workers # {}
      BY WorkersAssumption, FS_EmptySet
    <3> QED
      BY <2>1, <2>2, <3>1, <3>2, <3>3 DEF Lifecycle!Next, Lifecycle!BeginClose, Lifecycle!NoAnswer
  <2>3. CASE ~ running
    BY <1>1, <2>1, <2>3, CallsForget DEF BeginStop, Lifecycle!Next, TypeOK
  <2> QED
    BY <2>2, <2>3
<1>2. CASE Drain \/ NotifyAll \/ ReleaseProcessor
  <2>1. AnswerNow' = AnswerNow
    BY <1>2, AnswerKept DEF Drain, NotifyAll, ReleaseProcessor
  <2>2. (\A w \in Workers : pc[w] = "off") <=> (\A w \in Workers : pc'[w] = "off")
    BY <1>2 DEF Drain, NotifyAll, ReleaseProcessor
  <2> QED
    BY <1>2, <2>1, <2>2, LifecycleStutters DEF Drain, NotifyAll, ReleaseProcessor
<1>3. CASE Join
  <2>1. AnswerNow' = AnswerNow /\ ~ running /\ ~ running' /\ \A w \in Workers : pc'[w] = "off"
    BY <1>3, AnswerKept DEF Join, IInv, ThreadsFollowCalls
  <2>2. \A i \in JobIds : StageOf(i)' = StageOf(i)
    BY <1>3, StagesKept DEF Join
  <2> QED
    BY <2>1, <2>2 DEF Lifecycle!Next, Lifecycle!Closed, Lifecycle!vars
<1>4. CASE Start \/ FailToStart
  <2>1. AnswerNow' = Lifecycle!NoAnswer
    BY <1>4, NoAnswerNow DEF Start, FailToStart, ResetState, IInv, RepliesHold
  <2>2. \A i \in JobIds : StageOf(i)' = "unknown"
    BY <1>4, StagesNext, Ids DEF Start, FailToStart, ResetState
  <2>3. ~ running /\ \A w \in Workers : pc[w] = "off"
    BY <1>4 DEF Start, FailToStart, IInv, ThreadsFollowCalls
  <2>4. running' \/ (~ running' /\ \A w \in Workers : pc'[w] = "off")
    BY <1>4, <2>3 DEF Start, FailToStart
  <2> QED
    BY <2>1, <2>2, <2>3, <2>4 DEF Lifecycle!Next, Lifecycle!Open, Lifecycle!NoAnswer, Lifecycle!JobIds, JobIds
<1> QED
  BY <1>1, <1>2, <1>3, <1>4

\* SubmitJob, PollStatus, FetchResult and the calls that are refused.
LEMMA CallsImplement ==
    ASSUME TypeOK, IInv, TypeOK', IInv', OwnInv,
           \/ RejectConfig \/ RejectJob \/ SubmitJob \/ NotifyOne \/ EraseJob
           \/ \E h \in held : PollStatus(h) \/ RefuseFetch(h) \/ CopyResult(h)
    PROVE  Lifecycle!Next \/ UNCHANGED Lifecycle!vars
<1>1. CASE RejectConfig \/ RejectJob
  <2>1. AnswerNow' = Lifecycle!NoAnswer
    BY <1>1, NoAnswerNow DEF RejectConfig, RejectJob, NoReply, Answer
  <2> QED
    BY <1>1, <2>1, CallsForget DEF RejectConfig, RejectJob, Lifecycle!Next
<1>2. ASSUME NEW h \in held, PollStatus(h) \/ RefuseFetch(h) \/ CopyResult(h) PROVE Lifecycle!Next
  <2>1. AnswerNow' = Lifecycle!NoAnswer
    BY <1>2, NoAnswerNow DEF PollStatus, RefuseFetch, CopyResult, Answer
  <2> QED
    BY <1>2, <2>1, CallsForget DEF PollStatus, RefuseFetch, CopyResult, Lifecycle!Next
<1>3. CASE NotifyOne
  <2>1. AnswerNow' = AnswerNow
    BY <1>3, AnswerKept DEF NotifyOne
  <2> QED
    BY <1>3, <2>1, LifecycleStutters DEF NotifyOne, IInv, ThreadsFollowCalls
<1>4. CASE SubmitJob
  <2>1. PICK n \in JobIds : n = nextId
    BY <1>4, Ids DEF SubmitJob, TypeOK
  <2>2. /\ n \in Nat /\ nextId' = n + 1 /\ jobs' = jobs \cup {n} /\ n \notin jobs
        /\ running /\ running' /\ status' = status /\ status[n] = "IN_PROGRESS"
    BY <1>4, <2>1, Ids DEF SubmitJob, TypeOK, IInv, JobsFollowWorkers
  <2>3. AnswerNow' = Lifecycle!NoAnswer
    BY <1>4, NoAnswerNow DEF SubmitJob, NoReply, Answer
  <2>4. StageOf(n) = "unknown" /\ StageOf(n)' = "accepted"
    BY <2>1, <2>2, Stages, StagesNext
  <2>5. \A i \in JobIds : i # n => StageOf(i)' = StageOf(i)
    BY <2>1, <2>2, Stages, StagesNext, Ids
  <2>6. \A i \in 1 .. (n - 1) : i \in JobIds /\ StageOf(i) # "unknown"
    BY <2>1, <2>2, Stages, Bounds DEF JobIds
  <2> QED
    BY <2>2, <2>3, <2>4, <2>5, <2>6
       DEF Lifecycle!Next, Lifecycle!Accept, Lifecycle!NoAnswer, Lifecycle!JobIds, JobIds
<1>5. CASE EraseJob
  <2> DEFINE i == reply.of[2]
  <2>1. /\ cpc = "erase" /\ cpc' = "idle" /\ jobs' = jobs \ {i}
        /\ UNCHANGED <<running, pc, nextId, status, reply, epoch>>
    BY <1>5 DEF EraseJob
  <2>2. i \in jobs /\ i \in JobIds /\ status[i] = "READY" /\ i < nextId /\ i \in Nat /\ nextId \in Nat
    BY <2>1, Ids DEF IInv, RepliesHold, JobsFollowWorkers, TypeOK
  <2>3. reply.call = "fetch" /\ reply.status = "READY" /\ reply.of = <<epoch, i>>
    BY <2>1 DEF IInv, RepliesHold, OwnInv, OneInFlight
  <2>4. AnswerNow' = [of |-> i, data |-> i]
    BY <2>1, <2>3 DEF AnswerNow, OwnInv, FetchReturnsOwnJob
  <2>5. StageOf(i) = "ready"
    BY <2>2, Stages
  <2>6. \A j \in JobIds : StageOf(j)' = IF j = i THEN "retrieved" ELSE StageOf(j)
    BY <2>1, <2>2, Stages, StagesNext, Ids
  <2> HIDE DEF i
  <2> QED
    BY <2>1, <2>2, <2>4, <2>5, <2>6
       DEF Lifecycle!Next, Lifecycle!Retrieve, Lifecycle!JobIds, JobIds
<1> QED
  BY <1>1, <1>2, <1>3, <1>4, <1>5

\* A worker moves on the one job it stores a final status for.
LEMMA WorkersImplement ==
    ASSUME TypeOK, IInv, TypeOK', IInv', NEW w \in Workers, WorkerStep(w) \/ SpuriousWake(w)
    PROVE  Lifecycle!Next \/ UNCHANGED Lifecycle!vars
<1>1. UNCHANGED <<running, nextId, jobs, reply, epoch, cpc>> /\ pc[w] # "off" /\ pc'[w] # "off"
  BY DEF WorkerStep, CheckRunning, LeaveWait, TakeJob, FindNothing, GoToSleep, SpuriousWake, Upload,
     Transform, Synthesize, Download, ProcessFails, PublishReady, FixTiming, ClearError, CountJob,
     PublishError, ReportError, Step, TypeOK, OnDevice
<1>2. AnswerNow' = AnswerNow
  BY <1>1, AnswerKept
<1>3. CASE PublishReady(w) \/ PublishError(w)
  <2> DEFINE i == job[w]
             end == IF pc[w] = "publish" THEN "ready" ELSE "failed"
  <2>1. i \in JobIds /\ i \in jobs /\ i < nextId /\ status[i] = "IN_PROGRESS"
        /\ i \in Nat /\ nextId \in Nat
    BY <1>3, Ids DEF IInv, JobsFollowWorkers, OneWorkerPerJob, PublishReady, PublishError, Step,
       Processing, TypeOK
  <2>2. /\ status'[i] = IF pc[w] = "publish" THEN "READY" ELSE "ERROR"
        /\ \A j \in JobIds : j # i => status'[j] = status[j]
    BY <1>3, <2>1 DEF PublishReady, PublishError, Step, TypeOK
  <2>3. StageOf(i) = "accepted"
    BY <2>1, Stages
  <2>4. \A j \in JobIds : StageOf(j)' = IF j = i THEN end ELSE StageOf(j)
    BY <1>1, <2>1, <2>2, Stages, StagesNext, Ids
  <2>5. end \in {"ready", "failed"}
    OBVIOUS
  <2> HIDE DEF i, end
  <2> QED
    BY <1>1, <1>2, <2>1, <2>3, <2>4, <2>5
       DEF Lifecycle!Next, Lifecycle!Finish, Lifecycle!JobIds, JobIds
<1>4. CASE ~ (PublishReady(w) \/ PublishError(w))
  <2>1. status' = status
    BY <1>4 DEF WorkerStep, CheckRunning, LeaveWait, TakeJob, FindNothing, GoToSleep, SpuriousWake, Upload,
       Transform, Synthesize, Download, ProcessFails, FixTiming, ClearError, CountJob, ReportError
  <2> QED
    BY <1>1, <1>2, <2>1, LifecycleStutters
<1> QED
  BY <1>3, <1>4

\* What the hub and the service build on: with one job in flight the engine keeps
\* every promise of JobLifecycle, retrieved data included.
THEOREM LifecycleImplemented ==
    ASSUME MaxOutstanding = 1, ~ KeepsHandles
    PROVE  Spec => ImplementsLifecycle
<1>1. Init => Lifecycle!Init
  <2>1. ASSUME Init PROVE \A i \in JobIds : StageOf(i) = "unknown"
    BY <2>1, Ids DEF Init, StageOf
  <2>2. ASSUME Init PROVE AnswerNow = Lifecycle!NoAnswer
    BY <2>2 DEF Init, NoReply, Answer, AnswerNow, Lifecycle!NoAnswer
  <2> QED
    BY <2>1, <2>2 DEF Init, Lifecycle!Init, Lifecycle!NoAnswer, Lifecycle!JobIds, JobIds
<1>2. TypeOK /\ IInv /\ TypeOK' /\ IInv' /\ OwnInv /\ [Next]_vars => [Lifecycle!Next]_(Lifecycle!vars)
  <2> SUFFICES ASSUME TypeOK, IInv, TypeOK', IInv', OwnInv, [Next]_vars
               PROVE  Lifecycle!Next \/ UNCHANGED Lifecycle!vars
    OBVIOUS
  <2>1. CASE UNCHANGED vars
    <3>1. AnswerNow' = AnswerNow
      BY <2>1, AnswerKept DEF vars
    <3> QED
      BY <2>1, <3>1, LifecycleStutters DEF vars
  <2>2. CASE Next
    BY <2>2, StopAndStartImplement, CallsImplement, WorkersImplement DEF Next, CallStarts, CallGoesOn
  <2> QED
    BY <2>1, <2>2
<1> QED
  BY <1>1, <1>2, OwnInvHolds, InvariantHolds, PTL DEF Spec, ImplementsLifecycle, Lifecycle!Spec
=============================================================================
