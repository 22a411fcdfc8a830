------------------------------- MODULE Engine -------------------------------
(***************************************************************************)
(* The job engine of GpuEngine.dll: class Engine of GpuEngineCore.cpp, with *)
(* the part of CudaProcessor that its workers share.                       *)
(*                                                                         *)
(* One caller (the EA hub, or the pipe service) calls Initialize,          *)
(* Shutdown, SubmitJob, PollStatus and FetchResult; two or more worker     *)
(* threads take job ids from a queue guarded by m_queue_mutex and a        *)
(* condition variable, and run the jobs through one CudaProcessor that has *)
(* one CUDA stream and one set of device buffers.                          *)
(*                                                                         *)
(* A step is what happens between two points where another thread can look *)
(* or interfere: an access to an atomic, a critical section, a wait, a     *)
(* call that enqueues work on the shared stream.  A critical section is    *)
(* one step, except the one in which a worker finds nothing to do and goes *)
(* to sleep: there the worker holds the mutex between evaluating the       *)
(* predicate and joining the wait set ("blocking").                        *)
(***************************************************************************)
EXTENDS Integers, FiniteSets, Sequences

CONSTANTS
    Workers,        \* the worker threads, kDefaultWorkerCount = 2 or more
    MaxJobs,        \* bound: jobs accepted between two Initialize calls
    MaxEpochs,      \* bound: successful or failed device start-ups
    MaxOutstanding, \* how many jobs the caller keeps unfetched at a time
    KeepsHandles    \* does the caller keep its handles over a Shutdown?

ASSUME WorkersAssumption == IsFiniteSet(Workers) /\ Cardinality(Workers) >= 2
ASSUME BoundsAssumption  == {MaxJobs, MaxEpochs, MaxOutstanding} \subseteq Nat \ {0}
ASSUME KeepsAssumption   == KeepsHandles \in BOOLEAN

JobIds == 1 .. MaxJobs

\* A job of the whole history, which also stands for the data submitted with
\* it: the epoch (how often Initialize reset the engine) and the internal_id,
\* which starts again at 1 in every epoch.  NoData is memory not yet written.
Data   == Nat \X Nat
NoData == <<0, 0>>

VARIABLES
    running,        \* m_running
    processor,      \* m_processor: TRUE while it exists and is initialised
    queue,          \* m_job_queue
    jobs,           \* the keys of m_jobs
    status,         \* of the JobRecord with this id: status, ...
    wave,           \* ... whose data wave, preview and noise are, ...
    cycles,         \* ... whose data cycles are, ...
    timed,          \* ... and whether result.elapsed_ms is positive
    nextId,         \* m_next_id
    completed,      \* m_completed_jobs
    lastError,      \* m_last_error, by the call that wrote it, or "none"
    dev,            \* whose data each device buffer holds
    pc,             \* where each worker is in WorkerLoop
    job,            \* the worker's local `job`; 0 when it has none
    cpc,            \* where the caller is in the call it is making
    initialising,   \* that call is Initialize, not Shutdown
    wasRunning,     \* Shutdown's local was_running
    epoch,          \* how often ResetState ran
    held,           \* handles the caller has and has not fetched
    reply           \* what the last PollStatus or FetchResult returned

poolVars   == <<running, processor, nextId, jobs>>
workerVars == <<pc, job>>
callVars   == <<cpc, initialising, wasRunning>>
callerVars == <<epoch, held, reply>>
recVars    == <<status, wave, cycles, timed>>
vars == <<poolVars, workerVars, callVars, callerVars, recVars, queue, completed, lastError, dev>>

\* Device buffers: m_d_time_original and m_d_time_in; m_d_freq_original;
\* m_d_time_filtered and m_d_time_noise; m_d_time_cycles.
Buffers == {"input", "spectrum", "filtered", "cycles"}

BlankRecords ==
    /\ status' = [i \in JobIds |-> "IN_PROGRESS"]
    /\ wave'   = [i \in JobIds |-> NoData]
    /\ cycles' = [i \in JobIds |-> NoData]
    /\ timed'  = [i \in JobIds |-> FALSE]

\* What a call that returns no result answers.
Answer(call, h, st) == [call |-> call, of |-> h, status |-> st,
                        wave |-> NoData, cycles |-> NoData, timed |-> FALSE]
NoReply == Answer("none", NoData, "UNKNOWN")

\* Worker program points at which Process runs on the device.
OnDevice == {"upload", "transform", "synthesize", "download"}
\* Points after the READY, or the ERROR, of the worker's job was stored.
AfterReady == {"timing", "clearing", "counting"}
AfterError == {"reporting"}
Processing == OnDevice \cup {"publish", "fail"}
Busy == Processing \cup AfterReady \cup AfterError
WorkerPoints == Busy \cup {"off", "loop", "lock", "blocking", "waiting", "exited"}
CallerPoints == {"idle", "drain", "notify", "join", "release", "start", "wake", "erase"}
Statuses == {"IN_PROGRESS", "READY", "ERROR"}

Reply == [call : {"none", "poll", "fetch"}, of : Data, status : Statuses \cup {"UNKNOWN"},
          wave : Data, cycles : Data, timed : BOOLEAN]

QueueMutexFree == \A w \in Workers : pc[w] # "blocking"

Init ==
    /\ running = FALSE /\ processor = FALSE /\ nextId = 1 /\ jobs = {}
    /\ queue = <<>> /\ completed = 0 /\ lastError = "none"
    /\ status = [i \in JobIds |-> "IN_PROGRESS"]
    /\ wave = [i \in JobIds |-> NoData] /\ cycles = [i \in JobIds |-> NoData]
    /\ timed = [i \in JobIds |-> FALSE]
    /\ dev = [b \in Buffers |-> NoData]
    /\ pc  = [w \in Workers |-> "off"]
    /\ job = [w \in Workers |-> 0]
    /\ cpc = "idle" /\ initialising = FALSE /\ wasRunning = FALSE
    /\ epoch = 0 /\ held = {} /\ reply = NoReply

-----------------------------------------------------------------------------
(* Faulty variants of steps below, each a plausible slip in the code: the    *)
(* properties are shown to notice them.                                      *)

\* Shutdown drains the queue without taking m_queue_mutex.
DrainUnlocked ==
    /\ cpc = "drain"
    /\ queue' = <<>>
    /\ cpc' = "notify"
    /\ UNCHANGED <<poolVars, workerVars, initialising, wasRunning, callerVars,
                   recVars, completed, lastError, dev>>

\* was_running is read after m_running was cleared.
StopForgetsItRan(init) ==
    /\ cpc = "idle"
    /\ init => epoch < MaxEpochs
    /\ running' = FALSE
    /\ wasRunning' = FALSE
    /\ initialising' = init
    /\ cpc' = "drain"
    /\ reply' = NoReply
    /\ UNCHANGED <<processor, nextId, jobs, workerVars, epoch, held,
                   queue, recVars, completed, lastError, dev>>

\* The workers are detached, not joined.
JoinNobody ==
    /\ cpc = "join"
    /\ cpc' = "release"
    /\ UNCHANGED <<poolVars, workerVars, initialising, wasRunning, callerVars,
                   queue, recVars, completed, lastError, dev>>

\* Initialize keeps m_completed_jobs.
ResetKeepsStats ==
    /\ jobs' = {} /\ queue' = <<>> /\ nextId' = 1
    /\ BlankRecords
    /\ dev' = [b \in Buffers |-> NoData]
    /\ epoch' = epoch + 1
    /\ UNCHANGED completed

\* The id is queued and the record is not entered into m_jobs.
SubmitWithoutRecord ==
    /\ cpc = "idle"
    /\ running
    /\ nextId <= MaxJobs
    /\ Cardinality(held) < MaxOutstanding
    /\ QueueMutexFree
    /\ nextId' = nextId + 1
    /\ queue' = Append(queue, nextId)
    /\ cpc' = "wake"
    /\ reply' = NoReply
    /\ UNCHANGED <<running, processor, jobs, workerVars, initialising, wasRunning, epoch,
                   held, recVars, completed, lastError, dev>>

\* SubmitJob does not notify.
NotifyNobody ==
    /\ cpc = "wake"
    /\ held' = held \cup {<<epoch, nextId - 1>>}
    /\ cpc' = "idle"
    /\ UNCHANGED <<poolVars, workerVars, initialising, wasRunning, epoch, reply,
                   queue, recVars, completed, lastError, dev>>

\* PollStatus answers READY for every job that ended.
PollTakesErrorForReady(h) ==
    /\ cpc = "idle"
    /\ reply' = Answer("poll", h,
                     IF h[2] \notin jobs THEN "UNKNOWN"
                                ELSE IF status[h[2]] = "ERROR" THEN "READY"
                                ELSE status[h[2]])
    /\ UNCHANGED <<poolVars, workerVars, callVars, epoch, held,
                   queue, recVars, completed, lastError, dev>>

\* FetchResult does not look at the status.
CopyAnyResult(h) ==
    /\ cpc = "idle"
    /\ h[2] \in jobs
    /\ reply' = [call |-> "fetch", of |-> h, status |-> "READY",
                 wave |-> wave[h[2]], cycles |-> cycles[h[2]], timed |-> timed[h[2]]]
    /\ cpc' = "erase"
    /\ UNCHANGED <<poolVars, workerVars, initialising, wasRunning, epoch, held,
                   queue, recVars, completed, lastError, dev>>

\* The front of the queue is read and not popped.
TakeWithoutPop(w) ==
    /\ QueueMutexFree
    /\ running
    /\ queue # <<>>
    /\ pc[w] = "lock"
    /\ pc' = [pc EXCEPT ![w] = "upload"]
    /\ job' = [job EXCEPT ![w] = Head(queue)]
    /\ UNCHANGED <<poolVars, callVars, callerVars, queue, recVars, completed, lastError, dev>>

\* The test of m_jobs.find is inverted: a known job is skipped.
TakeSkipsKnown(w) ==
    /\ QueueMutexFree
    /\ running
    /\ queue # <<>>
    /\ pc[w] = "lock"
    /\ pc' = [pc EXCEPT ![w] = "loop"]
    /\ queue' = Tail(queue)
    /\ UNCHANGED <<poolVars, job, callVars, callerVars, recVars, completed, lastError, dev>>

\* The frames of the job are not copied to the device.
UploadNothing(w) ==
    /\ processor
    /\ pc[w] = "upload"
    /\ pc' = [pc EXCEPT ![w] = "transform"]
    /\ UNCHANGED <<poolVars, job, callVars, callerVars, queue, recVars, completed, lastError, dev>>

\* A time that is missing stays so.
FixNothing(w) ==
    /\ pc[w] = "timing"
    /\ pc' = [pc EXCEPT ![w] = "clearing"]
    /\ UNCHANGED <<poolVars, job, callVars, callerVars, queue, recVars, completed, lastError, dev>>

\* The counter of finished jobs counts the wrong way.
CountDown(w) ==
    /\ pc[w] = "counting"
    /\ pc' = [pc EXCEPT ![w] = "loop"]
    /\ completed' = completed - 1
    /\ job' = [job EXCEPT ![w] = 0]
    /\ UNCHANGED <<poolVars, callVars, callerVars, queue, recVars, lastError, dev>>

-----------------------------------------------------------------------------
(* The caller: Initialize and Shutdown *)

\* Initialize with a configuration it refuses: nothing is shut down.
RejectConfig ==
    /\ cpc = "idle"
    /\ lastError' = "config"
    /\ reply' = NoReply
    /\ UNCHANGED <<poolVars, workerVars, callVars, epoch, held, queue, recVars, completed, dev>>

\* m_running.exchange(false), outside any mutex.  Initialize gets here through
\* ResetState.
BeginStop(init) ==
    /\ cpc = "idle"
    /\ init => epoch < MaxEpochs
    /\ running' = FALSE
    /\ wasRunning' = running
    /\ initialising' = init
    /\ cpc' = "drain"
    /\ reply' = NoReply
    /\ UNCHANGED <<processor, nextId, jobs, workerVars, epoch, held,
                   queue, recVars, completed, lastError, dev>>

Drain ==
    /\ cpc = "drain"
    /\ QueueMutexFree
    /\ queue' = <<>>
    /\ cpc' = "notify"
    /\ UNCHANGED <<poolVars, workerVars, initialising, wasRunning, callerVars,
                   recVars, completed, lastError, dev>>

NotifyAll ==
    /\ cpc = "notify"
    /\ pc' = [w \in Workers |-> IF pc[w] = "waiting" THEN "lock" ELSE pc[w]]
    /\ cpc' = "join"
    /\ UNCHANGED <<poolVars, job, initialising, wasRunning, callerVars,
                   queue, recVars, completed, lastError, dev>>

\* join() every worker if the engine was running, then m_workers.clear().
Join ==
    /\ cpc = "join"
    /\ wasRunning => \A w \in Workers : pc[w] \in {"exited", "off"}
    /\ pc' = [w \in Workers |-> "off"]
    /\ cpc' = "release"
    /\ UNCHANGED <<poolVars, job, initialising, wasRunning, callerVars,
                   queue, recVars, completed, lastError, dev>>

\* m_processor->Shutdown() and reset().  m_jobs is not cleared: the records of
\* a stopped engine can still be polled and fetched.
ReleaseProcessor ==
    /\ cpc = "release"
    /\ processor' = FALSE
    /\ cpc' = IF initialising THEN "start" ELSE "idle"
    /\ held' = IF KeepsHandles THEN held ELSE {}
    /\ UNCHANGED <<running, nextId, jobs, workerVars, initialising, wasRunning,
                   epoch, reply, queue, recVars, completed, lastError, dev>>

\* The rest of ResetState; a new processor has new, unwritten device memory.
ResetState ==
    /\ jobs' = {} /\ queue' = <<>> /\ completed' = 0 /\ nextId' = 1
    /\ BlankRecords
    /\ dev' = [b \in Buffers |-> NoData]
    /\ epoch' = epoch + 1

\* The rest of Initialize when the device comes up, and when it does not.
Start ==
    /\ cpc = "start"
    /\ ResetState
    /\ running' = TRUE
    /\ processor' = TRUE
    /\ pc' = [w \in Workers |-> "loop"]
    /\ cpc' = "idle"
    /\ UNCHANGED <<job, initialising, wasRunning, held, reply, lastError>>

FailToStart ==
    /\ cpc = "start"
    /\ ResetState
    /\ lastError' = "init"
    /\ cpc' = "idle"
    /\ UNCHANGED <<running, processor, workerVars, initialising, wasRunning, held, reply>>

-----------------------------------------------------------------------------
(* The caller: SubmitJob, PollStatus and FetchResult *)

RejectJob ==
    /\ cpc = "idle"
    /\ running
    /\ lastError' = "submit"
    /\ reply' = NoReply
    /\ UNCHANGED <<poolVars, workerVars, callVars, epoch, held, queue, recVars, completed, dev>>

\* The record is entered and its id queued in one critical section.
SubmitJob ==
    /\ cpc = "idle"
    /\ running
    /\ nextId <= MaxJobs
    /\ Cardinality(held) < MaxOutstanding
    /\ QueueMutexFree
    /\ nextId' = nextId + 1
    /\ jobs' = jobs \cup {nextId}
    /\ queue' = Append(queue, nextId)
    /\ cpc' = "wake"
    /\ reply' = NoReply
    /\ UNCHANGED <<running, processor, workerVars, initialising, wasRunning, epoch, held,
                   recVars, completed, lastError, dev>>

Waiting == {w \in Workers : pc[w] = "waiting"}

\* notify_one, after which SubmitJob returns the handle.
NotifyOne ==
    /\ cpc = "wake"
    /\ \/ Waiting = {} /\ UNCHANGED pc
       \/ \E w \in Waiting : pc' = [pc EXCEPT ![w] = "lock"]
    /\ held' = held \cup {<<epoch, nextId - 1>>}
    /\ cpc' = "idle"
    /\ UNCHANGED <<poolVars, job, initialising, wasRunning, epoch, reply,
                   queue, recVars, completed, lastError, dev>>

\* PollStatus and FetchResult look the record up by internal_id alone.  A
\* handle m_jobs does not know is answered STATUS_ERROR by the return value;
\* "UNKNOWN" keeps that apart from a known job whose status is ERROR.
PollStatus(h) ==
    /\ cpc = "idle"
    /\ reply' = Answer("poll", h,
                     IF h[2] \in jobs THEN status[h[2]] ELSE "UNKNOWN")
    /\ UNCHANGED <<poolVars, workerVars, callVars, epoch, held,
                   queue, recVars, completed, lastError, dev>>

\* Everything that is not READY is answered IN_PROGRESS, failed jobs too.
RefuseFetch(h) ==
    /\ cpc = "idle"
    /\ ~ (h[2] \in jobs /\ status[h[2]] = "READY")
    /\ reply' = Answer("fetch", h,
                     IF h[2] \in jobs THEN "IN_PROGRESS" ELSE "UNKNOWN")
    /\ UNCHANGED <<poolVars, workerVars, callVars, epoch, held,
                   queue, recVars, completed, lastError, dev>>

\* The buffers and the ResultInfo are copied out with no lock held, ...
CopyResult(h) ==
    /\ cpc = "idle"
    /\ h[2] \in jobs /\ status[h[2]] = "READY"
    /\ reply' = [call |-> "fetch", of |-> h, status |-> "READY",
                 wave |-> wave[h[2]], cycles |-> cycles[h[2]], timed |-> timed[h[2]]]
    /\ cpc' = "erase"
    /\ UNCHANGED <<poolVars, workerVars, initialising, wasRunning, epoch, held,
                   queue, recVars, completed, lastError, dev>>

\* ... and the map entry is erased under the queue mutex.
EraseJob ==
    /\ cpc = "erase"
    /\ QueueMutexFree
    /\ jobs' = jobs \ {reply.of[2]}
    /\ held' = held \ {reply.of}
    /\ cpc' = "idle"
    /\ UNCHANGED <<running, processor, nextId, workerVars, initialising, wasRunning, epoch, reply,
                   queue, recVars, completed, lastError, dev>>

-----------------------------------------------------------------------------
(* A worker: WorkerLoop around Process *)

Step(w, from, to) ==
    /\ pc[w] = from
    /\ pc' = [pc EXCEPT ![w] = to]

CheckRunning(w) ==
    /\ Step(w, "loop", IF running THEN "lock" ELSE "exited")
    /\ UNCHANGED <<poolVars, job, callVars, callerVars, queue, recVars, completed, lastError, dev>>

LeaveWait(w) ==
    /\ QueueMutexFree
    /\ ~ running
    /\ Step(w, "lock", "exited")
    /\ UNCHANGED <<poolVars, job, callVars, callerVars, queue, recVars, completed, lastError, dev>>

\* An id that m_jobs does not know is skipped (see QueueIsSound).
TakeJob(w) ==
    /\ QueueMutexFree
    /\ running
    /\ queue # <<>>
    /\ Step(w, "lock", IF Head(queue) \in jobs THEN "upload" ELSE "loop")
    /\ job' = [job EXCEPT ![w] = IF Head(queue) \in jobs THEN Head(queue) ELSE 0]
    /\ queue' = Tail(queue)
    /\ UNCHANGED <<poolVars, callVars, callerVars, recVars, completed, lastError, dev>>

\* cv.wait: the predicate is false, then the mutex is released and the worker
\* sleeps in one step.
FindNothing(w) ==
    /\ QueueMutexFree
    /\ running
    /\ queue = <<>>
    /\ Step(w, "lock", "blocking")
    /\ UNCHANGED <<poolVars, job, callVars, callerVars, queue, recVars, completed, lastError, dev>>

GoToSleep(w) ==
    /\ Step(w, "blocking", "waiting")
    /\ UNCHANGED <<poolVars, job, callVars, callerVars, queue, recVars, completed, lastError, dev>>

SpuriousWake(w) ==
    /\ Step(w, "waiting", "lock")
    /\ UNCHANGED <<poolVars, job, callVars, callerVars, queue, recVars, completed, lastError, dev>>

\* Process, on the one stream and the one set of device buffers all workers
\* share; the stream runs the calls in the order in which they are made.
Upload(w) ==
    /\ processor
    /\ Step(w, "upload", "transform")
    /\ dev' = [dev EXCEPT !["input"] = <<epoch, job[w]>>]
    /\ UNCHANGED <<poolVars, job, callVars, callerVars, queue, recVars, completed, lastError>>

Transform(w) ==
    /\ Step(w, "transform", "synthesize")
    /\ dev' = [dev EXCEPT !["spectrum"] = dev["input"], !["filtered"] = dev["input"]]
    /\ UNCHANGED <<poolVars, job, callVars, callerVars, queue, recVars, completed, lastError>>

Synthesize(w) ==
    /\ Step(w, "synthesize", "download")
    /\ dev' = [dev EXCEPT !["cycles"] = dev["spectrum"]]
    /\ UNCHANGED <<poolVars, job, callVars, callerVars, queue, recVars, completed, lastError>>

\* elapsed_ms stays 0 when cudaEventElapsedTime fails or measures nothing.
Download(w) ==
    /\ Step(w, "download", "publish")
    /\ \E measured \in BOOLEAN :
         timed' = [timed EXCEPT ![job[w]] = measured]
    /\ wave' = [wave EXCEPT ![job[w]] = dev["filtered"]]
    /\ cycles' = [cycles EXCEPT ![job[w]] = dev["cycles"]]
    /\ UNCHANGED <<status, poolVars, job, callVars, callerVars, queue, completed, lastError, dev>>

\* Any CUDA or cuFFT call, a plan, a batch larger than max_batch_size.
ProcessFails(w) ==
    /\ pc[w] \in OnDevice
    /\ pc' = [pc EXCEPT ![w] = "fail"]
    /\ UNCHANGED <<poolVars, job, callVars, callerVars, queue, recVars, completed, lastError, dev>>

\* RunKalmanTracker works on the record alone; then the status is stored.
PublishReady(w) ==
    /\ Step(w, "publish", "timing")
    /\ status' = [status EXCEPT ![job[w]] = "READY"]
    /\ UNCHANGED <<wave, cycles, timed, poolVars, job, callVars, callerVars, queue, completed, lastError, dev>>

\* The worker's own measurement replaces a missing one, after READY.
FixTiming(w) ==
    /\ Step(w, "timing", "clearing")
    /\ timed' = [timed EXCEPT ![job[w]] = TRUE]
    /\ UNCHANGED <<status, wave, cycles, poolVars, job, callVars, callerVars, queue, completed, lastError, dev>>

ClearError(w) ==
    /\ Step(w, "clearing", "counting")
    /\ lastError' = "none"
    /\ UNCHANGED <<poolVars, job, callVars, callerVars, queue, recVars, completed, dev>>

CountJob(w) ==
    /\ Step(w, "counting", "loop")
    /\ completed' = completed + 1
    /\ job' = [job EXCEPT ![w] = 0]
    /\ UNCHANGED <<poolVars, callVars, callerVars, queue, recVars, lastError, dev>>

PublishError(w) ==
    /\ Step(w, "fail", "reporting")
    /\ status' = [status EXCEPT ![job[w]] = "ERROR"]
    /\ UNCHANGED <<wave, cycles, timed, poolVars, job, callVars, callerVars, queue, completed, lastError, dev>>

ReportError(w) ==
    /\ Step(w, "reporting", "loop")
    /\ lastError' = "gpu"
    /\ job' = [job EXCEPT ![w] = 0]
    /\ UNCHANGED <<poolVars, callVars, callerVars, queue, recVars, completed, dev>>

-----------------------------------------------------------------------------
\* A call under way goes on; starting one is the caller's choice.
CallGoesOn ==
    \/ Drain \/ NotifyAll \/ Join \/ ReleaseProcessor \/ Start \/ FailToStart \/ NotifyOne

CallStarts ==
    \/ RejectConfig \/ RejectJob \/ SubmitJob
    \/ \E init \in BOOLEAN : BeginStop(init)
    \/ \E h \in held : PollStatus(h) \/ RefuseFetch(h) \/ CopyResult(h)

WorkerStep(w) ==
    \/ CheckRunning(w) \/ LeaveWait(w) \/ TakeJob(w) \/ FindNothing(w) \/ GoToSleep(w)
    \/ Upload(w) \/ Transform(w) \/ Synthesize(w) \/ Download(w) \/ ProcessFails(w)
    \/ PublishReady(w) \/ FixTiming(w) \/ ClearError(w) \/ CountJob(w)
    \/ PublishError(w) \/ ReportError(w)

Next ==
    \/ CallStarts \/ CallGoesOn \/ EraseJob
    \/ \E w \in Workers : WorkerStep(w) \/ SpuriousWake(w)

Spec == Init /\ [][Next]_vars

(***************************************************************************)
(* Threads that can run do run, and device work and Kalman iterations end. *)
(* The one mutex acquisition that can be overtaken for ever, by workers    *)
(* waking spuriously, gets the mutex if it is free again and again.        *)
(***************************************************************************)
Fairness ==
    /\ WF_vars(CallGoesOn)
    /\ SF_vars(EraseJob)
    /\ \A w \in Workers : WF_vars(WorkerStep(w))

FairSpec == Spec /\ Fairness

-----------------------------------------------------------------------------
(* Properties *)

\* The types of the variables.
TypeOK ==
    /\ running \in BOOLEAN /\ processor \in BOOLEAN
    /\ queue \in Seq(JobIds)
    /\ jobs \subseteq JobIds
    /\ status \in [JobIds -> Statuses] /\ timed \in [JobIds -> BOOLEAN]
    /\ wave \in [JobIds -> Data] /\ cycles \in [JobIds -> Data]
    /\ nextId \in 1 .. (MaxJobs + 1)
    /\ completed \in Nat
    /\ lastError \in {"none", "config", "init", "submit", "gpu"}
    /\ dev \in [Buffers -> Data]
    /\ pc \in [Workers -> WorkerPoints]
    /\ job \in [Workers -> JobIds \cup {0}]
    /\ cpc \in CallerPoints
    /\ initialising \in BOOLEAN /\ wasRunning \in BOOLEAN
    /\ epoch \in Nat
    /\ held \subseteq Data
    /\ reply \in Reply

Queued == {queue[k] : k \in 1 .. Len(queue)}
Taken  == {job[w] : w \in Workers} \ {0}

\* Every queued id has a record that is in progress, stands in the queue once
\* and is on no worker, so the lookup in TakeJob never misses.
QueueIsSound ==
    /\ Queued \subseteq {i \in jobs : status[i] = "IN_PROGRESS"}
    /\ Queued \cap Taken = {}
    /\ \A k, l \in 1 .. Len(queue) : queue[k] = queue[l] => k = l

\* No two workers ever hold the same JobRecord, and the one on the device is
\* still in progress: RunKalmanTracker and the downloads write unlocked
\* vectors of the record.
OneWorkerPerJob ==
    /\ \A v, w \in Workers : job[v] = job[w] /\ job[v] # 0 => v = w
    /\ \A w \in Workers :
         pc[w] \in Processing =>
             job[w] \in jobs /\ status[job[w]] = "IN_PROGRESS"

\* While the engine runs, an accepted job that has no final status is in the
\* queue or on a worker: none falls between the queue, the map and WorkerLoop.
NoJobIsLost ==
    running => \A i \in jobs : status[i] = "IN_PROGRESS" => i \in Queued \cup Taken

\* The condition variable loses no wake-up of Shutdown, which sets m_running
\* outside the mutex and is saved by draining the queue under it before
\* notify_all: when it joins, no worker sleeps or is about to.
ShutdownWakesEveryone ==
    /\ cpc \in {"notify", "join"} => \A w \in Workers : pc[w] # "blocking"
    /\ cpc = "join" => Waiting = {}

\* Shutdown destroys the processor only when no worker can be inside Process.
ProcessorOutlivesWorkers ==
    \A w \in Workers : pc[w] \in OnDevice => processor

\* m_workers.clear() without join() never meets a live thread (the destructor
\* of a joinable std::thread ends the process), and a stopped engine is still:
\* no thread, no device, no queue.
StoppedIsStill ==
    /\ cpc = "join" /\ ~ wasRunning => \A w \in Workers : pc[w] = "off"
    /\ cpc = "idle" /\ ~ running =>
         /\ \A w \in Workers : pc[w] = "off"
         /\ ~ processor
         /\ queue = <<>>

\* GetStats counts every job that became READY exactly once; what is missing
\* at any moment is on a worker between its READY and its statistics.
StatsAreExact ==
    completed + Cardinality({w \in Workers : pc[w] \in AfterReady})
        = Cardinality({i \in JobIds : status[i] = "READY"})

\* WorkerLoop stores READY before it puts a missing elapsed_ms right: the one
\* record that is READY without its time is the one a worker is about to repair,
\* so that a result fetched later than that has its time.
TimedOnceReleased ==
    \A i \in JobIds :
        status[i] = "READY" /\ ~ timed[i] => \E w \in Workers : job[w] = i /\ pc[w] = "timing"

\* A caller that was told READY can fetch: nothing takes the record away
\* between PollStatus and FetchResult.
PolledReadyCanBeFetched ==
    reply.call = "poll" /\ reply.status = "READY" =>
        reply.of[2] \in jobs /\ status[reply.of[2]] = "READY"

\* What FetchResult returns was computed from the frames submitted under the
\* handle it was asked for, in every buffer.
FetchReturnsOwnJob ==
    reply.call = "fetch" /\ reply.status = "READY" =>
        reply.wave = reply.of /\ reply.cycles = reply.of

\* A final status is final, and the buffers of a job are frozen from then on,
\* as FetchResult copies them with no lock.
KeepsFinalJobs ==
    epoch' = epoch => \A i \in JobIds :
        status[i] # "IN_PROGRESS" =>
            /\ status'[i] = status[i]
            /\ wave'[i] = wave[i]
            /\ cycles'[i] = cycles[i]

ResultsAreFrozen == [][KeepsFinalJobs]_vars

\* Every worker clears m_last_error when its job succeeds.  When Initialize has
\* failed none is left to do so, and the caller finds the reason of the failure
\* until it calls again.
KeepsStartError ==
    cpc = "idle" /\ ~ running /\ lastError = "init" => lastError' \in {"init", "config"}

StartErrorStays == [][KeepsStartError]_vars

\* Initialize and Shutdown return: the workers are woken, leave and are joined.
StopReturns == cpc = "drain" ~> cpc = "idle"

\* A job that was accepted gets its final status, unless the engine is stopped.
AcceptedJobsEnd ==
    \A i \in JobIds : i \in jobs /\ status[i] = "IN_PROGRESS"
                          ~> (~ running \/ status[i] # "IN_PROGRESS")

-----------------------------------------------------------------------------
(* The inductive invariant from which EngineProofs derives the safety      *)
(* properties: how threads and processor follow the caller's progress, how *)
(* jobs follow the threads, and how answers stay true.                     *)

ThreadsFollowCalls ==
    /\ running => /\ processor
                  /\ cpc \in {"idle", "wake", "erase"}
                  /\ \A w \in Workers : pc[w] \notin {"off", "exited"}
    /\ cpc = "wake" => running
    /\ cpc \in {"drain", "notify", "join"} =>
         IF wasRunning THEN processor /\ \A w \in Workers : pc[w] # "off"
                       ELSE \A w \in Workers : pc[w] = "off"
    /\ ~ running /\ cpc \in {"idle", "erase", "release", "start"} =>
         \A w \in Workers : pc[w] = "off"
    /\ ~ running /\ cpc \in {"idle", "erase", "start"} => ~ processor
    /\ ~ running /\ cpc # "drain" => queue = <<>>
    /\ ShutdownWakesEveryone

JobsFollowWorkers ==
    /\ \A w \in Workers : job[w] # 0 <=> pc[w] \in Busy
    /\ \A w \in Workers : pc[w] \in AfterReady => status[job[w]] = "READY"
    /\ \A w \in Workers : pc[w] \in AfterError => status[job[w]] = "ERROR"
    /\ \A w \in Workers : job[w] < nextId
    /\ \A i \in jobs : i < nextId
    /\ \A i \in JobIds : i >= nextId => status[i] = "IN_PROGRESS"
    /\ OneWorkerPerJob
    /\ QueueIsSound
    /\ NoJobIsLost

RepliesHold ==
    /\ cpc = "erase" => reply.call = "fetch" /\ reply.of[2] \in jobs
                       /\ status[reply.of[2]] = "READY"
    /\ cpc \notin {"idle", "erase"} => reply.call = "none"
    /\ PolledReadyCanBeFetched

IInv == ThreadsFollowCalls /\ JobsFollowWorkers /\ RepliesHold

-----------------------------------------------------------------------------
(* Refinement: the engine, called by a hub that keeps one job in flight, *)
(* implements JobLifecycle.                                              *)

StageOf(i) ==
    CASE i >= nextId                       -> "unknown"
      [] i < nextId /\ i \notin jobs       -> "retrieved"
      [] i \in jobs /\ status[i] = "READY" -> "ready"
      [] i \in jobs /\ status[i] = "ERROR" -> "failed"
      [] i \in jobs /\ status[i] = "IN_PROGRESS" -> "accepted"

\* 0 stands for data that is not, or not only, the job's own.
AnswerNow ==
    IF reply.call = "fetch" /\ reply.status = "READY" /\ cpc # "erase"
    THEN [of   |-> reply.of[2],
          data |-> IF reply.wave = reply.cycles /\ reply.wave[1] = epoch
                   THEN reply.wave[2] ELSE 0]
    ELSE [of |-> 0, data |-> 0]

Lifecycle == INSTANCE JobLifecycle WITH
    phase  <- IF running THEN "open"
              ELSE IF \A w \in Workers : pc[w] = "off" THEN "closed" ELSE "closing",
    stage  <- [i \in JobIds |-> StageOf(i)],
    answer <- AnswerNow

ImplementsLifecycle == Lifecycle!Spec
=============================================================================
