---------------------------- MODULE EngineProofs ----------------------------
(***************************************************************************)
(* Proofs about Engine, for any set of two or more workers, any number of  *)
(* jobs, epochs and outstanding jobs, and both habits of the caller.       *)
(***************************************************************************)
EXTENDS Engine, FiniteSetTheorems, TLAPS

\* The groups of variables that the actions leave unchanged.
USE DEF poolVars, workerVars, callVars, callerVars, recVars

\* The values the actions assign are of the right types.
LEMMA Bounds == MaxJobs \in Nat /\ MaxJobs >= 1
  BY BoundsAssumption

LEMMA Ids ==
    /\ \A i \in JobIds : i \in Nat /\ i # 0
    /\ \A n \in 1 .. (MaxJobs + 1) : n \in Nat /\ n - 1 \in Nat /\ (n <= MaxJobs => n \in JobIds)
    /\ 1 \in 1 .. (MaxJobs + 1)
  BY Bounds DEF JobIds

LEMMA Constants ==
    /\ NoData \in Data /\ NoReply \in Reply
    /\ \A a, b \in Nat : <<a, b>> \in Data
    /\ \A h \in Data : h[2] \in Nat
  BY DEF NoData, Data, NoReply, Answer, Reply, Statuses

LEMMA Points ==
    /\ {"off", "loop", "lock", "blocking", "waiting", "publish", "fail", "exited", "reporting",
        "upload", "transform", "synthesize", "download", "timing", "clearing", "counting"}
         = WorkerPoints
    /\ "fail" \in WorkerPoints /\ "off" \in WorkerPoints /\ "loop" \in WorkerPoints
  BY DEF WorkerPoints, Busy, Processing, OnDevice, AfterReady, AfterError

\* What the queue operations do to its type.
LEMMA QueueTypes ==
    /\ <<>> \in Seq(JobIds)
    /\ \A q \in Seq(JobIds), i \in JobIds : Append(q, i) \in Seq(JobIds)
    /\ \A q \in Seq(JobIds) : q # <<>> => Head(q) \in JobIds /\ Tail(q) \in Seq(JobIds)
  OBVIOUS

\* Typing is inductive on its own: every step of the caller and of a worker
\* keeps every variable within its type.
LEMMA TypingStep == TypeOK /\ [Next]_vars => TypeOK'
<1> SUFFICES ASSUME TypeOK, [Next]_vars PROVE TypeOK'
  OBVIOUS
<1> USE DEF TypeOK
<1>1. CASE RejectConfig
  BY <1>1, Constants DEF RejectConfig
<1>2. CASE RejectJob
  BY <1>2, Constants DEF RejectJob
<1>3. CASE SubmitJob
  BY <1>3, Constants, Ids, Bounds, QueueTypes DEF SubmitJob, CallerPoints, WorkerPoints
<1>4. ASSUME NEW init \in BOOLEAN, BeginStop(init) PROVE TypeOK'
  BY <1>4, Constants DEF BeginStop, CallerPoints, WorkerPoints
<1>5. ASSUME NEW h \in held, PollStatus(h) PROVE TypeOK'
  BY <1>5, Constants DEF PollStatus, Reply, Answer, Statuses
<1>6. ASSUME NEW h \in held, RefuseFetch(h) PROVE TypeOK'
  BY <1>6, Constants DEF RefuseFetch, Reply, Answer, Statuses
<1>7. ASSUME NEW h \in held, CopyResult(h) PROVE TypeOK'
  BY <1>7, Constants DEF CopyResult, Reply, Answer, Statuses, CallerPoints
<1>8. CASE Drain
  BY <1>8, QueueTypes DEF Drain, CallerPoints
<1>9. CASE NotifyAll
  BY <1>9 DEF NotifyAll, CallerPoints, WorkerPoints
<1>10. CASE Join
  BY <1>10 DEF Join, CallerPoints, WorkerPoints
<1>11. CASE ReleaseProcessor
  BY <1>11 DEF ReleaseProcessor, CallerPoints, WorkerPoints
<1>12. CASE Start
  BY <1>12, Constants, Ids, QueueTypes, Points
     DEF Start, ResetState, BlankRecords, CallerPoints, Statuses
<1>13. CASE FailToStart
  BY <1>13, Constants, Ids, QueueTypes DEF FailToStart, ResetState, BlankRecords, CallerPoints, WorkerPoints, Statuses
<1>14. CASE NotifyOne
  BY <1>14, Constants, Ids DEF NotifyOne, Waiting, CallerPoints, WorkerPoints
<1>15. CASE EraseJob
  BY <1>15, Constants DEF EraseJob, CallerPoints, Reply
<1>16. ASSUME NEW w \in Workers, CheckRunning(w) \/ LeaveWait(w) \/ FindNothing(w)
              \/ GoToSleep(w) \/ SpuriousWake(w) PROVE TypeOK'
  BY <1>16 DEF CheckRunning, LeaveWait, FindNothing, GoToSleep, SpuriousWake, Step, WorkerPoints, Busy, Processing, AfterReady, AfterError, OnDevice
<1>17. ASSUME NEW w \in Workers, TakeJob(w) PROVE TypeOK'
  BY <1>17, QueueTypes DEF TakeJob, Step, WorkerPoints, Busy, Processing, AfterReady, AfterError, OnDevice
<1>18. ASSUME NEW w \in Workers, Upload(w) \/ Transform(w) \/ Synthesize(w) \/ ProcessFails(w)
       PROVE TypeOK'
  <2>1. job[w] \in Nat
    BY Ids
  <2>2. CASE Upload(w)
    BY <2>1, <2>2, Constants DEF Upload, Step, WorkerPoints, Busy, Processing, OnDevice, Buffers
  <2>3. CASE Transform(w) \/ Synthesize(w)
    BY <2>3 DEF Transform, Synthesize, Step, WorkerPoints, Busy, Processing, OnDevice, Buffers
  <2>4. CASE ProcessFails(w)
    BY <2>4 DEF ProcessFails, WorkerPoints, Busy, Processing
  <2>5. QED
    BY <1>18, <2>2, <2>3, <2>4
<1>19. ASSUME NEW w \in Workers, Download(w) PROVE TypeOK'
  BY <1>19 DEF Download, Step, WorkerPoints, Busy, Processing, AfterReady, AfterError, OnDevice, Buffers, Statuses
<1>20. ASSUME NEW w \in Workers, PublishReady(w) \/ FixTiming(w) \/ PublishError(w)
       PROVE TypeOK'
  BY <1>20 DEF PublishReady, FixTiming, PublishError, Step, WorkerPoints, Busy, Processing, AfterReady, AfterError, OnDevice, Buffers, Statuses
<1>21. ASSUME NEW w \in Workers, ClearError(w) \/ CountJob(w) \/ ReportError(w) PROVE TypeOK'
  <2>1. CASE ClearError(w)
    BY <2>1 DEF ClearError, Step, WorkerPoints, Busy, AfterReady
  <2>2. CASE CountJob(w)
    BY <2>2, Points DEF CountJob, Step
  <2>3. CASE ReportError(w)
    BY <2>3 DEF ReportError, Step, WorkerPoints
  <2>4. QED
    BY <1>21, <2>1, <2>2, <2>3
<1>22. CASE UNCHANGED vars
  BY <1>22 DEF vars
<1>23. QED
  BY <1>1, <1>2, <1>3, <1>4, <1>5, <1>6, <1>7, <1>8, <1>9, <1>10, <1>11, <1>12, <1>13, <1>14,
     <1>15, <1>16, <1>17, <1>18, <1>19, <1>20, <1>21, <1>22
     DEF Next, CallStarts, CallGoesOn, WorkerStep

\* The types hold at first.
LEMMA TypeAtFirst == Init => TypeOK
<1> SUFFICES ASSUME Init PROVE TypeOK
  OBVIOUS
<1>1. /\ queue \in Seq(JobIds) /\ nextId \in 1 .. (MaxJobs + 1) /\ reply \in Reply
      /\ dev \in [Buffers -> Data] /\ wave \in [JobIds -> Data] /\ cycles \in [JobIds -> Data]
  BY Constants, Ids, QueueTypes DEF Init
<1>2. pc \in [Workers -> WorkerPoints] /\ cpc \in CallerPoints
  BY DEF Init, WorkerPoints, CallerPoints
<1>3. QED
  BY <1>1, <1>2 DEF Init, TypeOK, Statuses

\* The variables of the engine, its workers and its caller keep their types.
THEOREM TypeCorrect == Spec => []TypeOK
  BY TypeAtFirst, TypingStep, PTL DEF Spec

-----------------------------------------------------------------------------
\* How the threads follow the caller is inductive given the types: the only
\* steps it takes from the workers are those of their synchronisation.
LEMMA ThreadsStep == TypeOK /\ ThreadsFollowCalls /\ [Next]_vars => ThreadsFollowCalls'
<1> SUFFICES ASSUME TypeOK, ThreadsFollowCalls, [Next]_vars PROVE ThreadsFollowCalls'
  OBVIOUS
<1> USE DEF ThreadsFollowCalls, ShutdownWakesEveryone, Waiting
<1>1. CASE RejectConfig \/ RejectJob
  BY <1>1 DEF RejectConfig, RejectJob
<1>2. CASE SubmitJob
  BY <1>2 DEF SubmitJob
<1>3. ASSUME NEW init \in BOOLEAN, BeginStop(init) PROVE ThreadsFollowCalls'
  BY <1>3 DEF BeginStop
<1>4. ASSUME NEW h \in held, PollStatus(h) \/ RefuseFetch(h) \/ CopyResult(h)
      PROVE ThreadsFollowCalls'
  BY <1>4 DEF PollStatus, RefuseFetch, CopyResult
<1>5. CASE Drain
  BY <1>5 DEF Drain, QueueMutexFree
<1>6. CASE NotifyAll
  <2>1. \A w \in Workers : pc'[w] # "waiting" /\ (pc[w] # "off" => pc'[w] # "off")
                          /\ (pc[w] = "off" => pc'[w] = "off") /\ pc'[w] # "blocking"
    BY <1>6 DEF NotifyAll
  <2>2. QED
    BY <1>6, <2>1 DEF NotifyAll
<1>7. CASE Join
  BY <1>7 DEF Join
<1>8. CASE ReleaseProcessor
  BY <1>8 DEF ReleaseProcessor
<1>9. CASE Start
  BY <1>9 DEF Start, ResetState
<1>10. CASE FailToStart
  BY <1>10 DEF FailToStart, ResetState
<1>11. CASE NotifyOne
  BY <1>11 DEF NotifyOne, TypeOK
<1>12. CASE EraseJob
  BY <1>12 DEF EraseJob
<1>13. ASSUME NEW w \in Workers, WorkerStep(w) \/ SpuriousWake(w) PROVE ThreadsFollowCalls'
  <2>1. /\ pc[w] # "off" /\ pc[w] # "exited"
        /\ pc' = [pc EXCEPT ![w] = pc'[w]]
        /\ pc'[w] # "off"
        /\ pc'[w] = "exited" => ~ running
        /\ pc'[w] = "blocking" => running
        /\ pc'[w] = "waiting" => pc[w] = "blocking"
        /\ queue' = queue \/ running
        /\ UNCHANGED <<running, processor, cpc, wasRunning>>
    <3>1. CASE CheckRunning(w) \/ LeaveWait(w) \/ FindNothing(w) \/ GoToSleep(w) \/ SpuriousWake(w)
      BY <3>1 DEF CheckRunning, LeaveWait, FindNothing, GoToSleep, SpuriousWake, Step, TypeOK
    <3>2. CASE TakeJob(w)
      BY <3>2 DEF TakeJob, Step, TypeOK
    <3>3. CASE Upload(w) \/ Transform(w) \/ Synthesize(w) \/ Download(w) \/ ProcessFails(w)
      BY <3>3 DEF Upload, Transform, Synthesize, Download, ProcessFails, Step, TypeOK, OnDevice
    <3>4. CASE PublishReady(w) \/ FixTiming(w) \/ ClearError(w) \/ CountJob(w)
               \/ PublishError(w) \/ ReportError(w)
      BY <3>4 DEF PublishReady, FixTiming, ClearError, CountJob, PublishError, ReportError, Step,
         TypeOK
    <3>5. QED
      BY <1>13, <3>1, <3>2, <3>3, <3>4 DEF WorkerStep
  <2>2. QED
    BY <2>1 DEF TypeOK
<1>14. CASE UNCHANGED vars
  BY <1>14 DEF vars
<1>15. QED
  BY <1>1, <1>2, <1>3, <1>4, <1>5, <1>6, <1>7, <1>8, <1>9, <1>10, <1>11, <1>12, <1>13, <1>14
     DEF Next, CallStarts, CallGoesOn

-----------------------------------------------------------------------------
\* Where Queued and Taken go when the queue and the workers' jobs change.
LEMMA QueuedAfterPush ==
    ASSUME TypeOK, NEW i \in JobIds, queue' = Append(queue, i)
    PROVE  Queued' = Queued \cup {i}
<1>1. Len(queue') = Len(queue) + 1 /\ queue'[Len(queue) + 1] = i
      /\ \A k \in 1 .. Len(queue) : queue'[k] = queue[k]
  BY DEF TypeOK
<1>2. Len(queue) \in Nat
  BY DEF TypeOK
<1>3. QED
  BY <1>1, <1>2 DEF Queued

LEMMA QueuedAfterPop ==
    ASSUME TypeOK, queue # <<>>, queue' = Tail(queue),
           \A k, l \in 1 .. Len(queue) : queue[k] = queue[l] => k = l
    PROVE  /\ Queued = Queued' \cup {Head(queue)}
           /\ Head(queue) \notin Queued'
           /\ \A k, l \in 1 .. Len(queue') : queue'[k] = queue'[l] => k = l
<1>1. /\ Len(queue) \in Nat /\ Len(queue) > 0 /\ Len(queue') = Len(queue) - 1
      /\ Head(queue) = queue[1]
      /\ \A k \in 1 .. Len(queue') : queue'[k] = queue[k + 1]
  BY DEF TypeOK
<1>2. \A k \in 1 .. Len(queue) : k = 1 \/ k - 1 \in 1 .. Len(queue')
  BY <1>1
<1>3. QED
  BY <1>1, <1>2 DEF Queued
\* A step that moves no job, and no worker into or out of a phase of its job,
\* keeps the invariant.
LEMMA JobsUnmoved ==
    ASSUME TypeOK, JobsFollowWorkers,
           UNCHANGED <<job, jobs, queue, status, nextId>>,
           running' => running,
           \A w \in Workers :
               /\ pc'[w] \in Busy <=> pc[w] \in Busy
               /\ pc'[w] \in Processing => pc[w] \in Processing
               /\ pc'[w] \in AfterReady => pc[w] \in AfterReady
               /\ pc'[w] \in AfterError => pc[w] \in AfterError
    PROVE  JobsFollowWorkers'
<1>1. Queued' = Queued /\ Taken' = Taken
  BY DEF Queued, Taken
<1>2. QED
  BY <1>1 DEF JobsFollowWorkers, OneWorkerPerJob, QueueIsSound, NoJobIsLost

\* The step of one worker within a phase of its job is such a step.
LEMMA WorkerKeepsPhase ==
    ASSUME TypeOK, JobsFollowWorkers, NEW w \in Workers,
           pc' = [pc EXCEPT ![w] = pc'[w]],
           UNCHANGED <<running, job, jobs, queue, status, nextId>>,
           \/ pc[w] \in Processing /\ pc'[w] \in Processing
           \/ pc[w] \in AfterReady /\ pc'[w] \in AfterReady
           \/ pc[w] \notin Busy /\ pc'[w] \notin Busy
    PROVE  JobsFollowWorkers'
<1>1. \A v \in Workers : v # w => pc'[v] = pc[v]
  BY DEF TypeOK
<1>2. \A x \in Processing : x \notin AfterReady \cup AfterError /\ x \in Busy
  BY DEF Processing, OnDevice, AfterReady, AfterError, Busy
<1>3. \A x \in AfterReady : x \notin Processing \cup AfterError /\ x \in Busy
  BY DEF Processing, OnDevice, AfterReady, AfterError, Busy
<1>4. Processing \subseteq Busy /\ AfterReady \subseteq Busy /\ AfterError \subseteq Busy
  BY DEF Busy
<1>5. \A v \in Workers :
          /\ pc'[v] \in Busy <=> pc[v] \in Busy
          /\ pc'[v] \in Processing => pc[v] \in Processing
          /\ pc'[v] \in AfterReady => pc[v] \in AfterReady
          /\ pc'[v] \in AfterError => pc[v] \in AfterError
  BY <1>1, <1>2, <1>3, <1>4
<1>6. QED
  BY <1>5, JobsUnmoved

\* A worker takes the job at the front of the queue.
LEMMA JobsTaken ==
    ASSUME TypeOK, JobsFollowWorkers, NEW w \in Workers, TakeJob(w)
    PROVE  JobsFollowWorkers'
<1> DEFINE i == Head(queue)
<1>1. /\ Queued = Queued' \cup {i} /\ i \notin Queued'
      /\ \A k, l \in 1 .. Len(queue') : queue'[k] = queue'[l] => k = l
  BY QueuedAfterPop DEF TakeJob, JobsFollowWorkers, QueueIsSound
<1>2. i \in jobs /\ status[i] = "IN_PROGRESS" /\ i \notin Taken /\ i \in JobIds /\ i # 0
  BY <1>1, Ids DEF JobsFollowWorkers, QueueIsSound, TypeOK
<1>3. /\ pc[w] = "lock" /\ pc' = [pc EXCEPT ![w] = "upload"]
      /\ job' = [job EXCEPT ![w] = i]
      /\ UNCHANGED <<running, jobs, status, nextId>>
  BY <1>2 DEF TakeJob, Step
<1>4. job[w] = 0
  BY <1>3 DEF JobsFollowWorkers, Busy, Processing, OnDevice, AfterReady, AfterError
<1>5. /\ job'[w] = i /\ pc'[w] = "upload"
      /\ \A v \in Workers : v # w => job'[v] = job[v] /\ pc'[v] = pc[v]
  BY <1>3 DEF TypeOK
<1>6. Taken' = Taken \cup {i}
  BY <1>2, <1>4, <1>5 DEF Taken
<1>7. "upload" \in Busy /\ "upload" \in Processing /\ "upload" \notin AfterReady \cup AfterError
  BY DEF Busy, Processing, OnDevice, AfterReady, AfterError
<1>8. \A v \in Workers : job[v] # i
  BY <1>2 DEF Taken
<1>9. QueueIsSound' /\ NoJobIsLost'
  BY <1>1, <1>2, <1>3, <1>6 DEF QueueIsSound, NoJobIsLost, JobsFollowWorkers
<1>10. OneWorkerPerJob'
  BY <1>2, <1>3, <1>5, <1>8 DEF OneWorkerPerJob, JobsFollowWorkers
<1>11. \A v \in Workers : job'[v] # 0 <=> pc'[v] \in Busy
  BY <1>2, <1>5, <1>7 DEF JobsFollowWorkers
<1>12. \A v \in Workers : job'[v] < nextId'
  BY <1>2, <1>3, <1>5 DEF JobsFollowWorkers
<1>13. QED
  BY <1>3, <1>5, <1>7, <1>9, <1>10, <1>11, <1>12 DEF JobsFollowWorkers

\* The caller enters a record and queues its id.
LEMMA JobsSubmitted ==
    ASSUME TypeOK, JobsFollowWorkers, SubmitJob
    PROVE  JobsFollowWorkers'
<1>1. /\ nextId \in JobIds /\ nextId' = nextId + 1 /\ jobs' = jobs \cup {nextId}
      /\ queue' = Append(queue, nextId)
      /\ UNCHANGED <<running, pc, job, status>>
  BY Ids DEF SubmitJob, TypeOK
<1>2. Queued' = Queued \cup {nextId} /\ Taken' = Taken
  BY <1>1, QueuedAfterPush DEF Taken
<1>3. nextId \notin Queued /\ nextId \notin Taken /\ status[nextId] = "IN_PROGRESS"
      /\ nextId \in Nat
  BY <1>1, Ids DEF JobsFollowWorkers, QueueIsSound, Taken, TypeOK
<1>4. \A k, l \in 1 .. Len(queue') : queue'[k] = queue'[l] => k = l
  <2>1. /\ Len(queue) \in Nat /\ Len(queue') = Len(queue) + 1
        /\ queue'[Len(queue) + 1] = nextId
        /\ \A k \in 1 .. Len(queue) : queue'[k] = queue[k]
    BY <1>1 DEF TypeOK
  <2>2. \A k \in 1 .. Len(queue) : queue[k] # nextId
    BY <1>3 DEF Queued
  <2>3. \A k \in 1 .. Len(queue') : k \in 1 .. Len(queue) \/ k = Len(queue) + 1
    BY <2>1
  <2>4. QED
    BY <2>1, <2>2, <2>3 DEF JobsFollowWorkers, QueueIsSound
<1>5. QueueIsSound' /\ NoJobIsLost'
  BY <1>1, <1>2, <1>3, <1>4 DEF QueueIsSound, NoJobIsLost, JobsFollowWorkers
<1>6. OneWorkerPerJob'
  BY <1>1 DEF OneWorkerPerJob, JobsFollowWorkers
<1>7. \A i \in jobs : i \in Nat
  BY Ids DEF TypeOK
<1>8. \A w \in Workers : job[w] \in Nat
  BY Ids DEF TypeOK
<1>9. (\A i \in jobs' : i < nextId') /\ (\A w \in Workers : job'[w] < nextId')
  BY <1>1, <1>3, <1>7, <1>8 DEF JobsFollowWorkers
<1>10. \A i \in JobIds : i >= nextId' => status'[i] = "IN_PROGRESS"
  BY <1>1, <1>3, Ids DEF JobsFollowWorkers
<1>11. QED
  BY <1>1, <1>5, <1>6, <1>9, <1>10 DEF JobsFollowWorkers

\* Initialize forgets every job; no worker holds one then.
LEMMA JobsForgotten ==
    ASSUME TypeOK, JobsFollowWorkers, ResetState, job' = job,
           \A w \in Workers : pc[w] \notin Busy /\ pc'[w] \notin Busy
    PROVE  JobsFollowWorkers'
<1>1. /\ jobs' = {} /\ queue' = <<>> /\ nextId' = 1
      /\ \A i \in JobIds : status'[i] = "IN_PROGRESS"
  BY DEF ResetState, BlankRecords
<1>2. Queued' = {} /\ Len(queue') = 0
  BY <1>1 DEF Queued
<1>3. \A w \in Workers : job'[w] = 0
  BY DEF JobsFollowWorkers
<1>4. Processing \subseteq Busy /\ AfterReady \subseteq Busy /\ AfterError \subseteq Busy
  BY DEF Busy
<1>5. QueueIsSound' /\ NoJobIsLost' /\ OneWorkerPerJob'
  BY <1>1, <1>2, <1>3, <1>4 DEF QueueIsSound, NoJobIsLost, OneWorkerPerJob
<1>6. QED
  BY <1>1, <1>3, <1>4, <1>5 DEF JobsFollowWorkers

\* Shutdown drops the queue when m_running is already false.
LEMMA JobsDropped ==
    ASSUME TypeOK, JobsFollowWorkers, ~ running', queue' = <<>>,
           UNCHANGED <<pc, job, jobs, status, nextId>>
    PROVE  JobsFollowWorkers'
<1>1. Queued' = {} /\ Len(queue') = 0 /\ Taken' = Taken
  BY DEF Queued, Taken
<1>2. QED
  BY <1>1 DEF JobsFollowWorkers, QueueIsSound, NoJobIsLost, OneWorkerPerJob

\* FetchResult erases a record that is READY, and so on no device and in no queue.
LEMMA JobsErased ==
    ASSUME TypeOK, JobsFollowWorkers, NEW i, status[i] = "READY",
           jobs' = jobs \ {i},
           UNCHANGED <<running, pc, job, queue, status, nextId>>
    PROVE  JobsFollowWorkers'
<1>1. Queued' = Queued /\ Taken' = Taken
  BY DEF Queued, Taken
<1>2. QED
  BY <1>1 DEF JobsFollowWorkers, QueueIsSound, NoJobIsLost, OneWorkerPerJob

\* A worker stores the final status of its job, which nobody else holds.
LEMMA JobsPublished ==
    ASSUME TypeOK, JobsFollowWorkers, NEW w \in Workers, NEW st \in {"READY", "ERROR"},
           pc[w] \in Processing,
           pc'[w] \in IF st = "READY" THEN AfterReady ELSE AfterError,
           pc' = [pc EXCEPT ![w] = pc'[w]],
           status' = [status EXCEPT ![job[w]] = st],
           UNCHANGED <<running, job, jobs, queue, nextId>>
    PROVE  JobsFollowWorkers'
<1> DEFINE i == job[w]
<1>1. Queued' = Queued /\ Taken' = Taken
  BY DEF Queued, Taken
<1>2. \A x \in Processing : x \notin AfterReady \cup AfterError /\ x \in Busy
  BY DEF Processing, OnDevice, AfterReady, AfterError, Busy
<1>3. /\ \A x \in AfterReady : x \notin Processing \cup AfterError /\ x \in Busy
      /\ \A x \in AfterError : x \notin Processing \cup AfterReady /\ x \in Busy
  BY DEF Processing, OnDevice, AfterReady, AfterError, Busy
<1>4. pc'[w] \in Busy /\ pc'[w] \notin Processing
  BY <1>3
<1>5. i # 0 /\ i \in JobIds /\ i \in jobs /\ i \in Taken
  BY <1>2 DEF JobsFollowWorkers, OneWorkerPerJob, TypeOK, Taken
<1>6. \A v \in Workers : v # w => pc'[v] = pc[v] /\ job[v] # i
  BY <1>5 DEF JobsFollowWorkers, OneWorkerPerJob, TypeOK
<1>7. status'[i] = st /\ \A k \in JobIds : k # i => status'[k] = status[k]
  BY <1>5 DEF TypeOK
<1>8. \A v \in Workers : job[v] # 0 <=> pc'[v] \in Busy
  BY <1>2, <1>4, <1>6 DEF JobsFollowWorkers
<1>9. \A v \in Workers : v # w /\ pc[v] \in Busy => job[v] \in JobIds
  BY DEF JobsFollowWorkers, TypeOK
<1>10. /\ \A v \in Workers : pc'[v] \in AfterReady => status'[job[v]] = "READY"
       /\ \A v \in Workers : pc'[v] \in AfterError => status'[job[v]] = "ERROR"
  BY <1>3, <1>6, <1>7, <1>9 DEF JobsFollowWorkers
<1>11. \A k \in JobIds : k >= nextId => status'[k] = "IN_PROGRESS"
  <2>1. ~ (i >= nextId)
    BY <1>5, Ids DEF JobsFollowWorkers, TypeOK
  <2>2. QED
    BY <2>1, <1>7 DEF JobsFollowWorkers
<1>12. OneWorkerPerJob'
  BY <1>2, <1>4, <1>6, <1>7, <1>9 DEF OneWorkerPerJob, JobsFollowWorkers
<1>13. QueueIsSound'
  <2>1. \A k \in Queued : k \in jobs /\ k \in JobIds /\ k # i /\ status[k] = "IN_PROGRESS"
    BY <1>5 DEF JobsFollowWorkers, QueueIsSound, TypeOK
  <2>2. QED
    BY <2>1, <1>1, <1>7 DEF JobsFollowWorkers, QueueIsSound
<1>14. NoJobIsLost'
  <2>1. \A k \in jobs : k \in JobIds
    BY DEF TypeOK
  <2>2. QED
    BY <2>1, <1>1, <1>5, <1>7 DEF JobsFollowWorkers, NoJobIsLost
<1>15. QED
  BY <1>8, <1>10, <1>11, <1>12, <1>13, <1>14 DEF JobsFollowWorkers

\* A worker leaves its job, whose status is final.
LEMMA JobsLeft ==
    ASSUME TypeOK, JobsFollowWorkers, NEW w \in Workers,
           pc[w] \in AfterReady \cup AfterError,
           pc' = [pc EXCEPT ![w] = "loop"],
           job' = [job EXCEPT ![w] = 0],
           UNCHANGED <<running, jobs, queue, status, nextId>>
    PROVE  JobsFollowWorkers'
<1>1. /\ job'[w] = 0 /\ pc'[w] = "loop"
      /\ \A v \in Workers : v # w => job'[v] = job[v] /\ pc'[v] = pc[v]
  BY DEF TypeOK
<1>2. /\ "loop" \notin Busy /\ Processing \subseteq Busy
      /\ AfterReady \subseteq Busy /\ AfterError \subseteq Busy
  BY DEF Processing, OnDevice, AfterReady, AfterError, Busy
<1>3. Queued' = Queued /\ Taken = Taken' \cup {job[w]}
  BY <1>1, <1>2 DEF Queued, Taken, JobsFollowWorkers
<1>4. status[job[w]] # "IN_PROGRESS"
  BY DEF JobsFollowWorkers
<1>5. QueueIsSound'
  BY <1>3 DEF JobsFollowWorkers, QueueIsSound
<1>6. NoJobIsLost'
  BY <1>3, <1>4 DEF JobsFollowWorkers, NoJobIsLost
<1>7. OneWorkerPerJob'
  BY <1>1, <1>2 DEF JobsFollowWorkers, OneWorkerPerJob
<1>8. \A v \in Workers : job'[v] # 0 <=> pc'[v] \in Busy
  BY <1>1, <1>2 DEF JobsFollowWorkers
<1>9. \A v \in Workers : job'[v] < nextId'
  BY <1>1 DEF JobsFollowWorkers, TypeOK
<1>10. QED
  BY <1>1, <1>2, <1>5, <1>6, <1>7, <1>8, <1>9 DEF JobsFollowWorkers

\* How jobs follow the workers is inductive, given how the workers follow the
\* caller: each step moves jobs in one of the ways above, or not at all.
LEMMA JobsStep ==
    TypeOK /\ ThreadsFollowCalls /\ JobsFollowWorkers /\ RepliesHold /\ [Next]_vars
        => JobsFollowWorkers'
<1> SUFFICES ASSUME TypeOK, ThreadsFollowCalls, JobsFollowWorkers, RepliesHold, [Next]_vars
             PROVE  JobsFollowWorkers'
  OBVIOUS
<1>1. CASE RejectConfig \/ RejectJob \/ UNCHANGED vars
  BY <1>1, JobsUnmoved DEF RejectConfig, RejectJob, vars
<1>2. ASSUME NEW init \in BOOLEAN, BeginStop(init) PROVE JobsFollowWorkers'
  BY <1>2, JobsUnmoved DEF BeginStop
<1>3. ASSUME NEW h \in held, PollStatus(h) \/ RefuseFetch(h) \/ CopyResult(h)
      PROVE JobsFollowWorkers'
  BY <1>3, JobsUnmoved DEF PollStatus, RefuseFetch, CopyResult
<1>4. CASE SubmitJob
  BY <1>4, JobsSubmitted
<1>5. CASE Drain
  BY <1>5, JobsDropped DEF Drain, ThreadsFollowCalls
<1>6. CASE NotifyAll
  <2>1. \A w \in Workers : /\ pc'[w] = pc[w] \/ (pc[w] = "waiting" /\ pc'[w] = "lock")
    BY <1>6 DEF NotifyAll
  <2>2. /\ "waiting" \notin Busy /\ "lock" \notin Busy
        /\ \A x \in {"waiting", "lock"} : x \notin Processing \cup AfterReady \cup AfterError
    BY DEF Busy, Processing, OnDevice, AfterReady, AfterError
  <2>3. QED
    BY <1>6, <2>1, <2>2, JobsUnmoved DEF NotifyAll
<1>7. CASE Join
  <2>1. \A w \in Workers : pc[w] \in {"exited", "off"} /\ pc'[w] = "off"
    BY <1>7 DEF Join, ThreadsFollowCalls
  <2>2. \A x \in {"exited", "off"} : x \notin Busy \cup Processing \cup AfterReady \cup AfterError
    BY DEF Busy, Processing, OnDevice, AfterReady, AfterError
  <2>3. QED
    BY <1>7, <2>1, <2>2, JobsUnmoved DEF Join
<1>8. CASE ReleaseProcessor
  BY <1>8, JobsUnmoved DEF ReleaseProcessor
<1>9. CASE Start \/ FailToStart
  <2>1. \A w \in Workers : pc[w] = "off" /\ pc'[w] \in {"off", "loop"}
    BY <1>9 DEF Start, FailToStart, ThreadsFollowCalls
  <2>2. "off" \notin Busy /\ "loop" \notin Busy
    BY DEF Busy, Processing, OnDevice, AfterReady, AfterError
  <2>3. ResetState /\ job' = job
    BY <1>9 DEF Start, FailToStart
  <2>4. QED
    BY <2>1, <2>2, <2>3, JobsForgotten
<1>10. CASE NotifyOne
  <2>1. \A w \in Workers : pc'[w] = pc[w] \/ (pc[w] = "waiting" /\ pc'[w] = "lock")
    BY <1>10 DEF NotifyOne, Waiting, TypeOK
  <2>2. \A x \in {"waiting", "lock"} : x \notin Busy \cup Processing \cup AfterReady \cup AfterError
    BY DEF Busy, Processing, OnDevice, AfterReady, AfterError
  <2>3. QED
    BY <1>10, <2>1, <2>2, JobsUnmoved DEF NotifyOne
<1>11. CASE EraseJob
  BY <1>11, JobsErased DEF EraseJob, RepliesHold
<1>12. ASSUME NEW w \in Workers, WorkerStep(w) \/ SpuriousWake(w) PROVE JobsFollowWorkers'
  <2>1. CASE CheckRunning(w) \/ LeaveWait(w) \/ FindNothing(w) \/ GoToSleep(w) \/ SpuriousWake(w)
    <3>1. \A x \in {"loop", "lock", "blocking", "waiting", "exited"} : x \notin Busy
      BY DEF Busy, Processing, OnDevice, AfterReady, AfterError
    <3>2. /\ pc[w] \in {"loop", "lock", "blocking", "waiting"}
          /\ pc'[w] \in {"lock", "blocking", "waiting", "exited"}
          /\ pc' = [pc EXCEPT ![w] = pc'[w]]
          /\ UNCHANGED <<running, job, jobs, queue, status, nextId>>
      BY <2>1 DEF CheckRunning, LeaveWait, FindNothing, GoToSleep, SpuriousWake, Step, TypeOK
    <3>3. QED
      BY <3>1, <3>2, WorkerKeepsPhase
  <2>2. CASE TakeJob(w)
    BY <2>2, JobsTaken
  <2>3. CASE Upload(w) \/ Transform(w) \/ Synthesize(w) \/ Download(w) \/ ProcessFails(w)
    <3>1. /\ pc[w] \in OnDevice
          /\ pc'[w] \in {"transform", "synthesize", "download", "publish", "fail"}
          /\ pc' = [pc EXCEPT ![w] = pc'[w]]
          /\ UNCHANGED <<running, job, jobs, queue, status, nextId>>
      BY <2>3 DEF Upload, Transform, Synthesize, Download, ProcessFails, Step, TypeOK, OnDevice
    <3>2. pc[w] \in Processing /\ pc'[w] \in Processing
      BY <3>1 DEF Processing, OnDevice
    <3>3. QED
      BY <3>1, <3>2, WorkerKeepsPhase
  <2>4. CASE PublishReady(w)
    BY <2>4, JobsPublished DEF PublishReady, Step, Processing, AfterReady, TypeOK
  <2>5. CASE PublishError(w)
    BY <2>5, JobsPublished DEF PublishError, Step, Processing, AfterError, TypeOK
  <2>6. CASE FixTiming(w) \/ ClearError(w)
    <3>1. /\ pc[w] \in AfterReady /\ pc'[w] \in AfterReady
          /\ pc' = [pc EXCEPT ![w] = pc'[w]]
          /\ UNCHANGED <<running, job, jobs, queue, status, nextId>>
      BY <2>6 DEF FixTiming, ClearError, Step, TypeOK, AfterReady
    <3>2. QED
      BY <3>1, WorkerKeepsPhase
  <2>7. CASE CountJob(w) \/ ReportError(w)
    BY <2>7, JobsLeft DEF CountJob, ReportError, Step, AfterReady, AfterError
  <2>8. QED
    BY <1>12, <2>1, <2>2, <2>3, <2>4, <2>5, <2>6, <2>7 DEF WorkerStep
<1>13. QED
  BY <1>1, <1>2, <1>3, <1>4, <1>5, <1>6, <1>7, <1>8, <1>9, <1>10, <1>11, <1>12
     DEF Next, CallStarts, CallGoesOn

-----------------------------------------------------------------------------
\* A READY status stays: the two steps that store a status store it for a job
\* that is in progress.
LEMMA ReadyStays ==
    ASSUME TypeOK, JobsFollowWorkers, NEW w \in Workers, WorkerStep(w) \/ SpuriousWake(w)
    PROVE  /\ \A i \in JobIds : status[i] = "READY" => status'[i] = "READY"
           /\ UNCHANGED <<jobs, cpc, reply>>
<1>1. CASE PublishReady(w) \/ PublishError(w)
  <2>1. job[w] \in jobs /\ job[w] \in JobIds /\ status[job[w]] = "IN_PROGRESS"
    BY <1>1 DEF PublishReady, PublishError, Step, JobsFollowWorkers, OneWorkerPerJob, Processing, TypeOK
  <2>2. QED
    BY <1>1, <2>1 DEF PublishReady, PublishError, TypeOK
<1>2. CASE ~ (PublishReady(w) \/ PublishError(w))
  BY <1>2 DEF WorkerStep, CheckRunning, LeaveWait, TakeJob, FindNothing, GoToSleep, SpuriousWake,
     Upload, Transform, Synthesize, Download, ProcessFails, FixTiming, ClearError, CountJob, ReportError
<1>3. QED
  BY <1>1, <1>2

\* What the caller was told stays true until its next call.
LEMMA RepliesStep ==
    TypeOK /\ JobsFollowWorkers /\ RepliesHold /\ [Next]_vars => RepliesHold'
<1> SUFFICES ASSUME TypeOK, JobsFollowWorkers, RepliesHold, [Next]_vars PROVE RepliesHold'
  OBVIOUS
<1> USE DEF RepliesHold, PolledReadyCanBeFetched
<1>1. CASE RejectConfig \/ RejectJob \/ SubmitJob
  BY <1>1 DEF RejectConfig, RejectJob, SubmitJob, NoReply, Answer
<1>2. ASSUME NEW init \in BOOLEAN, BeginStop(init) PROVE RepliesHold'
  BY <1>2 DEF BeginStop, NoReply, Answer
<1>3. ASSUME NEW h \in held, PollStatus(h) \/ RefuseFetch(h) \/ CopyResult(h) PROVE RepliesHold'
  BY <1>3 DEF PollStatus, RefuseFetch, CopyResult, Answer
<1>4. CASE CallGoesOn
  BY <1>4 DEF CallGoesOn, Drain, NotifyAll, Join, ReleaseProcessor, Start, FailToStart, NotifyOne
<1>5. CASE EraseJob
  BY <1>5 DEF EraseJob
<1>6. ASSUME NEW w \in Workers, WorkerStep(w) \/ SpuriousWake(w) PROVE RepliesHold'
  <2>1. \A i \in jobs : i \in JobIds
    BY DEF TypeOK
  <2>2. QED
    BY <1>6, <2>1, ReadyStays
<1>7. CASE UNCHANGED vars
  BY <1>7 DEF vars
<1>8. QED
  BY <1>1, <1>2, <1>3, <1>4, <1>5, <1>6, <1>7 DEF Next, CallStarts

-----------------------------------------------------------------------------
\* The three parts of the inductive invariant hold at first.
LEMMA InvariantAtFirst == Init => IInv
<1> SUFFICES ASSUME Init PROVE IInv
  OBVIOUS
<1>1. \A w \in Workers : pc[w] = "off" /\ job[w] = 0
  BY DEF Init
<1>2. "off" \notin Busy \cup Processing \cup AfterReady \cup AfterError
  BY DEF Busy, Processing, OnDevice, AfterReady, AfterError
<1>3. ThreadsFollowCalls
  BY <1>1 DEF Init, ThreadsFollowCalls, ShutdownWakesEveryone, Waiting
<1>4. Queued = {} /\ Len(queue) = 0
  BY DEF Init, Queued
<1>5. JobsFollowWorkers
  BY <1>1, <1>2, <1>4 DEF Init, JobsFollowWorkers, QueueIsSound, OneWorkerPerJob, NoJobIsLost
<1>6. RepliesHold
  BY DEF Init, RepliesHold, PolledReadyCanBeFetched, NoReply, Answer
<1>7. QED
  BY <1>3, <1>5, <1>6 DEF IInv

\* The inductive invariant holds in every reachable state.
THEOREM InvariantHolds == Spec => [](TypeOK /\ IInv)
<1>1. TypeOK /\ IInv /\ [Next]_vars => (TypeOK /\ IInv)'
  BY TypingStep, ThreadsStep, JobsStep, RepliesStep DEF IInv
<1>2. Init => TypeOK
  BY TypeAtFirst
<1>3. QED
  BY <1>1, <1>2, InvariantAtFirst, PTL DEF Spec

\* The queue holds exactly once each id it holds, with its record, in progress
\* and on no worker: TakeJob's lookup in m_jobs never misses.
THEOREM QueueSound == Spec => []QueueIsSound
<1>1. IInv => QueueIsSound
  BY DEF IInv, JobsFollowWorkers
<1>2. QED
  BY <1>1, InvariantHolds, PTL

\* No JobRecord is in the hands of two workers.
THEOREM RecordsExclusive == Spec => []OneWorkerPerJob
<1>1. IInv => OneWorkerPerJob
  BY DEF IInv, JobsFollowWorkers
<1>2. QED
  BY <1>1, InvariantHolds, PTL

\* While the engine runs, an unfinished job is queued or on a worker.
THEOREM NothingLost == Spec => []NoJobIsLost
<1>1. IInv => NoJobIsLost
  BY DEF IInv, JobsFollowWorkers
<1>2. QED
  BY <1>1, InvariantHolds, PTL

\* Shutdown's notify_all is missed by no worker, although m_running is cleared
\* outside the mutex.
THEOREM NoLostWakeUp == Spec => []ShutdownWakesEveryone
<1>1. IInv => ShutdownWakesEveryone
  BY DEF IInv, ThreadsFollowCalls
<1>2. QED
  BY <1>1, InvariantHolds, PTL

\* The processor is not destroyed under a worker that is inside Process.
THEOREM ProcessorKept == Spec => []ProcessorOutlivesWorkers
<1>1. TypeOK /\ IInv => ProcessorOutlivesWorkers
  BY DEF IInv, ThreadsFollowCalls, ProcessorOutlivesWorkers, OnDevice, TypeOK, CallerPoints
<1>2. QED
  BY <1>1, InvariantHolds, PTL

\* Shutdown never destroys a joinable thread, and leaves nothing behind.
THEOREM StopIsComplete == Spec => []StoppedIsStill
<1>1. IInv => StoppedIsStill
  BY DEF IInv, ThreadsFollowCalls, StoppedIsStill
<1>2. QED
  BY <1>1, InvariantHolds, PTL

\* A READY answer of PollStatus is a promise that FetchResult keeps.
THEOREM ReadyIsAPromise == Spec => []PolledReadyCanBeFetched
<1>1. IInv => PolledReadyCanBeFetched
  BY DEF IInv, RepliesHold
<1>2. QED
  BY <1>1, InvariantHolds, PTL

\* A final status is final and the buffers behind it are frozen until Initialize.
THEOREM ResultsFrozen == Spec => ResultsAreFrozen
<1>1. TypeOK /\ IInv /\ [Next]_vars => [KeepsFinalJobs]_vars
  <2> USE DEF KeepsFinalJobs
  <2> SUFFICES ASSUME TypeOK, IInv, Next PROVE KeepsFinalJobs
    OBVIOUS
  <2>1. CASE Start \/ FailToStart
    BY <2>1 DEF Start, FailToStart, ResetState, TypeOK
  <2>2. ASSUME NEW w \in Workers, Download(w) \/ PublishReady(w) \/ PublishError(w) PROVE KeepsFinalJobs
    <3>1. job[w] \in JobIds /\ status[job[w]] = "IN_PROGRESS"
      BY <2>2 DEF IInv, JobsFollowWorkers, OneWorkerPerJob, Download, PublishReady, PublishError,
                  Step, Processing, OnDevice, TypeOK
    <3>2. QED
      BY <2>2, <3>1 DEF Download, PublishReady, PublishError, TypeOK
  <2>3. ASSUME NEW w \in Workers, WorkerStep(w) \/ SpuriousWake(w),
               ~ (Download(w) \/ PublishReady(w) \/ PublishError(w)) PROVE KeepsFinalJobs
    BY <2>3 DEF WorkerStep, CheckRunning, LeaveWait, TakeJob, FindNothing, GoToSleep, SpuriousWake,
       Upload, Transform, Synthesize, ProcessFails, FixTiming, ClearError, CountJob, ReportError
  <2>4. CASE CallStarts
    BY <2>4 DEF CallStarts, RejectConfig, RejectJob, SubmitJob, BeginStop, PollStatus, RefuseFetch,
                CopyResult
  <2>5. CASE Drain \/ NotifyAll \/ Join \/ ReleaseProcessor \/ NotifyOne \/ EraseJob
    BY <2>5 DEF Drain, NotifyAll, Join, ReleaseProcessor, NotifyOne, EraseJob
  <2>6. QED
    BY <2>1, <2>2, <2>3, <2>4, <2>5 DEF Next, CallGoesOn
<1>2. QED
  BY <1>1, InvariantHolds, PTL DEF Spec, ResultsAreFrozen

\* No worker is left to clear the message of a failed Initialize.
THEOREM StartErrorKept == Spec => StartErrorStays
<1>1. TypeOK /\ IInv /\ [Next]_vars => [KeepsStartError]_vars
  <2> USE DEF KeepsStartError
  <2> SUFFICES ASSUME TypeOK, IInv, Next, cpc = "idle", ~ running, lastError = "init"
               PROVE  lastError' \in {"init", "config"}
    OBVIOUS
  <2>1. \A w \in Workers : pc[w] = "off"
    BY DEF IInv, ThreadsFollowCalls
  <2>2. CASE CallStarts
    BY <2>2 DEF CallStarts, RejectConfig, RejectJob, SubmitJob, BeginStop, PollStatus, RefuseFetch,
                CopyResult
  <2>3. CASE CallGoesOn \/ EraseJob
    BY <2>3 DEF CallGoesOn, Drain, NotifyAll, Join, ReleaseProcessor, Start, FailToStart, NotifyOne,
                EraseJob
  <2>4. ASSUME NEW w \in Workers, WorkerStep(w) \/ SpuriousWake(w) PROVE FALSE
    BY <2>1, <2>4 DEF WorkerStep, CheckRunning, LeaveWait, TakeJob, FindNothing, GoToSleep,
       SpuriousWake, Upload, Transform, Synthesize, Download, ProcessFails, PublishReady, FixTiming,
       ClearError, CountJob, PublishError, ReportError, Step, OnDevice
  <2>5. QED
    BY <2>2, <2>3, <2>4 DEF Next
<1>2. QED
  BY <1>1, InvariantHolds, PTL DEF Spec, StartErrorStays

-----------------------------------------------------------------------------
(* The time of a job.  What the caller does to it: *)

LEMMA TimesKeptByCaller ==
    ASSUME TypeOK, IInv, TimedOnceReleased,
           CallStarts \/ CallGoesOn \/ EraseJob
    PROVE  TimedOnceReleased'
<1> USE DEF TimedOnceReleased
<1>1. CASE CallStarts
  BY <1>1 DEF CallStarts, RejectConfig, RejectJob, SubmitJob, BeginStop, PollStatus, RefuseFetch,
              CopyResult
<1>2. CASE Drain \/ ReleaseProcessor \/ EraseJob
  BY <1>2 DEF Drain, ReleaseProcessor, EraseJob
<1>3. CASE NotifyAll \/ NotifyOne
  <2>1. \A w \in Workers : pc[w] = "timing" => pc'[w] = "timing"
    BY <1>3 DEF NotifyAll, NotifyOne, Waiting, TypeOK
  <2>2. UNCHANGED <<status, timed, job>>
    BY <1>3 DEF NotifyAll, NotifyOne
  <2>3. QED
    BY <2>1, <2>2
<1>4. CASE Join
  <2>1. \A w \in Workers : pc[w] # "timing"
    BY <1>4 DEF Join, IInv, ThreadsFollowCalls
  <2>2. UNCHANGED <<status, timed, job>>
    BY <1>4 DEF Join
  <2>3. QED
    BY <2>1, <2>2
<1>5. CASE Start \/ FailToStart
  <2>1. \A i \in JobIds : status'[i] = "IN_PROGRESS"
    BY <1>5 DEF Start, FailToStart, ResetState, BlankRecords
  <2>2. QED
    BY <2>1
<1>6. QED
  BY <1>1, <1>2, <1>3, <1>4, <1>5 DEF CallGoesOn

\* A worker stores READY on its way to the repair, writes the time of its own
\* job only, which is not READY before, and repairs it before it lets go.
LEMMA TimesKeptByWorker ==
    ASSUME TypeOK, IInv, TimedOnceReleased,
           NEW w \in Workers, WorkerStep(w) \/ SpuriousWake(w)
    PROVE  TimedOnceReleased'
<1> USE DEF TimedOnceReleased
<1>1. \A v \in Workers : v # w => pc'[v] = pc[v] /\ job'[v] = job[v]
  BY DEF WorkerStep, CheckRunning, LeaveWait, TakeJob, FindNothing, GoToSleep, SpuriousWake, Upload,
     Transform, Synthesize, Download, ProcessFails, PublishReady, FixTiming, ClearError, CountJob,
     PublishError, ReportError, Step, TypeOK
<1>2. CASE PublishReady(w)
  <2>1. pc'[w] = "timing" /\ job'[w] = job[w] /\ timed' = timed
    BY <1>2 DEF PublishReady, Step, TypeOK
  <2>2. \A i \in JobIds : i # job[w] => status'[i] = status[i]
    BY <1>2 DEF PublishReady, TypeOK
  <2>3. pc[w] # "timing"
    BY <1>2 DEF PublishReady, Step
  <2>4. QED
    BY <1>1, <2>1, <2>2, <2>3
<1>3. CASE PublishError(w)
  <2>1. timed' = timed /\ pc[w] # "timing"
    BY <1>3 DEF PublishError, Step
  <2>2. \A i \in JobIds : status'[i] = status[i] \/ status'[i] = "ERROR"
    BY <1>3 DEF PublishError, TypeOK
  <2>3. QED
    BY <1>1, <2>1, <2>2
<1>4. CASE Download(w)
  <2>1. status' = status /\ pc[w] = "download"
    BY <1>4 DEF Download, Step
  <2>2. \A i \in JobIds : i # job[w] => timed'[i] = timed[i]
    BY <1>4 DEF Download, TypeOK
  <2>3. status[job[w]] = "IN_PROGRESS"
    BY <2>1 DEF IInv, JobsFollowWorkers, OneWorkerPerJob, Processing, OnDevice
  <2>4. QED
    BY <1>1, <2>1, <2>2, <2>3
<1>5. CASE FixTiming(w)
  <2>1. status' = status /\ job' = job
    BY <1>5 DEF FixTiming
  <2>2. \A i \in JobIds : timed'[i] = timed[i] \/ timed'[i]
    BY <1>5 DEF FixTiming, TypeOK
  <2>3. job[w] \in JobIds => timed'[job[w]]
    BY <1>5 DEF FixTiming, TypeOK
  <2>4. QED
    BY <1>1, <2>1, <2>2, <2>3
<1>6. ASSUME ~ (PublishReady(w) \/ PublishError(w) \/ Download(w) \/ FixTiming(w))
      PROVE  TimedOnceReleased'
  <2>1. UNCHANGED <<status, timed>> /\ pc[w] # "timing"
    BY <1>6 DEF WorkerStep, CheckRunning, LeaveWait, TakeJob, FindNothing, GoToSleep, SpuriousWake,
       Upload, Transform, Synthesize, ProcessFails, ClearError, CountJob, ReportError, Step, OnDevice
  <2>2. QED
    BY <1>1, <2>1
<1>7. QED
  BY <1>2, <1>3, <1>4, <1>5, <1>6

\* READY comes before the time, and the time before the worker lets go.
THEOREM TimedInTheEnd == Spec => []TimedOnceReleased
<1>1. Init => TimedOnceReleased
  BY DEF Init, TimedOnceReleased
<1>2. TypeOK /\ IInv /\ TimedOnceReleased /\ [Next]_vars => TimedOnceReleased'
  <2>1. CASE Next
    BY <2>1, TimesKeptByCaller, TimesKeptByWorker DEF Next
  <2>2. CASE UNCHANGED vars
    BY <2>2 DEF vars, TimedOnceReleased
  <2>3. QED
    BY <2>1, <2>2
<1>3. QED
  BY <1>1, <1>2, InvariantHolds, PTL DEF Spec

-----------------------------------------------------------------------------
(* The statistics, by counting the READY records and the workers between READY *)
(* and their statistics                                                      *)

Uncounted == {w \in Workers : pc[w] \in AfterReady}
Ready     == {i \in JobIds : status[i] = "READY"}

LEMMA FiniteCounts ==
    /\ IsFiniteSet(Uncounted) /\ Cardinality(Uncounted) \in Nat
    /\ IsFiniteSet(Ready) /\ Cardinality(Ready) \in Nat
<1>1. IsFiniteSet(JobIds)
  BY Bounds, FS_Interval DEF JobIds
<1>2. IsFiniteSet(Uncounted) /\ IsFiniteSet(Ready)
  BY <1>1, WorkersAssumption, FS_Subset DEF Uncounted, Ready
<1> QED
  BY <1>2, FS_CardinalityType

LEMMA AfterReadyPoints ==
    /\ {"timing", "clearing", "counting"} = AfterReady
    /\ {"off", "loop", "lock", "blocking", "waiting", "exited", "publish", "fail", "reporting",
        "upload", "transform", "synthesize", "download"} \cap AfterReady = {}
  BY DEF AfterReady

\* A worker stores READY: one more record, and one more worker that has to count it.
LEMMA OneMoreReady ==
    ASSUME TypeOK, IInv, StatsAreExact, NEW w \in Workers, PublishReady(w)
    PROVE  StatsAreExact'
<1>1. /\ pc[w] = "publish" /\ pc' = [pc EXCEPT ![w] = "timing"] /\ completed' = completed
      /\ status' = [status EXCEPT ![job[w]] = "READY"]
  BY DEF PublishReady, Step
<1>2. job[w] \in JobIds /\ status[job[w]] = "IN_PROGRESS"
  BY <1>1 DEF IInv, JobsFollowWorkers, OneWorkerPerJob, Processing, TypeOK
<1>3. Uncounted' = Uncounted \cup {w} /\ w \notin Uncounted
  BY <1>1, AfterReadyPoints DEF Uncounted, TypeOK
<1>4. Ready' = Ready \cup {job[w]} /\ job[w] \notin Ready
  BY <1>1, <1>2 DEF Ready, TypeOK
<1>5. Cardinality(Uncounted') = Cardinality(Uncounted) + 1 /\ Cardinality(Ready') = Cardinality(Ready) + 1
  BY <1>3, <1>4, FiniteCounts, FS_AddElement
<1>6. completed + Cardinality(Uncounted) = Cardinality(Ready)
  BY DEF StatsAreExact, Uncounted, Ready
<1>7. completed' + Cardinality(Uncounted') = Cardinality(Ready')
  BY <1>1, <1>5, <1>6, FiniteCounts DEF TypeOK
<1> QED
  BY <1>7 DEF StatsAreExact, Uncounted, Ready

\* And it counts it when it leaves.
LEMMA OneMoreCounted ==
    ASSUME TypeOK, StatsAreExact, NEW w \in Workers, CountJob(w)
    PROVE  StatsAreExact'
<1>1. /\ pc[w] = "counting" /\ pc' = [pc EXCEPT ![w] = "loop"] /\ completed' = completed + 1
      /\ status' = status
  BY DEF CountJob, Step
<1>2. Uncounted' = Uncounted \ {w} /\ w \in Uncounted /\ Ready' = Ready
  BY <1>1, AfterReadyPoints DEF Uncounted, Ready, TypeOK
<1>3. Cardinality(Uncounted') = Cardinality(Uncounted) - 1
  BY <1>2, FiniteCounts, FS_RemoveElement
<1>4. completed + Cardinality(Uncounted) = Cardinality(Ready)
  BY DEF StatsAreExact, Uncounted, Ready
<1>5. completed' + Cardinality(Uncounted') = Cardinality(Ready')
  BY <1>1, <1>2, <1>3, <1>4, FiniteCounts DEF TypeOK
<1> QED
  BY <1>5 DEF StatsAreExact, Uncounted, Ready

\* A start forgets every record, and every worker is gone by then.
LEMMA NothingToCount ==
    ASSUME TypeOK, IInv, Start \/ FailToStart
    PROVE  StatsAreExact'
<1>1. completed' = 0 /\ \A i \in JobIds : status'[i] = "IN_PROGRESS"
  BY DEF Start, FailToStart, ResetState, BlankRecords
<1>2. \A w \in Workers : pc'[w] \in {"off", "loop"}
  BY DEF Start, FailToStart, IInv, ThreadsFollowCalls
<1>3. Uncounted' = {} /\ Ready' = {}
  BY <1>1, <1>2, AfterReadyPoints DEF Uncounted, Ready
<1>4. completed' + Cardinality(Uncounted') = Cardinality(Ready')
  BY <1>1, <1>3, FS_EmptySet
<1> QED
  BY <1>4 DEF StatsAreExact, Uncounted, Ready

LEMMA CountsKept ==
    ASSUME StatsAreExact, Uncounted' = Uncounted, Ready' = Ready, completed' = completed
    PROVE  StatsAreExact'
  BY DEF StatsAreExact, Uncounted, Ready

\* Every other step leaves the records that are READY, and those who count them.
LEMMA StatsStep == TypeOK /\ IInv /\ StatsAreExact /\ [Next]_vars => StatsAreExact'
<1> SUFFICES ASSUME TypeOK, IInv, StatsAreExact, [Next]_vars PROVE StatsAreExact'
  OBVIOUS
<1> USE DEF Uncounted, Ready
<1>1. CASE CallStarts \/ EraseJob \/ Drain \/ ReleaseProcessor \/ UNCHANGED vars
  BY <1>1, CountsKept DEF CallStarts, RejectConfig, RejectJob, SubmitJob, BeginStop, PollStatus, RefuseFetch,
     CopyResult, EraseJob, Drain, ReleaseProcessor, vars
<1>2. CASE NotifyAll \/ NotifyOne
  <2>1. \A w \in Workers : pc'[w] \in AfterReady <=> pc[w] \in AfterReady
    BY <1>2, AfterReadyPoints DEF NotifyAll, NotifyOne, Waiting, TypeOK
  <2> QED
    BY <1>2, <2>1, CountsKept DEF NotifyAll, NotifyOne
<1>3. CASE Join
  <2>1. \A w \in Workers : pc[w] \in {"exited", "off"} /\ pc'[w] = "off"
    BY <1>3 DEF Join, IInv, ThreadsFollowCalls
  <2> QED
    BY <1>3, <2>1, AfterReadyPoints, CountsKept DEF Join
<1>4. CASE Start \/ FailToStart
  BY <1>4, NothingToCount
<1>5. ASSUME NEW w \in Workers, PublishReady(w) PROVE StatsAreExact'
  BY <1>5, OneMoreReady
<1>6. ASSUME NEW w \in Workers, CountJob(w) PROVE StatsAreExact'
  BY <1>6, OneMoreCounted
<1>7. ASSUME NEW w \in Workers, PublishError(w) PROVE StatsAreExact'
  <2>1. job[w] \in JobIds /\ status[job[w]] = "IN_PROGRESS" /\ pc[w] = "fail"
    BY <1>7 DEF PublishError, Step, IInv, JobsFollowWorkers, OneWorkerPerJob, Processing, TypeOK
  <2>2. Ready' = Ready
    BY <1>7, <2>1 DEF PublishError, TypeOK
  <2>3. Uncounted' = Uncounted
    BY <1>7, AfterReadyPoints DEF PublishError, Step, TypeOK
  <2> QED
    BY <1>7, <2>2, <2>3, CountsKept DEF PublishError
<1>8. ASSUME NEW w \in Workers,
             CheckRunning(w) \/ LeaveWait(w) \/ TakeJob(w) \/ FindNothing(w) \/ GoToSleep(w) \/ SpuriousWake(w)
             \/ Upload(w) \/ Transform(w) \/ Synthesize(w) \/ Download(w) \/ ProcessFails(w)
             \/ FixTiming(w) \/ ClearError(w) \/ ReportError(w)
      PROVE  StatsAreExact'
  <2>1. UNCHANGED <<status, completed>>
    BY <1>8 DEF CheckRunning, LeaveWait, TakeJob, FindNothing, GoToSleep, SpuriousWake, Upload, Transform,
       Synthesize, Download, ProcessFails, FixTiming, ClearError, ReportError
  <2>2. \A v \in Workers : pc'[v] \in AfterReady <=> pc[v] \in AfterReady
    BY <1>8, AfterReadyPoints DEF CheckRunning, LeaveWait, TakeJob, FindNothing, GoToSleep, SpuriousWake,
       Upload, Transform, Synthesize, Download, ProcessFails, FixTiming, ClearError, ReportError, Step,
       OnDevice, TypeOK
  <2> QED
    BY <2>1, <2>2, CountsKept
<1> QED
  BY <1>1, <1>2, <1>3, <1>4, <1>5, <1>6, <1>7, <1>8 DEF Next, CallGoesOn, WorkerStep

\* Every job that became READY is counted once, by the worker that stored it,
\* in every interleaving of workers and caller (WorkerLoop, GetStats).
THEOREM EveryJobIsCounted == Spec => []StatsAreExact
<1>1. Init => StatsAreExact
  <2> SUFFICES ASSUME Init PROVE StatsAreExact
    OBVIOUS
  <2>1. Uncounted = {} /\ Ready = {} /\ completed = 0
    BY AfterReadyPoints DEF Init, Uncounted, Ready
  <2>2. completed + Cardinality(Uncounted) = Cardinality(Ready)
    BY <2>1, FS_EmptySet
  <2> QED
    BY <2>2 DEF StatsAreExact, Uncounted, Ready
<1> QED
  BY <1>1, StatsStep, InvariantHolds, PTL DEF Spec
=============================================================================
