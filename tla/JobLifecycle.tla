---------------------------- MODULE JobLifecycle ----------------------------
(***************************************************************************)
(* What GpuEngine.dll promises to the one program that calls it, without   *)
(* threads, locks or device memory: a job that was accepted ends ready or  *)
(* failed, a ready job is retrieved once, what is retrieved is that job's  *)
(* own result, and once the engine is closed nothing moves any more.       *)
(* Engine.tla implements this module (see Engine!Lifecycle).               *)
(***************************************************************************)
EXTENDS Naturals

CONSTANT MaxJobs        \* bound: the jobs accepted between two openings

JobIds == 1 .. MaxJobs

VARIABLES
    phase,      \* "open", "closing" (the last jobs finish) or "closed"
    stage,      \* what became of each job
    answer      \* the job whose result the last call returned and whose data
                \* it was; 0 when the last call returned no result

vars == <<phase, stage, answer>>

Stages == {"unknown", "accepted", "ready", "failed", "retrieved"}

NoAnswer == [of |-> 0, data |-> 0]

Init ==
    /\ phase = "closed"
    /\ stage = [i \in JobIds |-> "unknown"]
    /\ answer = NoAnswer

\* Initialize forgets every job; it may fail to bring the device up.
Open ==
    /\ phase = "closed"
    /\ phase' \in {"open", "closed"}
    /\ stage' = [i \in JobIds |-> "unknown"]
    /\ answer' = NoAnswer

\* Shutdown: no worker may be left, and a closed engine can be closed again.
BeginClose ==
    /\ phase = "open"
    /\ phase' = "closing"
    /\ answer' = NoAnswer
    /\ UNCHANGED stage

Closed ==
    /\ phase = "closing"
    /\ phase' = "closed"
    /\ UNCHANGED <<stage, answer>>

\* SubmitJob hands out the identifiers in order.
Accept(i) ==
    /\ phase = "open"
    /\ stage[i] = "unknown"
    /\ \A j \in 1 .. (i - 1) : stage[j] # "unknown"
    /\ stage' = [stage EXCEPT ![i] = "accepted"]
    /\ answer' = NoAnswer
    /\ UNCHANGED phase

Finish(i) ==
    /\ phase # "closed"
    /\ stage[i] = "accepted"
    /\ \E end \in {"ready", "failed"} : stage' = [stage EXCEPT ![i] = end]
    /\ UNCHANGED <<phase, answer>>

\* FetchResult returns the result of the job it was asked for, once.
Retrieve(i) ==
    /\ stage[i] = "ready"
    /\ stage' = [stage EXCEPT ![i] = "retrieved"]
    /\ answer' = [of |-> i, data |-> i]
    /\ UNCHANGED phase

\* Any other call replaces what the last one returned.
Forget ==
    /\ answer' = NoAnswer
    /\ UNCHANGED <<phase, stage>>

Next ==
    \/ Open \/ BeginClose \/ Closed \/ Forget
    \/ \E i \in JobIds : Accept(i) \/ Finish(i) \/ Retrieve(i)

Spec == Init /\ [][Next]_vars
=============================================================================
