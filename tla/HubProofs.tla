----------------------------- MODULE HubProofs ------------------------------
(***************************************************************************)
(* Proofs about Hub, for any number of jobs, whether jobs fail or not, in    *)
(* one process or through the service: the hub is a caller that has one job  *)
(* in flight.                                                               *)
(***************************************************************************)
EXTENDS Hub, TLAPS

\* Where the hub is while it has the engine.
OnChart == {"init", "idle", "submit", "poll", "fetch", "publish"}

Open == {i \in JobIds : stage[i] \in {"accepted", "ready", "failed"}}

\* g_jobs is empty, or holds the one job the engine has; from FetchResult to
\* RemoveJob the engine has none, and the job is still listed.  An engine that
\* is gone has no job, and no other can fail the fetch of a job that was READY.
HubInv ==
    /\ DOMAIN stage = JobIds
    /\ jobs = <<>> \/ \E i \in JobIds : jobs = <<i>>
    /\ pc \in OnChart \cup {"off", "closing"}
    /\ phase = "open" => pc \in OnChart
    /\ pc \in {"off", "init"} => jobs = <<>>
    /\ pc \in {"fetch", "publish"} => jobs # <<>>
    /\ pc = "off" => phase = "closed"
    /\ phase = "open" => Open = IF pc = "publish" THEN {} ELSE {jobs[k] : k \in DOMAIN jobs}
    /\ pc \in OnChart /\ phase # "open" => phase = "closed" /\ Open = {}
    /\ pc = "fetch" /\ phase = "open" => stage[Head(jobs)] = "ready"

\* The elements of a list of at most one.
LEMMA Lists ==
    /\ {<<>>[k] : k \in DOMAIN <<>>} = {}
    /\ \A i : {<<i>>[k] : k \in DOMAIN <<i>>} = {i}
    /\ \A i : <<i>> # <<>> /\ Head(<<i>>) = i /\ Tail(<<i>>) = <<>> /\ Append(<<>>, i) = <<i>>
<1>1. \A i : DOMAIN <<i>> = {1} /\ <<i>>[1] = i
  OBVIOUS
<1> QED
  BY <1>1

LEMMA HubInit == Init => HubInv
  BY Lists DEF Init, Lib!Init, HubInv, OnChart, JobIds

\* The steps of the handlers, one by one.
LEMMA HubStep == HubInv /\ [Next]_vars => HubInv'
<1> SUFFICES ASSUME HubInv, [Next]_vars PROVE HubInv'
  OBVIOUS
<1> USE DEF engine
<1>1. ASSUME UNCHANGED <<phase, stage, pc, jobs>> PROVE HubInv'
  BY <1>1 DEF HubInv, Open
<1>2. CASE InitEngine
  <2>1. phase' \in {"open", "closed"} /\ stage' = [i \in JobIds |-> "unknown"] /\ jobs' = <<>>
        /\ pc' = IF phase' = "open" THEN "init" ELSE "off"
    BY <1>2 DEF InitEngine, Lib!Open, Goes, HubInv, JobIds
  <2>2. Open' = {}
    BY <2>1 DEF Open
  <2> QED
    BY <2>1, <2>2, Lists DEF HubInv, OnChart
<1>3. CASE InitDone \/ Event \/ SubmitNothing
  BY <1>3 DEF InitDone, Event, SubmitNothing, Goes, HubInv, OnChart, Open
<1>4. CASE ShutdownEngine
  BY <1>4 DEF ShutdownEngine, Lib!BeginClose, Lib!Forget, HubInv, OnChart
<1>5. CASE Leave
  BY <1>5 DEF Leave, Goes, HubInv, OnChart
<1>6. CASE SubmitBatch
  <2>1. PICK i \in JobIds : /\ jobs = <<>> /\ pc = "submit" /\ pc' = "poll" /\ jobs' = Append(jobs, i)
                            /\ phase = "open" /\ phase' = phase
                            /\ stage' = [stage EXCEPT ![i] = "accepted"]
    BY <1>6 DEF SubmitBatch, Goes, Lib!Accept
  <2>2. Open = {} /\ jobs' = <<i>>
    BY <2>1, Lists DEF HubInv, OnChart
  <2>3. Open' = {i}
    BY <2>1, <2>2 DEF Open, HubInv
  <2> QED
    BY <2>1, <2>2, <2>3, Lists DEF HubInv, OnChart
<1>7. CASE PollReady \/ PollOther
  BY <1>7 DEF PollReady, PollOther, Goes, Lib!Forget, HubInv, OnChart, Open
<1>8. CASE Fetch
  <2>1. PICK i \in JobIds : jobs = <<i>>
    BY <1>8 DEF Fetch, Goes, HubInv
  <2>2. /\ stage' = [stage EXCEPT ![i] = "retrieved"] /\ phase' = phase /\ jobs' = jobs
        /\ stage[i] = "ready" /\ pc = "fetch" /\ pc' = "publish"
    BY <1>8, <2>1, Lists DEF Fetch, Goes, Lib!Retrieve
  <2>3. Open = {i} /\ phase = "open"
    BY <2>1, <2>2, Lists DEF HubInv, OnChart, Open
  <2>4. Open' = {}
    BY <2>2, <2>3 DEF Open, HubInv
  <2> QED
    BY <2>1, <2>2, <2>3, <2>4, Lists DEF HubInv, OnChart
<1>9. CASE Publish \/ FetchFails
  <2>1. PICK i \in JobIds : jobs = <<i>>
    BY <1>9 DEF Publish, FetchFails, Goes, HubInv
  <2>2. /\ jobs' = <<>> /\ UNCHANGED <<phase, stage>> /\ pc' = "idle"
        /\ pc = "publish" \/ (pc = "fetch" /\ stage[Head(jobs)] # "ready")
    BY <1>9, <2>1, Lists DEF Publish, FetchFails, Goes, Lib!Forget
  <2>3. Open' = {} /\ phase \in {"open", "closed"}
    BY <2>2 DEF HubInv, OnChart, Open
  <2> QED
    BY <2>2, <2>3, Lists DEF HubInv, OnChart
<1>10. CASE EngineStep
  <2>1. UNCHANGED <<pc, jobs>>
    BY <1>10 DEF EngineStep
  <2>2. CASE Lib!Closed
    BY <2>1, <2>2 DEF Lib!Closed, HubInv, OnChart, Open
  <2>3. ASSUME NEW i \in JobIds, Lib!Finish(i) PROVE HubInv'
    <3>1. PICK end \in {"ready", "failed"} : stage' = [stage EXCEPT ![i] = end]
      BY <2>3 DEF Lib!Finish
    <3>2. phase' = phase /\ stage[i] = "accepted" /\ phase # "closed"
      BY <2>3 DEF Lib!Finish
    <3>3. DOMAIN stage' = JobIds /\ Open' = Open
      BY <3>1, <3>2 DEF Open, HubInv
    <3>4. \A j \in JobIds : stage[j] = "ready" => stage'[j] = "ready"
      BY <3>1, <3>2 DEF HubInv
    <3>5. pc = "fetch" => Head(jobs) \in JobIds
      BY Lists DEF HubInv
    <3> QED
      BY <2>1, <3>2, <3>3, <3>4, <3>5 DEF HubInv
  <2> QED
    BY <1>10, <2>2, <2>3 DEF EngineStep
<1>11. CASE ServiceDies
  BY <1>11 DEF ServiceDies, HubInv, Open
<1> QED
  BY <1>1, <1>2, <1>3, <1>4, <1>5, <1>6, <1>7, <1>8, <1>9, <1>10, <1>11 DEF Next, Handler, vars

\* The hub never loses track of a job whose record an open engine keeps.
THEOREM HubKeepsTrack == Spec => []HubKnowsItsJobs
<1>1. HubInv => HubKnowsItsJobs
  BY DEF HubInv, HubKnowsItsJobs, Open
<1> QED
  BY <1>1, HubInit, HubStep, PTL DEF Spec

\* An open engine never has two jobs of the hub: what OneJobProofs asks of a caller.
THEOREM HubHasOneJob == Spec => [](phase = "open" => \A i, j \in Open : i = j)
<1>1. HubInv => (phase = "open" => \A i, j \in Open : i = j)
  BY Lists DEF HubInv
<1> QED
  BY <1>1, HubInit, HubStep, PTL DEF Spec
=============================================================================
