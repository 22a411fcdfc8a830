------------------------------ MODULE Processor ------------------------------
(***************************************************************************)
(* CudaProcessor: what it allocates for an engine, the cache of its cuFFT    *)
(* plans, and the way of the samples of a job through the eleven device      *)
(* buffers that all workers share.                                         *)
(*                                                                         *)
(* Everything a job enqueues goes to m_main_stream and is carried out in     *)
(* that order, so an operation takes effect when it is enqueued; what        *)
(* Process enqueues between two of its decisions is one step, and where one  *)
(* fails the step has had its effect or none.  A buffer is the function from *)
(* its cells to what they hold: writing past its end makes it longer, and    *)
(* reading there is an error of the model.  What a cell holds is known by    *)
(* where it comes from: pairs of a job and one of its frames, or of a job    *)
(* and its preview mask or the period of one of its cycles.                 *)
(***************************************************************************)
EXTENDS Integers, Sequences, FiniteSets

CONSTANTS
    Window,         \* Config::window_size
    MaxBatch,       \* Config::max_batch_size
    MaxCycles,      \* Config::max_cycle_count
    Workers,
    Shapes,         \* of a job: frame_length, frame_count, cycles asked, and given or not
    Breaks,         \* bound: after how many of its pieces Initialize may fail
    MaxJobs,        \* bound: jobs
    MaxStarts       \* bound: processors the engine creates

\* No caller makes frames longer than the window; Process does not ask.
ASSUME ConfigAssumption ==
    Window \in Nat \ {0} /\ MaxBatch \in Nat \ {0} /\ MaxCycles \in Nat
ASSUME ShapesAssumption ==
    Shapes \subseteq [length : 1 .. Window, frames : Nat, asked : Nat, given : BOOLEAN]
ASSUME BoundsAssumption == Breaks \subseteq 0 .. 13 /\ MaxJobs \in Nat /\ MaxStarts \in Nat

VARIABLES
    initialized,    \* m_initialized of the engine's processor
    starts,         \* processors created so far; the last is the engine's
    memory,         \* what exists on the device but plans: <<processor, piece>>
    abandoned,      \* the processors whose Initialize failed
    plans,          \* the cuFFT plans that exist: <<job that made it, "forward" or "inverse">>
    cache,          \* m_plan_cache: batch size |-> the job that made the bundle
    raced,          \* the jobs that were in AcquirePlan together with another
    mem,            \* the contents of the buffers
    lastJob,        \* jobs so far
    pc, job, shape, cycles, cycle,  \* of a worker: where Process is, cycle_count, cycle_index
    alone,          \* did no other call of Process overlap this one?
    out             \* what it copies into its JobRecord

device  == <<initialized, starts, memory, abandoned>>
caching == <<plans, cache, raced>>
worker  == <<pc, job, shape, cycles, cycle, alone, out>>
vars    == <<device, caching, mem, lastJob, worker>>

-----------------------------------------------------------------------------
(* Buffers *)

Bins(length) == length \div 2 + 1

TimeCapacity == MaxBatch * Window
FreqCapacity == MaxBatch * Bins(Window)

\* EnsureBuffers: the elements of each buffer.
Capacity ==
    [time_in |-> TimeCapacity, time_original |-> TimeCapacity,
     time_filtered |-> TimeCapacity, time_noise |-> TimeCapacity,
     time_cycles |-> TimeCapacity * MaxCycles,
     preview_mask |-> Bins(Window), cycle_masks |-> MaxCycles * Bins(Window),
     cycle_periods |-> MaxCycles,
     freq_original |-> FreqCapacity, freq_filtered |-> FreqCapacity,
     freq_cycles |-> FreqCapacity * MaxCycles]

Buffers == DOMAIN Capacity

\* In the order in which Initialize makes them.
Pieces ==
    <<"time_in", "time_original", "time_filtered", "time_noise", "time_cycles",
      "preview_mask", "cycle_masks", "cycle_periods",
      "freq_original", "freq_filtered", "freq_cycles",
      "m_main_stream", "m_timing_start", "m_timing_end">>

PreviewMask == -1
Period(c)   == -2 - c
Unknown     == {<<0, PreviewMask>>}
Fresh     == [b \in Buffers |-> [i \in 0 .. (Capacity[b] - 1) |-> Unknown]]

NoShape == [length |-> 1, frames |-> 0, asked |-> 0, given |-> FALSE]
NoOut   == [ok |-> FALSE, wave |-> <<>>, noise |-> <<>>, cycles |-> <<>>]

Init ==
    /\ initialized = FALSE /\ starts = 0 /\ memory = {} /\ abandoned = {}
    /\ plans = {} /\ cache = [b \in {} |-> 0] /\ raced = {}
    /\ mem = Fresh /\ lastJob = 0
    /\ pc = [w \in Workers |-> "idle"] /\ job = [w \in Workers |-> 0]
    /\ shape = [w \in Workers |-> NoShape]
    /\ cycles = [w \in Workers |-> 0] /\ cycle = [w \in Workers |-> 0]
    /\ alone = [w \in Workers |-> TRUE] /\ out = [w \in Workers |-> NoOut]

-----------------------------------------------------------------------------
(* The engine starts and stops: a new CudaProcessor for each start *)

\* The first piece that cannot be made ends Initialize.  m_initialized is still
\* FALSE then, so the destructor's Shutdown returns at once.
Initialize ==
    /\ ~initialized /\ starts < MaxStarts
    /\ starts' = starts + 1
    /\ \E made \in Breaks \cup {Len(Pieces)} :
          /\ initialized' = (made = Len(Pieces))
          /\ memory' = memory \cup ({starts + 1} \X {Pieces[n] : n \in 1 .. made})
          /\ abandoned' = IF initialized' THEN abandoned ELSE abandoned \cup {starts + 1}
    /\ cache' = [b \in {} |-> 0]
    /\ mem' = Fresh
    /\ UNCHANGED <<plans, raced, lastJob, worker>>

\* Mutant: the inverse plans are forgotten.
ReleaseForwardPlans == {<<cache[b], "forward">> : b \in DOMAIN cache}

\* What ReleasePlans destroys.
ReleasePlans == {cache[b] : b \in DOMAIN cache} \X {"forward", "inverse"}

\* The engine has joined its workers.
Shutdown ==
    /\ initialized /\ \A w \in Workers : pc[w] = "idle"
    /\ initialized' = FALSE
    /\ plans' = plans \ ReleasePlans
    /\ cache' = [b \in {} |-> 0]
    /\ memory' = memory \ ({starts} \X {Pieces[n] : n \in DOMAIN Pieces})
    /\ UNCHANGED <<starts, abandoned, raced, mem, lastJob, worker>>

-----------------------------------------------------------------------------
(* Process and AcquirePlan *)

Goes(w, from, to) ==
    /\ pc[w] = from
    /\ pc' = [pc EXCEPT ![w] = to]

\* Mutant: the size of a batch is not looked at.
AnyBatch(s) == s.frames > 0

FitsTheBatch(s) == s.frames > 0 /\ s.frames <= MaxBatch

\* Process begins; a job that is too large ends at once.
Process(w) ==
    /\ initialized /\ lastJob < MaxJobs
    /\ \E s \in Shapes :
          /\ Goes(w, "idle", IF FitsTheBatch(s) THEN "find" ELSE "done")
          /\ shape' = [shape EXCEPT ![w] = s]
    /\ lastJob' = lastJob + 1
    /\ job' = [job EXCEPT ![w] = lastJob + 1]
    /\ alone' = [v \in Workers |->
          IF v = w THEN \A u \in Workers \ {w} : pc[u] = "idle"
          ELSE pc[v] = "idle"]
    /\ UNCHANGED <<device, caching, mem, cycles, cycle, out>>

Planning == {"forward", "inverse", "emplace"}

Find(w) ==
    /\ Goes(w, "find", IF shape[w].frames \in DOMAIN cache THEN "upload" ELSE "forward")
    /\ LET others == {v \in Workers \ {w} : pc[v] \in Planning}
       IN raced' = IF shape[w].frames \in DOMAIN cache \/ others = {} THEN raced
                   ELSE raced \cup {job[v] : v \in others \cup {w}}
    /\ UNCHANGED <<device, plans, cache, mem, lastJob, job, shape, cycles, cycle, alone, out>>

\* Two calls of cufftPlanMany, either of which may fail; with the second the
\* first plan is destroyed again.
PlanForward(w) ==
    /\ \/ Goes(w, "forward", "inverse") /\ plans' = plans \cup {<<job[w], "forward">>}
       \/ Goes(w, "forward", "done")    /\ UNCHANGED plans
    /\ UNCHANGED <<device, cache, raced, mem, lastJob, job, shape, cycles, cycle, alone, out>>

PlanInverse(w) ==
    /\ \/ Goes(w, "inverse", "emplace") /\ plans' = plans \cup {<<job[w], "inverse">>}
       \/ Goes(w, "inverse", "done")    /\ plans' = plans \ {<<job[w], "forward">>}
    /\ UNCHANGED <<device, cache, raced, mem, lastJob, job, shape, cycles, cycle, alone, out>>

\* An entry that came in between is kept.  The map has no lock: of two workers
\* that insert together one may lose its entry.
Emplace(w) ==
    /\ Goes(w, "emplace", "upload")
    /\ \/ LET b == shape[w].frames
          IN cache' = [x \in DOMAIN cache \cup {b} |-> IF x \in DOMAIN cache THEN cache[x] ELSE job[w]]
       \/ (\E v \in Workers \ {w} : pc[v] = "emplace") /\ UNCHANGED cache
    /\ UNCHANGED <<device, plans, raced, mem, lastJob, job, shape, cycles, cycle, alone, out>>

-----------------------------------------------------------------------------
(* ProcessInternal *)

Samples(s)  == s.frames * s.length          \* total_samples
Spectrum(s) == s.frames * Bins(s.length)    \* freq_samples

\* The first n cells.
Upto(n) == 0 .. (n - 1)

\* A buffer after new elements are written from an offset on.
Put(buffer, offset, new) ==
    [i \in DOMAIN buffer \cup {offset + k : k \in DOMAIN new} |->
        IF i - offset \in DOMAIN new THEN new[i - offset] ELSE buffer[i]]

\* The frame of a sample.
FrameOf(i, s) == (i % Samples(s)) \div s.length

\* The plans are made for the window, whatever the length of the job's frames:
\* frame f is read and written at f windows.
D2Z(time, s) ==
    [k \in Upto(s.frames * Bins(Window)) |->
        UNION {time[(k \div Bins(Window)) * Window + i] : i \in Upto(Window)}]

Z2D(freq, offset, s) ==
    [i \in Upto(s.frames * Window) |->
        UNION {freq[offset + (i \div Window) * Bins(Window) + k] : k \in Upto(Bins(Window))}]

\* Kernels and copies over the first frames: frame f is at f lengths.
ZeroDc(freq, s) ==
    [k \in DOMAIN freq |-> IF k < Spectrum(s) /\ k % Bins(s.length) = 0 THEN {} ELSE freq[k]]

Masked(base, mask, offset, s) ==
    [k \in Upto(Spectrum(s)) |-> base[k] \cup mask[offset + (k % Bins(s.length))]]

Uploaded(j, s) ==
    LET samples == [i \in Upto(Samples(s)) |-> {<<j, FrameOf(i, s)>>}]
    IN [mem EXCEPT !["time_original"] = Put(@, 0, samples),
                   !["time_in"]       = Put(@, 0, samples),
                   !["preview_mask"]  = Put(@, 0, [k \in Upto(Bins(s.length)) |-> {<<j, PreviewMask>>}])]

Spectra(s) ==
    LET base == ZeroDc(Put(mem["freq_original"], 0, D2Z(mem["time_in"], s)), s)
    IN [mem EXCEPT !["freq_original"] = base,
                   !["freq_filtered"] = Put(@, 0, Masked(base, mem["preview_mask"], 0, s))]

Filtered(s) ==
    LET time == Put(mem["time_filtered"], 0, Z2D(mem["freq_filtered"], 0, s))
    IN [mem EXCEPT !["time_filtered"] = time,
                   !["time_noise"]    = Put(@, 0, [i \in Upto(Samples(s)) |-> mem["time_original"][i] \cup time[i]])]

\* Where the periods of a job come from: its request, or every frame of what it
\* reads back of the filtered spectrum.
Origins(j, s) ==
    IF s.given THEN {j} ELSE {t[1] : t \in UNION {mem["freq_filtered"][k] : k \in Upto(Spectrum(s))}}

\* cycle_count: the valid ones of the given periods, or of a spectrum without
\* its DC as many bins as are two apart, one at least.
Chosen(s) ==
    LET target == IF s.asked < MaxCycles THEN s.asked ELSE MaxCycles
        apart  == Bins(s.length) \div 2
        most   == IF target < apart THEN target ELSE apart
    IN IF s.given THEN 0 .. target ELSE {n \in 0 .. most : n > 0 \/ most = 0}

Gains(j, s, n) ==
    LET periods == [c \in Upto(n) |-> {<<i, Period(c)>> : i \in Origins(j, s)}]
    IN [mem EXCEPT !["cycle_periods"] = Put(@, 0, periods),
                   !["cycle_masks"]   = Put(@, 0, [k \in Upto(n * Bins(s.length)) |-> periods[k \div Bins(s.length)]])]

\* Mutant: the results of a cycle are laid out for the largest batch.
CycleTimeStrided(s, c) == c * TimeCapacity

\* Where a cycle begins in freq_cycles and in time_cycles.
CycleFreq(s, c) == c * Spectrum(s)
CycleTime(s, c) == c * Samples(s)

CycleBuilt(s, c) ==
    LET freq == Put(mem["freq_cycles"], CycleFreq(s, c),
                    Masked(mem["freq_original"], mem["cycle_masks"], c * Bins(s.length), s))
    IN [mem EXCEPT !["freq_cycles"] = freq,
                   !["time_cycles"] = Put(@, CycleTime(s, c), Z2D(freq, CycleFreq(s, c), s))]

\* A step of ProcessInternal: it goes on with its effect, or an error ends it
\* before or after that.
Stage(w, from, to, effect) ==
    \/ Goes(w, from, to) /\ mem' = effect
    \/ Goes(w, from, "done") /\ mem' \in {mem, effect}

Upload(w) ==
    /\ Stage(w, "upload", "transform", Uploaded(job[w], shape[w]))
    /\ UNCHANGED <<device, caching, lastJob, job, shape, cycles, cycle, alone, out>>

Transform(w) ==
    /\ Stage(w, "transform", "invert", Spectra(shape[w]))
    /\ UNCHANGED <<device, caching, lastJob, job, shape, cycles, cycle, alone, out>>

Invert(w) ==
    /\ Stage(w, "invert", "choose", Filtered(shape[w]))
    /\ UNCHANGED <<device, caching, lastJob, job, shape, cycles, cycle, alone, out>>

Choose(w) ==
    /\ \E n \in Chosen(shape[w]) :
          /\ Stage(w, "choose", IF n > 0 THEN "cycle" ELSE "download", Gains(job[w], shape[w], n))
          /\ cycles' = [cycles EXCEPT ![w] = n]
    /\ cycle' = [cycle EXCEPT ![w] = 0]
    /\ UNCHANGED <<device, caching, lastJob, job, shape, alone, out>>

Cycle(w) ==
    /\ Stage(w, "cycle", IF cycle[w] + 1 < cycles[w] THEN "cycle" ELSE "download",
             CycleBuilt(shape[w], cycle[w]))
    /\ cycle' = [cycle EXCEPT ![w] = @ + 1]
    /\ UNCHANGED <<device, caching, lastJob, job, shape, cycles, alone, out>>

\* preview is a second copy of wave.
Download(w) ==
    /\ Goes(w, "download", "done")
    /\ LET total == Samples(shape[w])
       IN out' \in {out, [out EXCEPT ![w] =
                [ok     |-> TRUE,
                 wave   |-> [i \in Upto(total) |-> mem["time_filtered"][i]],
                 noise  |-> [i \in Upto(total) |-> mem["time_noise"][i]],
                 cycles |-> [i \in Upto(cycles[w] * total) |-> mem["time_cycles"][i]]]]}
    /\ UNCHANGED <<device, caching, mem, lastJob, job, shape, cycles, cycle, alone>>

\* The worker has the status and takes its next job.
Return(w) ==
    /\ Goes(w, "done", "idle")
    /\ out' = [out EXCEPT ![w] = NoOut]
    /\ job' = [job EXCEPT ![w] = 0]
    /\ shape' = [shape EXCEPT ![w] = NoShape]
    /\ cycles' = [cycles EXCEPT ![w] = 0]
    /\ cycle' = [cycle EXCEPT ![w] = 0]
    /\ alone' = [alone EXCEPT ![w] = TRUE]
    /\ UNCHANGED <<device, caching, mem, lastJob>>

WorkerStep(w) ==
    \/ Process(w) \/ Find(w) \/ PlanForward(w) \/ PlanInverse(w) \/ Emplace(w)
    \/ Upload(w) \/ Transform(w) \/ Invert(w) \/ Choose(w) \/ Cycle(w)
    \/ Download(w) \/ Return(w)

Next == Initialize \/ Shutdown \/ \E w \in Workers : WorkerStep(w)

Spec == Init /\ [][Next]_vars

-----------------------------------------------------------------------------
(* Properties *)

\* No job writes past the end of a buffer, whatever its shape: the guard of
\* Process on frame_count is enough, for the layouts by length and by window and
\* for the room EnsureBuffers makes for the cycles.
InBounds == \A b \in Buffers : DOMAIN mem[b] = Upto(Capacity[b])

\* A job that is READY and was alone in Process has in each sample of each of its
\* frames that frame, its own preview mask and, in cycle c, the period of cycle c:
\* nothing of another frame, of another cycle, or of a job before it that failed
\* or was larger, whatever those have left in the buffers.  (A frame of a single
\* sample is all mean, which ZeroDc removes.)
FramesStayApart ==
    \A w \in Workers :
        LET j == job[w]
            s == shape[w]
            Own(i) == <<j, FrameOf(i, s)>>
            Sound(series, gain(_)) ==
                \A i \in DOMAIN series : Own(i) \in series[i] /\ series[i] \subseteq {Own(i), <<j, gain(i)>>}
            Mask(i) == PreviewMask
            CycleOf(i) == Period(i \div Samples(s))
        IN out[w].ok /\ alone[w] /\ s.length = Window /\ Window > 1
           => Sound(out[w].wave, Mask) /\ Sound(out[w].noise, Mask) /\ Sound(out[w].cycles, CycleOf)

\* Whatever is on the device is the running processor's to free, but for the
\* buffers of a processor whose Initialize failed and the plans of jobs that were
\* in AcquirePlan together: after Shutdown nothing else is left.
DeviceIsAccounted ==
    /\ \A m \in memory : m[1] \in abandoned \/ (initialized /\ m[1] = starts)
    /\ \A p \in plans :
          \/ p \in ReleasePlans
          \/ p[1] \in raced
          \/ \E w \in Workers : pc[w] \in Planning /\ p[1] = job[w]
=============================================================================
