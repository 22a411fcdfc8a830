--------------------------- MODULE ProcessorProofs ---------------------------
(***************************************************************************)
(* Proofs about Processor: for any window, size of batch and number of      *)
(* cycles, any set of workers and any jobs whose frames are no longer than  *)
(* the window, no buffer is written past its end, nothing is left on the    *)
(* device but for the two leaks that are named, and a job that was alone    *)
(* reads back what is its own.                                             *)
(***************************************************************************)
EXTENDS Processor, TLAPS

-----------------------------------------------------------------------------
(* Arithmetic *)

LEMMA TimesMonotonic ==
    ASSUME NEW a \in Nat, NEW b \in Nat, NEW c \in Nat, NEW d \in Nat, a <= b, c <= d
    PROVE  a * c <= b * d /\ a * c \in Nat /\ b * d \in Nat
<1> DEFINE x == b - a
           y == d - c
<1>1. x \in Nat /\ y \in Nat /\ b = a + x /\ d = c + y
  OBVIOUS
<1> HIDE DEF x, y
<1>2. b * d = a * c + a * y + x * c + x * y
  BY <1>1
<1>3. a * c \in Nat /\ a * y \in Nat /\ x * c \in Nat /\ x * y \in Nat
  BY <1>1
<1> QED
  BY <1>2, <1>3

LEMMA BinsMonotonic ==
    /\ Bins(Window) \in Nat
    /\ \A n \in 1 .. Window : Bins(n) \in Nat /\ Bins(n) <= Bins(Window)
  BY ConfigAssumption DEF Bins

LEMMA Constants ==
    /\ Window \in Nat /\ MaxBatch \in Nat /\ MaxCycles \in Nat
    /\ TimeCapacity \in Nat /\ FreqCapacity \in Nat
  BY ConfigAssumption, BinsMonotonic, TimesMonotonic DEF TimeCapacity, FreqCapacity

\* What a job that fits the batch takes in a buffer of samples and in one of bins,
\* laid out by the length of its frames or by the window.
LEMMA FrameRoom ==
    ASSUME NEW s \in Shapes, FitsTheBatch(s)
    PROVE  /\ s.frames \in Nat /\ s.length \in 1 .. Window
           /\ Samples(s) \in Nat /\ s.frames * Window \in Nat
           /\ Samples(s) <= s.frames * Window /\ s.frames * Window <= TimeCapacity
           /\ Spectrum(s) \in Nat /\ s.frames * Bins(Window) \in Nat
           /\ Spectrum(s) <= s.frames * Bins(Window) /\ s.frames * Bins(Window) <= FreqCapacity
<1>1. s.frames \in Nat /\ s.length \in 1 .. Window /\ s.length \in Nat /\ s.frames <= MaxBatch
  BY ShapesAssumption, Constants DEF FitsTheBatch
<1>2. s.frames * s.length <= s.frames * Window /\ s.frames * Window <= MaxBatch * Window
      /\ s.frames * s.length \in Nat /\ s.frames * Window \in Nat
  BY <1>1, Constants, TimesMonotonic
<1>3. /\ s.frames * Bins(s.length) <= s.frames * Bins(Window)
      /\ s.frames * Bins(Window) <= MaxBatch * Bins(Window)
      /\ s.frames * Bins(s.length) \in Nat /\ s.frames * Bins(Window) \in Nat
  BY <1>1, Constants, BinsMonotonic, TimesMonotonic
<1> QED
  BY <1>1, <1>2, <1>3 DEF Samples, Spectrum, TimeCapacity, FreqCapacity

\* Of things of a size, one after the other, the last is the part of a larger one.
LEMMA Rows ==
    ASSUME NEW c \in Nat, NEW n \in Nat, c < n,
           NEW size \in Nat, NEW part \in Nat, NEW room \in Nat, size <= room, part <= room
    PROVE  c * size \in Nat /\ room * n \in Nat /\ c * size + part <= room * n
<1>1. c * size <= c * room /\ c * size \in Nat /\ c * room \in Nat
  BY TimesMonotonic
<1>2. (c + 1) * room <= n * room /\ n * room \in Nat
  BY TimesMonotonic
<1>3. (c + 1) * room = c * room + room /\ room * n = n * room
  OBVIOUS
<1> QED
  BY <1>1, <1>2, <1>3

-----------------------------------------------------------------------------
(* The effects of ProcessInternal on the buffers *)

\* What is written within a buffer does not make it longer.
LEMMA PutKeeps ==
    ASSUME NEW buffer, NEW new, NEW offset \in Nat, NEW n \in Nat, NEW size \in Nat,
           DOMAIN buffer = Upto(size), DOMAIN new = Upto(n), offset + n <= size
    PROVE  DOMAIN Put(buffer, offset, new) = Upto(size)
<1>1. {offset + k : k \in Upto(n)} \subseteq Upto(size)
  BY DEF Upto
<1> QED
  BY <1>1 DEF Put

LEMMA Names ==
    Buffers = {"time_in", "time_original", "time_filtered", "time_noise", "time_cycles",
               "preview_mask", "cycle_masks", "cycle_periods",
               "freq_original", "freq_filtered", "freq_cycles"}
  BY DEF Buffers, Capacity

LEMMA Capacities ==
    /\ Capacity.time_in = TimeCapacity /\ Capacity.time_original = TimeCapacity
    /\ Capacity.time_filtered = TimeCapacity /\ Capacity.time_noise = TimeCapacity
    /\ Capacity.time_cycles = TimeCapacity * MaxCycles
    /\ Capacity.preview_mask = Bins(Window) /\ Capacity.cycle_masks = MaxCycles * Bins(Window)
    /\ Capacity.cycle_periods = MaxCycles
    /\ Capacity.freq_original = FreqCapacity /\ Capacity.freq_filtered = FreqCapacity
    /\ Capacity.freq_cycles = FreqCapacity * MaxCycles
  BY DEF Capacity

\* The buffers m have the sizes they were made with.
Fit(m) == DOMAIN m = Buffers /\ \A b \in Buffers : DOMAIN m[b] = Upto(Capacity[b])

LEMMA FreshFits == Fit(Fresh)
  BY DEF Fit, Fresh, Upto

LEMMA UploadedFits ==
    ASSUME NEW j, NEW s \in Shapes, FitsTheBatch(s), Fit(mem)
    PROVE  Fit(Uploaded(j, s))
<1> DEFINE samples == [i \in Upto(Samples(s)) |-> {<<j, FrameOf(i, s)>>}]
           mask    == [k \in Upto(Bins(s.length)) |-> {<<j, PreviewMask>>}]
<1>1. /\ DOMAIN Put(mem["time_original"], 0, samples) = Upto(TimeCapacity)
      /\ DOMAIN Put(mem["time_in"], 0, samples) = Upto(TimeCapacity)
  <2>1. DOMAIN samples = Upto(Samples(s)) /\ 0 + Samples(s) <= TimeCapacity
    BY FrameRoom, Constants
  <2>2. DOMAIN mem["time_original"] = Upto(TimeCapacity) /\ DOMAIN mem["time_in"] = Upto(TimeCapacity)
    BY Names, Capacities DEF Fit
  <2> HIDE DEF samples
  <2> QED
    BY <2>1, <2>2, FrameRoom, Constants, PutKeeps
<1>2. DOMAIN Put(mem["preview_mask"], 0, mask) = Upto(Bins(Window))
  <2>1. DOMAIN mask = Upto(Bins(s.length)) /\ Bins(s.length) \in Nat /\ 0 + Bins(s.length) <= Bins(Window)
    BY FrameRoom, BinsMonotonic
  <2>2. DOMAIN mem["preview_mask"] = Upto(Bins(Window))
    BY Names, Capacities DEF Fit
  <2> HIDE DEF mask
  <2> QED
    BY <2>1, <2>2, BinsMonotonic, PutKeeps
<1>3. Uploaded(j, s) = [mem EXCEPT !["time_original"] = Put(@, 0, samples),
                                   !["time_in"]       = Put(@, 0, samples),
                                   !["preview_mask"]  = Put(@, 0, mask)]
  BY DEF Uploaded
<1> HIDE DEF samples, mask
<1> QED
  BY <1>1, <1>2, <1>3, Names, Capacities DEF Fit

LEMMA SpectraFit ==
    ASSUME NEW s \in Shapes, FitsTheBatch(s), Fit(mem)
    PROVE  Fit(Spectra(s))
<1> DEFINE raised == Put(mem["freq_original"], 0, D2Z(mem["time_in"], s))
           base   == ZeroDc(raised, s)
           masked == Put(mem["freq_filtered"], 0, Masked(base, mem["preview_mask"], 0, s))
<1>1. DOMAIN mem["freq_original"] = Upto(FreqCapacity) /\ DOMAIN mem["freq_filtered"] = Upto(FreqCapacity)
  BY Names, Capacities DEF Fit
<1>2. DOMAIN raised = Upto(FreqCapacity)
  <2>1. DOMAIN D2Z(mem["time_in"], s) = Upto(s.frames * Bins(Window))
    BY DEF D2Z
  <2>2. 0 + s.frames * Bins(Window) <= FreqCapacity
    BY FrameRoom, Constants
  <2> QED
    BY <1>1, <2>1, <2>2, FrameRoom, Constants, PutKeeps
<1>3. DOMAIN base = Upto(FreqCapacity)
  <2> HIDE DEF raised
  <2> QED
    BY <1>2 DEF ZeroDc
<1>4. DOMAIN masked = Upto(FreqCapacity)
  <2> HIDE DEF base
  <2>1. DOMAIN Masked(base, mem["preview_mask"], 0, s) = Upto(Spectrum(s))
    BY DEF Masked
  <2>2. 0 + Spectrum(s) <= FreqCapacity
    BY FrameRoom, Constants
  <2> QED
    BY <1>1, <2>1, <2>2, FrameRoom, Constants, PutKeeps
<1>5. Spectra(s) = [mem EXCEPT !["freq_original"] = base, !["freq_filtered"] = masked]
  BY DEF Spectra
<1> HIDE DEF base, masked
<1> QED
  BY <1>3, <1>4, <1>5, Names, Capacities DEF Fit

LEMMA FilteredFits ==
    ASSUME NEW s \in Shapes, FitsTheBatch(s), Fit(mem)
    PROVE  Fit(Filtered(s))
<1> DEFINE time    == Put(mem["time_filtered"], 0, Z2D(mem["freq_filtered"], 0, s))
           removed == [i \in Upto(Samples(s)) |-> mem["time_original"][i] \cup time[i]]
           noise   == Put(mem["time_noise"], 0, removed)
<1>1. DOMAIN mem["time_filtered"] = Upto(TimeCapacity) /\ DOMAIN mem["time_noise"] = Upto(TimeCapacity)
  BY Names, Capacities DEF Fit
<1>2. DOMAIN time = Upto(TimeCapacity)
  <2>1. DOMAIN Z2D(mem["freq_filtered"], 0, s) = Upto(s.frames * Window)
    BY DEF Z2D
  <2>2. 0 + s.frames * Window <= TimeCapacity
    BY FrameRoom, Constants
  <2> QED
    BY <1>1, <2>1, <2>2, FrameRoom, Constants, PutKeeps
<1>3. DOMAIN noise = Upto(TimeCapacity)
  <2>1. DOMAIN removed = Upto(Samples(s)) /\ 0 + Samples(s) <= TimeCapacity
    BY FrameRoom, Constants
  <2> HIDE DEF removed
  <2> QED
    BY <1>1, <2>1, FrameRoom, Constants, PutKeeps
<1>4. Filtered(s) = [mem EXCEPT !["time_filtered"] = time, !["time_noise"] = noise]
  BY DEF Filtered
<1> HIDE DEF time, noise
<1> QED
  BY <1>2, <1>3, <1>4, Names, Capacities DEF Fit

LEMMA ChosenInRange ==
    ASSUME NEW s \in Shapes, NEW n \in Chosen(s)
    PROVE  n \in 0 .. MaxCycles
<1>1. s.asked \in Nat /\ s.length \in 1 .. Window
  BY ShapesAssumption
<1>2. Bins(s.length) \div 2 \in Int
  BY <1>1, BinsMonotonic
<1> QED
  BY <1>1, <1>2, Constants DEF Chosen

LEMMA GainsFit ==
    ASSUME NEW j, NEW s \in Shapes, FitsTheBatch(s), Fit(mem), NEW n \in 0 .. MaxCycles
    PROVE  Fit(Gains(j, s, n))
<1> DEFINE given   == [c \in Upto(n) |-> {<<i, Period(c)>> : i \in Origins(j, s)}]
           gains   == [k \in Upto(n * Bins(s.length)) |-> given[k \div Bins(s.length)]]
           periods == Put(mem["cycle_periods"], 0, given)
           masks   == Put(mem["cycle_masks"], 0, gains)
<1>1. DOMAIN periods = Upto(MaxCycles)
  <2>1. DOMAIN given = Upto(n) /\ n \in Nat /\ 0 + n <= MaxCycles
    BY Constants
  <2>2. DOMAIN mem["cycle_periods"] = Upto(MaxCycles)
    BY Names, Capacities DEF Fit
  <2> HIDE DEF given
  <2> QED
    BY <2>1, <2>2, Constants, PutKeeps
<1>2. DOMAIN masks = Upto(MaxCycles * Bins(Window))
  <2>1. /\ n * Bins(s.length) <= MaxCycles * Bins(Window)
        /\ n * Bins(s.length) \in Nat /\ MaxCycles * Bins(Window) \in Nat
    BY FrameRoom, Constants, BinsMonotonic, TimesMonotonic
  <2>2. DOMAIN gains = Upto(n * Bins(s.length)) /\ 0 + n * Bins(s.length) <= MaxCycles * Bins(Window)
    BY <2>1
  <2>3. DOMAIN mem["cycle_masks"] = Upto(MaxCycles * Bins(Window))
    BY Names, Capacities DEF Fit
  <2> HIDE DEF gains
  <2> QED
    BY <2>1, <2>2, <2>3, PutKeeps
<1>3. Gains(j, s, n) = [mem EXCEPT !["cycle_periods"] = periods, !["cycle_masks"] = masks]
  BY DEF Gains
<1> HIDE DEF periods, masks
<1> QED
  BY <1>1, <1>2, <1>3, Names, Capacities DEF Fit

LEMMA CycleFits ==
    ASSUME NEW s \in Shapes, FitsTheBatch(s), Fit(mem), NEW c \in Nat, c < MaxCycles
    PROVE  Fit(CycleBuilt(s, c))
<1> DEFINE gained == Masked(mem["freq_original"], mem["cycle_masks"], c * Bins(s.length), s)
           freq   == Put(mem["freq_cycles"], CycleFreq(s, c), gained)
           back   == Z2D(freq, CycleFreq(s, c), s)
           time   == Put(mem["time_cycles"], CycleTime(s, c), back)
<1>1. DOMAIN freq = Upto(FreqCapacity * MaxCycles)
  <2>1. DOMAIN gained = Upto(Spectrum(s))
    BY DEF Masked
  <2>2. /\ CycleFreq(s, c) \in Nat /\ FreqCapacity * MaxCycles \in Nat
        /\ CycleFreq(s, c) + Spectrum(s) <= FreqCapacity * MaxCycles
    <3>1. Spectrum(s) \in Nat /\ FreqCapacity \in Nat /\ MaxCycles \in Nat /\ Spectrum(s) <= FreqCapacity
      BY FrameRoom, Constants
    <3> QED
      BY <3>1, Rows DEF CycleFreq
  <2>3. DOMAIN mem["freq_cycles"] = Upto(FreqCapacity * MaxCycles)
    BY Names, Capacities DEF Fit
  <2> HIDE DEF gained
  <2> QED
    BY <2>1, <2>2, <2>3, FrameRoom, PutKeeps
<1>2. DOMAIN time = Upto(TimeCapacity * MaxCycles)
  <2> HIDE DEF freq
  <2>1. DOMAIN back = Upto(s.frames * Window)
    BY DEF Z2D
  <2>2. /\ CycleTime(s, c) \in Nat /\ TimeCapacity * MaxCycles \in Nat
        /\ CycleTime(s, c) + s.frames * Window <= TimeCapacity * MaxCycles
    BY FrameRoom, Constants, Rows DEF CycleTime
  <2>3. DOMAIN mem["time_cycles"] = Upto(TimeCapacity * MaxCycles)
    BY Names, Capacities DEF Fit
  <2> HIDE DEF back
  <2> QED
    BY <2>1, <2>2, <2>3, FrameRoom, PutKeeps
<1>3. CycleBuilt(s, c) = [mem EXCEPT !["freq_cycles"] = freq, !["time_cycles"] = time]
  BY DEF CycleBuilt
<1> HIDE DEF freq, time
<1> QED
  BY <1>1, <1>2, <1>3, Names, Capacities DEF Fit

-----------------------------------------------------------------------------
(* The invariant: a job inside the buffers fits them, and has cycles to go *)

\* The points of Process after the size of the batch has been looked at.
Accepted == {"find", "forward", "inverse", "emplace",
             "upload", "transform", "invert", "choose", "cycle", "download"}

WorkersInv ==
    /\ pc \in [Workers -> Accepted \cup {"idle", "done"}]
    /\ DOMAIN shape = Workers
    /\ cycles \in [Workers -> 0 .. MaxCycles]
    /\ cycle \in [Workers -> Nat]
    /\ \A w \in Workers :
          /\ pc[w] \in Accepted => shape[w] \in Shapes /\ FitsTheBatch(shape[w])
          /\ pc[w] = "cycle" => cycle[w] < cycles[w]

BufferInv == Fit(mem) /\ WorkersInv

LEMMA InitHolds == Init => BufferInv
  BY FreshFits, Constants DEF Init, BufferInv, WorkersInv, Accepted

\* A step of ProcessInternal leaves the buffers as they were or with its effect.
LEMMA StageFits ==
    ASSUME BufferInv, NEW w \in Workers, NEW from, NEW to, NEW effect,
           Stage(w, from, to, effect), Fit(effect)
    PROVE  Fit(mem)'
  BY DEF BufferInv, Stage, Fit

LEMMA StepHolds == BufferInv /\ [Next]_vars => BufferInv'
<1> SUFFICES ASSUME BufferInv, [Next]_vars PROVE BufferInv'
  OBVIOUS
<1> USE DEF vars, device, caching, worker
<1>0. WorkersInv /\ Fit(mem)
  BY DEF BufferInv
<1>1. CASE Initialize
  <2>1. Fit(mem)'
    BY <1>1, FreshFits DEF Initialize, Fit
  <2>2. WorkersInv'
    BY <1>0, <1>1 DEF Initialize, WorkersInv
  <2> QED
    BY <2>1, <2>2 DEF BufferInv
<1>2. CASE Shutdown
  BY <1>2 DEF Shutdown, BufferInv, WorkersInv, Fit
<1>3. ASSUME NEW w \in Workers, WorkerStep(w) PROVE BufferInv'
  <2> USE <1>0
  <2>1. CASE Process(w)
    BY <2>1 DEF Process, Goes, BufferInv, WorkersInv, Fit, Accepted
  <2>2. CASE Find(w)
    BY <2>2 DEF Find, Goes, BufferInv, WorkersInv, Fit, Accepted
  <2>3. CASE PlanForward(w)
    BY <2>3 DEF PlanForward, Goes, BufferInv, WorkersInv, Fit, Accepted
  <2>4. CASE PlanInverse(w)
    BY <2>4 DEF PlanInverse, Goes, BufferInv, WorkersInv, Fit, Accepted
  <2>5. CASE Emplace(w)
    BY <2>5 DEF Emplace, Goes, BufferInv, WorkersInv, Fit, Accepted
  <2>6. CASE Upload(w)
    <3>1. shape[w] \in Shapes /\ FitsTheBatch(shape[w])
      BY <2>6 DEF Upload, Stage, Goes, WorkersInv, Accepted
    <3>2. Fit(mem)'
      BY <2>6, <3>1, UploadedFits, StageFits DEF Upload
    <3>3. WorkersInv'
      BY <2>6 DEF Upload, Stage, Goes, WorkersInv, Accepted
    <3> QED
      BY <3>2, <3>3 DEF BufferInv
  <2>7. CASE Transform(w)
    <3>1. shape[w] \in Shapes /\ FitsTheBatch(shape[w])
      BY <2>7 DEF Transform, Stage, Goes, WorkersInv, Accepted
    <3>2. Fit(mem)'
      BY <2>7, <3>1, SpectraFit, StageFits DEF Transform
    <3>3. WorkersInv'
      BY <2>7 DEF Transform, Stage, Goes, WorkersInv, Accepted
    <3> QED
      BY <3>2, <3>3 DEF BufferInv
  <2>8. CASE Invert(w)
    <3>1. shape[w] \in Shapes /\ FitsTheBatch(shape[w])
      BY <2>8 DEF Invert, Stage, Goes, WorkersInv, Accepted
    <3>2. Fit(mem)'
      BY <2>8, <3>1, FilteredFits, StageFits DEF Invert
    <3>3. WorkersInv'
      BY <2>8 DEF Invert, Stage, Goes, WorkersInv, Accepted
    <3> QED
      BY <3>2, <3>3 DEF BufferInv
  <2>9. CASE Choose(w)
    <3>1. shape[w] \in Shapes /\ FitsTheBatch(shape[w])
      BY <2>9 DEF Choose, Stage, Goes, WorkersInv, Accepted
    <3>2. PICK n \in Chosen(shape[w]) :
            /\ Stage(w, "choose", IF n > 0 THEN "cycle" ELSE "download", Gains(job[w], shape[w], n))
            /\ cycles' = [cycles EXCEPT ![w] = n]
      BY <2>9 DEF Choose
    <3>3. n \in 0 .. MaxCycles
      BY <3>1, ChosenInRange
    <3>4. Fit(mem)'
      BY <3>1, <3>2, <3>3, GainsFit, StageFits
    <3>5. WorkersInv'
      BY <2>9, <3>2, <3>3, Constants DEF Choose, Stage, Goes, WorkersInv, Accepted
    <3> QED
      BY <3>4, <3>5 DEF BufferInv
  <2>10. CASE Cycle(w)
    <3>1. /\ shape[w] \in Shapes /\ FitsTheBatch(shape[w])
          /\ cycle[w] \in Nat /\ cycle[w] < MaxCycles
      BY <2>10, Constants DEF Cycle, Stage, Goes, WorkersInv, Accepted
    <3>2. Fit(mem)'
      BY <2>10, <3>1, CycleFits, StageFits DEF Cycle
    <3>3. WorkersInv'
      BY <2>10, Constants DEF Cycle, Stage, Goes, WorkersInv, Accepted
    <3> QED
      BY <3>2, <3>3 DEF BufferInv
  <2>11. CASE Download(w)
    BY <2>11 DEF Download, Goes, BufferInv, WorkersInv, Fit, Accepted
  <2>12. CASE Return(w)
    BY <2>12, Constants DEF Return, Goes, BufferInv, WorkersInv, Fit, Accepted
  <2> QED
    BY <1>3, <2>1, <2>2, <2>3, <2>4, <2>5, <2>6, <2>7, <2>8, <2>9, <2>10, <2>11, <2>12
       DEF WorkerStep
<1>4. CASE UNCHANGED vars
  BY <1>4 DEF BufferInv, WorkersInv, Fit
<1> QED
  BY <1>1, <1>2, <1>3, <1>4 DEF Next

\* Whatever the window, the batch, the cycles and the jobs, no buffer is ever
\* written past its end.
THEOREM BuffersSuffice == Spec => []InBounds
<1>1. BufferInv => InBounds
  BY DEF BufferInv, Fit, InBounds
<1> QED
  BY InitHolds, StepHolds, <1>1, PTL DEF Spec

-----------------------------------------------------------------------------
(* What exists on the device *)

PieceNames == {Pieces[n] : n \in DOMAIN Pieces}
PlanKinds  == {"forward", "inverse"}

LEMMA PieceCount ==
    Len(Pieces) = 14 /\ \A made \in 0 .. 14 : {Pieces[n] : n \in 1 .. made} \subseteq PieceNames
  BY DEF Pieces, PieceNames

OwnersInv ==
    /\ starts \in Nat /\ memory \subseteq (1 .. starts) \X PieceNames
    /\ lastJob \in Nat /\ plans \subseteq (0 .. lastJob) \X PlanKinds
    /\ ~initialized => DOMAIN cache = {} /\ \A w \in Workers : pc[w] = "idle"

\* A job makes its two plans once, in order, and under its own number.
MakersInv ==
    /\ job \in [Workers -> 0 .. lastJob]
    /\ \A w, v \in Workers : w # v /\ pc[w] # "idle" /\ pc[v] # "idle" => job[w] # job[v]
    /\ \A w \in Workers : pc[w] \in {"find", "forward"} => \A p \in plans : p[1] # job[w]
    /\ \A w \in Workers : pc[w] = "inverse" => \A p \in plans : p[1] = job[w] => p[2] = "forward"

\* Who is in AcquirePlan with another is known to be, and so is who finds that the
\* plan of its size has been made in the meantime.
RacesInv ==
    /\ \A w, v \in Workers : w # v /\ pc[w] \in Planning /\ pc[v] \in Planning => job[w] \in raced
    /\ \A w \in Workers : pc[w] \in Planning /\ shape[w].frames \in DOMAIN cache => job[w] \in raced

MemoryOwned == \A m \in memory : m[1] \in abandoned \/ (initialized /\ m[1] = starts)

PlanOwned(p) ==
    \/ p \in ReleasePlans
    \/ p[1] \in raced
    \/ \E w \in Workers : pc[w] \in Planning /\ p[1] = job[w]

PlansOwned == \A p \in plans : PlanOwned(p)

AccountInv == WorkersInv /\ OwnersInv /\ MakersInv /\ RacesInv /\ MemoryOwned /\ PlansOwned

LEMMA AccountInit == Init => AccountInv
<1> SUFFICES ASSUME Init PROVE AccountInv
  OBVIOUS
<1>1. WorkersInv
  BY InitHolds DEF BufferInv
<1>2. OwnersInv /\ MakersInv
  BY DEF Init, OwnersInv, MakersInv
<1>3. RacesInv /\ MemoryOwned /\ PlansOwned
  BY DEF Init, RacesInv, MemoryOwned, PlansOwned, Planning
<1> QED
  BY <1>1, <1>2, <1>3 DEF AccountInv

LEMMA InitializeKeeps == AccountInv /\ Initialize => OwnersInv' /\ MakersInv' /\ RacesInv' /\ MemoryOwned' /\ PlansOwned'
<1> SUFFICES ASSUME AccountInv, Initialize
    PROVE OwnersInv' /\ MakersInv' /\ RacesInv' /\ MemoryOwned' /\ PlansOwned'
  OBVIOUS
<1>0. OwnersInv /\ MakersInv /\ RacesInv /\ MemoryOwned /\ PlansOwned /\ WorkersInv
  BY DEF AccountInv
<1>1. /\ ~initialized /\ starts' = starts + 1 /\ DOMAIN cache' = {}
      /\ UNCHANGED <<plans, raced, lastJob, pc, job, shape>>
  BY DEF Initialize, worker
<1>2. PICK made \in 0 .. 14 :
        /\ initialized' = (made = 14)
        /\ memory' = memory \cup ({starts + 1} \X {Pieces[n] : n \in 1 .. made})
        /\ abandoned' = IF initialized' THEN abandoned ELSE abandoned \cup {starts + 1}
  <2>1. Breaks \cup {Len(Pieces)} \subseteq 0 .. 14 /\ Len(Pieces) = 14
    BY BoundsAssumption, PieceCount
  <2> QED
    BY <2>1 DEF Initialize
<1>3. \A w \in Workers : pc[w] = "idle"
  BY <1>0, <1>1 DEF OwnersInv
<1>4. OwnersInv'
  <2>1. memory' \subseteq (1 .. starts') \X PieceNames
    BY <1>0, <1>1, <1>2, PieceCount DEF OwnersInv
  <2> QED
    BY <1>0, <1>1, <1>3, <2>1 DEF OwnersInv
<1>5. MakersInv' /\ RacesInv'
  BY <1>0, <1>1, <1>3 DEF MakersInv, RacesInv, Planning
<1>6. MemoryOwned'
  BY <1>0, <1>1, <1>2 DEF MemoryOwned
<1>7. PlansOwned'
  BY <1>0, <1>1, <1>3 DEF PlansOwned, PlanOwned, ReleasePlans, OwnersInv, Planning
<1> QED
  BY <1>4, <1>5, <1>6, <1>7

LEMMA ShutdownKeeps == AccountInv /\ Shutdown => OwnersInv' /\ MakersInv' /\ RacesInv' /\ MemoryOwned' /\ PlansOwned'
<1> SUFFICES ASSUME AccountInv, Shutdown
    PROVE OwnersInv' /\ MakersInv' /\ RacesInv' /\ MemoryOwned' /\ PlansOwned'
  OBVIOUS
<1>0. OwnersInv /\ MakersInv /\ RacesInv /\ MemoryOwned /\ PlansOwned
  BY DEF AccountInv
<1>1. /\ \A w \in Workers : pc[w] = "idle"
      /\ initialized' = FALSE /\ DOMAIN cache' = {}
      /\ plans' = plans \ ReleasePlans
      /\ memory' = memory \ ({starts} \X PieceNames)
      /\ UNCHANGED <<starts, abandoned, raced, lastJob, pc, job, shape>>
  BY DEF Shutdown, worker, PieceNames
<1>2. OwnersInv'
  BY <1>0, <1>1 DEF OwnersInv
<1>3. MakersInv' /\ RacesInv'
  BY <1>0, <1>1 DEF MakersInv, RacesInv, Planning
<1>4. MemoryOwned'
  BY <1>0, <1>1 DEF MemoryOwned, OwnersInv
<1>5. PlansOwned'
  BY <1>0, <1>1 DEF PlansOwned, PlanOwned, Planning
<1> QED
  BY <1>2, <1>3, <1>4, <1>5

\* Outside AcquirePlan a step of a worker moves it past it, and changes no plan.
Later == {"upload", "transform", "invert", "choose", "cycle", "download", "done"}

LEMMA LaterKeeps ==
    ASSUME AccountInv, NEW w \in Workers, NEW from \in Later, NEW to \in Later, Goes(w, from, to),
           UNCHANGED <<device, caching, lastJob, job, shape>>
    PROVE  OwnersInv' /\ MakersInv' /\ RacesInv' /\ MemoryOwned' /\ PlansOwned'
<1>0. OwnersInv /\ MakersInv /\ RacesInv /\ MemoryOwned /\ PlansOwned /\ pc \in [Workers -> Accepted \cup {"idle", "done"}]
  BY DEF AccountInv, WorkersInv
<1>1. /\ \A v \in Workers \ {w} : pc'[v] = pc[v]
      /\ pc[w] = from /\ pc'[w] = to /\ pc[w] \notin Planning /\ pc'[w] \notin Planning
      /\ pc[w] # "idle" /\ pc'[w] # "idle" /\ pc'[w] \notin {"find", "forward", "inverse"}
  BY <1>0 DEF Goes, Later, Planning
<1>2. UNCHANGED <<initialized, starts, memory, abandoned, plans, cache, raced, lastJob, job, shape>>
  BY DEF device, caching
<1>3. OwnersInv'
  BY <1>0, <1>1, <1>2 DEF OwnersInv
<1>4. MakersInv'
  BY <1>0, <1>1, <1>2 DEF MakersInv
<1>5. RacesInv'
  BY <1>0, <1>1, <1>2 DEF RacesInv
<1>6. MemoryOwned'
  BY <1>0, <1>2 DEF MemoryOwned
<1>7. PlansOwned'
  <2>1. ReleasePlans' = ReleasePlans
    BY <1>2 DEF ReleasePlans
  <2> QED
    BY <1>0, <1>1, <1>2, <2>1 DEF PlansOwned, PlanOwned
<1> QED
  BY <1>3, <1>4, <1>5, <1>6, <1>7

LEMMA ProcessKeeps ==
    ASSUME AccountInv, NEW w \in Workers, Process(w)
    PROVE  OwnersInv' /\ MakersInv' /\ RacesInv' /\ MemoryOwned' /\ PlansOwned'
<1>0. OwnersInv /\ MakersInv /\ RacesInv /\ MemoryOwned /\ PlansOwned /\ WorkersInv
  BY DEF AccountInv
<1>1. /\ initialized /\ pc[w] = "idle" /\ pc'[w] \in {"find", "done"}
      /\ \A v \in Workers \ {w} : pc'[v] = pc[v] /\ shape'[v] = shape[v] /\ job'[v] = job[v]
      /\ lastJob' = lastJob + 1 /\ job' = [job EXCEPT ![w] = lastJob + 1] /\ job'[w] = lastJob + 1
      /\ UNCHANGED <<initialized, starts, memory, abandoned, plans, cache, raced>>
  BY <1>0 DEF Process, Goes, WorkersInv, MakersInv, device, caching
<1>2. pc[w] \notin Planning /\ pc'[w] \notin Planning
  BY <1>1 DEF Planning
<1>3. lastJob \in Nat /\ \A v \in Workers : job[v] \in 0 .. lastJob
  BY <1>0 DEF OwnersInv, MakersInv
<1>4. \A p \in plans : p[1] \in 0 .. lastJob
  BY <1>0 DEF OwnersInv
<1>5. OwnersInv'
  BY <1>0, <1>1 DEF OwnersInv
<1>6. MakersInv'
  <2>1. job' \in [Workers -> 0 .. lastJob']
    BY <1>0, <1>1, <1>3 DEF MakersInv
  <2>2. \A u, v \in Workers : u # v /\ pc'[u] # "idle" /\ pc'[v] # "idle" => job'[u] # job'[v]
    BY <1>0, <1>1, <1>3 DEF MakersInv
  <2>3. \A v \in Workers : pc'[v] \in {"find", "forward"} => \A p \in plans : p[1] # job'[v]
    BY <1>0, <1>1, <1>3, <1>4 DEF MakersInv
  <2>4. \A v \in Workers : pc'[v] = "inverse" => \A p \in plans : p[1] = job'[v] => p[2] = "forward"
    BY <1>0, <1>1 DEF MakersInv
  <2> QED
    BY <1>1, <2>1, <2>2, <2>3, <2>4 DEF MakersInv
<1>7. RacesInv'
  BY <1>0, <1>1, <1>2 DEF RacesInv
<1>8. MemoryOwned'
  BY <1>0, <1>1 DEF MemoryOwned
<1>9. PlansOwned'
  <2>1. ReleasePlans' = ReleasePlans
    BY <1>1 DEF ReleasePlans
  <2> QED
    BY <1>0, <1>1, <1>2, <2>1 DEF PlansOwned, PlanOwned
<1> QED
  BY <1>5, <1>6, <1>7, <1>8, <1>9

LEMMA ReturnKeeps ==
    ASSUME AccountInv, NEW w \in Workers, Return(w)
    PROVE  OwnersInv' /\ MakersInv' /\ RacesInv' /\ MemoryOwned' /\ PlansOwned'
<1>0. OwnersInv /\ MakersInv /\ RacesInv /\ MemoryOwned /\ PlansOwned /\ WorkersInv
  BY DEF AccountInv
<1>1. /\ pc[w] = "done" /\ pc'[w] = "idle"
      /\ \A v \in Workers \ {w} : pc'[v] = pc[v] /\ shape'[v] = shape[v] /\ job'[v] = job[v]
      /\ job' = [job EXCEPT ![w] = 0] /\ lastJob \in Nat
      /\ UNCHANGED <<initialized, starts, memory, abandoned, plans, cache, raced, lastJob>>
  BY <1>0 DEF Return, Goes, WorkersInv, MakersInv, OwnersInv, device, caching
<1>2. pc[w] \notin Planning /\ pc'[w] \notin Planning
  BY <1>1 DEF Planning
<1>3. OwnersInv'
  BY <1>0, <1>1 DEF OwnersInv
<1>4. MakersInv'
  BY <1>0, <1>1 DEF MakersInv
<1>5. RacesInv'
  BY <1>0, <1>1, <1>2 DEF RacesInv
<1>6. MemoryOwned'
  BY <1>0, <1>1 DEF MemoryOwned
<1>7. PlansOwned'
  <2>1. ReleasePlans' = ReleasePlans
    BY <1>1 DEF ReleasePlans
  <2> QED
    BY <1>0, <1>1, <1>2, <2>1 DEF PlansOwned, PlanOwned
<1> QED
  BY <1>3, <1>4, <1>5, <1>6, <1>7

LEMMA FindKeeps ==
    ASSUME AccountInv, NEW w \in Workers, Find(w)
    PROVE  OwnersInv' /\ MakersInv' /\ RacesInv' /\ MemoryOwned' /\ PlansOwned'
<1>0. OwnersInv /\ MakersInv /\ RacesInv /\ MemoryOwned /\ PlansOwned /\ WorkersInv
  BY DEF AccountInv
<1>1. /\ pc[w] = "find"
      /\ pc'[w] = IF shape[w].frames \in DOMAIN cache THEN "upload" ELSE "forward"
      /\ \A v \in Workers \ {w} : pc'[v] = pc[v]
      /\ UNCHANGED <<initialized, starts, memory, abandoned, plans, cache, lastJob, job, shape>>
  BY <1>0 DEF Find, Goes, WorkersInv, device
<1>2. /\ raced \subseteq raced'
      /\ pc'[w] = "forward" => \A v \in Workers \ {w} : pc[v] \in Planning => job[v] \in raced' /\ job[w] \in raced'
  BY <1>1 DEF Find
<1>3. pc[w] \notin Planning /\ "upload" \notin Planning
  BY <1>1 DEF Planning
<1>4. OwnersInv'
  BY <1>0, <1>1 DEF OwnersInv
<1>5. MakersInv'
  BY <1>0, <1>1 DEF MakersInv
<1>6. RacesInv'
  <2>1. ASSUME NEW u \in Workers, NEW v \in Workers, u # v, pc'[u] \in Planning, pc'[v] \in Planning
        PROVE  job[u] \in raced'
    BY <1>0, <1>1, <1>2, <1>3, <2>1 DEF RacesInv
  <2>2. ASSUME NEW v \in Workers, pc'[v] \in Planning, shape[v].frames \in DOMAIN cache
        PROVE  job[v] \in raced'
    BY <1>0, <1>1, <1>2, <1>3, <2>2 DEF RacesInv
  <2> QED
    BY <1>1, <2>1, <2>2 DEF RacesInv
<1>7. MemoryOwned'
  BY <1>0, <1>1 DEF MemoryOwned
<1>8. PlansOwned'
  <2>1. ReleasePlans' = ReleasePlans
    BY <1>1 DEF ReleasePlans
  <2> QED
    BY <1>0, <1>1, <1>2, <1>3, <2>1 DEF PlansOwned, PlanOwned
<1> QED
  BY <1>4, <1>5, <1>6, <1>7, <1>8

\* What does not depend on the plans, for the three steps that make one.
LEMMA PlanningKeeps ==
    ASSUME AccountInv, NEW w \in Workers, NEW from \in Planning, NEW to \in Planning \cup {"upload", "done"},
           Goes(w, from, to), UNCHANGED <<device, raced, lastJob, job, shape>>
    PROVE  /\ pc[w] = from /\ pc'[w] = to /\ \A v \in Workers \ {w} : pc'[v] = pc[v]
           /\ from # "idle" /\ to # "idle" /\ initialized /\ initialized' /\ job[w] \in 0 .. lastJob
           /\ MemoryOwned'
           /\ \A u, v \in Workers : u # v /\ pc'[u] \in Planning /\ pc'[v] \in Planning => job'[u] \in raced'
           /\ job' \in [Workers -> 0 .. lastJob']
           /\ \A u, v \in Workers : u # v /\ pc'[u] # "idle" /\ pc'[v] # "idle" => job'[u] # job'[v]
<1>0. OwnersInv /\ MakersInv /\ RacesInv /\ MemoryOwned /\ WorkersInv
  BY DEF AccountInv
<1>1. /\ pc[w] = from /\ pc'[w] = to /\ \A v \in Workers \ {w} : pc'[v] = pc[v]
      /\ from # "idle" /\ to # "idle"
  BY <1>0 DEF Goes, WorkersInv, Planning
<1>2. initialized /\ initialized' /\ job[w] \in 0 .. lastJob
  BY <1>0, <1>1 DEF OwnersInv, MakersInv, device
<1>3. MemoryOwned'
  BY <1>0 DEF MemoryOwned, device
<1>4. \A u, v \in Workers : u # v /\ pc'[u] \in Planning /\ pc'[v] \in Planning => job'[u] \in raced'
  BY <1>0, <1>1 DEF RacesInv
<1>5. \A u, v \in Workers : u # v /\ pc'[u] # "idle" /\ pc'[v] # "idle" => job'[u] # job'[v]
  BY <1>0, <1>1 DEF MakersInv
<1> QED
  BY <1>0, <1>1, <1>2, <1>3, <1>4, <1>5 DEF MakersInv

LEMMA PlanForwardKeeps ==
    ASSUME AccountInv, NEW w \in Workers, PlanForward(w)
    PROVE  OwnersInv' /\ MakersInv' /\ RacesInv' /\ MemoryOwned' /\ PlansOwned'
<1>0. OwnersInv /\ MakersInv /\ RacesInv /\ PlansOwned
  BY DEF AccountInv
<1>1. PICK to \in {"inverse", "done"} :
        /\ Goes(w, "forward", to)
        /\ plans' = IF to = "inverse" THEN plans \cup {<<job[w], "forward">>} ELSE plans
  BY DEF PlanForward
<1>2. UNCHANGED <<device, cache, raced, lastJob, job, shape>>
  BY DEF PlanForward
<1>3. /\ pc[w] = "forward" /\ pc'[w] = to /\ \A v \in Workers \ {w} : pc'[v] = pc[v]
      /\ initialized /\ initialized' /\ job[w] \in 0 .. lastJob
      /\ MemoryOwned'
      /\ \A u, v \in Workers : u # v /\ pc'[u] \in Planning /\ pc'[v] \in Planning => job'[u] \in raced'
      /\ job' \in [Workers -> 0 .. lastJob']
      /\ \A u, v \in Workers : u # v /\ pc'[u] # "idle" /\ pc'[v] # "idle" => job'[u] # job'[v]
  <2>1. "forward" \in Planning /\ to \in Planning \cup {"upload", "done"}
    BY DEF Planning
  <2> QED
    BY <1>1, <1>2, <2>1, PlanningKeeps
<1>4. OwnersInv'
  <2>1. plans' \subseteq (0 .. lastJob') \X PlanKinds
    BY <1>0, <1>1, <1>2, <1>3 DEF OwnersInv, PlanKinds
  <2> QED
    BY <1>0, <1>2, <1>3, <2>1 DEF OwnersInv, device
<1>5. MakersInv'
  <2>1. \A v \in Workers : pc'[v] \in {"find", "forward"} => \A p \in plans' : p[1] # job'[v]
    BY <1>0, <1>1, <1>2, <1>3 DEF MakersInv
  <2>2. \A v \in Workers : pc'[v] = "inverse" => \A p \in plans' : p[1] = job'[v] => p[2] = "forward"
    BY <1>0, <1>1, <1>2, <1>3 DEF MakersInv
  <2> QED
    BY <1>3, <2>1, <2>2 DEF MakersInv
<1>6. RacesInv'
  BY <1>0, <1>1, <1>2, <1>3 DEF RacesInv, Planning
<1>7. PlansOwned'
  <2>1. ReleasePlans' = ReleasePlans
    BY <1>2 DEF ReleasePlans
  <2>2. \A p \in plans : p[1] # job[w]
    BY <1>0, <1>3 DEF MakersInv
  <2>3. ASSUME NEW p \in plans PROVE PlanOwned(p)'
    BY <1>0, <1>2, <1>3, <2>1, <2>2 DEF PlansOwned, PlanOwned
  <2>4. ASSUME NEW p, p[1] = job[w], to = "inverse" PROVE PlanOwned(p)'
    BY <1>2, <1>3, <2>4 DEF PlanOwned, Planning
  <2>5. ASSUME NEW p \in plans' PROVE PlanOwned(p)'
    <3>1. CASE p \in plans
      BY <2>3, <3>1
    <3>2. CASE p \notin plans
      <4>1. to = "inverse" /\ p = <<job[w], "forward">>
        BY <1>1, <2>5, <3>2
      <4> QED
        BY <2>4, <4>1
    <3> QED
      BY <3>1, <3>2
  <2> QED
    BY <2>5 DEF PlansOwned
<1> QED
  BY <1>3, <1>4, <1>5, <1>6, <1>7

LEMMA PlanInverseKeeps ==
    ASSUME AccountInv, NEW w \in Workers, PlanInverse(w)
    PROVE  OwnersInv' /\ MakersInv' /\ RacesInv' /\ MemoryOwned' /\ PlansOwned'
<1>0. OwnersInv /\ MakersInv /\ RacesInv /\ PlansOwned
  BY DEF AccountInv
<1>1. PICK to \in {"emplace", "done"} :
        /\ Goes(w, "inverse", to)
        /\ plans' = IF to = "emplace" THEN plans \cup {<<job[w], "inverse">>}
                                      ELSE plans \ {<<job[w], "forward">>}
  BY DEF PlanInverse
<1>2. UNCHANGED <<device, cache, raced, lastJob, job, shape>>
  BY DEF PlanInverse
<1>3. /\ pc[w] = "inverse" /\ pc'[w] = to /\ \A v \in Workers \ {w} : pc'[v] = pc[v]
      /\ initialized /\ initialized' /\ job[w] \in 0 .. lastJob
      /\ MemoryOwned'
      /\ \A u, v \in Workers : u # v /\ pc'[u] \in Planning /\ pc'[v] \in Planning => job'[u] \in raced'
      /\ job' \in [Workers -> 0 .. lastJob']
      /\ \A u, v \in Workers : u # v /\ pc'[u] # "idle" /\ pc'[v] # "idle" => job'[u] # job'[v]
  <2>1. "inverse" \in Planning /\ to \in Planning \cup {"upload", "done"}
    BY DEF Planning
  <2> QED
    BY <1>1, <1>2, <2>1, PlanningKeeps
<1>4. OwnersInv'
  <2>1. plans' \subseteq (0 .. lastJob') \X PlanKinds
    BY <1>0, <1>1, <1>2, <1>3 DEF OwnersInv, PlanKinds
  <2> QED
    BY <1>0, <1>2, <1>3, <2>1 DEF OwnersInv, device
<1>5. MakersInv'
  <2>1. \A v \in Workers : pc'[v] \in {"find", "forward"} => \A p \in plans' : p[1] # job'[v]
    BY <1>0, <1>1, <1>2, <1>3 DEF MakersInv
  <2>2. \A v \in Workers : pc'[v] = "inverse" => \A p \in plans' : p[1] = job'[v] => p[2] = "forward"
    BY <1>0, <1>1, <1>2, <1>3 DEF MakersInv
  <2> QED
    BY <1>3, <2>1, <2>2 DEF MakersInv
<1>6. RacesInv'
  BY <1>0, <1>1, <1>2, <1>3 DEF RacesInv, Planning
<1>7. PlansOwned'
  <2>1. ReleasePlans' = ReleasePlans
    BY <1>2 DEF ReleasePlans
  <2>2. ASSUME NEW p \in plans, p # <<job[w], "forward">> PROVE p[1] # job[w]
    <3>1. PICK j \in 0 .. lastJob, k \in PlanKinds : p = <<j, k>>
      BY <1>0 DEF OwnersInv
    <3> QED
      BY <1>0, <1>3, <2>2, <3>1 DEF MakersInv
  <2>3. ASSUME NEW p \in plans, p # <<job[w], "forward">> PROVE PlanOwned(p)'
    BY <1>0, <1>2, <1>3, <2>1, <2>2, <2>3 DEF PlansOwned, PlanOwned
  <2>4. ASSUME NEW p, p[1] = job[w], to = "emplace" PROVE PlanOwned(p)'
    BY <1>2, <1>3, <2>4 DEF PlanOwned, Planning
  <2>5. ASSUME NEW p \in plans' PROVE PlanOwned(p)'
    <3>1. CASE p \in plans /\ p # <<job[w], "forward">>
      BY <2>3, <3>1
    <3>2. CASE p \notin plans \/ p = <<job[w], "forward">>
      <4>1. to = "emplace" /\ p \in {<<job[w], "forward">>, <<job[w], "inverse">>}
        BY <1>1, <2>5, <3>2
      <4> QED
        BY <2>4, <4>1
    <3> QED
      BY <3>1, <3>2
  <2> QED
    BY <2>5 DEF PlansOwned
<1> QED
  BY <1>3, <1>4, <1>5, <1>6, <1>7

LEMMA EmplaceKeeps ==
    ASSUME AccountInv, NEW w \in Workers, Emplace(w)
    PROVE  OwnersInv' /\ MakersInv' /\ RacesInv' /\ MemoryOwned' /\ PlansOwned'
<1> DEFINE b == shape[w].frames
<1>0. OwnersInv /\ MakersInv /\ RacesInv /\ PlansOwned
  BY DEF AccountInv
<1>1. Goes(w, "emplace", "upload") /\ UNCHANGED <<device, plans, raced, lastJob, job, shape>>
  BY DEF Emplace
<1>2. /\ pc[w] = "emplace" /\ pc'[w] = "upload" /\ \A v \in Workers \ {w} : pc'[v] = pc[v]
      /\ initialized /\ initialized' /\ job[w] \in 0 .. lastJob
      /\ MemoryOwned'
      /\ \A u, v \in Workers : u # v /\ pc'[u] \in Planning /\ pc'[v] \in Planning => job'[u] \in raced'
      /\ job' \in [Workers -> 0 .. lastJob']
      /\ \A u, v \in Workers : u # v /\ pc'[u] # "idle" /\ pc'[v] # "idle" => job'[u] # job'[v]
  <2>1. "emplace" \in Planning /\ "upload" \in Planning \cup {"upload", "done"}
    BY DEF Planning
  <2> QED
    BY <1>1, <2>1, PlanningKeeps
<1>3. /\ "emplace" \in Planning /\ "upload" \notin Planning
      /\ \A v \in Workers \ {w} : pc[v] \in Planning => job[v] \in raced /\ job[w] \in raced
      /\ b \in DOMAIN cache => job[w] \in raced
  BY <1>0, <1>2 DEF RacesInv, Planning
<1>4. \/ cache' = [x \in DOMAIN cache \cup {b} |-> IF x \in DOMAIN cache THEN cache[x] ELSE job[w]]
      \/ cache' = cache /\ job[w] \in raced
  BY <1>3 DEF Emplace
<1>5. OwnersInv'
  BY <1>0, <1>1, <1>2 DEF OwnersInv, device
<1>6. MakersInv'
  BY <1>0, <1>1, <1>2 DEF MakersInv
<1>7. RacesInv'
  <2>1. ASSUME NEW v \in Workers, pc'[v] \in Planning, shape[v].frames \in DOMAIN cache'
        PROVE  job[v] \in raced
    <3>1. v # w /\ pc[v] \in Planning
      BY <1>2, <1>3, <2>1
    <3> QED
      BY <1>3, <3>1
  <2> QED
    BY <1>1, <1>2, <2>1 DEF RacesInv
<1>8. PlansOwned'
  <2>1. ReleasePlans \subseteq ReleasePlans'
    BY <1>4 DEF ReleasePlans
  <2>2. ASSUME NEW p \in plans, p[1] = job[w] PROVE PlanOwned(p)'
    <3>1. CASE job[w] \in raced
      BY <1>1, <2>2, <3>1 DEF PlanOwned
    <3>2. CASE job[w] \notin raced
      <4>1. b \in DOMAIN cache' /\ cache'[b] = job[w]
        BY <1>3, <1>4, <3>2
      <4>2. PICK j \in 0 .. lastJob, k \in PlanKinds : p = <<j, k>>
        BY <1>0 DEF OwnersInv
      <4>3. p \in ReleasePlans'
        BY <2>2, <4>1, <4>2 DEF ReleasePlans, PlanKinds
      <4> QED
        BY <4>3 DEF PlanOwned
    <3> QED
      BY <3>1, <3>2
  <2>3. ASSUME NEW p \in plans, p[1] # job[w] PROVE PlanOwned(p)'
    BY <1>0, <1>1, <1>2, <2>1, <2>3 DEF PlansOwned, PlanOwned
  <2> QED
    BY <1>1, <2>2, <2>3 DEF PlansOwned, PlanOwned
<1> QED
  BY <1>2, <1>5, <1>6, <1>7, <1>8

LEMMA AccountStep == BufferInv /\ AccountInv /\ [Next]_vars => AccountInv'
<1> SUFFICES ASSUME BufferInv, AccountInv, [Next]_vars PROVE AccountInv'
  OBVIOUS
<1>0. WorkersInv'
  BY StepHolds DEF BufferInv
<1>1. CASE Initialize
  BY <1>0, <1>1, InitializeKeeps DEF AccountInv
<1>2. CASE Shutdown
  BY <1>0, <1>2, ShutdownKeeps DEF AccountInv
<1>3. ASSUME NEW w \in Workers, WorkerStep(w) PROVE AccountInv'
  <2>1. CASE Process(w)
    BY <1>0, <2>1, ProcessKeeps DEF AccountInv
  <2>2. CASE Find(w)
    BY <1>0, <2>2, FindKeeps DEF AccountInv
  <2>3. CASE PlanForward(w)
    BY <1>0, <2>3, PlanForwardKeeps DEF AccountInv
  <2>4. CASE PlanInverse(w)
    BY <1>0, <2>4, PlanInverseKeeps DEF AccountInv
  <2>5. CASE Emplace(w)
    BY <1>0, <2>5, EmplaceKeeps DEF AccountInv
  <2>6. CASE Upload(w) \/ Transform(w) \/ Invert(w) \/ Choose(w) \/ Cycle(w) \/ Download(w)
    <3>1. \E from, to \in Later : Goes(w, from, to)
      BY <2>6 DEF Upload, Transform, Invert, Choose, Cycle, Download, Stage, Later
    <3>2. UNCHANGED <<device, caching, lastJob, job, shape>>
      BY <2>6 DEF Upload, Transform, Invert, Choose, Cycle, Download
    <3> QED
      BY <1>0, <3>1, <3>2, LaterKeeps DEF AccountInv
  <2>7. CASE Return(w)
    BY <1>0, <2>7, ReturnKeeps DEF AccountInv
  <2> QED
    BY <1>3, <2>1, <2>2, <2>3, <2>4, <2>5, <2>6, <2>7 DEF WorkerStep
<1>4. CASE UNCHANGED vars
  <2>1. UNCHANGED <<initialized, starts, memory, abandoned, plans, cache, raced, lastJob, pc, job, shape>>
    BY <1>4 DEF vars, device, caching, worker
  <2>2. OwnersInv' /\ MakersInv' /\ RacesInv'
    BY <2>1 DEF AccountInv, OwnersInv, MakersInv, RacesInv
  <2>3. MemoryOwned' /\ PlansOwned'
    BY <2>1 DEF AccountInv, MemoryOwned, PlansOwned, PlanOwned, ReleasePlans
  <2> QED
    BY <1>0, <2>2, <2>3 DEF AccountInv
<1> QED
  BY <1>1, <1>2, <1>3, <1>4 DEF Next

\* In every interleaving of starts, failures and workers: what the device holds is
\* the running processor's to free, but for the two leaks.
THEOREM NothingElseLeaks == Spec => []DeviceIsAccounted
<1>1. AccountInv => DeviceIsAccounted
  BY DEF AccountInv, MemoryOwned, PlansOwned, PlanOwned, DeviceIsAccounted
<1> QED
  BY InitHolds, StepHolds, AccountInit, AccountStep, <1>1, PTL DEF Spec

-----------------------------------------------------------------------------
(* Cells by row and column *)

\* Cell k of row f, of rows of n cells.
LEMMA CellIs ==
    ASSUME NEW n \in Nat, NEW f \in Nat, NEW k \in Upto(n)
    PROVE  /\ f * n + k \in Nat
           /\ (f * n + k) \div n = f /\ (f * n + k) % n = k
<1>1. n > 0 /\ k \in 0 .. (n - 1) /\ f * n \in Nat
  BY TimesMonotonic DEF Upto
<1>2. f * n + k \in Nat
  BY <1>1
<1> DEFINE x == f * n + k
           q == x \div n
           r == x % n
<1>3. x = n * q + r /\ r \in 0 .. (n - 1) /\ q \in Int
  BY <1>1, <1>2
<1>4. x = f * n + k
  OBVIOUS
<1> HIDE DEF x, q, r
<1>5. ASSUME q > f PROVE FALSE
  <2> DEFINE d == q - f - 1
  <2>1. d \in Nat /\ q = f + 1 + d
    BY <1>3, <1>5
  <2> HIDE DEF d
  <2>2. n * q = f * n + n + n * d /\ n * d \in Nat
    BY <2>1
  <2> QED
    BY <1>1, <1>3, <1>4, <2>2
<1>6. ASSUME q < f PROVE FALSE
  <2> DEFINE d == f - q - 1
  <2>1. d \in Nat /\ f = q + 1 + d
    BY <1>3, <1>6
  <2> HIDE DEF d
  <2>2. f * n = n * q + n + n * d /\ n * d \in Nat
    BY <1>3, <2>1
  <2> QED
    BY <1>1, <1>3, <1>4, <2>2
<1>7. q = f
  BY <1>3, <1>5, <1>6
<1>8. r = k
  BY <1>1, <1>3, <1>4, <1>7
<1> QED
  BY <1>2, <1>7, <1>8 DEF q, r, x

LEMMA CellIn ==
    ASSUME NEW m \in Nat, NEW n \in Nat, NEW f \in Upto(m), NEW k \in Upto(n)
    PROVE  f * n + k \in Upto(m * n)
<1>1. f \in Nat /\ f + 1 <= m /\ k \in Nat /\ k < n
  BY DEF Upto
<1>2. (f + 1) * n <= m * n /\ m * n \in Nat /\ f * n \in Nat
  BY <1>1, TimesMonotonic
<1>3. (f + 1) * n = f * n + n
  BY <1>1
<1> QED
  BY <1>1, <1>2, <1>3 DEF Upto

\* Every cell is one of a row.
LEMMA CellOf ==
    ASSUME NEW m \in Nat, NEW n \in Nat, NEW x \in Upto(m * n)
    PROVE  /\ n > 0 /\ x \in Nat /\ x \div n \in Upto(m) /\ x % n \in Upto(n)
           /\ x = (x \div n) * n + (x % n)
<1>1. m * n \in Nat /\ x \in Nat /\ x < m * n
  BY TimesMonotonic DEF Upto
<1>2. n > 0
  BY <1>1
<1> DEFINE q == x \div n
           r == x % n
<1>3. x = n * q + r /\ r \in 0 .. (n - 1) /\ q \in Int /\ q >= 0
  BY <1>1, <1>2
<1> HIDE DEF q, r
<1>4. q < m
  <2> SUFFICES ASSUME q >= m PROVE FALSE
    BY <1>3
  <2>1. m * n <= q * n
    BY <1>3, TimesMonotonic
  <2> QED
    BY <1>1, <1>3, <2>1
<1>5. x = q * n + r
  BY <1>3
<1>6. q \in Upto(m) /\ r \in Upto(n)
  BY <1>3, <1>4 DEF Upto
<1>7. x \div n = q /\ x % n = r
  BY DEF q, r
<1>8. x = (x \div n) * n + (x % n)
  BY <1>5, <1>7, Zenon
<1>9. x \div n \in Upto(m) /\ x % n \in Upto(n)
  BY <1>6, <1>7, Zenon
<1> QED
  BY <1>1, <1>2, <1>8, <1>9

\* What a buffer holds after something is written to it.
LEMMA PutHolds ==
    ASSUME NEW buffer, NEW new, NEW offset \in Nat, NEW n \in Nat, DOMAIN new = Upto(n)
    PROVE  /\ \A k \in Upto(n) : Put(buffer, offset, new)[offset + k] = new[k]
           /\ \A i \in DOMAIN buffer : i \in Nat /\ i < offset => Put(buffer, offset, new)[i] = buffer[i]
<1>1. ASSUME NEW k \in Upto(n) PROVE Put(buffer, offset, new)[offset + k] = new[k]
  <2>1. (offset + k) - offset = k
    BY DEF Upto
  <2>2. offset + k \in {offset + l : l \in DOMAIN new}
    OBVIOUS
  <2> DEFINE i == offset + k
  <2>3. i \in DOMAIN buffer \cup {offset + l : l \in DOMAIN new} /\ i - offset \in DOMAIN new
    <3>1. i - offset = k
      BY <2>1
    <3>2. i \in {offset + l : l \in DOMAIN new}
      BY <2>2
    <3> HIDE DEF i
    <3> QED
      BY <3>1, <3>2
  <2> HIDE DEF i
  <2>4. Put(buffer, offset, new)[i] = new[i - offset]
    BY <2>3 DEF Put
  <2> QED
    BY <2>1, <2>4, Zenon DEF i
<1>2. ASSUME NEW i \in DOMAIN buffer, i \in Nat, i < offset PROVE Put(buffer, offset, new)[i] = buffer[i]
  <2>1. i - offset \notin Upto(n)
    BY <1>2 DEF Upto
  <2> QED
    BY <2>1 DEF Put
<1> QED
  BY <1>1, <1>2

-----------------------------------------------------------------------------
(* What the buffers hold of a job that is alone: frame f is at f windows in  *)
(* the samples and at f times the bins in a spectrum                        *)

\* A job the size of the window.
Full(s) == s \in Shapes /\ FitsTheBatch(s) /\ s.length = Window /\ Window > 1

Series(m, b, j, s, more) ==
    \A f \in Upto(s.frames), i \in Upto(Window) : m[b][f * Window + i] = {<<j, f>>} \cup more

\* Bin 0 is emptied.
Line(j, f, k) == IF k = 0 THEN {} ELSE {<<j, f>>}

Lines(m, b, j, s, more) ==
    \A f \in Upto(s.frames), k \in Upto(Bins(Window)) :
        m[b][f * Bins(Window) + k] = Line(j, f, k) \cup more

MaskIn(m, j) == \A k \in Upto(Bins(Window)) : m["preview_mask"][k] = {<<j, PreviewMask>>}

MasksIn(m, j, n) ==
    \A c \in Upto(n), k \in Upto(Bins(Window)) :
        m["cycle_masks"][c * Bins(Window) + k] = {<<j, Period(c)>>}

CyclesIn(m, j, s, n) ==
    \A c \in Upto(n), f \in Upto(s.frames), i \in Upto(Window) :
        m["time_cycles"][c * Samples(s) + (f * Window + i)] = {<<j, f>>, <<j, Period(c)>>}

\* After each stage.
Raised(m, j, s) == Series(m, "time_in", j, s, {}) /\ Series(m, "time_original", j, s, {}) /\ MaskIn(m, j)

Transformed(m, j, s) ==
    /\ Series(m, "time_original", j, s, {})
    /\ Lines(m, "freq_original", j, s, {}) /\ Lines(m, "freq_filtered", j, s, {<<j, PreviewMask>>})

Inverted(m, j, s) ==
    /\ Lines(m, "freq_original", j, s, {}) /\ Lines(m, "freq_filtered", j, s, {<<j, PreviewMask>>})
    /\ Series(m, "time_filtered", j, s, {<<j, PreviewMask>>})
    /\ Series(m, "time_noise", j, s, {<<j, PreviewMask>>})

Gained(m, j, s, n, c) ==
    /\ Lines(m, "freq_original", j, s, {})
    /\ Series(m, "time_filtered", j, s, {<<j, PreviewMask>>})
    /\ Series(m, "time_noise", j, s, {<<j, PreviewMask>>})
    /\ MasksIn(m, j, n) /\ CyclesIn(m, j, s, c)

LEMMA FullIs ==
    ASSUME NEW s, Full(s)
    PROVE  /\ s.frames \in Nat /\ s.frames > 0 /\ s.length = Window /\ Window \in Nat /\ Window > 1
           /\ Bins(Window) \in Nat /\ Bins(Window) > 1
           /\ Samples(s) = s.frames * Window /\ Samples(s) \in Nat
           /\ Spectrum(s) = s.frames * Bins(Window) /\ Spectrum(s) \in Nat
<1>1. s \in Shapes /\ FitsTheBatch(s) /\ s.length = Window /\ Window > 1
  BY DEF Full
<1>2. s.frames \in Nat /\ s.frames > 0 /\ Window \in Nat
  BY <1>1, FrameRoom, Constants DEF FitsTheBatch
<1>3. Bins(Window) \in Nat /\ Bins(Window) > 1
  BY <1>1, <1>2 DEF Bins
<1> QED
  BY <1>1, <1>2, <1>3, FrameRoom DEF Samples, Spectrum

\* The cells of a frame, in samples and in bins.
LEMMA FrameCells ==
    ASSUME NEW s, Full(s), NEW f \in Upto(s.frames)
    PROVE  /\ f \in Nat
           /\ \A i \in Upto(Window) :
                 /\ f * Window + i \in Nat /\ f * Window + i \in Upto(Samples(s))
                 /\ (f * Window + i) \div Window = f
           /\ \A k \in Upto(Bins(Window)) :
                 /\ f * Bins(Window) + k \in Nat /\ f * Bins(Window) + k \in Upto(Spectrum(s))
                 /\ (f * Bins(Window) + k) \div Bins(Window) = f
                 /\ (f * Bins(Window) + k) % Bins(Window) = k
<1>1. f \in Nat
  BY FullIs DEF Upto
<1> QED
  BY <1>1, FullIs, CellIs, CellIn

LEMMA FrameOfCell ==
    ASSUME NEW s, Full(s), NEW f \in Upto(s.frames), NEW i \in Upto(Window)
    PROVE  FrameOf(f * Window + i, s) = f
<1> DEFINE x == f * Window + i
<1>1. x \in Upto(Samples(s)) /\ x \in Nat /\ x \div Window = f
  BY FrameCells
<1> HIDE DEF x
<1>2. x % Samples(s) = x
  BY <1>1, FullIs DEF Upto
<1> QED
  BY <1>1, <1>2, FullIs DEF FrameOf, x

\* The copies to the device.
LEMMA UploadRaises ==
    ASSUME NEW j, NEW s, Full(s), Fit(mem)
    PROVE  Raised(Uploaded(j, s), j, s)
<1> DEFINE samples == [i \in Upto(Samples(s)) |-> {<<j, FrameOf(i, s)>>}]
           mask    == [k \in Upto(Bins(s.length)) |-> {<<j, PreviewMask>>}]
           m       == Uploaded(j, s)
<1>1. /\ m["time_in"] = Put(mem["time_in"], 0, samples)
      /\ m["time_original"] = Put(mem["time_original"], 0, samples)
      /\ m["preview_mask"] = Put(mem["preview_mask"], 0, mask)
  BY Names DEF Uploaded, Fit
<1>2. ASSUME NEW buffer, NEW f \in Upto(s.frames), NEW i \in Upto(Window)
      PROVE  Put(buffer, 0, samples)[f * Window + i] = {<<j, f>>}
  <2> DEFINE x == f * Window + i
  <2>1. x \in Upto(Samples(s)) /\ 0 + x = x /\ FrameOf(x, s) = f
    BY FrameCells, FrameOfCell
  <2>2. DOMAIN samples = Upto(Samples(s)) /\ samples[x] = {<<j, f>>}
    BY <2>1
  <2> HIDE DEF samples, x
  <2>3. Put(buffer, 0, samples)[0 + x] = samples[x]
    BY <2>1, <2>2, FullIs, PutHolds
  <2> QED
    BY <2>1, <2>2, <2>3 DEF x
<1>3. ASSUME NEW buffer, NEW k \in Upto(Bins(Window))
      PROVE  Put(buffer, 0, mask)[k] = {<<j, PreviewMask>>}
  <2>1. DOMAIN mask = Upto(Bins(Window)) /\ mask[k] = {<<j, PreviewMask>>} /\ 0 + k = k
    BY FullIs DEF Upto
  <2> HIDE DEF mask
  <2>2. Put(buffer, 0, mask)[0 + k] = mask[k]
    BY <2>1, FullIs, PutHolds
  <2> QED
    BY <2>1, <2>2
<1> HIDE DEF m, samples, mask
<1>4. Series(m, "time_in", j, s, {}) /\ Series(m, "time_original", j, s, {})
  BY <1>1, <1>2 DEF Series
<1>5. MaskIn(m, j)
  BY <1>1, <1>3 DEF MaskIn
<1> QED
  BY <1>4, <1>5 DEF Raised, m

\* The transforms, for the frames of one job.
LEMMA ForwardHolds ==
    ASSUME NEW j, NEW s, Full(s), NEW m, NEW b, Series(m, b, j, s, {}),
           NEW f \in Upto(s.frames), NEW k \in Upto(Bins(Window))
    PROVE  D2Z(m[b], s)[f * Bins(Window) + k] = {<<j, f>>}
<1> DEFINE x == f * Bins(Window) + k
<1>1. x \in Upto(s.frames * Bins(Window)) /\ x \div Bins(Window) = f
  BY FrameCells, FullIs
<1> HIDE DEF x
<1>2. D2Z(m[b], s)[x] = UNION {m[b][f * Window + i] : i \in Upto(Window)}
  BY <1>1 DEF D2Z
<1>3. \A i \in Upto(Window) : m[b][f * Window + i] = {<<j, f>>}
  BY DEF Series
<1>4. 0 \in Upto(Window)
  BY FullIs DEF Upto
<1>5. UNION {m[b][f * Window + i] : i \in Upto(Window)} = {<<j, f>>}
  BY <1>3, <1>4
<1> QED
  BY <1>2, <1>5 DEF x

LinesFrom(freq, offset, j, s, more) ==
    \A f \in Upto(s.frames), k \in Upto(Bins(Window)) :
        freq[offset + f * Bins(Window) + k] = Line(j, f, k) \cup more

LEMMA InverseHolds ==
    ASSUME NEW j, NEW s, Full(s), NEW freq, NEW offset, NEW more, LinesFrom(freq, offset, j, s, more),
           NEW f \in Upto(s.frames), NEW i \in Upto(Window)
    PROVE  Z2D(freq, offset, s)[f * Window + i] = {<<j, f>>} \cup more
<1> DEFINE x == f * Window + i
<1>1. x \in Upto(s.frames * Window) /\ x \div Window = f
  BY FrameCells, FullIs
<1> HIDE DEF x
<1>2. Z2D(freq, offset, s)[x] = UNION {freq[offset + f * Bins(Window) + k] : k \in Upto(Bins(Window))}
  BY <1>1 DEF Z2D
<1>3. 1 \in Upto(Bins(Window)) /\ Line(j, f, 1) = {<<j, f>>} /\ \A k : Line(j, f, k) \subseteq {<<j, f>>}
  BY FullIs DEF Upto, Line
<1>4. UNION {freq[offset + f * Bins(Window) + k] : k \in Upto(Bins(Window))} = {<<j, f>>} \cup more
  <2> DEFINE g(k) == freq[offset + f * Bins(Window) + k]
  <2>1. g(1) = {<<j, f>>} \cup more /\ \A k \in Upto(Bins(Window)) : g(k) \subseteq {<<j, f>>} \cup more
    BY <1>3 DEF LinesFrom
  <2> HIDE DEF g
  <2>2. UNION {g(k) : k \in Upto(Bins(Window))} = {<<j, f>>} \cup more
    BY <1>3, <2>1
  <2> QED
    BY <2>2 DEF g
<1> QED
  BY <1>2, <1>4 DEF x

\* The spectrum of a job, without its DC, and under its mask.
LEMMA TransformSplits ==
    ASSUME NEW j, NEW s, Full(s), Fit(mem), Raised(mem, j, s)
    PROVE  Transformed(Spectra(s), j, s)
<1> DEFINE lines  == D2Z(mem["time_in"], s)
           raised == Put(mem["freq_original"], 0, lines)
           base   == ZeroDc(raised, s)
           masked == Masked(base, mem["preview_mask"], 0, s)
           put    == Put(mem["freq_filtered"], 0, masked)
           m      == Spectra(s)
<1>1. /\ m["freq_original"] = base /\ m["freq_filtered"] = put
      /\ m["time_original"] = mem["time_original"]
  BY Names DEF Spectra, Fit
<1>2. Series(mem, "time_in", j, s, {}) /\ Series(mem, "time_original", j, s, {}) /\ MaskIn(mem, j)
  BY DEF Raised
<1>3. ASSUME NEW f \in Upto(s.frames), NEW k \in Upto(Bins(Window))
      PROVE  /\ base[f * Bins(Window) + k] = Line(j, f, k)
             /\ put[f * Bins(Window) + k] = Line(j, f, k) \cup {<<j, PreviewMask>>}
  <2> DEFINE x == f * Bins(Window) + k
  <2>1. /\ x \in Nat /\ x \in Upto(Spectrum(s)) /\ x \in Upto(s.frames * Bins(Window))
        /\ x % Bins(Window) = k /\ 0 + x = x /\ k \in Nat /\ 0 + k = k
    BY FrameCells, FullIs DEF Upto
  <2>2. lines[x] = {<<j, f>>} /\ DOMAIN lines = Upto(s.frames * Bins(Window))
    <3>1. lines[x] = {<<j, f>>}
      BY <1>2, ForwardHolds
    <3>2. DOMAIN lines = Upto(s.frames * Bins(Window))
      BY DEF D2Z
    <3> QED
      BY <3>1, <3>2
  <2> HIDE DEF lines, x
  <2>3. raised[x] = {<<j, f>>} /\ x \in DOMAIN raised
    <3>1. raised[0 + x] = lines[x]
      BY <2>1, <2>2, FullIs, PutHolds
    <3>2. 0 + x \in DOMAIN raised
      BY <2>1, <2>2 DEF Put
    <3> QED
      BY <2>1, <2>2, <3>1, <3>2
  <2> HIDE DEF raised
  <2>4. base[x] = Line(j, f, k)
    <3>1. x < Spectrum(s)
      BY <2>1, FullIs DEF Upto
    <3> QED
      BY <2>1, <2>3, <3>1, FullIs DEF ZeroDc, Line
  <2> HIDE DEF base
  <2>5. masked[x] = Line(j, f, k) \cup {<<j, PreviewMask>>} /\ DOMAIN masked = Upto(Spectrum(s))
    <3>1. masked[x] = base[x] \cup mem["preview_mask"][0 + (x % Bins(s.length))]
      BY <2>1 DEF Masked
    <3>2. mem["preview_mask"][0 + (x % Bins(s.length))] = {<<j, PreviewMask>>}
      BY <1>2, <2>1, FullIs DEF MaskIn
    <3>3. DOMAIN masked = Upto(Spectrum(s))
      BY DEF Masked
    <3> QED
      BY <2>4, <3>1, <3>2, <3>3
  <2> HIDE DEF masked
  <2>6. put[0 + x] = masked[x]
    BY <2>1, <2>5, FullIs, PutHolds
  <2> QED
    BY <2>1, <2>4, <2>5, <2>6 DEF x
<1> HIDE DEF base, put, m
<1>4. Lines(m, "freq_original", j, s, {}) /\ Lines(m, "freq_filtered", j, s, {<<j, PreviewMask>>})
  BY <1>1, <1>3 DEF Lines
<1>5. Series(m, "time_original", j, s, {})
  BY <1>1, <1>2 DEF Series
<1> QED
  BY <1>4, <1>5 DEF Transformed, m

\* Back in time, frame by frame, and what is left as noise.
LEMMA InvertFilters ==
    ASSUME NEW j, NEW s, Full(s), Fit(mem), Transformed(mem, j, s)
    PROVE  Inverted(Filtered(s), j, s)
<1> DEFINE more  == {<<j, PreviewMask>>}
           back  == Z2D(mem["freq_filtered"], 0, s)
           time  == Put(mem["time_filtered"], 0, back)
           left  == [i \in Upto(Samples(s)) |-> mem["time_original"][i] \cup time[i]]
           noise == Put(mem["time_noise"], 0, left)
           m     == Filtered(s)
<1>1. /\ m["time_filtered"] = time /\ m["time_noise"] = noise
      /\ m["freq_original"] = mem["freq_original"] /\ m["freq_filtered"] = mem["freq_filtered"]
  BY Names DEF Filtered, Fit
<1>2. /\ Series(mem, "time_original", j, s, {}) /\ Lines(mem, "freq_original", j, s, {})
      /\ Lines(mem, "freq_filtered", j, s, more)
  BY DEF Transformed
<1> HIDE DEF more
<1>3. ASSUME NEW f \in Upto(s.frames), NEW i \in Upto(Window)
      PROVE  /\ time[f * Window + i] = {<<j, f>>} \cup more
             /\ noise[f * Window + i] = {<<j, f>>} \cup more
  <2> DEFINE x == f * Window + i
  <2>1. /\ x \in Nat /\ x \in Upto(Samples(s)) /\ x \in Upto(s.frames * Window) /\ 0 + x = x
    BY FrameCells, FullIs
  <2>2. back[x] = {<<j, f>>} \cup more /\ DOMAIN back = Upto(s.frames * Window)
    <3>1. \A g \in Upto(s.frames), k \in Upto(Bins(Window)) :
             mem["freq_filtered"][0 + g * Bins(Window) + k] = Line(j, g, k) \cup more
      <4> SUFFICES ASSUME NEW g \in Upto(s.frames), NEW k \in Upto(Bins(Window))
                   PROVE  mem["freq_filtered"][0 + g * Bins(Window) + k] = Line(j, g, k) \cup more
        OBVIOUS
      <4>1. 0 + g * Bins(Window) = g * Bins(Window)
        <5>1. g * Bins(Window) \in Nat
          BY FrameCells, FullIs, TimesMonotonic
        <5> QED
          BY <5>1
      <4> QED
        BY <1>2, <4>1 DEF Lines
    <3>2. back[x] = {<<j, f>>} \cup more
      <4>1. LinesFrom(mem["freq_filtered"], 0, j, s, more)
        BY <3>1 DEF LinesFrom
      <4> QED
        BY <4>1, InverseHolds
    <3>3. DOMAIN back = Upto(s.frames * Window)
      BY DEF Z2D
    <3> QED
      BY <3>2, <3>3
  <2>3. mem["time_original"][x] = {<<j, f>>}
    BY <1>2 DEF Series
  <2> HIDE DEF back, x
  <2>4. time[0 + x] = back[x]
    BY <2>1, <2>2, FullIs, PutHolds
  <2>5. time[x] = {<<j, f>>} \cup more
    BY <2>1, <2>2, <2>4
  <2> HIDE DEF time
  <2>6. left[x] = {<<j, f>>} \cup more /\ DOMAIN left = Upto(Samples(s))
    BY <2>1, <2>3, <2>5
  <2> HIDE DEF left
  <2>7. noise[0 + x] = left[x]
    BY <2>1, <2>6, FullIs, PutHolds
  <2> QED
    BY <2>1, <2>5, <2>6, <2>7 DEF x
<1> HIDE DEF time, noise, m
<1>4. Series(m, "time_filtered", j, s, more) /\ Series(m, "time_noise", j, s, more)
  BY <1>1, <1>3 DEF Series
<1>5. Lines(m, "freq_original", j, s, {}) /\ Lines(m, "freq_filtered", j, s, more)
  BY <1>1, <1>2 DEF Lines
<1> QED
  BY <1>4, <1>5 DEF Inverted, m, more

\* The periods come from this job alone, and the mask of each cycle from its.
LEMMA OriginsAre ==
    ASSUME NEW j, NEW s, Full(s), Lines(mem, "freq_filtered", j, s, {<<j, PreviewMask>>})
    PROVE  Origins(j, s) = {j}
<1> DEFINE F == mem["freq_filtered"]
<1>1. ASSUME NEW x \in Upto(Spectrum(s))
      PROVE  /\ <<j, PreviewMask>> \in F[x] /\ \A t \in F[x] : t[1] = j
  <2>1. PICK f \in Upto(s.frames), k \in Upto(Bins(Window)) : x = f * Bins(Window) + k
    <3>1. x \in Upto(s.frames * Bins(Window)) /\ s.frames \in Nat /\ Bins(Window) \in Nat
      BY FullIs
    <3>2. x \div Bins(Window) \in Upto(s.frames) /\ x % Bins(Window) \in Upto(Bins(Window))
          /\ x = (x \div Bins(Window)) * Bins(Window) + (x % Bins(Window))
      BY <3>1, CellOf
    <3> QED
      BY <3>2
  <2>2. F[x] = Line(j, f, k) \cup {<<j, PreviewMask>>}
    BY <2>1 DEF Lines
  <2> QED
    BY <2>2 DEF Line
<1>2. 0 \in Upto(Spectrum(s))
  <2>1. 0 \in Upto(s.frames) /\ 0 \in Upto(Bins(Window))
    BY FullIs DEF Upto
  <2>2. 0 * Bins(Window) + 0 \in Upto(Spectrum(s))
    BY <2>1, FrameCells
  <2>3. 0 * Bins(Window) + 0 = 0
    BY FullIs
  <2> QED
    BY <2>2, <2>3
<1> DEFINE T == UNION {F[k] : k \in Upto(Spectrum(s))}
<1> HIDE DEF F
<1>3. <<j, PreviewMask>> \in T /\ \A t \in T : t[1] = j
  BY <1>1, <1>2
<1> HIDE DEF T
<1>4. {t[1] : t \in T} = {j}
  <2>1. <<j, PreviewMask>>[1] = j
    OBVIOUS
  <2>2. j \in {t[1] : t \in T}
    BY <1>3, <2>1
  <2> QED
    BY <1>3, <2>2
<1> QED
  BY <1>4 DEF Origins, T, F

LEMMA ChooseGains ==
    ASSUME NEW j, NEW s, Full(s), Fit(mem), Inverted(mem, j, s), NEW n \in Nat
    PROVE  Gained(Gains(j, s, n), j, s, n, 0)
<1> DEFINE given == [c \in Upto(n) |-> {<<i, Period(c)>> : i \in Origins(j, s)}]
           gains == [k \in Upto(n * Bins(s.length)) |-> given[k \div Bins(s.length)]]
           masks == Put(mem["cycle_masks"], 0, gains)
           m     == Gains(j, s, n)
<1>1. /\ m["cycle_masks"] = masks /\ m["freq_original"] = mem["freq_original"]
      /\ m["time_filtered"] = mem["time_filtered"] /\ m["time_noise"] = mem["time_noise"]
  BY Names DEF Gains, Fit
<1>2. Origins(j, s) = {j}
  BY OriginsAre DEF Inverted
<1>3. ASSUME NEW c \in Upto(n), NEW k \in Upto(Bins(Window))
      PROVE  masks[c * Bins(Window) + k] = {<<j, Period(c)>>}
  <2> DEFINE x == c * Bins(Window) + k
  <2>1. c \in Nat
    BY DEF Upto
  <2>2. x \in Nat /\ x \in Upto(n * Bins(Window)) /\ x \div Bins(Window) = c /\ 0 + x = x
    <3>1. x \in Nat /\ x \div Bins(Window) = c
      BY <2>1, FullIs, CellIs
    <3>2. x \in Upto(n * Bins(Window))
      BY FullIs, CellIn
    <3> HIDE DEF x
    <3> QED
      BY <3>1, <3>2
  <2>3. given[c] = {<<j, Period(c)>>}
    BY <1>2
  <2> HIDE DEF given, x
  <2>4. DOMAIN gains = Upto(n * Bins(Window)) /\ gains[x] = {<<j, Period(c)>>}
    BY <2>2, <2>3, FullIs
  <2>5. n * Bins(Window) \in Nat
    BY FullIs, TimesMonotonic
  <2> HIDE DEF gains
  <2>6. masks[0 + x] = gains[x]
    BY <2>2, <2>4, <2>5, PutHolds
  <2> QED
    BY <2>2, <2>4, <2>6 DEF x
<1> HIDE DEF masks, m
<1>4. MasksIn(m, j, n)
  BY <1>1, <1>3 DEF MasksIn
<1>5. /\ Lines(m, "freq_original", j, s, {}) /\ Series(m, "time_filtered", j, s, {<<j, PreviewMask>>})
      /\ Series(m, "time_noise", j, s, {<<j, PreviewMask>>})
  BY <1>1 DEF Inverted, Lines, Series
<1>6. CyclesIn(m, j, s, 0)
  BY DEF CyclesIn, Upto
<1> QED
  BY <1>4, <1>5, <1>6 DEF Gained, m

LEMMA CycleGains ==
    ASSUME NEW j, NEW s, Full(s), Fit(mem), NEW n \in 0 .. MaxCycles, NEW c \in Upto(n), Gained(mem, j, s, n, c)
    PROVE  Gained(CycleBuilt(s, c), j, s, n, c + 1)
<1> DEFINE more   == {<<j, Period(c)>>}
           gained == Masked(mem["freq_original"], mem["cycle_masks"], c * Bins(s.length), s)
           freq   == Put(mem["freq_cycles"], CycleFreq(s, c), gained)
           back   == Z2D(freq, CycleFreq(s, c), s)
           time   == Put(mem["time_cycles"], CycleTime(s, c), back)
           m      == CycleBuilt(s, c)
<1>1. /\ m["time_cycles"] = time /\ m["cycle_masks"] = mem["cycle_masks"]
      /\ m["freq_original"] = mem["freq_original"]
      /\ m["time_filtered"] = mem["time_filtered"] /\ m["time_noise"] = mem["time_noise"]
  BY Names DEF CycleBuilt, Fit
<1>2. /\ Lines(mem, "freq_original", j, s, {}) /\ MasksIn(mem, j, n) /\ CyclesIn(mem, j, s, c)
  BY DEF Gained
<1>3. c \in Nat /\ c < MaxCycles /\ CycleFreq(s, c) \in Nat /\ CycleTime(s, c) \in Nat
  <2>1. c \in Nat /\ c < MaxCycles
    BY Constants DEF Upto
  <2> QED
    BY <2>1, FullIs, TimesMonotonic DEF CycleFreq, CycleTime
<1>4. LinesFrom(freq, CycleFreq(s, c), j, s, more)
  <2> SUFFICES ASSUME NEW f \in Upto(s.frames), NEW k \in Upto(Bins(Window))
               PROVE  freq[CycleFreq(s, c) + f * Bins(Window) + k] = Line(j, f, k) \cup more
    BY DEF LinesFrom
  <2> DEFINE x == f * Bins(Window) + k
  <2>1. x \in Nat /\ x \in Upto(Spectrum(s)) /\ x % Bins(Window) = k
    BY FrameCells
  <2>2. CycleFreq(s, c) + f * Bins(Window) + k = CycleFreq(s, c) + x
    <3>1. f * Bins(Window) \in Nat /\ k \in Nat
      BY FrameCells, FullIs, TimesMonotonic DEF Upto
    <3> QED
      BY <1>3, <3>1
  <2>3. mem["freq_original"][x] = Line(j, f, k)
    BY <1>2 DEF Lines
  <2> HIDE DEF x
  <2>4. mem["cycle_masks"][c * Bins(Window) + k] = more
    BY <1>2 DEF MasksIn
  <2>5. gained[x] = Line(j, f, k) \cup more
    <3>1. gained[x] = mem["freq_original"][x] \cup mem["cycle_masks"][c * Bins(s.length) + (x % Bins(s.length))]
      BY <2>1 DEF Masked
    <3> QED
      BY <2>1, <2>3, <2>4, <3>1, FullIs
  <2>6. DOMAIN gained = Upto(Spectrum(s))
    BY DEF Masked
  <2> HIDE DEF gained
  <2>7. freq[CycleFreq(s, c) + x] = gained[x]
    BY <1>3, <2>1, <2>6, FullIs, PutHolds
  <2> QED
    BY <2>2, <2>5, <2>7
<1> HIDE DEF freq, more
<1>5. DOMAIN back = Upto(Samples(s))
  BY FullIs DEF Z2D
<1>6. ASSUME NEW f \in Upto(s.frames), NEW i \in Upto(Window)
      PROVE  time[c * Samples(s) + (f * Window + i)] = {<<j, f>>} \cup more
  <2> DEFINE x == f * Window + i
  <2>1. x \in Upto(Samples(s)) /\ back[x] = {<<j, f>>} \cup more
    BY <1>4, FrameCells, InverseHolds
  <2> HIDE DEF x, back
  <2>2. DOMAIN back = Upto(Samples(s)) /\ Samples(s) \in Nat /\ CycleTime(s, c) \in Nat /\ x \in Upto(Samples(s))
    BY <1>3, <1>5, <2>1, FullIs
  <2>3. time[CycleTime(s, c) + x] = back[x]
    BY <2>2, PutHolds
  <2> QED
    BY <2>1, <2>3 DEF x, CycleTime
<1> HIDE DEF back
<1>7. ASSUME NEW d \in Upto(c), NEW f \in Upto(s.frames), NEW i \in Upto(Window)
      PROVE  time[d * Samples(s) + (f * Window + i)] = mem["time_cycles"][d * Samples(s) + (f * Window + i)]
  <2> DEFINE x == f * Window + i
             y == d * Samples(s) + x
  <2>1. x \in Upto(Samples(s)) /\ x \in Nat
    BY FrameCells
  <2>2. y \in Upto(c * Samples(s)) /\ y \in Nat /\ y < CycleTime(s, c)
    <3> HIDE DEF x
    <3>1. y \in Upto(c * Samples(s))
      BY <1>3, <2>1, FullIs, CellIn
    <3>2. c * Samples(s) \in Nat
      BY <1>3, FullIs, TimesMonotonic
    <3> HIDE DEF y
    <3> QED
      BY <3>1, <3>2 DEF Upto, CycleTime
  <2>3. y \in DOMAIN mem["time_cycles"]
    <3>1. DOMAIN mem["time_cycles"] = Upto(TimeCapacity * MaxCycles)
      BY Names, Capacities DEF Fit
    <3>2. Samples(s) <= TimeCapacity
      BY FullIs, FrameRoom, Constants DEF Full
    <3>3. c * Samples(s) \in Nat /\ TimeCapacity * MaxCycles \in Nat /\ c * Samples(s) + 0 <= TimeCapacity * MaxCycles
      BY <1>3, <3>2, FullIs, Constants, Rows
    <3> HIDE DEF y
    <3> QED
      BY <2>2, <3>1, <3>3 DEF Upto
  <2> HIDE DEF x, y
  <2>4. time[y] = mem["time_cycles"][y]
    BY <1>3, <1>5, <2>2, <2>3, FullIs, PutHolds
  <2> QED
    BY <2>4 DEF x, y
<1> HIDE DEF time, m
<1>8. CyclesIn(m, j, s, c + 1)
  <2> SUFFICES ASSUME NEW d \in Upto(c + 1), NEW f \in Upto(s.frames), NEW i \in Upto(Window)
               PROVE  m["time_cycles"][d * Samples(s) + (f * Window + i)] = {<<j, f>>, <<j, Period(d)>>}
    BY DEF CyclesIn
  <2>1. CASE d = c
    <3>1. {<<j, f>>, <<j, Period(d)>>} = {<<j, f>>} \cup more
      BY <2>1 DEF more
    <3> QED
      BY <1>1, <1>6, <2>1, <3>1
  <2>2. CASE d # c
    <3>1. d \in Upto(c)
      BY <1>3, <2>2 DEF Upto
    <3> QED
      BY <1>1, <1>2, <1>7, <3>1 DEF CyclesIn
  <2> QED
    BY <2>1, <2>2
<1>9. /\ Lines(m, "freq_original", j, s, {}) /\ MasksIn(m, j, n)
      /\ Series(m, "time_filtered", j, s, {<<j, PreviewMask>>})
      /\ Series(m, "time_noise", j, s, {<<j, PreviewMask>>})
  BY <1>1 DEF Gained, Lines, Series, MasksIn
<1> QED
  BY <1>8, <1>9 DEF Gained, m

-----------------------------------------------------------------------------
(* Who is alone, and what it has so far *)

AloneInv ==
    /\ alone \in [Workers -> BOOLEAN] /\ DOMAIN out = Workers /\ DOMAIN job = Workers
    /\ \A w \in Workers : out[w].ok => pc[w] = "done"
    /\ \A w, v \in Workers : w # v /\ alone[w] /\ pc[w] # "idle" => pc[v] = "idle"

\* What the buffers hold at the point where w is.
HasSoFar(w) ==
    LET j == job[w]
        s == shape[w]
    IN /\ pc[w] = "transform" => Raised(mem, j, s)
       /\ pc[w] = "invert" => Transformed(mem, j, s)
       /\ pc[w] = "choose" => Inverted(mem, j, s)
       /\ pc[w] = "cycle" => Gained(mem, j, s, cycles[w], cycle[w])
       /\ pc[w] = "download" => Gained(mem, j, s, cycles[w], cycles[w])

Within(w) == alone[w] /\ shape[w].length = Window /\ Window > 1

SoundOut(w) ==
    LET j == job[w]
        s == shape[w]
        Own(i) == <<j, FrameOf(i, s)>>
    IN /\ \A i \in DOMAIN out[w].wave :
             Own(i) \in out[w].wave[i] /\ out[w].wave[i] \subseteq {Own(i), <<j, PreviewMask>>}
       /\ \A i \in DOMAIN out[w].noise :
             Own(i) \in out[w].noise[i] /\ out[w].noise[i] \subseteq {Own(i), <<j, PreviewMask>>}
       /\ \A i \in DOMAIN out[w].cycles :
             Own(i) \in out[w].cycles[i]
             /\ out[w].cycles[i] \subseteq {Own(i), <<j, Period(i \div Samples(s))>>}

FramesInv ==
    AloneInv /\ \A w \in Workers : Within(w) => HasSoFar(w) /\ (out[w].ok => SoundOut(w))

LEMMA SoundApart == FramesInv => FramesStayApart
  BY DEF FramesInv, Within, SoundOut, FramesStayApart

\* What is downloaded is sound.
LEMMA DownloadSound ==
    ASSUME NEW w \in Workers, BufferInv, FramesInv, Download(w), Within(w), out'[w].ok
    PROVE  SoundOut(w)'
<1> DEFINE j == job[w]
           s == shape[w]
           n == cycles[w]
           more == {<<j, PreviewMask>>}
<1>1. /\ pc[w] = "download" /\ ~ out[w].ok /\ DOMAIN out = Workers /\ UNCHANGED <<job, shape>>
  BY DEF Download, Goes, FramesInv, AloneInv
<1>2. Full(s) /\ n \in 0 .. MaxCycles
  BY <1>1 DEF Full, Within, BufferInv, WorkersInv, Accepted
<1>3. Gained(mem, j, s, n, n)
  BY <1>1 DEF FramesInv, HasSoFar
<1>4. /\ out'[w].wave = [i \in Upto(Samples(s)) |-> mem["time_filtered"][i]]
      /\ out'[w].noise = [i \in Upto(Samples(s)) |-> mem["time_noise"][i]]
      /\ out'[w].cycles = [i \in Upto(n * Samples(s)) |-> mem["time_cycles"][i]]
  BY <1>1 DEF Download
<1> HIDE DEF j, s, n
<1>5. ASSUME NEW x \in Upto(Samples(s)), NEW b, Series(mem, b, j, s, more)
      PROVE  mem[b][x] = {<<j, FrameOf(x, s)>>, <<j, PreviewMask>>}
  <2> DEFINE f == x \div Window
             i == x % Window
  <2>1. f \in Upto(s.frames) /\ i \in Upto(Window) /\ x = f * Window + i
    <3>1. x \in Upto(s.frames * Window) /\ s.frames \in Nat /\ Window \in Nat
      BY <1>2, FullIs
    <3> QED
      BY <3>1, CellOf
  <2> HIDE DEF f, i
  <2>2. FrameOf(x, s) = f
    BY <1>2, <2>1, FrameOfCell
  <2> QED
    BY <1>5, <2>1, <2>2 DEF Series
<1>6. ASSUME NEW x \in Upto(n * Samples(s))
      PROVE  mem["time_cycles"][x] = {<<j, FrameOf(x, s)>>, <<j, Period(x \div Samples(s))>>}
  <2> DEFINE c == x \div Samples(s)
             y == x % Samples(s)
             f == y \div Window
             i == y % Window
  <2>1. c \in Upto(n) /\ y \in Upto(Samples(s)) /\ x = c * Samples(s) + y
    BY <1>2, FullIs, CellOf
  <2>2. f \in Upto(s.frames) /\ i \in Upto(Window) /\ y = f * Window + i
    <3> HIDE DEF y
    <3>1. y \in Upto(s.frames * Window) /\ s.frames \in Nat /\ Window \in Nat
      BY <1>2, <2>1, FullIs
    <3> QED
      BY <3>1, CellOf
  <2>3. FrameOf(x, s) = f
    BY <1>2, FullIs DEF FrameOf
  <2>4. CyclesIn(mem, j, s, n)
    BY <1>3 DEF Gained
  <2> HIDE DEF f, i, y, c
  <2>5. mem["time_cycles"][c * Samples(s) + (f * Window + i)] = {<<j, f>>, <<j, Period(c)>>}
    BY <2>1, <2>2, <2>4 DEF CyclesIn
  <2> QED
    BY <2>1, <2>2, <2>3, <2>5 DEF c
<1>7. Series(mem, "time_filtered", j, s, more) /\ Series(mem, "time_noise", j, s, more)
  BY <1>3 DEF Gained
<1> QED
  BY <1>1, <1>4, <1>5, <1>6, <1>7 DEF SoundOut, FrameOf, Samples, j, s

\* The steps of Process that are no beginning and no end.
Steady(v) ==
    \/ Find(v) \/ PlanForward(v) \/ PlanInverse(v) \/ Emplace(v)
    \/ Upload(v) \/ Transform(v) \/ Invert(v) \/ Choose(v) \/ Cycle(v) \/ Download(v)

LEMMA SteadyIs ==
    ASSUME WorkersInv, AloneInv, NEW v \in Workers, Steady(v)
    PROVE  /\ alone' = alone /\ job' = job /\ shape' = shape
           /\ pc[v] # "idle" /\ pc'[v] # "idle" /\ \A u \in Workers \ {v} : pc'[u] = pc[u]
           /\ DOMAIN out' = Workers /\ \A u \in Workers \ {v} : out'[u] = out[u]
           /\ out'[v].ok => pc'[v] = "done"
  BY DEF Steady, Find, PlanForward, PlanInverse, Emplace, Upload, Transform, Invert, Choose, Cycle,
         Download, Stage, Goes, WorkersInv, AloneInv, Accepted

LEMMA AloneStep ==
    ASSUME WorkersInv, AloneInv, NEW v \in Workers, WorkerStep(v)
    PROVE  /\ AloneInv'
           /\ \A w \in Workers \ {v} : Within(w)' => pc'[w] = "idle" /\ ~ out'[w].ok
<1>0. /\ alone \in [Workers -> BOOLEAN] /\ DOMAIN out = Workers /\ DOMAIN job = Workers
      /\ \A w \in Workers : out[w].ok => pc[w] = "done"
      /\ \A w, u \in Workers : w # u /\ alone[w] /\ pc[w] # "idle" => pc[u] = "idle"
      /\ DOMAIN pc = Workers
  BY DEF AloneInv, WorkersInv
<1>1. CASE Process(v)
  <2>1. /\ pc[v] = "idle" /\ pc'[v] # "idle" /\ \A u \in Workers \ {v} : pc'[u] = pc[u]
        /\ out' = out /\ DOMAIN job' = Workers /\ alone' \in [Workers -> BOOLEAN]
        /\ alone'[v] => \A u \in Workers \ {v} : pc[u] = "idle"
        /\ \A u \in Workers \ {v} : alone'[u] => pc[u] = "idle"
    BY <1>0, <1>1 DEF Process, Goes
  <2>2. AloneInv'
    BY <1>0, <2>1 DEF AloneInv
  <2> QED
    BY <1>0, <2>1, <2>2 DEF Within
<1>2. CASE Steady(v)
  <2>1. AloneInv'
    BY <1>0, <1>2, SteadyIs DEF AloneInv
  <2> QED
    BY <1>0, <1>2, <2>1, SteadyIs DEF Within
<1>3. CASE Return(v)
  <2>1. /\ pc[v] # "idle" /\ pc'[v] = "idle" /\ \A u \in Workers \ {v} : pc'[u] = pc[u]
        /\ DOMAIN out' = Workers /\ \A u \in Workers \ {v} : out'[u] = out[u]
        /\ ~ out'[v].ok /\ DOMAIN job' = Workers /\ alone' \in [Workers -> BOOLEAN]
        /\ \A u \in Workers \ {v} : alone'[u] = alone[u]
    BY <1>0, <1>3 DEF Return, Goes, NoOut
  <2>2. AloneInv'
    BY <1>0, <2>1 DEF AloneInv
  <2> QED
    BY <1>0, <2>1, <2>2 DEF Within
<1> QED
  BY <1>1, <1>2, <1>3 DEF WorkerStep, Steady

\* A step of the worker itself takes it on to what the next point needs.
LEMMA OwnStep ==
    ASSUME BufferInv, FramesInv, NEW w \in Workers, WorkerStep(w), Within(w)'
    PROVE  HasSoFar(w)' /\ (out'[w].ok => SoundOut(w)')
<1>0. /\ AloneInv /\ WorkersInv /\ Fit(mem) /\ pc \in [Workers -> Accepted \cup {"idle", "done"}]
      /\ cycles \in [Workers -> 0 .. MaxCycles] /\ cycle \in [Workers -> Nat]
      /\ \A v \in Workers : out[v].ok => pc[v] = "done"
  BY DEF BufferInv, FramesInv, WorkersInv, AloneInv
<1> DEFINE j == job[w]
           s == shape[w]
<1>1. CASE Process(w) \/ Find(w) \/ PlanForward(w) \/ PlanInverse(w) \/ Emplace(w) \/ Return(w)
  <2>1. pc'[w] \notin {"transform", "invert", "choose", "cycle", "download"} /\ ~ out'[w].ok
    <3>1. CASE Process(w)
      BY <1>0, <3>1 DEF Process, Goes
    <3>2. CASE Find(w) \/ PlanForward(w) \/ PlanInverse(w) \/ Emplace(w)
      BY <1>0, <3>2 DEF Find, PlanForward, PlanInverse, Emplace, Goes
    <3>3. CASE Return(w)
      BY <1>0, <3>3 DEF Return, Goes, AloneInv, NoOut
    <3> QED
      BY <1>1, <3>1, <3>2, <3>3
  <2> QED
    BY <2>1 DEF HasSoFar
<1>2. ASSUME Steady(w), pc[w] \in Accepted
      PROVE  Within(w) /\ Full(s) /\ UNCHANGED <<job, shape>> /\ ~ out[w].ok
  BY <1>0, <1>2, SteadyIs DEF Within, Full, WorkersInv, Accepted
<1>3. ASSUME pc'[w] = "done", ~ out'[w].ok PROVE HasSoFar(w)' /\ (out'[w].ok => SoundOut(w)')
  BY <1>3 DEF HasSoFar
<1>4. CASE Upload(w)
  <2>1. Full(s) /\ UNCHANGED <<job, shape>> /\ ~ out'[w].ok
    BY <1>0, <1>2, <1>4 DEF Upload, Stage, Goes, Accepted, Steady
  <2>2. \/ pc'[w] = "done"
        \/ pc'[w] = "transform" /\ mem' = Uploaded(j, s)
    BY <1>0, <1>4 DEF Upload, Stage, Goes
  <2>3. Raised(Uploaded(j, s), j, s)
    BY <1>0, <2>1, UploadRaises
  <2>4. CASE pc'[w] = "transform" /\ mem' = Uploaded(j, s)
    BY <2>1, <2>3, <2>4 DEF HasSoFar
  <2> QED
    BY <1>3, <2>1, <2>2, <2>4
<1>5. CASE Transform(w)
  <2>1. Full(s) /\ UNCHANGED <<job, shape>> /\ ~ out'[w].ok /\ pc[w] = "transform" /\ Within(w)
    BY <1>0, <1>2, <1>5 DEF Transform, Stage, Goes, Accepted, Steady
  <2>2. \/ pc'[w] = "done"
        \/ pc'[w] = "invert" /\ mem' = Spectra(s)
    BY <1>0, <1>5 DEF Transform, Stage, Goes
  <2>3. Raised(mem, j, s)
    BY <2>1 DEF FramesInv, HasSoFar
  <2>4. Transformed(Spectra(s), j, s)
    BY <1>0, <2>1, <2>3, TransformSplits
  <2>5. CASE pc'[w] = "invert" /\ mem' = Spectra(s)
    BY <2>1, <2>4, <2>5 DEF HasSoFar
  <2> QED
    BY <1>3, <2>1, <2>2, <2>5
<1>6. CASE Invert(w)
  <2>1. Full(s) /\ UNCHANGED <<job, shape>> /\ ~ out'[w].ok /\ pc[w] = "invert" /\ Within(w)
    BY <1>0, <1>2, <1>6 DEF Invert, Stage, Goes, Accepted, Steady
  <2>2. \/ pc'[w] = "done"
        \/ pc'[w] = "choose" /\ mem' = Filtered(s)
    BY <1>0, <1>6 DEF Invert, Stage, Goes
  <2>3. Transformed(mem, j, s)
    BY <2>1 DEF FramesInv, HasSoFar
  <2>4. Inverted(Filtered(s), j, s)
    BY <1>0, <2>1, <2>3, InvertFilters
  <2>5. CASE pc'[w] = "choose" /\ mem' = Filtered(s)
    BY <2>1, <2>4, <2>5 DEF HasSoFar
  <2> QED
    BY <1>3, <2>1, <2>2, <2>5
<1>7. CASE Choose(w)
  <2>1. Full(s) /\ UNCHANGED <<job, shape>> /\ ~ out'[w].ok /\ pc[w] = "choose" /\ Within(w)
    BY <1>0, <1>2, <1>7 DEF Choose, Stage, Goes, Accepted, Steady
  <2>2. PICK n \in Chosen(s) : /\ Stage(w, "choose", IF n > 0 THEN "cycle" ELSE "download", Gains(j, s, n))
                               /\ cycles' = [cycles EXCEPT ![w] = n]
    BY <1>7 DEF Choose
  <2>3. n \in 0 .. MaxCycles /\ n \in Nat
    BY <2>1, ChosenInRange, Constants DEF Full
  <2>4. cycles'[w] = n /\ cycle'[w] = 0
    BY <1>0, <1>7, <2>2 DEF Choose
  <2>5. \/ pc'[w] = "done"
        \/ pc'[w] = "cycle" /\ mem' = Gains(j, s, n)
        \/ n = 0 /\ pc'[w] = "download" /\ mem' = Gains(j, s, n)
    BY <1>0, <2>2, <2>3 DEF Stage, Goes
  <2>6. Inverted(mem, j, s)
    BY <2>1 DEF FramesInv, HasSoFar
  <2>7. Gained(Gains(j, s, n), j, s, n, 0)
    BY <1>0, <2>1, <2>3, <2>6, ChooseGains
  <2>8. CASE pc'[w] = "cycle" /\ mem' = Gains(j, s, n)
    BY <2>1, <2>4, <2>7, <2>8 DEF HasSoFar
  <2>9. CASE n = 0 /\ pc'[w] = "download" /\ mem' = Gains(j, s, n)
    BY <2>1, <2>4, <2>7, <2>9 DEF HasSoFar
  <2> QED
    BY <1>3, <2>1, <2>5, <2>8, <2>9
<1>8. CASE Cycle(w)
  <2> DEFINE n == cycles[w]
             c == cycle[w]
  <2>1. Full(s) /\ UNCHANGED <<job, shape>> /\ ~ out'[w].ok /\ pc[w] = "cycle" /\ Within(w)
    BY <1>0, <1>2, <1>8 DEF Cycle, Stage, Goes, Accepted, Steady
  <2>2. n \in 0 .. MaxCycles /\ n \in Nat /\ c \in Upto(n) /\ c \in Nat /\ c < n
    BY <1>0, <2>1, Constants DEF WorkersInv, Upto
  <2>3. cycles'[w] = n /\ cycle'[w] = c + 1
    BY <1>0, <1>8 DEF Cycle
  <2>4. \/ pc'[w] = "done"
        \/ pc'[w] = "cycle" /\ mem' = CycleBuilt(s, c)
        \/ c + 1 = n /\ pc'[w] = "download" /\ mem' = CycleBuilt(s, c)
    BY <1>0, <1>8, <2>2 DEF Cycle, Stage, Goes
  <2>5. Gained(mem, j, s, n, c)
    BY <2>1 DEF FramesInv, HasSoFar
  <2>6. Gained(CycleBuilt(s, c), j, s, n, c + 1)
    BY <1>0, <2>1, <2>2, <2>5, CycleGains
  <2>7. CASE pc'[w] = "cycle" /\ mem' = CycleBuilt(s, c)
    BY <2>1, <2>3, <2>6, <2>7 DEF HasSoFar
  <2>8. CASE c + 1 = n /\ pc'[w] = "download" /\ mem' = CycleBuilt(s, c)
    BY <2>1, <2>3, <2>6, <2>8 DEF HasSoFar
  <2> QED
    BY <1>3, <2>1, <2>4, <2>7, <2>8
<1>9. CASE Download(w)
  <2>1. pc'[w] = "done" /\ Within(w)
    BY <1>0, <1>2, <1>9 DEF Download, Goes, Accepted, Steady
  <2>2. HasSoFar(w)'
    BY <2>1 DEF HasSoFar
  <2> QED
    BY <1>9, <2>1, <2>2, DownloadSound
<1> QED
  BY <1>1, <1>4, <1>5, <1>6, <1>7, <1>8, <1>9 DEF WorkerStep

LEMMA FramesStep == BufferInv /\ AccountInv /\ FramesInv /\ [Next]_vars => FramesInv'
<1> SUFFICES ASSUME BufferInv, AccountInv, FramesInv, [Next]_vars PROVE FramesInv'
  OBVIOUS
<1>0. WorkersInv /\ AloneInv
  BY DEF BufferInv, FramesInv
<1>1. ASSUME \A w \in Workers : pc[w] = "idle", UNCHANGED worker PROVE FramesInv'
  <2>1. AloneInv'
    BY <1>0, <1>1 DEF AloneInv, worker
  <2>2. \A w \in Workers : HasSoFar(w)' /\ ~ out'[w].ok
    BY <1>0, <1>1 DEF HasSoFar, AloneInv, worker
  <2> QED
    BY <2>1, <2>2 DEF FramesInv
<1>2. CASE Initialize
  BY <1>1, <1>2 DEF Initialize, AccountInv, OwnersInv
<1>3. CASE Shutdown
  BY <1>1, <1>3 DEF Shutdown
<1>4. ASSUME NEW v \in Workers, WorkerStep(v) PROVE FramesInv'
  <2>1. AloneInv'
    BY <1>0, <1>4, AloneStep
  <2>2. ASSUME NEW w \in Workers, Within(w)' PROVE HasSoFar(w)' /\ (out'[w].ok => SoundOut(w)')
    <3>1. CASE w = v
      BY <1>4, <2>2, <3>1, OwnStep
    <3>2. CASE w # v
      <4>1. pc'[w] = "idle" /\ ~ out'[w].ok
        BY <1>0, <1>4, <2>2, <3>2, AloneStep
      <4> QED
        BY <4>1 DEF HasSoFar
    <3> QED
      BY <3>1, <3>2
  <2> QED
    BY <2>1, <2>2 DEF FramesInv
<1>5. CASE UNCHANGED vars
  <2>1. UNCHANGED <<mem, pc, job, shape, cycles, cycle, alone, out>>
    BY <1>5 DEF vars, worker
  <2>2. AloneInv'
    BY <1>0, <2>1 DEF AloneInv
  <2>3. ASSUME NEW w \in Workers
        PROVE  Within(w)' = Within(w) /\ HasSoFar(w)' = HasSoFar(w) /\ SoundOut(w)' = SoundOut(w)
    BY <2>1 DEF Within, HasSoFar, SoundOut
  <2> QED
    BY <2>1, <2>2, <2>3 DEF FramesInv
<1> QED
  BY <1>2, <1>3, <1>4, <1>5 DEF Next

LEMMA FramesInit == Init => FramesInv
  BY DEF Init, FramesInv, AloneInv, HasSoFar, NoOut

\* Whatever earlier and failed jobs have left in the shared buffers: a job that was
\* alone in Process reads back, in every sample, its own frame and its own masks.
THEOREM FramesAreOwn == Spec => []FramesStayApart
  BY InitHolds, StepHolds, AccountInit, AccountStep, FramesInit, FramesStep, SoundApart, PTL DEF Spec
=============================================================================
