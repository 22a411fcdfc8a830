------------------------------- MODULE Cycles -------------------------------
(***************************************************************************)
(* Which cycles a job asks for, finds, keeps and shows: the arguments of    *)
(* GpuEngine_SubmitJob (exports.cpp) and their checks in Engine::SubmitJob, *)
(* the choice of the periods in CudaProcessor::Process, the selection by    *)
(* phase locking (PLV) in RunKalmanTracker, and the ranking GPU_WaveViz     *)
(* makes of the result.                                                     *)
(*                                                                         *)
(* One job at a time: each stage works on the job's own record.  What the   *)
(* floating point computes is chosen freely: the energy of each bin of the  *)
(* spectrum, and for each cycle whether its filter stays finite and how     *)
(* large its PLV is.  A cycle is known by its place in Process's list; its  *)
(* block of samples in any of the arrays is that number.                    *)
(***************************************************************************)
EXTENDS Integers, Sequences, FiniteSets

CONSTANTS
    FrameLen,       \* frame_length
    Grain,          \* periods are counted in this part of a bar
    Energies,       \* the energy of a bin, summed over the frames
    Bands,          \* <<mask_min_period, mask_max_period>>
    Counts,         \* values of cycle_count
    GivenPeriods,   \* elements of cycle_periods; 0 is one that is no period
    MaxCycles,      \* max_cycle_count of the engine
    MaxCandidates,  \* mask.max_candidates when the caller names no count
    Plvs,           \* PLV of a cycle; 0 is that of a cycle without phase lock
    Thresholds,     \* plv_threshold
    Shown           \* values of InpMaxCycles of GPU_WaveViz

ASSUME SizesAssumption ==
    {FrameLen, Grain} \subseteq Nat \ {0} /\ {MaxCycles, MaxCandidates} \subseteq Nat
ASSUME ValuesAssumption ==
    /\ (Energies \cup Counts \cup GivenPeriods \cup Plvs \cup Shown) \subseteq Nat
    /\ Bands \subseteq (Nat \ {0}) \X (Nat \ {0}) /\ Thresholds \subseteq Nat

VARIABLES
    pc,         \* the stage that comes next
    request,    \* the job's cycles.count and .periods, mask band, plv_threshold
    energy,     \* the spectrum
    periods,    \* job.cycle_periods as Process leaves it
    result,     \* the JobRecord after RunKalmanTracker
    lock,       \* the PLV of each cycle of Process, or Invalid
    drawn       \* the cycles GPU_WaveViz shows, best first

vars == <<pc, request, energy, periods, result, lock, drawn>>

Lower(a, b) == IF a < b THEN a ELSE b
Abs(n) == IF n < 0 THEN -n ELSE n

\* The members of a finite set of integers, the lowest first.
Ascending(S) ==
    CHOOSE s \in [1 .. Cardinality(S) -> S] :
        /\ {s[i] : i \in DOMAIN s} = S
        /\ \A i, j \in DOMAIN s : i < j => s[i] < s[j]

\* The bins 1 .. freq_bins - 1; bin 0 is the mean, which Process removes.
Bins        == 1 .. (FrameLen \div 2)
PeriodOf(b) == (FrameLen * Grain) \div b
Silence     == [b \in Bins |-> 0]
Invalid     == -1

\* The periods are real numbers: no two bins have the same.
ASSUME GrainAssumption == \A a, b \in Bins : PeriodOf(a) = PeriodOf(b) => a = b

\* cycles.periods is no pointer, begins with the EMPTY_VALUE sentinel, or is
\* the caller's list.
Sources == {"null", "empty", "list"}
NoRequest == [count |-> 0, source |-> "null", list |-> <<>>,
              band |-> <<1, 1>>, threshold |-> 0]

\* Before the tracker has run.
NoResult == [count |-> 0, periods |-> <<>>, plv |-> <<>>, cycles |-> <<>>,
             all |-> <<>>, dominant |-> 0, line |-> 0]

Init ==
    /\ pc = "submit" /\ request = NoRequest
    /\ energy = Silence /\ periods = <<>> /\ lock = <<>>
    /\ result = NoResult /\ drawn = <<>>

-----------------------------------------------------------------------------
(* GpuEngine_SubmitJob and Engine::SubmitJob *)

\* Without a count the exports drop the list and leave max_candidates alone;
\* the band becomes one of positive width.
Submit ==
    /\ pc = "submit"
    /\ \E n \in Counts, source \in Sources, band \in Bands, threshold \in Thresholds :
       \E list \in IF source = "list" /\ n \in 1 .. MaxCycles
                   THEN [1 .. n -> GivenPeriods] ELSE {<<>>} :
         request' = [count |-> n,
                     source |-> IF n = 0 THEN "null" ELSE source,
                     list |-> list,
                     band |-> <<band[1], IF band[2] < band[1] THEN band[1] ELSE band[2]>>,
                     threshold |-> threshold]
    /\ pc' = IF \/ request'.count > MaxCycles
                \/ request'.count > 0 /\ request'.source = "null"
             THEN "refused" ELSE "process"
    /\ UNCHANGED <<energy, periods, result, lock, drawn>>

-----------------------------------------------------------------------------
(* CudaProcessor::Process: periods that were given *)

\* Mutant: what is kept stays where it was.
KeepGaps(st, i) == IF st.mem[i] > 0 THEN [st EXCEPT !.len = @ + 1] ELSE st

Keep(st, i) ==
    IF st.mem[i] > 0
    THEN [mem |-> [st.mem EXCEPT ![st.len + 1] = st.mem[i]], len |-> st.len + 1] ELSE st

\* cycles.periods points into job.cycle_periods, which is cleared and refilled
\* while it is read: element i is read after the elements kept before it were
\* written to the same memory.
KeptInPlace(list) ==
    LET st[i \in 0 .. Len(list)] ==
            IF i = 0 THEN [mem |-> list, len |-> 0] ELSE Keep(st[i - 1], i)
        end == st[Len(list)]
    IN SubSeq(end.mem, 1, end.len)

TakeGiven ==
    /\ pc = "process" /\ request.source = "list"
    /\ periods' = KeptInPlace(request.list)
    /\ pc' = "track"
    /\ UNCHANGED <<request, energy, result, lock, drawn>>

-----------------------------------------------------------------------------
(* CudaProcessor::Process: periods chosen from the spectrum *)

\* Mutant: the count of the request is not looked at.
TargetIgnoringCount == Lower(MaxCandidates, MaxCycles)

Target == Lower(IF request.count > 0 THEN request.count ELSE MaxCandidates, MaxCycles)

\* A bin's period is FrameLen / bin; only energy within the band counts.
InBand(b) == request.band[1] * b <= FrameLen /\ FrameLen <= request.band[2] * b
EnergyOf(e, b) == IF InBand(b) THEN e[b] ELSE 0

\* Every bin, if the band is silent.
Candidates(e) ==
    LET loud == {b \in Bins : EnergyOf(e, b) > 0}
    IN IF loud = {} THEN Bins ELSE loud

\* std::sort by falling energy leaves bins of equal energy in any order.
Sorted(e) ==
    {s \in [1 .. Cardinality(Candidates(e)) -> Candidates(e)] :
        /\ {s[i] : i \in DOMAIN s} = Candidates(e)
        /\ \A i, j \in DOMAIN s : i < j => EnergyOf(e, s[i]) >= EnergyOf(e, s[j])}

\* Mutant: neighbours of a chosen bin are chosen too.
ChooseNeighbours(chosen, b) == IF Cardinality(chosen) >= Target THEN chosen ELSE chosen \cup {b}

\* The next bin is skipped if a neighbour is chosen.
Choose(chosen, b) ==
    IF Cardinality(chosen) >= Target \/ \E c \in chosen : Abs(c - b) <= 1
    THEN chosen ELSE chosen \cup {b}

\* Down the sorted list.
ChooseBins(order) ==
    LET st[i \in 0 .. Len(order)] == IF i = 0 THEN {} ELSE Choose(st[i - 1], order[i])
    IN st[Len(order)]

PeriodsOf(chosen) == Ascending({PeriodOf(b) : b \in chosen})

TakeStrongest ==
    /\ pc = "process" /\ request.source # "list"
    /\ energy' \in [Bins -> Energies]
    /\ \E order \in Sorted(energy') : periods' = PeriodsOf(ChooseBins(order))
    /\ pc' = "track"
    /\ UNCHANGED <<request, result, lock, drawn>>

-----------------------------------------------------------------------------
(* RunKalmanTracker *)

Found    == 1 .. Len(periods)
Outcomes == [Found -> Plvs \cup {Invalid}]

\* Of the places in s, the first that no other's value exceeds.
FirstBest(s, value) ==
    CHOOSE c \in s : \A d \in s : value[d] < value[c] \/ (value[d] = value[c] /\ c <= d)

\* The cycles whose PLV reaches the threshold, in their order.
Accepted(lk) == Ascending({c \in Found : lk[c] # Invalid /\ lk[c] >= request.threshold})

Tracks ==
    /\ pc = "track"
    /\ pc' = "fetch"
    /\ energy' = Silence
    /\ UNCHANGED <<request, periods, drawn>>

TrackNothing ==
    /\ Found = {}
    /\ Tracks
    /\ result' = NoResult /\ lock' = <<>>

\* Mutant: job.cycle_periods is not replaced.
TrackKeepsPeriods ==
    /\ Tracks
    /\ \E lk \in Outcomes :
         LET kept == Accepted(lk)
             best == FirstBest(DOMAIN kept, [i \in DOMAIN kept |-> lk[kept[i]]])
         IN /\ kept # <<>>
            /\ lock' = lk
            /\ result' = [count    |-> Len(kept),
                          periods  |-> periods,
                          plv      |-> [i \in DOMAIN kept |-> lk[kept[i]]],
                          cycles   |-> kept, all |-> kept,
                          dominant |-> best, line |-> kept[best]]

\* The accepted cycles, closed up, and the dominant one in the single arrays.
TrackAccepted ==
    /\ Tracks
    /\ \E lk \in Outcomes :
         LET kept == Accepted(lk)
             best == FirstBest(DOMAIN kept, [i \in DOMAIN kept |-> lk[kept[i]]])
         IN /\ kept # <<>>
            /\ lock' = lk
            /\ result' = [count    |-> Len(kept),
                          periods  |-> [i \in DOMAIN kept |-> periods[kept[i]]],
                          plv      |-> [i \in DOMAIN kept |-> lk[kept[i]]],
                          cycles   |-> kept, all |-> kept,
                          dominant |-> best, line |-> kept[best]]

\* Mutant: the last cycle with phase lock is promoted, not the best.
PromoteLast ==
    /\ Found # {}
    /\ Tracks
    /\ \E lk \in Outcomes :
         LET tried == {c \in Found : lk[c] > 0}
             best  == CHOOSE c \in tried : \A d \in tried : d <= c
         IN /\ Accepted(lk) = <<>> /\ tried # {}
            /\ lock' = lk
            /\ result' = [count |-> 1, periods |-> <<periods[best]>>, plv |-> <<lk[best]>>,
                          cycles |-> <<best>>, all |-> <<best>>, dominant |-> 1, line |-> best]

\* None is accepted: the best with any phase lock is promoted, ...
Promote ==
    /\ Found # {}
    /\ Tracks
    /\ \E lk \in Outcomes :
         LET tried == {c \in Found : lk[c] > 0}
             best  == FirstBest(tried, lk)
         IN /\ Accepted(lk) = <<>> /\ tried # {}
            /\ lock' = lk
            /\ result' = [count |-> 1, periods |-> <<periods[best]>>, plv |-> <<lk[best]>>,
                          cycles |-> <<best>>, all |-> <<best>>, dominant |-> 1, line |-> best]

\* ... and if there is none all stay, with no PLV, no *_all arrays and no
\* dominant cycle.
KeepOriginal ==
    /\ Found # {}
    /\ Tracks
    /\ \E lk \in Outcomes :
         /\ Accepted(lk) = <<>> /\ \A c \in Found : lk[c] <= 0
         /\ lock' = lk
         /\ result' = [NoResult EXCEPT !.count = Len(periods), !.periods = periods,
                                       !.plv = [c \in Found |-> 0], !.cycles = [c \in Found |-> c]]

-----------------------------------------------------------------------------
(* OnCalculate of GPU_WaveViz, on a GPUShared that holds the result *)

Hidden(plv, shown) == DOMAIN plv \ {shown[k] : k \in DOMAIN shown}

\* Mutant: a cycle as good as the best so far takes its place.
ShowLater(plv, shown) ==
    Append(shown, CHOOSE c \in Hidden(plv, shown) : \A d \in Hidden(plv, shown) :
                      plv[d] < plv[c] \/ (plv[d] = plv[c] /\ d <= c))

\* The best cycle that is not shown yet.
ShowNext(plv, shown) == Append(shown, FirstBest(Hidden(plv, shown), plv))

\* Rank by rank.
Rank(plv, n) ==
    LET st[k \in 0 .. n] == IF k = 0 THEN <<>> ELSE ShowNext(plv, st[k - 1])
    IN st[n]

Draw ==
    /\ pc = "fetch"
    /\ \E limit \in Shown :
         drawn' = Rank(result.plv, Lower(Lower(limit, 12), result.count))
    /\ pc' = "done"
    /\ UNCHANGED <<request, energy, periods, result, lock>>

Next ==
    \/ Submit \/ TakeGiven \/ TakeStrongest
    \/ TrackNothing \/ TrackAccepted \/ Promote \/ KeepOriginal \/ Draw

Spec == Init /\ [][Next]_vars

-----------------------------------------------------------------------------
(* Properties *)

\* Refilling the list while it is read drops the entries that are no periods
\* and loses, repeats or reorders none of the others.
GivenPeriodsKept ==
    pc = "track" /\ request.source = "list" =>
        LET list == request.list
        IN \E at \in [1 .. Len(periods) -> DOMAIN list] :
              /\ {at[k] : k \in DOMAIN at} = {i \in DOMAIN list : list[i] > 0}
              /\ \A j, k \in DOMAIN at : j < k => at[j] < at[k]
              /\ \A k \in DOMAIN at : periods[k] = list[at[k]]

\* Going down the sorted bins, passing over the neighbours of those chosen
\* (CudaProcessor.cu:574-598), ends in a choice that the order of equal bins
\* cannot spoil: no two are neighbours, none is out of a band that has any
\* energy, and a bin with energy is only left out for a neighbour as strong, or
\* when there are enough as strong.
StrongestBinsChosen ==
    pc = "track" /\ request.source # "list" =>
        LET chosen == {b \in Bins : PeriodOf(b) \in {periods[k] : k \in Found}}
            loud   == {b \in Bins : EnergyOf(energy, b) > 0}
            Stronger(c, b) == EnergyOf(energy, c) >= EnergyOf(energy, b)
        IN /\ \A b \in chosen : b + 1 \notin chosen
           /\ loud # {} => chosen \subseteq loud
           /\ \A b \in loud \ chosen :
                 \/ \E c \in chosen : Abs(c - b) = 1 /\ Stronger(c, b)
                 \/ Cardinality(chosen) = Target /\ \A c \in chosen : Stronger(c, b)

\* What API.md:158 says of that choice: the cycle_count bins of the greatest
\* energy within the band, so none that is left out is stronger than one chosen.
\* The code takes a weaker bin rather than the neighbour of one it has.
LoudestBinsChosen ==
    pc = "track" /\ request.source # "list" /\ request.count > 0 =>
        LET chosen == {b \in Bins : PeriodOf(b) \in {periods[k] : k \in Found}}
        IN \A b \in Bins \ chosen, c \in chosen : EnergyOf(energy, c) >= EnergyOf(energy, b)

\* A caller who names a count gets no more cycles than that, for which it has
\* made room (API.md:159), and nobody more than the device buffers hold.
FitsTheRequest ==
    pc \in {"track", "fetch"} =>
        LET n == IF pc = "track" THEN Len(periods) ELSE result.count
        IN n <= MaxCycles /\ (request.count > 0 => n <= request.count)

\* The arrays of a result stay parallel through selection and fallbacks: the
\* k-th period and PLV are those of the cycle in the k-th block, and the *_all
\* arrays hold the same cycles or nothing.
ArraysAreParallel ==
    pc = "fetch" =>
        /\ Len(result.periods) = result.count
        /\ \A k \in 1 .. result.count :
              LET c == result.cycles[k]
              IN /\ result.periods[k] = periods[c]
                 /\ result.plv[k] = IF lock[c] = Invalid THEN 0 ELSE lock[c]
        /\ result.all \in {result.cycles, <<>>}

\* No cycle whose filter stayed finite is better locked than the dominant one,
\* on whichever of the ways it was found, and the single arrays are its own;
\* without a dominant cycle nothing was locked.
DominantIsBest ==
    pc = "fetch" =>
        IF result.dominant > 0
        THEN /\ \A c \in Found : lock[c] <= result.plv[result.dominant]
             /\ result.line = result.cycles[result.dominant]
        ELSE /\ \A c \in Found : lock[c] <= 0
             /\ result.line = 0

\* The engine's dominant cycle is the one the indicator, which ranks the cycles
\* itself, shows first; it shows none twice and no worse one before a better.
TopIsDominant ==
    pc = "done" /\ drawn # <<>> =>
        /\ result.dominant \in {0, drawn[1]}
        /\ \A i, j \in DOMAIN drawn : i < j => /\ drawn[i] # drawn[j]
                                              /\ result.plv[drawn[i]] >= result.plv[drawn[j]]
        /\ \A c \in 1 .. result.count :
              c \in {drawn[i] : i \in DOMAIN drawn}
              \/ result.plv[c] <= result.plv[drawn[Len(drawn)]]
=============================================================================
