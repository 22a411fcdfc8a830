----------------------------- MODULE HubWindow ------------------------------
(***************************************************************************)
(* The windows the hub cuts out of the chart (GPU_EngineHub.mq5).           *)
(*                                                                         *)
(* Bars count from 0, the newest, into the past ("as series"); a frame is   *)
(* chronological.  Prices are integers, 0 stands for "no pivot on this bar" *)
(* (0.0 or EMPTY_VALUE).                                                    *)
(***************************************************************************)
EXTENDS Integers, FiniteSetsExt

CONSTANTS
    MaxBars,        \* bound: bars of the chart
    Prices,         \* prices of a pivot
    FrameLens,      \* values of InpFFTWindow
    Hops,           \* values of InpHop
    BatchSizes,     \* values of InpBatchSize
    Modes           \* values of InpFeedMode: "hold", "bridge", "midpoint"

ASSUME PricesAssumption == Prices \subseteq Nat \ {0} /\ MaxBars \in Nat
ASSUME InputsAssumption ==
    /\ FrameLens \subseteq Nat \ {0} /\ BatchSizes \subseteq Nat \ {0} /\ Hops \subseteq Nat
    /\ Modes \subseteq {"hold", "bridge", "midpoint"}

VARIABLES
    frameLen, inpHop, batchSize, mode,  \* the inputs of the hub
    bars,       \* BarsCalculated
    pc,         \* what comes next: "plan", "build", "prepare", "done", "stop"
    frameCount, fetchBars,      \* SubmitPendingBatches
    raw,        \* g_zigzagRaw: the pivots of the bars fetched
    series,     \* g_zigzagSeries: a value for every bar fetched
    batch       \* g_batch_buffer

inputs == <<frameLen, inpHop, batchSize, mode, bars>>
vars   == <<inputs, pc, frameCount, fetchBars, raw, series, batch>>

Lower(a, b) == IF a < b THEN a ELSE b
Upper(a, b) == IF a < b THEN b ELSE a

None == [b \in {} |-> 0]

Init ==
    /\ frameLen \in FrameLens /\ inpHop \in Hops /\ batchSize \in BatchSizes /\ mode \in Modes
    /\ bars \in 0 .. MaxBars
    /\ pc = "plan" /\ frameCount = 0 /\ fetchBars = 0
    /\ raw = None /\ series = None /\ batch = None

-----------------------------------------------------------------------------
(* SubmitPendingBatches *)

\* As many frames as the bars allow, and one hop of bars more than they need.
Plan ==
    /\ pc = "plan" /\ bars >= frameLen
    /\ LET hop    == Upper(inpHop, 1)
           frames == Lower(batchSize, 1 + (bars - frameLen) \div hop)
           span   == frameLen + (frames - 1) * hop
       IN /\ frameCount' = frames
          /\ fetchBars' = Lower(span + hop, bars)
    /\ pc' = "build"
    /\ UNCHANGED <<inputs, raw, series, batch>>

TooFewBars ==
    /\ pc = "plan" /\ bars < frameLen
    /\ pc' = "stop"
    /\ UNCHANGED <<inputs, frameCount, fetchBars, raw, series, batch>>

-----------------------------------------------------------------------------
(* BuildZigZagSeries *)

Pivots(r) == {b \in DOMAIN r : r[b] # 0}

\* Mutant: the hold mode shows the pivot to come.
BetweenHeldEarly(from, to, offset, span) ==
    CASE mode = "hold"     -> to
      [] mode = "midpoint" -> (from + to) \div 2
      [] mode = "bridge"   -> from + ((to - from) * offset) \div span

\* Between two pivots, oldest first, at "offset" bars from the older one.
Between(from, to, offset, span) ==
    CASE mode = "hold"     -> from
      [] mode = "midpoint" -> (from + to) \div 2
      [] mode = "bridge"   -> from + ((to - from) * offset) \div span

\* Mutant: the bars before the first pivot are left as they were initialised.
FilledFromFirstPivot(r) ==
    LET first == Max(Pivots(r))
        last  == Min(Pivots(r))
    IN [b \in DOMAIN r |->
        IF b < last THEN r[last]
        ELSE IF b > first THEN 0
        ELSE LET from == Min({p \in Pivots(r) : p >= b /\ p # last})
                 to   == Max({p \in Pivots(r) : p < from /\ p <= b})
             IN Between(r[from], r[to], from - b, from - to)]

\* What the loops leave in each bar.  The pairs of pivots are written oldest
\* first and both ends of each, so a pivot shared by two pairs shows the start
\* of the newer one, and the last pivot the end of the last.  The bars before
\* the first and after the last pivot take its price.
Filled(r) ==
    LET first == Max(Pivots(r))
        last  == Min(Pivots(r))
    IN [b \in DOMAIN r |->
        IF b < last THEN r[last]
        ELSE IF b > first THEN r[first]
        ELSE LET from == Min({p \in Pivots(r) : p >= b /\ p # last})
                 to   == Max({p \in Pivots(r) : p < from /\ p <= b})
             IN Between(r[from], r[to], from - b, from - to)]

Build ==
    /\ pc = "build"
    /\ raw' \in [0 .. (fetchBars - 1) -> Prices \cup {0}]
    /\ IF Cardinality(Pivots(raw')) < 2
       THEN pc' = "stop" /\ UNCHANGED series
       ELSE pc' = "prepare" /\ series' = Filled(raw')
    /\ UNCHANGED <<inputs, frameCount, fetchBars, batch>>

-----------------------------------------------------------------------------
(* PrepareBatchFrames, with the hop as it was given *)

Span == frameLen + (frameCount - 1) * inpHop

\* Mutant: the oldest bars fetched are taken, not the newest.
ChronOldest(t) == series[fetchBars - 1 - t]

\* g_seriesChron
Chron(t) == series[Span - 1 - t]

Prepare ==
    /\ pc = "prepare"
    /\ IF fetchBars < Span
       THEN pc' = "stop" /\ UNCHANGED batch
       ELSE /\ pc' = "done"
            /\ batch' = [k \in 0 .. (frameLen * frameCount - 1) |->
                            Chron((k \div frameLen) * inpHop + (k % frameLen))]
    /\ UNCHANGED <<inputs, frameCount, fetchBars, raw, series>>

Next == Plan \/ TooFewBars \/ Build \/ Prepare

Spec == Init /\ [][Next]_vars

-----------------------------------------------------------------------------
(* Properties *)

\* Whatever the pivots, every bar has a price within those of the pivots
\* nearest to it on either side: no bar keeps the 0.0 the series was initialised
\* with, and none is filled from a pair that does not enclose it.
Nearest(b) ==
    {p \in Pivots(raw) : ~ \E q \in Pivots(raw) : (b < q /\ q < p) \/ (p < q /\ q < b)}

SeriesIsFilled ==
    pc = "prepare" =>
        \A b \in 0 .. (fetchBars - 1) :
            \E p, q \in Nearest(b) : raw[p] <= series[b] /\ series[b] <= raw[q]

\* A bar looks the same in every window that has pivots on both sides of it:
\* two batches that overlap, the one before and the one after new bars and new
\* pivots came and old ones fell out, agree on what lies between their pivots.
\* Until a newer pivot comes the last one and the bars after it are not settled:
\* the hold mode shows the last pivot's own bar at the price of the pivot
\* before, the midpoint mode that bar and all after it at other prices, and the
\* bridge mode only those after it.
Settled(b, last) ==
    CASE mode = "hold"     -> b # last
      [] mode = "midpoint" -> b > last
      [] mode = "bridge"   -> b >= last

WindowsAgree ==
    pc = "prepare" =>
        \A lo, hi \in 0 .. (fetchBars - 1) :
            LET part == [b \in lo .. hi |-> raw[b]]
            IN Cardinality(Pivots(part)) >= 2 =>
                  \A b \in lo .. Max(Pivots(part)) :
                      Settled(b, Min(Pivots(part))) => Filled(part)[b] = series[b]

\* The last frame holds the newest bars in chronological order, and each frame
\* starts one hop of bars after the frame before it.
FramesFollowTheChart ==
    /\ pc = "prepare" => Span <= fetchBars
    /\ pc = "done" =>
        /\ frameCount \in 1 .. batchSize
        /\ \A n \in 0 .. (frameLen - 1) :
              batch[(frameCount - 1) * frameLen + n] = series[frameLen - 1 - n]
        /\ \A f \in 0 .. (frameCount - 2) : \A n \in 0 .. (frameLen - 1 - inpHop) :
              batch[f * frameLen + n + inpHop] = batch[(f + 1) * frameLen + n]
=============================================================================
