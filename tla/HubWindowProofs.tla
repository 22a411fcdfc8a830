--------------------------- MODULE HubWindowProofs ---------------------------
(***************************************************************************)
(* Proofs about HubWindow: for any chart, frame length, hop and batch size,  *)
(* the plan fits the bars that were fetched and the frames follow the chart; *)
(* and for any pivots and prices, every bar of the series has a price that   *)
(* lies between those of its nearest pivots, and the same one in all windows *)
(* that enclose it.                                                          *)
(***************************************************************************)
EXTENDS HubWindow, WellFoundedInduction, FiniteSetTheorems, TLAPS

\* What the three stages hand to one another.
PlanInv ==
    /\ frameLen \in Nat \ {0} /\ inpHop \in Nat /\ batchSize \in Nat \ {0} /\ bars \in Nat
    /\ pc \in {"plan", "build", "prepare", "done", "stop"}
    /\ pc \in {"build", "prepare", "done"} =>
          /\ frameCount \in 1 .. batchSize /\ fetchBars \in Nat
          /\ Span <= fetchBars /\ fetchBars <= bars
    /\ pc = "done" =>
          batch = [k \in 0 .. (frameLen * frameCount - 1) |->
                      Chron((k \div frameLen) * inpHop + (k % frameLen))]

-----------------------------------------------------------------------------
LEMMA Products ==
    /\ \A a, b \in Nat : a * b \in Nat
    /\ \A a, b, c \in Nat : a <= b => a * c <= b * c /\ c * a <= c * b
  OBVIOUS

\* Where a sample of a frame is in the batch, and back.
LEMMA Places ==
    ASSUME NEW m \in Nat \ {0}, NEW q \in Nat, NEW r \in 0 .. (m - 1)
    PROVE  (q * m + r) \div m = q /\ (q * m + r) % m = r
<1>1. q * m \in Nat /\ q * m + r \in Nat
  BY Products
<1> QED
  BY <1>1

\* The span of the planned frames is within the bars of the chart.
LEMMA PlanFits ==
    ASSUME NEW len \in Nat \ {0}, NEW n \in Nat, len <= n, NEW hop \in Nat \ {0},
           NEW frames \in Nat \ {0}, frames <= 1 + ((n - len) \div hop)
    PROVE  len + (frames - 1) * hop <= n
<1>1. (n - len) \div hop \in Nat /\ hop * ((n - len) \div hop) <= n - len
  OBVIOUS
<1>2. (frames - 1) * hop <= ((n - len) \div hop) * hop
  BY <1>1, Products
<1> QED
  BY <1>1, <1>2

LEMMA PlanKeeps ==
    ASSUME PlanInv, Plan
    PROVE  PlanInv'
<1> DEFINE hop    == Upper(inpHop, 1)
           frames == Lower(batchSize, 1 + (bars - frameLen) \div hop)
           span   == frameLen + (frames - 1) * hop
<1>1. /\ bars >= frameLen /\ frameCount' = frames /\ fetchBars' = Lower(span + hop, bars)
      /\ pc' = "build" /\ UNCHANGED <<inputs, raw, series, batch>>
  BY DEF Plan
<1>2. hop \in Nat \ {0} /\ inpHop <= hop
  BY DEF PlanInv, Upper
<1>3. (bars - frameLen) \div hop \in Nat
  BY <1>1, <1>2 DEF PlanInv
<1>4. frames \in 1 .. batchSize /\ frames <= 1 + ((bars - frameLen) \div hop)
  BY <1>3 DEF PlanInv, Lower
<1>5. span <= bars
  <2>1. frameLen \in Nat \ {0} /\ bars \in Nat /\ frameLen <= bars /\ frames \in Nat \ {0}
    BY <1>1, <1>4 DEF PlanInv
  <2> HIDE DEF hop, frames
  <2> QED
    BY <1>2, <1>4, <2>1, PlanFits
<1>6. frameLen + (frames - 1) * inpHop <= span /\ span \in Nat
  BY <1>2, <1>4, Products DEF PlanInv
<1> HIDE DEF hop, frames, span
<1>7. fetchBars' \in Nat /\ span <= fetchBars' /\ fetchBars' <= bars
  BY <1>1, <1>2, <1>5, <1>6 DEF PlanInv, Lower
<1>8. frameLen + (frames - 1) * inpHop <= fetchBars'
  BY <1>4, <1>6, <1>7, Products DEF PlanInv
<1> QED
  BY <1>1, <1>4, <1>7, <1>8 DEF PlanInv, Span, inputs

LEMMA PlanStep == PlanInv /\ [Next]_vars => PlanInv'
<1> SUFFICES ASSUME PlanInv, [Next]_vars PROVE PlanInv'
  OBVIOUS
<1>1. CASE TooFewBars
  BY <1>1 DEF TooFewBars, PlanInv, inputs
<1>2. CASE Build
  BY <1>2 DEF Build, PlanInv, Span, inputs
<1>3. CASE Prepare
  BY <1>3 DEF Prepare, PlanInv, Span, Chron, inputs
<1>4. CASE UNCHANGED vars
  BY <1>4 DEF vars, PlanInv, Span, Chron, inputs
<1> QED
  BY PlanKeeps, <1>1, <1>2, <1>3, <1>4 DEF Next

\* Sample n of frame f of the batch is a sample of the series.
LEMMA Sample ==
    ASSUME PlanInv, pc = "done", NEW f \in 0 .. (frameCount - 1), NEW n \in 0 .. (frameLen - 1)
    PROVE  batch[f * frameLen + n] = series[Span - 1 - (f * inpHop + n)]
<1>1. frameLen \in Nat \ {0} /\ frameCount \in Nat /\ f \in Nat /\ n \in Nat /\ f + 1 <= frameCount
  <2>1. frameCount \in 1 .. batchSize /\ frameLen \in Nat \ {0} /\ batchSize \in Nat
    BY DEF PlanInv
  <2> QED
    BY <2>1
<1>2. (f + 1) * frameLen <= frameCount * frameLen /\ (f + 1) * frameLen = f * frameLen + frameLen
      /\ frameCount * frameLen = frameLen * frameCount
  BY <1>1, Products
<1>3. f * frameLen + n \in 0 .. (frameLen * frameCount - 1)
  BY <1>1, <1>2, Products
<1>4. (f * frameLen + n) \div frameLen = f /\ (f * frameLen + n) % frameLen = n
  BY <1>1, Places
<1> QED
  BY <1>3, <1>4 DEF PlanInv, Chron

\* What the batch holds is the newest bars, oldest first, hop by hop
\* (SubmitPendingBatches, PrepareBatchFrames), whatever the inputs.
THEOREM FramesFollow == Spec => []FramesFollowTheChart
<1>1. Init => PlanInv
  BY PricesAssumption, InputsAssumption DEF Init, PlanInv
<1>2. PlanInv => FramesFollowTheChart
  <2> SUFFICES ASSUME PlanInv, pc = "done"
               PROVE  /\ \A n \in 0 .. (frameLen - 1) :
                            batch[(frameCount - 1) * frameLen + n] = series[frameLen - 1 - n]
                      /\ \A f \in 0 .. (frameCount - 2) : \A n \in 0 .. (frameLen - 1 - inpHop) :
                            batch[f * frameLen + n + inpHop] = batch[(f + 1) * frameLen + n]
    BY DEF PlanInv, FramesFollowTheChart
  <2>0. frameLen \in Nat \ {0} /\ frameCount \in Nat \ {0} /\ inpHop \in Nat
    BY DEF PlanInv
  <2>1. ASSUME NEW n \in 0 .. (frameLen - 1)
        PROVE  batch[(frameCount - 1) * frameLen + n] = series[frameLen - 1 - n]
    <3>1. frameCount - 1 \in 0 .. (frameCount - 1) /\ (frameCount - 1) * inpHop \in Nat
      BY <2>0, Products
    <3>2. Span - 1 - ((frameCount - 1) * inpHop + n) = frameLen - 1 - n
      BY <2>0, <3>1 DEF Span
    <3> QED
      BY <3>1, <3>2, Sample
  <2>2. ASSUME NEW f \in 0 .. (frameCount - 2), NEW n \in 0 .. (frameLen - 1 - inpHop)
        PROVE  batch[f * frameLen + n + inpHop] = batch[(f + 1) * frameLen + n]
    <3>1. /\ f \in 0 .. (frameCount - 1) /\ f + 1 \in 0 .. (frameCount - 1)
          /\ n \in 0 .. (frameLen - 1) /\ n + inpHop \in 0 .. (frameLen - 1)
      BY <2>0
    <3>2. f * frameLen \in Nat /\ f * inpHop \in Nat /\ (f + 1) * inpHop = f * inpHop + inpHop
      BY <2>0, Products
    <3>3. f * frameLen + n + inpHop = f * frameLen + (n + inpHop)
          /\ f * inpHop + (n + inpHop) = (f + 1) * inpHop + n
      BY <2>0, <3>2
    <3>4. batch[f * frameLen + (n + inpHop)] = series[Span - 1 - (f * inpHop + (n + inpHop))]
      BY <3>1, Sample
    <3>5. batch[(f + 1) * frameLen + n] = series[Span - 1 - ((f + 1) * inpHop + n)]
      BY <3>1, Sample
    <3> QED
      BY <3>3, <3>4, <3>5
  <2> QED
    BY <2>1, <2>2
<1> QED
  BY <1>1, PlanStep, <1>2, PTL DEF Spec

-----------------------------------------------------------------------------
(* Extremes: the least pivot of a chart is the newest, the greatest the oldest *)

Less == {p \in Nat \X Nat : p[1] < p[2]}

LEMMA LessIsWellFounded == IsWellFoundedOn(Less, Nat)
<1>1. OpToRel(<, Nat) = Less
  BY DEF OpToRel, Less
<1> QED
  BY <1>1, NatLessThanWellFounded

\* A set of bars that has a member has a newest one, ...
LEMMA MinIsLeast ==
    ASSUME NEW S \in SUBSET Nat, S # {}
    PROVE  Min(S) \in S /\ \A x \in S : Min(S) <= x
<1>1. PICK m \in S : \A x \in S : <<x, m>> \notin Less
  BY LessIsWellFounded, WFMin
<1>2. ASSUME NEW x \in S PROVE m <= x
  <2>1. <<x, m>> \in Nat \X Nat /\ <<x, m>>[1] = x /\ <<x, m>>[2] = m
    OBVIOUS
  <2>2. ~ (x < m)
    BY <1>1, <2>1 DEF Less
  <2> QED
    BY <2>2
<1> QED
  BY <1>2 DEF Min

\* ... and an oldest one, if the chart ends.
LEMMA MaxIsGreatest ==
    ASSUME NEW n \in Nat, NEW S \in SUBSET (0 .. n), S # {}
    PROVE  Max(S) \in S /\ \A x \in S : Max(S) >= x
<1> DEFINE T == {k \in Nat : n - k \in S}
<1>1. T \in SUBSET Nat /\ T # {}
  <2>1. PICK x \in S : TRUE
    OBVIOUS
  <2>2. n - x \in Nat /\ n - (n - x) = x
    OBVIOUS
  <2> QED
    BY <2>2
<1> HIDE DEF T
<1>2. Min(T) \in T /\ \A k \in T : Min(T) <= k
  BY <1>1, MinIsLeast
<1>3. n - Min(T) \in S
  BY <1>2 DEF T
<1>4. ASSUME NEW x \in S PROVE n - Min(T) >= x
  <2>1. n - x \in T /\ Min(T) \in Nat
    BY <1>1, <1>2 DEF T
  <2> QED
    BY <1>2, <2>1
<1> QED
  BY <1>3, <1>4 DEF Max

-----------------------------------------------------------------------------
(* Prices between two pivots *)

\* A part of a difference lies between nothing and the whole.
LEMMA PartOfDifference ==
    ASSUME NEW d \in Int, NEW s \in Nat \ {0}, NEW o \in 0 .. s
    PROVE  /\ d >= 0 => 0 <= (d * o) \div s /\ (d * o) \div s <= d
           /\ d < 0  => d <= (d * o) \div s /\ (d * o) \div s <= 0
<1>1. d * o \in Int /\ d * s \in Int
  OBVIOUS
<1>2. (d * o) \div s \in Int /\ s * ((d * o) \div s) <= d * o /\ d * o < s * ((d * o) \div s + 1)
  BY <1>1
<1>3. CASE d >= 0
  <2>1. 0 <= d * o /\ d * o <= d * s
    BY <1>3, Products
  <2> QED
    BY <1>2, <1>3, <2>1
<1>4. CASE d < 0
  <2>1. d * s <= d * o /\ d * o <= 0
    BY <1>4
  <2> QED
    BY <1>2, <1>4, <2>1
<1> QED
  BY <1>3, <1>4

LEMMA BetweenThePrices ==
    ASSUME mode \in {"hold", "bridge", "midpoint"},
           NEW x \in Nat, NEW y \in Nat, NEW s \in Nat \ {0}, NEW o \in 0 .. s
    PROVE  LET v == Between(x, y, o, s)
           IN (x <= v /\ v <= y) \/ (y <= v /\ v <= x)
<1>1. CASE mode = "hold"
  BY <1>1 DEF Between
<1>2. CASE mode = "midpoint"
  BY <1>2 DEF Between
<1>3. CASE mode = "bridge"
  <2>1. Between(x, y, o, s) = x + ((y - x) * o) \div s
    BY <1>3 DEF Between
  <2>2. (y - x) \in Int /\ ((y - x) * o) \div s \in Int
    OBVIOUS
  <2>3. /\ y - x >= 0 => 0 <= ((y - x) * o) \div s /\ ((y - x) * o) \div s <= y - x
        /\ y - x < 0  => y - x <= ((y - x) * o) \div s /\ ((y - x) * o) \div s <= 0
    BY PartOfDifference
  <2> QED
    BY <2>1, <2>2, <2>3
<1> QED
  BY <1>1, <1>2, <1>3

-----------------------------------------------------------------------------
(* The series *)

\* What BuildZigZagSeries hands to PrepareBatchFrames.
ChartInv ==
    /\ mode \in {"hold", "bridge", "midpoint"}
    /\ pc = "prepare" =>
          /\ fetchBars \in Nat
          /\ raw \in [0 .. (fetchBars - 1) -> Prices \cup {0}]
          /\ Cardinality(Pivots(raw)) >= 2
          /\ series = Filled(raw)

LEMMA ChartStep == PlanInv /\ ChartInv /\ [Next]_vars => ChartInv'
<1> SUFFICES ASSUME PlanInv, ChartInv, [Next]_vars PROVE ChartInv'
  OBVIOUS
<1>1. CASE Plan \/ TooFewBars \/ Prepare
  BY <1>1 DEF Plan, TooFewBars, Prepare, ChartInv, inputs
<1>2. CASE Build
  <2>1. mode' = mode /\ fetchBars' = fetchBars /\ fetchBars \in Nat
    BY <1>2 DEF Build, inputs, PlanInv
  <2>2. CASE Cardinality(Pivots(raw')) < 2
    BY <1>2, <2>1, <2>2 DEF Build, ChartInv
  <2>3. CASE ~ (Cardinality(Pivots(raw')) < 2)
    <3>1. raw' \in [0 .. (fetchBars - 1) -> Prices \cup {0}] /\ series' = Filled(raw')
      BY <1>2, <2>3 DEF Build
    <3>2. Filled(raw') = Filled(raw)'
      BY <2>1 DEF Filled, Between, Pivots, Min, Max
    <3>3. Pivots(raw') \subseteq 0 .. (fetchBars - 1) /\ IsFiniteSet(0 .. (fetchBars - 1))
      BY <2>1, <3>1, FS_Interval DEF Pivots
    <3>4. Cardinality(Pivots(raw')) \in Nat
      BY <3>3, FS_Subset, FS_CardinalityType
    <3>5. Pivots(raw') = Pivots(raw)'
      BY DEF Pivots
    <3> QED
      BY <2>1, <2>3, <3>1, <3>2, <3>4, <3>5 DEF ChartInv
  <2> QED
    BY <2>2, <2>3
<1>3. CASE UNCHANGED vars
  <2>1. UNCHANGED <<mode, pc, fetchBars, raw, series>>
    BY <1>3 DEF vars, inputs
  <2>2. Filled(raw') = Filled(raw)' /\ Pivots(raw') = Pivots(raw)'
    BY <2>1 DEF Filled, Between, Pivots, Min, Max
  <2>3. Filled(raw') = Filled(raw) /\ Pivots(raw') = Pivots(raw)
    BY <2>1
  <2> QED
    BY <2>1, <2>2, <2>3 DEF ChartInv
<1> QED
  BY <1>1, <1>2, <1>3 DEF Next

\* The pivots of a window and the newest and oldest of them; there are two.
LEMMA EndsOf ==
    ASSUME NEW lo \in Nat, NEW hi \in Nat, NEW r, DOMAIN r = lo .. hi, Cardinality(Pivots(r)) >= 2
    PROVE  LET P == Pivots(r)
           IN /\ P \subseteq lo .. hi
              /\ Min(P) \in P /\ \A p \in P : Min(P) <= p
              /\ Max(P) \in P /\ \A p \in P : p <= Max(P)
              /\ Min(P) < Max(P)
<1> DEFINE P == Pivots(r)
<1>1. P \subseteq lo .. hi
  BY DEF Pivots
<1>2. P # {}
  <2>1. Cardinality(P) # 0
    <3>0. Cardinality(P) >= 2
      OBVIOUS
    <3> HIDE DEF P
    <3>1. IsFiniteSet(P)
      <4>1. IsFiniteSet(lo .. hi)
        BY FS_Interval
      <4> QED
        BY <4>1, <1>1, FS_Subset
    <3>2. Cardinality(P) \in Nat
      BY <3>1, FS_CardinalityType
    <3> QED
      BY <3>0, <3>2
  <2> QED
    BY <2>1, FS_EmptySet
<1>3. Cardinality(P) >= 2
  OBVIOUS
<1> HIDE DEF P
<1>4. P \in SUBSET Nat /\ P \in SUBSET (0 .. hi)
  BY <1>1
<1>5. Min(P) \in P /\ \A p \in P : Min(P) <= p
  BY <1>2, <1>4, MinIsLeast
<1>6. Max(P) \in P /\ \A p \in P : Max(P) >= p
  BY <1>2, <1>4, MaxIsGreatest
<1>7. Min(P) # Max(P)
  <2> SUFFICES ASSUME Min(P) = Max(P) PROVE FALSE
    OBVIOUS
  <2>1. ASSUME NEW p \in P PROVE p = Min(P)
    <3>1. p \in Nat /\ Min(P) \in Nat /\ Min(P) <= p /\ p <= Min(P)
      BY <1>4, <1>5, <1>6
    <3> QED
      BY <3>1
  <2>2. P = {Min(P)}
    BY <1>5, <2>1
  <2>3. Cardinality(P) = 1
    BY <2>2, FS_Singleton
  <2> QED
    BY <1>3, <2>3
<1>8. Min(P) < Max(P) /\ \A p \in P : p <= Max(P)
  <2>1. Min(P) \in Nat /\ Max(P) \in Nat /\ Min(P) <= Max(P) /\ Min(P) # Max(P)
    BY <1>4, <1>5, <1>6, <1>7
  <2>2. ASSUME NEW p \in P PROVE p <= Max(P)
    <3>1. p \in Nat /\ Max(P) >= p
      BY <1>4, <1>6
    <3> QED
      BY <2>1, <3>1
  <2> QED
    BY <2>1, <2>2
<1> QED
  BY <1>1, <1>5, <1>6, <1>8 DEF P

\* A bar between them lies between two neighbouring pivots, and its price is
\* the one the mode puts between theirs.
LEMMA Enclosed ==
    ASSUME NEW lo \in Nat, NEW hi \in Nat, NEW r, DOMAIN r = lo .. hi, Cardinality(Pivots(r)) >= 2,
           NEW b \in Min(Pivots(r)) .. Max(Pivots(r))
    PROVE  \E from, to \in Pivots(r) :
              /\ to <= b /\ b <= from /\ to < from /\ from # Min(Pivots(r))
              /\ \A q \in Pivots(r) : b <= q /\ q # Min(Pivots(r)) => from <= q
              /\ \A q \in Pivots(r) : q <= b /\ q < from => q <= to
              /\ Filled(r)[b] = Between(r[from], r[to], from - b, from - to)
<1> DEFINE P    == Pivots(r)
           last == Min(P)
           from == Min({p \in P : p >= b /\ p # last})
           to   == Max({p \in P : p < from /\ p <= b})
<1>0. /\ P \subseteq lo .. hi
      /\ last \in P /\ \A p \in P : last <= p
      /\ Max(P) \in P /\ \A p \in P : p <= Max(P)
      /\ last < Max(P)
  BY EndsOf
<1>1. Filled(r)[b] = Between(r[from], r[to], from - b, from - to)
  <2>1. b \in DOMAIN r /\ ~ (b < last) /\ ~ (b > Max(P))
    BY <1>0
  <2> QED
    BY <2>1 DEF Filled
<1>2. P \subseteq Nat /\ b \in Nat /\ last <= b /\ b <= Max(P)
  BY <1>0
<1> DEFINE F == {p \in P : p >= b /\ p # last}
<1>3. from \in F /\ \A p \in F : from <= p
  <2>1. Max(P) \in F /\ F \in SUBSET Nat
    BY <1>0, <1>2
  <2> HIDE DEF F
  <2>2. Min(F) \in F /\ \A p \in F : Min(F) <= p
    BY <2>1, MinIsLeast
  <2> QED
    BY <2>2 DEF F
<1> DEFINE T == {p \in P : p < from /\ p <= b}
<1>4. from \in P /\ from >= b /\ from # last /\ last < from
  <2>1. from \in P /\ from >= b /\ from # last
    BY <1>3
  <2> HIDE DEF from, last, P
  <2> QED
    BY <2>1, <1>0, <1>2
<1> HIDE DEF from
<1>5. to \in T /\ \A p \in T : to >= p
  <2>1. last \in T /\ T \in SUBSET (0 .. hi)
    BY <1>0, <1>2, <1>4
  <2> HIDE DEF T
  <2>2. Max(T) \in T /\ \A p \in T : Max(T) >= p
    BY <2>1, MaxIsGreatest
  <2> QED
    BY <2>2 DEF T
<1> HIDE DEF to, P, last
<1>6. to \in P /\ to < from /\ to <= b
  BY <1>5
<1>7. ASSUME NEW q \in P PROVE (b <= q /\ q # last => from <= q) /\ (q <= b /\ q < from => q <= to)
  <2>1. q \in Nat /\ from \in Nat /\ to \in Nat
    BY <1>2, <1>4, <1>6
  <2>2. b <= q /\ q # last => from <= q
    BY <2>1, <1>2, <1>3
  <2>3. q <= b /\ q < from => q <= to
    BY <2>1, <1>2, <1>5
  <2> QED
    BY <2>2, <2>3
<1> QED
  BY <1>1, <1>2, <1>4, <1>6, <1>7 DEF P, last

\* The same of the bars that were fetched.
LEMMA Ends ==
    ASSUME ChartInv, pc = "prepare"
    PROVE  LET P == Pivots(raw)
           IN /\ P \subseteq 0 .. (fetchBars - 1)
              /\ Min(P) \in P /\ \A p \in P : Min(P) <= p
              /\ Max(P) \in P /\ \A p \in P : p <= Max(P)
              /\ Min(P) < Max(P)
              /\ \A p \in P : raw[p] \in Nat
              /\ fetchBars - 1 \in Nat
<1>1. fetchBars - 1 \in Nat /\ DOMAIN raw = 0 .. (fetchBars - 1) /\ Cardinality(Pivots(raw)) >= 2
  <2>1. fetchBars \in Nat /\ DOMAIN raw = 0 .. (fetchBars - 1) /\ Cardinality(Pivots(raw)) >= 2
    BY DEF ChartInv
  <2>2. CASE fetchBars = 0
    <3>1. Pivots(raw) = {}
      BY <2>1, <2>2 DEF Pivots
    <3> QED
      BY <2>1, <3>1, FS_EmptySet
  <2> QED
    BY <2>1, <2>2
<1>2. \A p \in Pivots(raw) : raw[p] \in Nat
  <2>1. \A p \in 0 .. (fetchBars - 1) : raw[p] \in Prices \cup {0}
    BY DEF ChartInv
  <2>2. \A x \in Prices \cup {0} : x \in Nat
    BY PricesAssumption
  <2> QED
    BY <1>1, <2>1, <2>2 DEF Pivots
<1> QED
  BY <1>1, <1>2, EndsOf

LEMMA Inner ==
    ASSUME ChartInv, pc = "prepare", NEW b \in Min(Pivots(raw)) .. Max(Pivots(raw))
    PROVE  \E from, to \in Pivots(raw) :
              /\ to <= b /\ b <= from /\ to < from
              /\ \A q \in Pivots(raw) : ~ (b < q /\ q < from) /\ ~ (to < q /\ q < b)
              /\ series[b] = Between(raw[from], raw[to], from - b, from - to)
<1> DEFINE P == Pivots(raw)
<1>0. /\ P \subseteq 0 .. (fetchBars - 1) /\ fetchBars - 1 \in Nat
      /\ Min(P) \in P /\ \A p \in P : Min(P) <= p
      /\ Max(P) \in P
  BY Ends
<1>1. DOMAIN raw = 0 .. (fetchBars - 1) /\ Cardinality(P) >= 2 /\ series = Filled(raw)
  BY DEF ChartInv
<1>2. PICK from \in P, to \in P :
              /\ to <= b /\ b <= from /\ to < from /\ from # Min(P)
              /\ \A q \in P : b <= q /\ q # Min(P) => from <= q
              /\ \A q \in P : q <= b /\ q < from => q <= to
              /\ Filled(raw)[b] = Between(raw[from], raw[to], from - b, from - to)
  BY <1>0, <1>1, Enclosed
<1>3. ASSUME NEW q \in P PROVE ~ (b < q /\ q < from) /\ ~ (to < q /\ q < b)
  <2>1. q \in Nat /\ b \in Nat /\ from \in Nat /\ to \in Nat /\ Min(P) \in Nat /\ Min(P) <= b
    BY <1>0
  <2> HIDE DEF P
  <2> QED
    BY <2>1, <1>2
<1> QED
  BY <1>1, <1>2, <1>3

\* Every bar fetched has a price of its nearest pivots or one between them
\* (BuildZigZagSeries), whatever the pivots, the prices and the mode.
THEOREM SeriesFilled == Spec => []SeriesIsFilled
<1>1. Init => PlanInv /\ ChartInv
  BY PricesAssumption, InputsAssumption DEF Init, PlanInv, ChartInv
<1>2. ChartInv => SeriesIsFilled
  <2> SUFFICES ASSUME ChartInv, pc = "prepare", NEW b \in 0 .. (fetchBars - 1)
               PROVE  \E p, q \in Nearest(b) : raw[p] <= series[b] /\ series[b] <= raw[q]
    BY DEF SeriesIsFilled
  <2> DEFINE P == Pivots(raw)
  <2>0. /\ P \subseteq 0 .. (fetchBars - 1)
        /\ Min(P) \in P /\ \A p \in P : Min(P) <= p
        /\ Max(P) \in P /\ \A p \in P : p <= Max(P)
        /\ \A p \in P : raw[p] \in Nat
    BY Ends
  <2>1. fetchBars \in Nat /\ b \in Nat /\ P \subseteq Nat /\ b \in DOMAIN raw
    BY <2>0 DEF ChartInv
  <2>2. CASE b < Min(P)
    <3>1. series[b] = raw[Min(P)]
      BY <2>1, <2>2 DEF ChartInv, Filled
    <3>2. Min(P) \in Nearest(b)
      <4> SUFFICES ASSUME NEW q \in P PROVE ~ ((b < q /\ q < Min(P)) \/ (Min(P) < q /\ q < b))
        BY <2>0 DEF Nearest
      <4>1. q \in Nat /\ Min(P) \in Nat /\ Min(P) <= q
        BY <2>0, <2>1
      <4> QED
        BY <4>1, <2>1, <2>2
    <3>3. raw[Min(P)] \in Nat
      BY <2>0
    <3> QED
      BY <3>1, <3>2, <3>3
  <2>3. CASE b > Max(P)
    <3>0. Min(P) \in Nat /\ Max(P) \in Nat /\ Min(P) <= Max(P)
      BY <2>0, <2>1
    <3>1. series[b] = raw[Max(P)]
      <4>1. ~ (b < Min(P)) /\ b > Max(P)
        BY <3>0, <2>1, <2>3
      <4> QED
        BY <4>1, <2>1 DEF ChartInv, Filled
    <3>2. Max(P) \in Nearest(b)
      <4> SUFFICES ASSUME NEW q \in P PROVE ~ ((b < q /\ q < Max(P)) \/ (Max(P) < q /\ q < b))
        BY <2>0 DEF Nearest
      <4>1. q \in Nat /\ q <= Max(P)
        BY <2>0, <2>1
      <4> QED
        BY <3>0, <4>1, <2>1, <2>3
    <3>3. raw[Max(P)] \in Nat
      BY <2>0
    <3> QED
      BY <3>1, <3>2, <3>3
  <2>4. CASE b \in Min(P) .. Max(P)
    <3>1. PICK from \in P, to \in P :
              /\ to <= b /\ b <= from /\ to < from
              /\ \A q \in P : ~ (b < q /\ q < from) /\ ~ (to < q /\ q < b)
              /\ series[b] = Between(raw[from], raw[to], from - b, from - to)
      BY <2>4, Inner
    <3>2. /\ from \in Nat /\ to \in Nat /\ raw[from] \in Nat /\ raw[to] \in Nat
          /\ from - to \in Nat \ {0} /\ from - b \in 0 .. (from - to)
      BY <2>0, <2>1, <3>1
    <3>3. from \in Nearest(b) /\ to \in Nearest(b)
      <4> SUFFICES ASSUME NEW q \in P
                   PROVE  /\ ~ ((b < q /\ q < from) \/ (from < q /\ q < b))
                          /\ ~ ((b < q /\ q < to) \/ (to < q /\ q < b))
        BY DEF Nearest
      <4>1. q \in Nat
        BY <2>1
      <4> QED
        BY <4>1, <2>1, <3>1, <3>2
    <3>4. \/ raw[from] <= series[b] /\ series[b] <= raw[to]
          \/ raw[to] <= series[b] /\ series[b] <= raw[from]
      BY <3>1, <3>2, BetweenThePrices DEF ChartInv
    <3> QED
      BY <3>3, <3>4
  <2> QED
    <3>1. Min(P) \in Nat /\ Max(P) \in Nat
      BY <2>0, <2>1
    <3>2. b < Min(P) \/ b > Max(P) \/ b \in Min(P) .. Max(P)
      BY <2>1, <3>1
    <3> QED
      BY <2>2, <2>3, <2>4, <3>2
<1> QED
  BY <1>1, PlanStep, ChartStep, <1>2, PTL DEF Spec

-----------------------------------------------------------------------------
(* Two windows on one chart *)

\* A bar between the pivots of a part of the chart has the same neighbours in
\* the part and in the chart.
LEMMA SameNeighbours ==
    ASSUME ChartInv, pc = "prepare", NEW lo \in 0 .. (fetchBars - 1), NEW hi \in 0 .. (fetchBars - 1),
           NEW part, DOMAIN part = lo .. hi, \A x \in lo .. hi : part[x] = raw[x],
           Cardinality(Pivots(part)) >= 2,
           NEW b \in lo .. Max(Pivots(part)), b > Min(Pivots(part))
    PROVE  Filled(part)[b] = Filled(raw)[b]
<1> DEFINE P == Pivots(raw)
           Q == Pivots(part)
<1>1. /\ fetchBars \in Nat /\ fetchBars - 1 \in Nat /\ DOMAIN raw = 0 .. (fetchBars - 1) /\ Cardinality(P) >= 2
      /\ P \subseteq 0 .. (fetchBars - 1)
      /\ Min(P) \in P /\ \A p \in P : Min(P) <= p
      /\ Max(P) \in P /\ \A p \in P : p <= Max(P)
  BY Ends DEF ChartInv
<1>2. lo \in Nat /\ hi \in Nat /\ DOMAIN part = lo .. hi /\ \A x \in lo .. hi : part[x] = raw[x]
  BY <1>1
<1>3. /\ Q \subseteq lo .. hi
      /\ Min(Q) \in Q /\ \A p \in Q : Min(Q) <= p
      /\ Max(Q) \in Q /\ \A p \in Q : p <= Max(Q)
  BY <1>2, EndsOf
<1>4. \A x : x \in Q <=> x \in P /\ x \in lo .. hi
  BY <1>1, <1>2 DEF Pivots
<1> HIDE DEF P, Q
<1>5. Min(P) \in Nat /\ Max(P) \in Nat /\ Min(Q) \in Nat /\ Max(Q) \in Nat /\ b \in Nat
  <2>1. Min(P) \in Nat /\ Max(P) \in Nat
    <3>1. fetchBars \in Nat /\ Min(P) \in 0 .. (fetchBars - 1) /\ Max(P) \in 0 .. (fetchBars - 1)
      BY <1>1
    <3> QED
      BY <3>1
  <2>2. Min(Q) \in Nat /\ Max(Q) \in Nat
    <3>1. lo \in Nat /\ hi \in Nat /\ Min(Q) \in lo .. hi /\ Max(Q) \in lo .. hi
      BY <1>2, <1>3
    <3> QED
      BY <3>1
  <2>3. b \in Nat
    BY <1>2, <2>2 DEF Q
  <2> QED
    BY <2>1, <2>2, <2>3
<1>6. Min(P) <= Min(Q) /\ Max(Q) <= Max(P)
  BY <1>1, <1>3, <1>4
<1>7. b \in Min(P) .. Max(P) /\ b \in Min(Q) .. Max(Q) /\ Min(P) < b /\ b \in lo .. hi
  BY <1>2, <1>3, <1>5, <1>6 DEF Q
<1>8. PICK from \in P, to \in P :
              /\ to <= b /\ b <= from /\ to < from /\ from # Min(P)
              /\ \A q \in P : b <= q /\ q # Min(P) => from <= q
              /\ \A q \in P : q <= b /\ q < from => q <= to
              /\ Filled(raw)[b] = Between(raw[from], raw[to], from - b, from - to)
  <2>1. 0 \in Nat /\ fetchBars - 1 \in Nat /\ DOMAIN raw = 0 .. (fetchBars - 1)
        /\ Cardinality(Pivots(raw)) >= 2 /\ b \in Min(Pivots(raw)) .. Max(Pivots(raw))
    BY <1>1, <1>7 DEF P
  <2> QED
    BY <2>1, Enclosed DEF P
<1>9. PICK f \in Q, t \in Q :
              /\ t <= b /\ b <= f /\ t < f /\ f # Min(Q)
              /\ \A q \in Q : b <= q /\ q # Min(Q) => f <= q
              /\ \A q \in Q : q <= b /\ q < f => q <= t
              /\ Filled(part)[b] = Between(part[f], part[t], f - b, f - t)
  <2>1. b \in Min(Pivots(part)) .. Max(Pivots(part))
    BY <1>7 DEF Q
  <2> QED
    <3>1. lo \in Nat /\ hi \in Nat /\ DOMAIN part = lo .. hi /\ Cardinality(Pivots(part)) >= 2
      BY <1>2
    <3> QED
      BY <2>1, <3>1, Enclosed DEF Q
<1>10. /\ from \in Nat /\ to \in Nat /\ f \in Nat /\ t \in Nat
       /\ f \in P /\ t \in P /\ f \in lo .. hi /\ t \in lo .. hi
  BY <1>1, <1>2, <1>4, <1>8, <1>9
<1>11. from = f
  <2>1. from <= f
    BY <1>5, <1>7, <1>8, <1>9, <1>10
  <2>2. from \in Q /\ from # Min(Q)
    <3>1. lo <= b /\ b <= from /\ from <= f /\ f <= hi
      BY <1>2, <1>7, <1>8, <1>10, <2>1
    <3>2. from \in lo .. hi
      BY <1>2, <1>5, <1>10, <3>1
    <3>3. from # Min(Q)
      <4>1. Min(Q) < b /\ Min(Q) \in Nat
        BY <1>5 DEF Q
      <4> QED
        BY <1>5, <1>10, <3>1, <4>1
    <3> QED
      BY <1>4, <3>2, <3>3
  <2>3. f <= from
    BY <1>8, <1>9, <2>2
  <2> QED
    BY <1>10, <2>1, <2>3
<1>12. to = t
  <2>1. t <= to
    BY <1>8, <1>9, <1>10, <1>11
  <2>2. to \in Q
    BY <1>2, <1>4, <1>7, <1>8, <1>10, <2>1
  <2>3. to <= t
    BY <1>8, <1>9, <1>11, <2>2
  <2> QED
    BY <1>10, <2>1, <2>3
<1> QED
  BY <1>2, <1>8, <1>9, <1>10, <1>11, <1>12

\* The bridge mode shows every pivot at its own price.
LEMMA BridgePivot ==
    ASSUME mode = "bridge", NEW lo \in Nat, NEW hi \in Nat, NEW r, DOMAIN r = lo .. hi,
           Cardinality(Pivots(r)) >= 2, \A p \in Pivots(r) : r[p] \in Nat, NEW b \in Pivots(r)
    PROVE  Filled(r)[b] = r[b]
<1> DEFINE P == Pivots(r)
<1>1. /\ P \subseteq lo .. hi
      /\ Min(P) \in P /\ \A p \in P : Min(P) <= p
      /\ Max(P) \in P /\ \A p \in P : p <= Max(P)
      /\ Min(P) < Max(P)
  BY EndsOf
<1>2. b \in Min(P) .. Max(P)
  BY <1>1
<1>3. PICK from \in P, to \in P :
              /\ to <= b /\ b <= from /\ to < from /\ from # Min(P)
              /\ \A q \in P : b <= q /\ q # Min(P) => from <= q
              /\ \A q \in P : q <= b /\ q < from => q <= to
              /\ Filled(r)[b] = Between(r[from], r[to], from - b, from - to)
  BY <1>2, Enclosed
<1>4. b \in Nat /\ from \in Nat /\ to \in Nat /\ r[b] \in Nat /\ r[from] \in Nat /\ r[to] \in Nat
  BY <1>1, <1>3
<1>5. from = b \/ to = b
  <2> HIDE DEF P
  <2>1. CASE b # Min(P)
    <3>1. b \in P
      BY DEF P
    <3>2. from <= b /\ b <= from
      BY <1>3, <1>4, <2>1, <3>1
    <3> QED
      BY <1>4, <3>2
  <2>2. CASE b = Min(P)
    <3>1. b <= to /\ to <= b
      BY <1>1, <1>3, <1>4, <2>2
    <3> QED
      BY <1>4, <3>1
  <2> QED
    BY <2>1, <2>2
<1>6. Filled(r)[b] = r[from] + ((r[to] - r[from]) * (from - b)) \div (from - to)
  BY <1>3 DEF Between
<1>7. CASE from = b
  <2>1. (r[to] - r[from]) * (from - b) = 0 /\ from - to \in Nat \ {0}
    BY <1>3, <1>4, <1>7
  <2>2. 0 \div (from - to) = 0
    BY <2>1
  <2> QED
    BY <1>4, <1>6, <1>7, <2>1, <2>2
<1>8. CASE to = b
  <2>1. from - to \in Nat \ {0} /\ r[to] - r[from] \in Int
    BY <1>3, <1>4
  <2>2. \A s \in Nat \ {0}, d \in Int : (d * s) \div s = d
    OBVIOUS
  <2>3. ((r[to] - r[from]) * (from - to)) \div (from - to) = r[to] - r[from]
    BY <2>1, <2>2
  <2>4. Filled(r)[b] = r[from] + (r[to] - r[from])
    BY <1>6, <1>8, <2>3
  <2> QED
    BY <1>4, <1>8, <2>4
<1> QED
  BY <1>5, <1>7, <1>8

\* From the last pivot of a part on the hold mode shows its price, there and in
\* the chart, until the next pivot.
LEMMA HeldAfterLast ==
    ASSUME ChartInv, pc = "prepare", mode = "hold",
           NEW lo \in 0 .. (fetchBars - 1), NEW hi \in 0 .. (fetchBars - 1),
           NEW part, DOMAIN part = lo .. hi, \A x \in lo .. hi : part[x] = raw[x],
           Cardinality(Pivots(part)) >= 2,
           NEW b \in lo .. hi, b < Min(Pivots(part))
    PROVE  Filled(part)[b] = Filled(raw)[b]
<1> DEFINE P == Pivots(raw)
           Q == Pivots(part)
<1>1. /\ fetchBars \in Nat /\ fetchBars - 1 \in Nat /\ DOMAIN raw = 0 .. (fetchBars - 1) /\ Cardinality(P) >= 2
      /\ P \subseteq 0 .. (fetchBars - 1)
      /\ Min(P) \in P /\ \A p \in P : Min(P) <= p
      /\ Max(P) \in P /\ \A p \in P : p <= Max(P)
  BY Ends DEF ChartInv
<1>2. /\ lo \in Nat /\ hi \in Nat /\ DOMAIN part = lo .. hi /\ \A x \in lo .. hi : part[x] = raw[x]
      /\ b \in Nat /\ b \in DOMAIN part /\ b \in DOMAIN raw
  BY <1>1
<1>3. Q \subseteq lo .. hi /\ Min(Q) \in Q /\ \A p \in Q : Min(Q) <= p
  BY <1>2, EndsOf
<1>4. \A x : x \in Q <=> x \in P /\ x \in lo .. hi
  BY <1>1, <1>2 DEF Pivots
<1>5. Filled(part)[b] = raw[Min(Q)]
  BY <1>2, <1>3 DEF Filled
<1> HIDE DEF P, Q
<1>6. Min(P) \in Nat /\ Max(P) \in Nat /\ Min(Q) \in Nat /\ Min(Q) \in P /\ b < Min(Q)
  <2>1. Min(P) \in Nat /\ Max(P) \in Nat
    <3>1. fetchBars \in Nat /\ Min(P) \in 0 .. (fetchBars - 1) /\ Max(P) \in 0 .. (fetchBars - 1)
      BY <1>1
    <3> QED
      BY <3>1
  <2>2. Min(Q) \in Nat /\ Min(Q) \in P
    BY <1>2, <1>3, <1>4
  <2>3. b < Min(Q)
    BY DEF Q
  <2> QED
    BY <2>1, <2>2, <2>3
<1>7. CASE b < Min(P)
  <2>1. Min(P) \in Q
    BY <1>1, <1>2, <1>3, <1>4, <1>6, <1>7
  <2>2. Min(P) = Min(Q)
    BY <1>1, <1>3, <1>6, <2>1
  <2>3. Filled(raw)[b] = raw[Min(P)]
    BY <1>2, <1>7 DEF Filled, P
  <2> QED
    BY <1>5, <2>2, <2>3
<1>8. CASE b >= Min(P)
  <2>1. b \in Min(P) .. Max(P)
    BY <1>1, <1>2, <1>6, <1>8
  <2>2. PICK from \in P, to \in P :
              /\ to <= b /\ b <= from /\ to < from /\ from # Min(P)
              /\ \A q \in P : b <= q /\ q # Min(P) => from <= q
              /\ Filled(raw)[b] = Between(raw[from], raw[to], from - b, from - to)
    <3>1. 0 \in Nat /\ fetchBars - 1 \in Nat /\ DOMAIN raw = 0 .. (fetchBars - 1)
          /\ Cardinality(Pivots(raw)) >= 2 /\ b \in Min(Pivots(raw)) .. Max(Pivots(raw))
      BY <1>1, <2>1 DEF P
    <3> QED
      BY <3>1, Enclosed DEF P
  <2>3. from <= Min(Q) /\ from \in Nat
    BY <1>1, <1>2, <1>6, <1>8, <2>2
  <2>4. from \in Q
    BY <1>2, <1>3, <1>4, <1>6, <2>2, <2>3
  <2>5. from = Min(Q)
    BY <1>3, <1>6, <2>3, <2>4
  <2> QED
    BY <1>5, <2>2, <2>5 DEF Between
<1> QED
  BY <1>2, <1>6, <1>7, <1>8

\* A settled bar has the same price in every window on the chart
\* (BuildZigZagSeries), whatever the pivots, the prices and the mode.
THEOREM WindowsSettle == Spec => []WindowsAgree
<1>1. Init => PlanInv /\ ChartInv
  BY PricesAssumption, InputsAssumption DEF Init, PlanInv, ChartInv
<1>2. ChartInv => WindowsAgree
  <2> SUFFICES ASSUME ChartInv, pc = "prepare",
                      NEW lo \in 0 .. (fetchBars - 1), NEW hi \in 0 .. (fetchBars - 1),
                      NEW part, part = [b \in lo .. hi |-> raw[b]], Cardinality(Pivots(part)) >= 2,
                      NEW b \in lo .. Max(Pivots(part)), Settled(b, Min(Pivots(part)))
               PROVE  Filled(part)[b] = series[b]
    BY DEF WindowsAgree
  <2>0. series = Filled(raw) /\ mode \in {"hold", "bridge", "midpoint"}
    BY DEF ChartInv
  <2>1. /\ fetchBars - 1 \in Nat /\ DOMAIN raw = 0 .. (fetchBars - 1) /\ Cardinality(Pivots(raw)) >= 2
        /\ \A p \in Pivots(raw) : raw[p] \in Nat
    BY Ends DEF ChartInv
  <2>2. lo \in Nat /\ hi \in Nat /\ DOMAIN part = lo .. hi /\ \A x \in lo .. hi : part[x] = raw[x]
    BY <2>1
  <2>3. /\ Pivots(part) \subseteq lo .. hi /\ Pivots(part) \subseteq Pivots(raw)
        /\ Min(Pivots(part)) \in Pivots(part) /\ Max(Pivots(part)) \in Pivots(part)
    <3>1. Pivots(part) \subseteq lo .. hi /\ Min(Pivots(part)) \in Pivots(part) /\ Max(Pivots(part)) \in Pivots(part)
      BY <2>2, EndsOf
    <3>2. Pivots(part) \subseteq Pivots(raw)
      BY <2>1, <2>2 DEF Pivots
    <3> QED
      BY <3>1, <3>2
  <2>4. b \in lo .. hi /\ b \in Nat /\ Min(Pivots(part)) \in Nat
    BY <2>2, <2>3
  <2>5. CASE b > Min(Pivots(part))
    BY <2>0, <2>2, <2>5, SameNeighbours
  <2>6. CASE b < Min(Pivots(part)) /\ mode = "hold"
    BY <2>0, <2>2, <2>4, <2>6, HeldAfterLast
  <2>7. CASE b = Min(Pivots(part)) /\ mode = "bridge"
    <3>1. b \in Pivots(part) /\ b \in Pivots(raw) /\ part[b] = raw[b]
      BY <2>2, <2>3, <2>4, <2>7
    <3>2. \A p \in Pivots(part) : part[p] \in Nat
      BY <2>1, <2>2, <2>3
    <3>3. Filled(part)[b] = part[b]
      BY <2>2, <2>7, <3>1, <3>2, BridgePivot
    <3>4. Filled(raw)[b] = raw[b]
      BY <2>1, <2>7, <3>1, BridgePivot
    <3> QED
      BY <2>0, <3>1, <3>3, <3>4
  <2>8. \/ b > Min(Pivots(part))
        \/ b < Min(Pivots(part)) /\ mode = "hold"
        \/ b = Min(Pivots(part)) /\ mode = "bridge"
    <3> DEFINE last == Min(Pivots(part))
    <3>1. b > last \/ b < last \/ b = last
      BY <2>4
    <3> HIDE DEF last
    <3>2. Settled(b, last)
      BY DEF last
    <3>3. last \in Nat
      BY <2>4 DEF last
    <3> QED
      <4>1. \/ b > last
            \/ b < last /\ mode = "hold"
            \/ b = last /\ mode = "bridge"
        <5>1. CASE mode = "hold"
          BY <3>1, <3>2, <5>1 DEF Settled
        <5>2. CASE mode = "midpoint"
          BY <3>1, <3>2, <5>2 DEF Settled
        <5>3. CASE mode = "bridge"
          <6>1. b >= last
            BY <3>2, <5>3 DEF Settled
          <6> QED
            BY <2>4, <3>3, <5>3, <6>1
        <5> QED
          BY <2>0, <5>1, <5>2, <5>3
      <4> QED
        BY <4>1 DEF last
  <2> QED
    BY <2>5, <2>6, <2>7, <2>8
<1> QED
  BY <1>1, PlanStep, ChartStep, <1>2, PTL DEF Spec
=============================================================================
