---------------------------- MODULE BridgeProofs -----------------------------
(***************************************************************************)
(* Proofs about GpuBridge, for any charts, sizes and calls: what is on the   *)
(* device belongs to somebody; a configuration that is ready is there; a     *)
(* chart alone is served; a call that met no other returns its own results,  *)
(* or, where two streams share the buffers, none from before the last call   *)
(* that began on empty streams and ended well.                               *)
(***************************************************************************)
EXTENDS GpuBridge, TLAPS

\* The groups of variables that the actions leave unchanged.
USE DEF context, device, users, calls

-----------------------------------------------------------------------------
(* The pieces of a configuration and the operations of a call *)

Names ==
    {"stream", "stream_fft", "stream_post", "plan", "plan_inverse", "plan_batch",
     "d_input", "d_fft", "d_real", "d_imag",
     "d_volume", "d_media", "d_banda_sup", "d_high", "d_low", "d_open", "d_close", "d_flags",
     "d_signal", "d_scales", "d_cwt_coeffs", "d_reconstruction",
     "d_input_batch", "d_fft_batch", "d_real_batch", "d_imag_batch",
     "d_dominant_temp", "d_first", "d_second", "d_result"}

LEMMA PiecesAreNames == \A k \in Kinds : Pieces[k] \in Seq(Names) /\ Pieces[k] # <<>>
<1>1. WaveformPieces \in Seq(Names) /\ WaveformPieces # <<>>
  BY DEF WaveformPieces, Names
<1>2. SupDemPieces \in Seq(Names) /\ SupDemPieces # <<>>
  BY DEF SupDemPieces, Names
<1>3. CwtPieces \in Seq(Names) /\ CwtPieces # <<>>
  BY DEF CwtPieces, Names
<1>4. BatchPieces \in Seq(Names) /\ BatchPieces # <<>>
  BY DEF BatchPieces, Names
<1> QED
  BY <1>1, <1>2, <1>3, <1>4 DEF Kinds, Pieces

\* The pieces that Configure has made when one fails, or none does.
LEMMA Made ==
    ASSUME NEW k \in Kinds, NEW made \in 0 .. Len(Pieces[k])
    PROVE  /\ ToSet(SubSeq(Pieces[k], 1, made)) \subseteq Names
           /\ made = Len(Pieces[k]) => ToSet(SubSeq(Pieces[k], 1, made)) = ToSet(Pieces[k])
<1>1. Pieces[k] \in Seq(Names)
  BY PiecesAreNames
<1>2. SubSeq(Pieces[k], 1, made) \in Seq(Names)
  BY <1>1
<1>3. made = Len(Pieces[k]) => SubSeq(Pieces[k], 1, made) = Pieces[k]
  BY <1>1
<1>4. \A names \in Seq(Names) : ToSet(names) \subseteq Names
  BY DEF ToSet
<1> QED
  BY <1>2, <1>3, <1>4

Place     == (Kinds \cup Charts) \X Names
Operation == [op : {"enqueue", "read", "sync", "malloc"}, s : Streams \cup {"every"},
              from : SUBSET Place, to : SUBSET Place]

\* What a call of a chart may do: it allocates scratch buffers of its own only.
Mine(c) == {o \in Operation : o.op = "malloc" => o.to \subseteq {c} \X Scratch}

LEMMA OperationsAreMine ==
    ASSUME NEW c \in Charts, NEW s \in Streams \cup {"every"}, NEW from \in SUBSET Place, NEW to \in SUBSET Place
    PROVE  /\ Upload(s, to) \in Mine(c) /\ Kernel(s, from, to) \in Mine(c)
           /\ Download(s, from) \in Mine(c) /\ Sync(s) \in Mine(c)
           /\ to \subseteq {c} \X Scratch => Malloc(to) \in Mine(c)
  BY DEF Upload, Kernel, Download, Sync, Malloc, Op, Mine, Operation, Streams

LEMMA PlacesOf ==
    ASSUME NEW k \in Kinds \cup Charts, NEW pieces \in SUBSET Names
    PROVE  Of(k, pieces) \in SUBSET Place
  BY DEF Of, Place

LEMMA ScratchIsMine ==
    ASSUME NEW c \in Charts, NEW given \in SUBSET Scratch
    PROVE  OnScratch(c, given) \in Seq(Mine(c)) /\ OnScratch(c, given) # <<>>
<1>1. /\ given \in SUBSET Names /\ {"d_result"} \in SUBSET Names
      /\ given \cup {"d_result"} \in SUBSET Names /\ given \cup {"d_result"} \in SUBSET Scratch
  BY DEF Scratch, Names
<1>2. /\ Of(c, given) \in SUBSET Place /\ Of(c, {"d_result"}) \in SUBSET Place
      /\ Of(c, given \cup {"d_result"}) \in SUBSET Place
      /\ Of(c, given \cup {"d_result"}) \subseteq {c} \X Scratch
  BY <1>1, PlacesOf DEF Of
<1>3. /\ Malloc(Of(c, given \cup {"d_result"})) \in Mine(c)
      /\ Upload("default", Of(c, given)) \in Mine(c)
      /\ Kernel("default", Of(c, given), Of(c, {"d_result"})) \in Mine(c)
      /\ Download("default", Of(c, {"d_result"})) \in Mine(c)
      /\ Sync("every") \in Mine(c)
  BY <1>2, OperationsAreMine DEF Streams
<1> QED
  BY <1>3 DEF OnScratch

LEMMA TransformsAreMine ==
    ASSUME NEW c \in Charts
    PROVE  /\ RunWaveformFft \in Seq(Mine(c)) /\ RunWaveformFft # <<>>
           /\ RunWaveformIfft \in Seq(Mine(c)) /\ RunWaveformIfft # <<>>
           /\ RunBatchWaveformFft \in Seq(Mine(c)) /\ RunBatchWaveformFft # <<>>
<1>1. /\ Samples \in SUBSET Place /\ Spectrum \in SUBSET Place /\ Parts \in SUBSET Place
      /\ BatchInput \in SUBSET Place /\ BatchSpectrum \in SUBSET Place /\ BatchParts \in SUBSET Place
  BY PlacesOf DEF Samples, Spectrum, Parts, BatchInput, BatchSpectrum, BatchParts, Kinds, Names
<1>2. /\ Upload("fft", Samples) \in Mine(c) /\ Kernel("fft", Samples, Spectrum) \in Mine(c)
      /\ Kernel("post", Spectrum, Parts) \in Mine(c) /\ Download("post", Parts) \in Mine(c)
      /\ Sync("post") \in Mine(c) /\ Sync("fft") \in Mine(c)
  BY <1>1, OperationsAreMine DEF Streams
<1>3. /\ Upload("fft", Parts) \in Mine(c) /\ Kernel("fft", Parts, Spectrum) \in Mine(c)
      /\ Kernel("fft", Spectrum, Samples) \in Mine(c) /\ Download("post", Samples) \in Mine(c)
  BY <1>1, OperationsAreMine DEF Streams
<1>4. /\ Upload("batch", BatchInput) \in Mine(c)
      /\ Kernel("batch", BatchInput, BatchSpectrum) \in Mine(c)
      /\ Kernel("batch", BatchSpectrum, BatchParts) \in Mine(c)
      /\ Download("batch", BatchParts) \in Mine(c) /\ Sync("batch") \in Mine(c)
  BY <1>1, OperationsAreMine DEF Streams
<1>5. RunWaveformFft \in Seq(Mine(c)) /\ RunWaveformFft # <<>>
  BY <1>2 DEF RunWaveformFft
<1>6. RunWaveformIfft \in Seq(Mine(c)) /\ RunWaveformIfft # <<>>
  BY <1>2, <1>3 DEF RunWaveformIfft
<1>7. RunBatchWaveformFft \in Seq(Mine(c)) /\ RunBatchWaveformFft # <<>>
  BY <1>4 DEF RunBatchWaveformFft
<1> QED
  BY <1>5, <1>6, <1>7

LEMMA IndicatorsAreMine ==
    ASSUME NEW c \in Charts
    PROVE  /\ RunSupDemVolumeKernel \in Seq(Mine(c)) /\ RunSupDemVolumeKernel # <<>>
           /\ RunCwtOnGpu(c) \in Seq(Mine(c)) /\ RunCwtOnGpu(c) # <<>>
<1> DEFINE volume   == Of("supdem", {"d_volume"})
           series   == Of("supdem", {"d_volume", "d_open", "d_high", "d_low", "d_close"})
           bands    == Of("supdem", {"d_media", "d_banda_sup"})
           signal   == Of("cwt", {"d_signal", "d_scales"})
           one      == Of("cwt", {"d_cwt_coeffs"})
           coeffs   == Of("cwt", {"d_cwt_coeffs", "d_scales"})
           value    == Of("cwt", {"d_reconstruction"})
           dominant == Of(c, {"d_dominant_temp"})
<1>1. volume \in SUBSET Place /\ series \in SUBSET Place /\ bands \in SUBSET Place
  BY PlacesOf DEF Kinds, Names
<1>2. /\ signal \in SUBSET Place /\ one \in SUBSET Place /\ coeffs \in SUBSET Place
      /\ value \in SUBSET Place /\ dominant \in SUBSET Place /\ value \cup dominant \in SUBSET Place
      /\ dominant \subseteq {c} \X Scratch
  <2>1. signal \in SUBSET Place /\ one \in SUBSET Place /\ coeffs \in SUBSET Place /\ value \in SUBSET Place
    BY PlacesOf DEF Kinds, Names
  <2>2. dominant \in SUBSET Place
    BY PlacesOf DEF Names
  <2>3. dominant \subseteq {c} \X Scratch
    BY DEF Of, Scratch
  <2> QED
    BY <2>1, <2>2, <2>3
<1>3. RunSupDemVolumeKernel = << Upload("supdem", series), Kernel("supdem", volume, bands),
                                 Download("supdem", bands), Sync("supdem") >>
  BY DEF RunSupDemVolumeKernel
<1>4. RunCwtOnGpu(c) = << Upload("cwt", signal), Kernel("cwt", signal, one), Malloc(dominant),
                          Kernel("cwt", coeffs, dominant), Kernel("cwt", coeffs, value),
                          Download("cwt", value \cup dominant), Sync("cwt") >>
  BY DEF RunCwtOnGpu, FindDominantKernel, Coefficients, DominantScale
<1> HIDE DEF volume, series, bands, signal, one, coeffs, value, dominant
<1>5. /\ Upload("supdem", series) \in Mine(c) /\ Kernel("supdem", volume, bands) \in Mine(c)
      /\ Download("supdem", bands) \in Mine(c) /\ Sync("supdem") \in Mine(c)
  BY <1>1, OperationsAreMine DEF Streams
<1>6. /\ Upload("cwt", signal) \in Mine(c) /\ Kernel("cwt", signal, one) \in Mine(c)
      /\ Malloc(dominant) \in Mine(c) /\ Kernel("cwt", coeffs, dominant) \in Mine(c)
      /\ Kernel("cwt", coeffs, value) \in Mine(c) /\ Download("cwt", value \cup dominant) \in Mine(c)
      /\ Sync("cwt") \in Mine(c)
  BY <1>2, OperationsAreMine DEF Streams
<1> QED
  BY <1>3, <1>4, <1>5, <1>6

LEMMA ProgramsAreMine ==
    ASSUME NEW c \in Charts, NEW name \in CallNames
    PROVE  Program(c)[name] \in Seq(Mine(c)) /\ Program(c)[name] # <<>>
<1>1. CASE name \in {"fft", "ifft", "batch", "supdem", "cwt"}
  BY <1>1, TransformsAreMine, IndicatorsAreMine DEF Program
<1>2. CASE name \in {"magnitude", "phase", "power", "dominant", "total"}
  <2>1. {"d_first", "d_second"} \in SUBSET Scratch /\ {"d_first"} \in SUBSET Scratch
    BY DEF Scratch
  <2>2. /\ OnScratch(c, {"d_first", "d_second"}) \in Seq(Mine(c)) /\ OnScratch(c, {"d_first", "d_second"}) # <<>>
        /\ OnScratch(c, {"d_first"}) \in Seq(Mine(c)) /\ OnScratch(c, {"d_first"}) # <<>>
    BY <2>1, ScratchIsMine
  <2> QED
    BY <1>2, <2>2 DEF Program, ComputeMagnitudeSpectrumGpu, ComputePhaseSpectrumGpu,
                      ComputePowerSpectrumGpu, FindDominantFrequencyGpu, ComputeTotalPowerGpu
<1> QED
  BY <1>1, <1>2 DEF CallNames

-----------------------------------------------------------------------------
(* The invariant *)

\* The configurations own what is theirs on the device, and have it.
ConfigInv ==
    /\ DOMAIN cfg = Kinds /\ live \subseteq Place
    /\ \A x \in live : x[1] \in Kinds => x[2] \in cfg[x[1]].has
    /\ ReadyIsLive

\* The scratch buffers are those of calls in progress.
ScratchInv == \A x \in live : x[1] \in Charts => x[2] \in Scratch /\ pc[x[1]] # "idle"

CallInv ==
    /\ pc \in [Charts -> {"idle", "run", "back"}] /\ DOMAIN call = Charts
    /\ \A c \in Charts : pc[c] = "run" => call[c].todo \in Seq(Mine(c)) /\ call[c].todo # <<>>

BridgeInv == ConfigInv /\ ScratchInv /\ CallInv

LEMMA BridgeInit == Init => BridgeInv
<1> SUFFICES ASSUME Init PROVE BridgeInv
  OBVIOUS
<1>1. ConfigInv
  BY DEF Init, ConfigInv, ReadyIsLive, Unconfigured
<1>2. ScratchInv /\ CallInv
  BY DEF Init, ScratchInv, CallInv
<1> QED
  BY <1>1, <1>2 DEF BridgeInv

LEMMA SomePieces == \A k \in Kinds : ToSet(Pieces[k]) # {}
<1> SUFFICES ASSUME NEW k \in Kinds PROVE ToSet(Pieces[k]) # {}
  OBVIOUS
<1>1. Pieces[k][1] \in ToSet(Pieces[k])
  BY PiecesAreNames DEF ToSet
<1> QED
  BY <1>1

LEMMA ShutdownKeeps ==
    ASSUME ConfigInv, Shutdown
    PROVE  ConfigInv' /\ live' \subseteq live
<1>1. CASE ~initialized
  BY <1>1 DEF Shutdown, ConfigInv, ReadyIsLive
<1>2. CASE initialized
  <2>1. /\ live' = {} /\ outlived' = (outlived \/ cfg["batch"].has # {})
        /\ cfg' = [k \in Kinds |-> IF k \in ResetAtShutdown THEN Unconfigured ELSE cfg[k]]
    BY <1>2 DEF Shutdown
  <2>2. ReadyIsLive'
    <3> SUFFICES ASSUME NEW k \in Kinds, cfg'[k].ready, k = "batch" => ~outlived' PROVE FALSE
      BY DEF ReadyIsLive
    <3>1. k = "batch" /\ cfg[k].ready /\ ~outlived'
      BY <2>1 DEF Kinds, ResetAtShutdown, Unconfigured
    <3>2. cfg[k].has = ToSet(Pieces[k])
      BY <2>1, <3>1 DEF ConfigInv, ReadyIsLive
    <3> QED
      BY <2>1, <3>1, <3>2, SomePieces
  <2> QED
    BY <2>1, <2>2 DEF ConfigInv
<1> QED
  BY <1>1, <1>2

LEMMA BuildKeeps ==
    ASSUME ConfigInv, NEW k \in Kinds, NEW n, Build(k, n), outlived' = outlived
    PROVE  ConfigInv' /\ \A x \in live' : x[1] \in Charts => x \in live
<1> DEFINE kept == live \ Handles(k, cfg[k].has)
<1>1. PICK made \in 0 .. Len(Pieces[k]) :
        LET pieces == ToSet(SubSeq(Pieces[k], 1, made))
            ready  == made = Len(Pieces[k])
        IN /\ cfg' = [cfg EXCEPT ![k] = IF ready THEN [ready |-> TRUE, size |-> n, has |-> pieces]
                                                 ELSE Unconfigured]
           /\ live' = IF ready THEN kept \cup ({k} \X pieces)
                      ELSE (kept \cup ({k} \X pieces)) \ Handles(k, pieces)
  BY DEF Build
<1> DEFINE pieces == ToSet(SubSeq(Pieces[k], 1, made))
           ready  == made = Len(Pieces[k])
<1>2. /\ cfg' = [cfg EXCEPT ![k] = IF ready THEN [ready |-> TRUE, size |-> n, has |-> pieces]
                                           ELSE Unconfigured]
      /\ live' = IF ready THEN kept \cup ({k} \X pieces) ELSE kept \ ({k} \X pieces)
  BY <1>1 DEF Handles
<1>3. ready \in BOOLEAN /\ pieces \subseteq Names /\ (ready => pieces = ToSet(Pieces[k]))
  BY Made
<1> HIDE DEF pieces, ready
<1>4. kept \subseteq live /\ \A x \in live : x[1] = k => x \notin kept
  BY DEF ConfigInv, Place, Handles
<1>5. \A x \in live : x[1] # k => x \in kept
  BY DEF ConfigInv, Place, Handles
<1> HIDE DEF kept
<1>6. DOMAIN cfg' = Kinds /\ \A j \in Kinds \ {k} : cfg'[j] = cfg[j]
  BY <1>2 DEF ConfigInv
<1>7. cfg'[k].ready = ready /\ (ready => cfg'[k].has = pieces)
  BY <1>2, <1>3 DEF ConfigInv, Unconfigured
<1>8. live' \subseteq Place /\ \A x \in live' : x[1] \in Charts => x \in live
  BY <1>2, <1>3, <1>4, ChartsAssumption DEF ConfigInv, Place
<1>9. ASSUME NEW x \in live', x[1] \in Kinds PROVE x[2] \in cfg'[x[1]].has
  <2>1. CASE x[1] = k
    BY <1>2, <1>4, <1>7, <1>9, <2>1
  <2>2. CASE x[1] # k
    BY <1>2, <1>4, <1>6, <1>9, <2>2 DEF ConfigInv
  <2> QED
    BY <2>1, <2>2
<1>10. ASSUME NEW j \in Kinds, cfg'[j].ready, j = "batch" => ~outlived'
       PROVE  cfg'[j].has = ToSet(Pieces[j]) /\ {j} \X cfg'[j].has \subseteq live'
  <2>1. CASE j = k
    BY <1>2, <1>3, <1>7, <1>10, <2>1
  <2>2. CASE j # k
    <3>1. cfg[j].has = ToSet(Pieces[j]) /\ {j} \X cfg[j].has \subseteq live
      BY <1>6, <1>10, <2>2 DEF ConfigInv, ReadyIsLive
    <3>2. {j} \X cfg[j].has \subseteq kept
      BY <1>5, <2>2, <3>1
    <3> QED
      BY <1>2, <1>6, <2>2, <3>1, <3>2
  <2> QED
    BY <2>1, <2>2
<1> QED
  BY <1>6, <1>8, <1>9, <1>10 DEF ConfigInv, ReadyIsLive

-----------------------------------------------------------------------------
(* The steps *)

\* A step that leaves the configurations and the device alone, and no call idle
\* that was not, keeps what they own.
LEMMA ContextKept ==
    ASSUME ConfigInv, UNCHANGED <<cfg, live, outlived>> PROVE ConfigInv'
  BY DEF ConfigInv, ReadyIsLive

\* A session is closed, or a new configuration made, while the calls go on.
LEMMA CallsKept ==
    ASSUME CallInv, ScratchInv, UNCHANGED <<pc, call>>, \A x \in live' : x[1] \in Charts => x \in live
    PROVE  CallInv' /\ ScratchInv'
  BY DEF CallInv, ScratchInv

LEMMA BeginKeeps ==
    ASSUME CallInv, ScratchInv, NEW c \in Charts, NEW name \in CallNames, Begin(c, name),
           pc[c] = "idle", \A x \in live' : x[1] \in Charts => x \in live
    PROVE  CallInv' /\ ScratchInv'
<1>1. /\ pc' = [pc EXCEPT ![c] = "run"]
      /\ call' = [call EXCEPT ![c] = [id |-> lastId + 1, kind |-> KindOf(name), todo |-> Program(c)[name],
                                      out |-> {}, ok |-> FALSE, floor |-> okay,
                                      clean |-> stream["fft"] = <<>> /\ stream["post"] = <<>>]]
  BY DEF Begin
<1>2. /\ pc'[c] = "run" /\ call'[c].todo = Program(c)[name]
      /\ \A d \in Charts \ {c} : pc'[d] = pc[d] /\ call'[d] = call[d]
  BY <1>1 DEF CallInv
<1>3. CallInv'
  BY <1>1, <1>2, ProgramsAreMine DEF CallInv
<1>4. ScratchInv'
  BY <1>2 DEF ScratchInv
<1> QED
  BY <1>3, <1>4

LEMMA StepKeeps ==
    ASSUME BridgeInv, NEW c \in Charts, Step(c)
    PROVE  BridgeInv'
<1> DEFINE op   == Head(call[c].todo)
           rest == Tail(call[c].todo)
<1>0. ConfigInv /\ ScratchInv /\ CallInv
  BY DEF BridgeInv
<1>1. /\ pc[c] = "run"
      /\ live' = IF op.op = "malloc" THEN live \cup op.to ELSE live
      /\ call'[c].todo = rest
      /\ pc' = [pc EXCEPT ![c] = IF rest = <<>> THEN "back" ELSE "run"]
      /\ \A d \in Charts \ {c} : call'[d] = call[d]
      /\ DOMAIN call' = DOMAIN call
      /\ UNCHANGED <<cfg, outlived>>
  BY <1>0 DEF Step, CallInv
<1>2. op \in Mine(c) /\ rest \in Seq(Mine(c))
  BY <1>0, <1>1 DEF CallInv
<1> HIDE DEF op, rest
<1>3. \A x \in live' : x \in live \/ x \in {c} \X Scratch
  BY <1>1, <1>2 DEF Mine
<1>4. live \subseteq live' /\ live' \subseteq Place
  BY <1>0, <1>1, <1>2 DEF Mine, Operation, ConfigInv
<1>5. ConfigInv'
  <2>1. \A x \in live' : x[1] \in Kinds => x \in live
    BY <1>3, ChartsAssumption
  <2> QED
    BY <1>0, <1>1, <1>4, <2>1 DEF ConfigInv, ReadyIsLive
<1>6. /\ pc'[c] # "idle" /\ \A d \in Charts \ {c} : pc'[d] = pc[d]
      /\ pc' \in [Charts -> {"idle", "run", "back"}]
      /\ pc'[c] = "run" => rest # <<>>
  BY <1>0, <1>1 DEF CallInv
<1>7. ScratchInv'
  BY <1>0, <1>3, <1>6 DEF ScratchInv
<1>8. CallInv'
  BY <1>0, <1>1, <1>2, <1>6 DEF CallInv
<1> QED
  BY <1>5, <1>7, <1>8 DEF BridgeInv

LEMMA ReturnKeeps ==
    ASSUME BridgeInv, NEW c \in Charts, Return(c)
    PROVE  BridgeInv'
<1>0. ConfigInv /\ ScratchInv /\ CallInv
  BY DEF BridgeInv
<1>1. /\ pc' = [pc EXCEPT ![c] = "idle"] /\ call' = [call EXCEPT ![c] = NoCall]
      /\ live' = live \ ({c} \X Scratch) /\ UNCHANGED <<cfg, outlived>>
  BY DEF Return
<1>2. \A k \in Kinds : \A name : <<k, name>> \in live => <<k, name>> \in live'
  BY <1>1, ChartsAssumption
<1>3. ConfigInv'
  <2>1. live' \subseteq live
    BY <1>1
  <2>2. ASSUME NEW k \in Kinds, {k} \X cfg[k].has \subseteq live PROVE {k} \X cfg[k].has \subseteq live'
    BY <1>2, <2>2
  <2> QED
    BY <1>0, <1>1, <2>1, <2>2 DEF ConfigInv, ReadyIsLive
<1>4. ScratchInv'
  <2> SUFFICES ASSUME NEW x \in live', x[1] \in Charts PROVE x[2] \in Scratch /\ pc'[x[1]] # "idle"
    BY DEF ScratchInv
  <2>1. x \in live /\ x \notin {c} \X Scratch
    BY <1>1
  <2>2. x[2] \in Scratch /\ pc[x[1]] # "idle" /\ x = <<x[1], x[2]>>
    BY <1>0, <2>1 DEF ScratchInv, ConfigInv, Place
  <2>3. x[1] # c
    BY <2>1, <2>2
  <2> QED
    BY <1>0, <1>1, <2>2, <2>3 DEF CallInv
<1>5. CallInv'
  BY <1>0, <1>1 DEF CallInv
<1> QED
  BY <1>3, <1>4, <1>5 DEF BridgeInv

LEMMA ConfigureKeeps ==
    ASSUME BridgeInv, NEW c \in Charts, NEW k \in Kinds, Configure(c, k)
    PROVE  BridgeInv'
<1>0. ConfigInv /\ ScratchInv /\ CallInv /\ UNCHANGED <<pc, call>>
  BY DEF BridgeInv, Configure
<1>1. CASE UNCHANGED <<cfg, live, outlived>>
  BY <1>0, <1>1, ContextKept, CallsKept DEF BridgeInv
<1>2. CASE Build(k, Size[c]) /\ outlived' = outlived
  BY <1>0, <1>2, BuildKeeps, CallsKept DEF BridgeInv
<1>3. UNCHANGED <<cfg, live, outlived>> \/ (Build(k, Size[c]) /\ outlived' = outlived)
  BY DEF Configure, Remake
<1> QED
  BY <1>1, <1>2, <1>3

LEMMA StartBatchKeeps ==
    ASSUME BridgeInv, NEW c \in Charts, StartBatch(c)
    PROVE  BridgeInv'
<1>0. ConfigInv /\ ScratchInv /\ CallInv
  BY DEF BridgeInv
<1>1. pc[c] = "idle" /\ Build("batch", Size[c]) /\ outlived' = outlived
  BY DEF StartBatch, Remake, MayCall
<1>2. ConfigInv' /\ \A x \in live' : x[1] \in Charts => x \in live
  BY <1>0, <1>1, BuildKeeps DEF Kinds
<1>3. Begin(c, "batch") \/ UNCHANGED <<pc, call>>
  BY DEF StartBatch
<1>4. CASE Begin(c, "batch")
  BY <1>0, <1>1, <1>2, <1>4, BeginKeeps DEF BridgeInv, CallNames
<1>5. CASE UNCHANGED <<pc, call>>
  BY <1>0, <1>2, <1>5, CallsKept DEF BridgeInv
<1> QED
  BY <1>3, <1>4, <1>5

LEMMA BridgeStep == BridgeInv /\ [Next]_vars => BridgeInv'
<1> SUFFICES ASSUME BridgeInv, [Next]_vars PROVE BridgeInv'
  OBVIOUS
<1>0. ConfigInv /\ ScratchInv /\ CallInv
  BY DEF BridgeInv
<1>1. ASSUME NEW c \in Charts, GpuSessionInit(c) \/ Leave(c) PROVE BridgeInv'
  <2>1. UNCHANGED <<cfg, live, outlived, pc, call>>
    BY <1>1 DEF GpuSessionInit, Leave
  <2> QED
    BY <1>0, <2>1, ContextKept, CallsKept DEF BridgeInv
<1>2. ASSUME NEW c \in Charts, GpuSessionClose(c) PROVE BridgeInv'
  <2>1. Shutdown /\ UNCHANGED <<pc, call>>
    BY <1>2 DEF GpuSessionClose
  <2> QED
    BY <1>0, <2>1, ShutdownKeeps, CallsKept DEF BridgeInv
<1>3. ASSUME NEW c \in Charts, NEW name \in Uses[c], Refuse(c, name) PROVE BridgeInv'
  <2>1. UNCHANGED <<cfg, live, outlived, pc, call>>
    BY <1>3 DEF Refuse
  <2> QED
    BY <1>0, <2>1, ContextKept, CallsKept DEF BridgeInv
<1>4. ASSUME NEW c \in Charts, NEW name \in Uses[c], Start(c, name) PROVE BridgeInv'
  <2>1. Begin(c, name) /\ pc[c] = "idle" /\ UNCHANGED <<cfg, live, outlived>>
    BY <1>4 DEF Start, MayCall
  <2>2. name \in CallNames
    BY ChartsAssumption
  <2> QED
    BY <1>0, <2>1, <2>2, ContextKept, BeginKeeps DEF BridgeInv
<1>5. ASSUME NEW c \in Charts, NEW k \in Kinds, Configure(c, k) PROVE BridgeInv'
  BY <1>5, ConfigureKeeps
<1>6. ASSUME NEW c \in Charts, StartBatch(c) PROVE BridgeInv'
  BY <1>6, StartBatchKeeps
<1>7. ASSUME NEW c \in Charts, Step(c) PROVE BridgeInv'
  BY <1>7, StepKeeps
<1>8. ASSUME NEW c \in Charts, Fail(c) PROVE BridgeInv'
  <2>1. ConfigInv'
    BY <1>0, <1>8, ContextKept DEF Fail
  <2>2. ScratchInv' /\ CallInv'
    BY <1>0, <1>8 DEF Fail, ScratchInv, CallInv
  <2> QED
    BY <2>1, <2>2 DEF BridgeInv
<1>9. ASSUME NEW c \in Charts, Return(c) PROVE BridgeInv'
  BY <1>9, ReturnKeeps
<1>10. ASSUME NEW s \in Streams, Device(s) PROVE BridgeInv'
  <2>1. UNCHANGED <<cfg, live, outlived, pc, call>>
    BY <1>10 DEF Device
  <2> QED
    BY <1>0, <2>1, ContextKept, CallsKept DEF BridgeInv
<1>11. CASE UNCHANGED vars
  <2>1. UNCHANGED <<cfg, live, outlived, pc, call>>
    BY <1>11 DEF vars
  <2> QED
    BY <1>0, <2>1, ContextKept, CallsKept DEF BridgeInv
<1>12. ASSUME NEW c \in Charts, LaunchUnallocated(c) PROVE BridgeInv'
  <2>1. ConfigInv'
    BY <1>0, <1>12, ContextKept DEF LaunchUnallocated, context
  <2>2. ScratchInv' /\ CallInv'
    BY <1>0, <1>12 DEF LaunchUnallocated, context, ScratchInv, CallInv
  <2> QED
    BY <2>1, <2>2 DEF BridgeInv
<1> QED
  BY <1>1, <1>2, <1>3, <1>4, <1>5, <1>6, <1>7, <1>8, <1>9, <1>10, <1>11, <1>12 DEF Next

\* No failure, closing or reconfiguration leaves anything on the device that is
\* nobody's to free.
THEOREM NothingLeft == Spec => []NothingIsOrphaned
<1>1. BridgeInv => NothingIsOrphaned
  BY DEF BridgeInv, ConfigInv, ScratchInv, NothingIsOrphaned, Place
<1> QED
  BY BridgeInit, BridgeStep, <1>1, PTL DEF Spec

\* A configuration that calls itself ready can be used, but for the batch one
\* after the end of a session.
THEOREM ReadyCanBeUsed == Spec => []ReadyIsLive
<1>1. BridgeInv => ReadyIsLive
  BY DEF BridgeInv, ConfigInv
<1> QED
  BY BridgeInit, BridgeStep, <1>1, PTL DEF Spec

-----------------------------------------------------------------------------
(* A chart that has the session to itself *)

\* Nobody else has the session open, so that nobody else can change what the
\* chart configured; the batch configuration is made by its Run alone.
LoneInv ==
    /\ on \in [Charts -> {"off", "open", "cpu"}]
    /\ conf \in [Charts -> SUBSET (Kinds \ {"batch"})]
    /\ DOMAIN alone = Charts /\ DOMAIN cfg = Kinds
    /\ \A c \in Charts : on[c] = "open" /\ alone[c] =>
          /\ initialized
          /\ \A d \in Charts \ {c} : on[d] # "open"
          /\ \A k \in conf[c] : Suits(k, Size[c])

\* What a Configure leaves suits the chart that asked for it, if it is ready.
LEMMA BuiltSuits ==
    ASSUME DOMAIN cfg = Kinds, NEW c \in Charts, NEW k \in Kinds, Build(k, Size[c])
    PROVE  /\ DOMAIN cfg' = Kinds
           /\ \A j \in Kinds \ {k} : cfg'[j] = cfg[j]
           /\ cfg'[k].ready => Suits(k, Size[c])'
<1>1. /\ DOMAIN cfg' = Kinds /\ \A j \in Kinds \ {k} : cfg'[j] = cfg[j]
      /\ \/ cfg'[k].ready /\ cfg'[k].size = Size[c]
         \/ cfg'[k] = Unconfigured
  BY DEF Build
<1>2. Size[c].length \in Nat /\ Size[c].count \in Nat
  BY ChartsAssumption DEF Sizes
<1>3. cfg'[k].ready => Suits(k, Size[c])'
  <2> SUFFICES ASSUME cfg'[k].ready PROVE Suits(k, Size[c])'
    OBVIOUS
  <2>1. cfg'[k].size = Size[c]
    BY <1>1 DEF Unconfigured
  <2>2. CASE k = "waveform"
    BY <2>1, <2>2 DEF Suits
  <2>3. CASE k = "cwt"
    BY <2>1, <2>3 DEF Suits
  <2>4. CASE k = "supdem"
    BY <1>2, <2>1, <2>4 DEF Suits
  <2>5. CASE k = "batch"
    BY <1>2, <2>1, <2>5 DEF Suits
  <2> QED
    BY <2>2, <2>3, <2>4, <2>5 DEF Kinds
<1> QED
  BY <1>1, <1>3

LEMMA LoneStep == LoneInv /\ [Next]_vars => LoneInv'
<1> SUFFICES ASSUME LoneInv, [Next]_vars PROVE LoneInv'
  OBVIOUS
<1> USE DEF LoneInv
<1>1. ASSUME NEW c \in Charts, GpuSessionInit(c) PROVE LoneInv'
  BY <1>1 DEF GpuSessionInit, Suits
<1>2. ASSUME NEW c \in Charts, GpuSessionClose(c) PROVE LoneInv'
  <2>1. /\ on[c] = "open" /\ on' = [on EXCEPT ![c] = "off"] /\ conf' = [conf EXCEPT ![c] = {}]
        /\ alone' = [alone EXCEPT ![c] = FALSE] /\ DOMAIN cfg' = Kinds
    BY <1>2 DEF GpuSessionClose, Shutdown
  <2>2. \A d \in Charts \ {c} : ~ (on'[d] = "open" /\ alone'[d])
    BY <2>1
  <2> QED
    BY <2>1, <2>2
<1>3. ASSUME NEW c \in Charts, Leave(c) PROVE LoneInv'
  BY <1>3 DEF Leave, Suits
<1>4. ASSUME NEW c \in Charts, NEW name \in Uses[c], Refuse(c, name) PROVE LoneInv'
  BY <1>4 DEF Refuse, MayCall, GivesUp, Suits
<1>5. ASSUME NEW c \in Charts, NEW name \in Uses[c], Start(c, name) PROVE LoneInv'
  BY <1>5 DEF Start, MayCall, Begin, Suits
<1>6. ASSUME NEW c \in Charts, NEW k \in Kinds \ {"batch"}, Configure(c, k) PROVE LoneInv'
  <2>1. on[c] = "open" /\ UNCHANGED <<alone, initialized>>
    BY <1>6 DEF Configure
  <2>2. \A d \in Charts \ {c} : ~ (on[d] = "open" /\ alone[d])
    BY <2>1
  <2>3. \/ UNCHANGED <<cfg, conf>> /\ on' = [on EXCEPT ![c] = IF c \in FallsBack THEN "off" ELSE "open"]
           /\ ~ initialized
        \/ UNCHANGED <<cfg, on>> /\ Suits(k, Size[c]) /\ conf' = [conf EXCEPT ![c] = @ \cup {k}]
        \/ /\ Build(k, Size[c]) /\ k \notin conf[c]
           /\ \/ cfg'[k].ready /\ conf' = [conf EXCEPT ![c] = @ \cup {k}] /\ on' = on
              \/ conf' = conf /\ on' = [on EXCEPT ![c] = IF c \in FallsBack THEN "off" ELSE "open"]
    BY <1>6 DEF Configure, Remake
  <2>4. DOMAIN cfg' = Kinds /\ \A j \in Kinds \ {k} : cfg'[j] = cfg[j]
    BY <2>3, BuiltSuits
  <2>5. alone[c] /\ on'[c] = "open" => \A j \in conf'[c] : Suits(j, Size[c])'
    <3> SUFFICES ASSUME alone[c], on'[c] = "open", NEW j \in conf'[c] PROVE Suits(j, Size[c])'
      OBVIOUS
    <3>1. CASE j # k
      <4>1. j \in conf[c] /\ j \in Kinds \ {k}
        BY <2>3, <3>1
      <4> QED
        BY <2>1, <2>4, <4>1 DEF Suits
    <3>2. CASE j = k
      <4>1. CASE UNCHANGED cfg /\ Suits(k, Size[c])
        BY <3>2, <4>1 DEF Suits
      <4>2. CASE Build(k, Size[c]) /\ cfg'[k].ready
        BY <3>2, <4>2, BuiltSuits
      <4>3. CASE conf' = conf /\ (k \notin conf[c] \/ ~ initialized)
        BY <2>1, <3>2, <4>3
      <4> QED
        BY <2>1, <2>3, <4>1, <4>2, <4>3
    <3> QED
      BY <3>1, <3>2
  <2>6. /\ on' \in [Charts -> {"off", "open", "cpu"}] /\ conf' \in [Charts -> SUBSET (Kinds \ {"batch"})]
        /\ \A d \in Charts \ {c} : on'[d] = on[d]
    BY <2>3
  <2> QED
    BY <2>1, <2>2, <2>4, <2>5, <2>6
<1>7. ASSUME NEW c \in Charts, StartBatch(c) PROVE LoneInv'
  <2>1. /\ on[c] = "open" /\ Build("batch", Size[c]) /\ UNCHANGED <<initialized, conf, alone>>
        /\ on' = on \/ GivesUp(c)
    BY <1>7 DEF StartBatch, Remake, MayCall
  <2>2. DOMAIN cfg' = Kinds /\ \A j \in Kinds \ {"batch"} : cfg'[j] = cfg[j]
    BY <2>1, BuiltSuits DEF Kinds
  <2>3. \A d \in Charts : \A j \in conf[d] : Suits(j, Size[d]) => Suits(j, Size[d])'
    BY <2>2 DEF Suits
  <2>4. /\ on' \in [Charts -> {"off", "open", "cpu"}] /\ \A d \in Charts \ {c} : on'[d] = on[d]
    BY <2>1 DEF GivesUp
  <2>5. \A d \in Charts : on'[d] = "open" => on[d] = "open"
    BY <2>1, <2>4
  <2> QED
    BY <2>1, <2>2, <2>3, <2>4, <2>5
<1>8. ASSUME NEW c \in Charts, Step(c) \/ Fail(c) \/ LaunchUnallocated(c) PROVE LoneInv'
  <2>1. UNCHANGED <<cfg, on, conf, alone, initialized>>
    BY <1>8 DEF Step, Fail, LaunchUnallocated, context, users
  <2>2. \A k \in Kinds, n \in Sizes : Suits(k, n)' <=> Suits(k, n)
    BY <2>1 DEF Suits
  <2>3. \A d \in Charts : \A k \in conf[d] : Suits(k, Size[d]) => Suits(k, Size[d])'
    BY <2>2, ChartsAssumption
  <2> QED
    BY <2>1, <2>3
<1>9. ASSUME NEW c \in Charts, Return(c) PROVE LoneInv'
  BY <1>9 DEF Return, Suits
<1>10. ASSUME NEW s \in Streams, Device(s) PROVE LoneInv'
  BY <1>10 DEF Device, Suits
<1>11. CASE UNCHANGED vars
  BY <1>11 DEF vars, Suits
<1> QED
  BY <1>1, <1>2, <1>3, <1>4, <1>5, <1>6, <1>7, <1>8, <1>9, <1>10, <1>11 DEF Next

\* A chart that nobody has shared the session with since it opened it finds it
\* open and configured as it asked, whatever earlier charts left behind.
THEOREM LoneChartServed == Spec => []LoneChartIsServed
<1>1. Init => LoneInv
  BY DEF Init, LoneInv
<1>2. LoneInv => LoneChartIsServed
  BY DEF LoneInv, LoneChartIsServed
<1> QED
  BY LoneStep, <1>1, <1>2, PTL DEF Spec

-----------------------------------------------------------------------------
(* Which buffers a call works on, and on which streams *)

StreamsOf(k) == IF k = "waveform" THEN {"fft", "post"} ELSE IF k = "none" THEN {"default"} ELSE {k}
KindOn(s)    == IF s \in {"fft", "post"} THEN "waveform" ELSE IF s = "default" THEN "none" ELSE s

Temporary(k) == IF k = "cwt" THEN {"d_dominant_temp"}
                ELSE IF k = "none" THEN {"d_first", "d_second", "d_result"} ELSE {}

Buffers(c, k) == {b \in Cells : \/ k \in Kinds /\ b[1] = k
                                \/ b[1] = c /\ b[2] \in Temporary(k)}

Sorts == Kinds \cup {"none"}

\* Calls of different kinds share no buffer, and no two charts a temporary one.
LEMMA BuffersApart ==
    ASSUME NEW c \in Charts, NEW d \in Charts, NEW j \in Sorts, NEW k \in Sorts,
           j # k \/ (k = "none" /\ c # d)
    PROVE  Buffers(c, j) \cap Buffers(d, k) = {}
  BY ChartsAssumption DEF Buffers, Sorts, Kinds, Temporary

LEMMA CellsAre ==
    /\ \A c \in Charts, x \in Scratch : <<c, x>> \in Cells
    /\ \A x \in {"d_input", "d_fft", "d_real", "d_imag"} : <<"waveform", x>> \in Cells
    /\ \A x \in {"d_volume", "d_media", "d_banda_sup", "d_high", "d_low", "d_open", "d_close"} :
          <<"supdem", x>> \in Cells
    /\ \A x \in {"d_signal", "d_scales", "d_cwt_coeffs", "d_reconstruction"} : <<"cwt", x>> \in Cells
    /\ \A x \in {"d_input_batch", "d_fft_batch", "d_real_batch", "d_imag_batch"} : <<"batch", x>> \in Cells
<1>1. \A k \in Kinds : \A i \in DOMAIN Pieces[k] : <<k, Pieces[k][i]>> \in Cells
  BY DEF Cells, ToSet
<1>2. /\ DOMAIN WaveformPieces = 1 .. 8 /\ DOMAIN SupDemPieces = 1 .. 9
      /\ DOMAIN CwtPieces = 1 .. 5 /\ DOMAIN BatchPieces = 1 .. 6
  BY DEF WaveformPieces, SupDemPieces, CwtPieces, BatchPieces
<1>3. \A x \in {"d_input", "d_fft", "d_real", "d_imag"} : <<"waveform", x>> \in Cells
  <2>1. \A i \in 1 .. 8 : <<"waveform", WaveformPieces[i]>> \in Cells
    BY <1>1, <1>2 DEF Pieces, Kinds
  <2>2. /\ WaveformPieces[3] = "d_input" /\ WaveformPieces[4] = "d_fft"
        /\ WaveformPieces[5] = "d_real" /\ WaveformPieces[6] = "d_imag"
    BY DEF WaveformPieces
  <2> QED
    BY <2>1, <2>2
<1>4. \A x \in {"d_volume", "d_media", "d_banda_sup", "d_high", "d_low", "d_open", "d_close"} :
          <<"supdem", x>> \in Cells
  <2>1. \A i \in 1 .. 9 : <<"supdem", SupDemPieces[i]>> \in Cells
    BY <1>1, <1>2 DEF Pieces, Kinds
  <2>2. /\ SupDemPieces[2] = "d_volume" /\ SupDemPieces[3] = "d_media" /\ SupDemPieces[4] = "d_banda_sup"
        /\ SupDemPieces[5] = "d_high" /\ SupDemPieces[6] = "d_low" /\ SupDemPieces[7] = "d_open"
        /\ SupDemPieces[8] = "d_close"
    BY DEF SupDemPieces
  <2> QED
    BY <2>1, <2>2
<1>5. \A x \in {"d_signal", "d_scales", "d_cwt_coeffs", "d_reconstruction"} : <<"cwt", x>> \in Cells
  <2>1. \A i \in 1 .. 5 : <<"cwt", CwtPieces[i]>> \in Cells
    BY <1>1, <1>2 DEF Pieces, Kinds
  <2>2. /\ CwtPieces[2] = "d_signal" /\ CwtPieces[3] = "d_scales" /\ CwtPieces[4] = "d_cwt_coeffs"
        /\ CwtPieces[5] = "d_reconstruction"
    BY DEF CwtPieces
  <2> QED
    BY <2>1, <2>2
<1>6. \A x \in {"d_input_batch", "d_fft_batch", "d_real_batch", "d_imag_batch"} : <<"batch", x>> \in Cells
  <2>1. \A i \in 1 .. 6 : <<"batch", BatchPieces[i]>> \in Cells
    BY <1>1, <1>2 DEF Pieces, Kinds
  <2>2. /\ BatchPieces[3] = "d_input_batch" /\ BatchPieces[4] = "d_fft_batch"
        /\ BatchPieces[5] = "d_real_batch" /\ BatchPieces[6] = "d_imag_batch"
    BY DEF BatchPieces
  <2> QED
    BY <2>1, <2>2
<1>7. \A c \in Charts, x \in Scratch : <<c, x>> \in Cells
  BY DEF Cells
<1> QED
  BY <1>3, <1>4, <1>5, <1>6, <1>7

LEMMA OfIs ==
    ASSUME NEW k, NEW pieces
    PROVE  \A y \in Of(k, pieces) : y[2] \in pieces /\ y = <<k, y[2]>>
  BY DEF Of

LEMMA TemporaryBuffers ==
    ASSUME NEW c \in Charts, NEW k, NEW x \in Scratch, x \in Temporary(k)
    PROVE  <<c, x>> \in Buffers(c, k)
<1>1. <<c, x>> \in Cells
  BY CellsAre
<1> QED
  BY <1>1 DEF Buffers

\* What a call of a kind may do.
Deeds(c, k) ==
    {o \in Mine(c) :
        /\ o.op \in {"enqueue", "read"} => o.s \in StreamsOf(k) /\ o.from \subseteq Buffers(c, k)
        /\ o.op = "enqueue" => o.to \subseteq Buffers(c, k)
        /\ o.op \in {"sync", "malloc"} => o.from = {}
        /\ o.op = "read" => o.from # {}}

Writes(o, b) == o.op = "enqueue" /\ b \in o.to

\* A program reads only what it has written, and reads something.
Proper(p) ==
    /\ \A i \in DOMAIN p : \A b \in p[i].from : \E j \in 1 .. (i - 1) : Writes(p[j], b)
    /\ \E i \in DOMAIN p : p[i].op = "read"

LEMMA DeedsAre ==
    ASSUME NEW c \in Charts, NEW k \in Sorts, NEW s \in StreamsOf(k) \cap Streams,
           NEW from \in SUBSET Buffers(c, k), NEW to \in SUBSET Buffers(c, k)
    PROVE  /\ Upload(s, to) \in Deeds(c, k) /\ Kernel(s, from, to) \in Deeds(c, k)
           /\ from # {} => Download(s, from) \in Deeds(c, k)
           /\ \A t \in Streams \cup {"every"} : Sync(t) \in Deeds(c, k)
           /\ \A x \in SUBSET ({c} \X Scratch) : Malloc(x) \in Deeds(c, k)
<1>1. Cells \subseteq Place
  <2>1. \A j \in Kinds : ToSet(Pieces[j]) \subseteq Names
    BY PiecesAreNames DEF ToSet
  <2>2. Scratch \subseteq Names
    BY DEF Scratch, Names
  <2> QED
    BY <2>1, <2>2 DEF Cells, Place
<1>2. from \in SUBSET Place /\ to \in SUBSET Place
  BY <1>1 DEF Buffers
<1>3. \A x \in SUBSET ({c} \X Scratch) : x \in SUBSET Place
  BY DEF Place, Scratch, Names
<1>4. /\ Upload(s, to) \in Mine(c) /\ Kernel(s, from, to) \in Mine(c) /\ Download(s, from) \in Mine(c)
      /\ \A t \in Streams \cup {"every"} : Sync(t) \in Mine(c)
      /\ \A x \in SUBSET ({c} \X Scratch) : Malloc(x) \in Mine(c)
  BY <1>2, <1>3, OperationsAreMine
<1>5. Upload(s, to) \in Deeds(c, k) /\ Kernel(s, from, to) \in Deeds(c, k)
  BY <1>4 DEF Upload, Kernel, Op, Deeds
<1>6. from # {} => Download(s, from) \in Deeds(c, k)
  BY <1>4 DEF Download, Op, Deeds
<1>7. \A t \in Streams \cup {"every"} : Sync(t) \in Deeds(c, k)
  BY <1>4 DEF Sync, Op, Deeds
<1>8. \A x \in SUBSET ({c} \X Scratch) : Malloc(x) \in Deeds(c, k)
  BY <1>4 DEF Malloc, Op, Deeds
<1> QED
  BY <1>5, <1>6, <1>7, <1>8

LEMMA ProgramOfBatch ==
    ASSUME NEW c \in Charts
    PROVE  RunBatchWaveformFft \in Seq(Deeds(c, "batch")) /\ Proper(RunBatchWaveformFft)
<1>1. /\ BatchInput \in SUBSET Buffers(c, "batch") /\ BatchSpectrum \in SUBSET Buffers(c, "batch")
      /\ BatchParts \in SUBSET Buffers(c, "batch") /\ BatchParts # {}
  BY CellsAre DEF BatchInput, BatchSpectrum, BatchParts, Of, Buffers, Kinds
<1>2. "batch" \in Sorts /\ "batch" \in StreamsOf("batch") \cap Streams
  BY DEF Sorts, Kinds, StreamsOf, Streams
<1>3. RunBatchWaveformFft \in Seq(Deeds(c, "batch"))
  <2>1. /\ Upload("batch", BatchInput) \in Deeds(c, "batch")
        /\ Kernel("batch", BatchInput, BatchSpectrum) \in Deeds(c, "batch")
        /\ Kernel("batch", BatchSpectrum, BatchParts) \in Deeds(c, "batch")
        /\ Download("batch", BatchParts) \in Deeds(c, "batch")
        /\ Sync("batch") \in Deeds(c, "batch")
    BY <1>1, <1>2, DeedsAre
  <2> QED
    BY <2>1 DEF RunBatchWaveformFft
<1>4. Proper(RunBatchWaveformFft)
  <2> DEFINE p == RunBatchWaveformFft
  <2>1. /\ DOMAIN p = 1 .. 5
        /\ p[1].from = {} /\ p[2].from = BatchInput /\ p[3].from = BatchSpectrum
        /\ p[4].from = BatchParts /\ p[5].from = {} /\ p[4].op = "read"
    BY DEF RunBatchWaveformFft, Upload, Kernel, Download, Sync, Op
  <2>2. /\ \A b \in BatchInput : Writes(p[1], b)
        /\ \A b \in BatchSpectrum : Writes(p[2], b)
        /\ \A b \in BatchParts : Writes(p[3], b)
    BY DEF RunBatchWaveformFft, Upload, Kernel, Download, Sync, Op, Writes
  <2> HIDE DEF p
  <2>3. ASSUME NEW i \in DOMAIN p, NEW b \in p[i].from PROVE \E j \in 1 .. (i - 1) : Writes(p[j], b)
    <3>1. i \in 2 .. 4 /\ Writes(p[i - 1], b)
      BY <2>1, <2>2, <2>3
    <3>2. i - 1 \in 1 .. (i - 1)
      BY <3>1
    <3> QED
      BY <3>1, <3>2
  <2>4. 4 \in DOMAIN p /\ p[4].op = "read"
    BY <2>1
  <2>5. Proper(p)
    BY <2>3, <2>4 DEF Proper
  <2> QED
    BY <2>5 DEF p
<1> QED
  BY <1>3, <1>4

LEMMA ProgramOfSupDem ==
    ASSUME NEW c \in Charts
    PROVE  RunSupDemVolumeKernel \in Seq(Deeds(c, "supdem")) /\ Proper(RunSupDemVolumeKernel)
<1> DEFINE volume == Of("supdem", {"d_volume"})
           series == Of("supdem", {"d_volume", "d_open", "d_high", "d_low", "d_close"})
           bands  == Of("supdem", {"d_media", "d_banda_sup"})
           p      == << Upload("supdem", series), Kernel("supdem", volume, bands),
                        Download("supdem", bands), Sync("supdem") >>
<1>1. /\ volume \in SUBSET Buffers(c, "supdem") /\ series \in SUBSET Buffers(c, "supdem")
      /\ bands \in SUBSET Buffers(c, "supdem") /\ bands # {} /\ volume \subseteq series
  BY CellsAre DEF Of, Buffers, Kinds
<1>2. "supdem" \in Sorts /\ "supdem" \in StreamsOf("supdem") \cap Streams
  BY DEF Sorts, Kinds, StreamsOf, Streams
<1>3. RunSupDemVolumeKernel = p
  BY DEF RunSupDemVolumeKernel
<1> HIDE DEF volume, series, bands
<1>4. p \in Seq(Deeds(c, "supdem"))
  <2>1. /\ Upload("supdem", series) \in Deeds(c, "supdem")
        /\ Kernel("supdem", volume, bands) \in Deeds(c, "supdem")
        /\ Download("supdem", bands) \in Deeds(c, "supdem")
        /\ Sync("supdem") \in Deeds(c, "supdem")
    BY <1>1, <1>2, DeedsAre
  <2> QED
    BY <2>1
<1>5. Proper(p)
  <2>1. /\ DOMAIN p = 1 .. 4
        /\ p[1].from = {} /\ p[2].from = volume /\ p[3].from = bands
        /\ p[4].from = {} /\ p[3].op = "read"
    BY DEF Upload, Kernel, Download, Sync, Op
  <2>2. /\ \A b \in series : Writes(p[1], b)
        /\ \A b \in bands : Writes(p[2], b)
    BY DEF Upload, Kernel, Download, Sync, Op, Writes
  <2> HIDE DEF p
  <2>3. ASSUME NEW i \in DOMAIN p, NEW b \in p[i].from PROVE \E j \in 1 .. (i - 1) : Writes(p[j], b)
    <3>1. i \in 2 .. 3 /\ Writes(p[i - 1], b)
      BY <1>1, <2>1, <2>2, <2>3
    <3>2. i - 1 \in 1 .. (i - 1)
      BY <3>1
    <3> QED
      BY <3>1, <3>2
  <2>4. 3 \in DOMAIN p /\ p[3].op = "read"
    BY <2>1
  <2> QED
    BY <2>3, <2>4 DEF Proper
<1> QED
  BY <1>3, <1>4, <1>5

LEMMA ProgramOfCwt ==
    ASSUME NEW c \in Charts
    PROVE  RunCwtOnGpu(c) \in Seq(Deeds(c, "cwt")) /\ Proper(RunCwtOnGpu(c))
<1> DEFINE signal   == Of("cwt", {"d_signal", "d_scales"})
           one      == Of("cwt", {"d_cwt_coeffs"})
           coeffs   == Of("cwt", {"d_cwt_coeffs", "d_scales"})
           value    == Of("cwt", {"d_reconstruction"})
           dominant == Of(c, {"d_dominant_temp"})
           p        == << Upload("cwt", signal), Kernel("cwt", signal, one), Malloc(dominant),
                          Kernel("cwt", coeffs, dominant), Kernel("cwt", coeffs, value),
                          Download("cwt", value \cup dominant), Sync("cwt") >>
<1>1. /\ signal \in SUBSET Buffers(c, "cwt") /\ one \in SUBSET Buffers(c, "cwt")
      /\ coeffs \in SUBSET Buffers(c, "cwt") /\ value \in SUBSET Buffers(c, "cwt")
      /\ coeffs \subseteq signal \cup one /\ value # {}
  BY CellsAre DEF Of, Buffers, Kinds
<1>2. /\ dominant \in SUBSET Buffers(c, "cwt") /\ dominant \in SUBSET ({c} \X Scratch)
  <2>1. dominant = {<<c, "d_dominant_temp">>}
    BY DEF Of
  <2>2. "d_dominant_temp" \in Scratch /\ "d_dominant_temp" \in Temporary("cwt")
    BY DEF Scratch, Temporary
  <2> QED
    BY <2>1, <2>2, TemporaryBuffers
<1>3. "cwt" \in Sorts /\ "cwt" \in StreamsOf("cwt") \cap Streams
  BY DEF Sorts, Kinds, StreamsOf, Streams
<1>4. RunCwtOnGpu(c) = p
  BY DEF RunCwtOnGpu, FindDominantKernel, Coefficients, DominantScale
<1> HIDE DEF signal, one, coeffs, value, dominant
<1>5. p \in Seq(Deeds(c, "cwt"))
  <2>1. value \cup dominant \in SUBSET Buffers(c, "cwt") /\ value \cup dominant # {}
    BY <1>1, <1>2
  <2>2. /\ Upload("cwt", signal) \in Deeds(c, "cwt") /\ Kernel("cwt", signal, one) \in Deeds(c, "cwt")
        /\ Kernel("cwt", coeffs, dominant) \in Deeds(c, "cwt")
        /\ Kernel("cwt", coeffs, value) \in Deeds(c, "cwt")
        /\ Sync("cwt") \in Deeds(c, "cwt") /\ Malloc(dominant) \in Deeds(c, "cwt")
        /\ Download("cwt", value \cup dominant) \in Deeds(c, "cwt")
    BY <1>1, <1>2, <1>3, <2>1, DeedsAre
  <2> QED
    BY <2>2
<1>6. Proper(p)
  <2>1. /\ DOMAIN p = 1 .. 7
        /\ p[1].from = {} /\ p[2].from = signal /\ p[3].from = {} /\ p[4].from = coeffs
        /\ p[5].from = coeffs /\ p[6].from = value \cup dominant /\ p[7].from = {} /\ p[6].op = "read"
    BY DEF Upload, Kernel, Download, Sync, Malloc, Op
  <2>2. /\ \A b \in signal : Writes(p[1], b)
        /\ \A b \in one : Writes(p[2], b)
        /\ \A b \in dominant : Writes(p[4], b)
        /\ \A b \in value : Writes(p[5], b)
    BY DEF Upload, Kernel, Download, Sync, Malloc, Op, Writes
  <2> HIDE DEF p
  <2>3. ASSUME NEW i \in DOMAIN p, NEW b \in p[i].from PROVE \E j \in 1 .. (i - 1) : Writes(p[j], b)
    <3>1. CASE i = 2
      <4>1. Writes(p[1], b) /\ 1 \in 1 .. (i - 1)
        BY <2>1, <2>2, <2>3, <3>1
      <4> QED
        BY <4>1
    <3>2. CASE i \in {4, 5}
      <4>1. (Writes(p[1], b) \/ Writes(p[2], b)) /\ 1 \in 1 .. (i - 1) /\ 2 \in 1 .. (i - 1)
        BY <1>1, <2>1, <2>2, <2>3, <3>2
      <4> QED
        BY <4>1
    <3>3. CASE i = 6
      <4>1. (Writes(p[4], b) \/ Writes(p[5], b)) /\ 4 \in 1 .. (i - 1) /\ 5 \in 1 .. (i - 1)
        BY <2>1, <2>2, <2>3, <3>3
      <4> QED
        BY <4>1
    <3>4. i \in {2, 4, 5, 6}
      BY <2>1, <2>3
    <3> QED
      BY <3>1, <3>2, <3>3, <3>4
  <2>4. 6 \in DOMAIN p /\ p[6].op = "read"
    BY <2>1
  <2> QED
    BY <2>3, <2>4 DEF Proper
<1> QED
  BY <1>4, <1>5, <1>6

LEMMA ProgramOnScratch ==
    ASSUME NEW c \in Charts, NEW given \in SUBSET {"d_first", "d_second"}
    PROVE  OnScratch(c, given) \in Seq(Deeds(c, "none")) /\ Proper(OnScratch(c, given))
<1> DEFINE first  == Of(c, given)
           result == Of(c, {"d_result"})
           both   == Of(c, given \cup {"d_result"})
           p      == << Malloc(both), Upload("default", first), Kernel("default", first, result),
                        Download("default", result), Sync("every") >>
<1>1. /\ first \in SUBSET Buffers(c, "none") /\ result \in SUBSET Buffers(c, "none") /\ result # {}
      /\ both \in SUBSET ({c} \X Scratch)
  <2>1. /\ given \cup {"d_result"} \subseteq Scratch /\ given \cup {"d_result"} \subseteq Temporary("none")
    BY DEF Scratch, Temporary
  <2>2. \A x \in given \cup {"d_result"} : <<c, x>> \in Buffers(c, "none")
    BY <2>1, TemporaryBuffers
  <2>3. \A y \in first \cup result \cup both : \E x \in given \cup {"d_result"} : y = <<c, x>>
    BY OfIs DEF first, result, both
  <2>4. <<c, "d_result">> \in result
    BY DEF Of
  <2>5. first \cup result \cup both \subseteq Buffers(c, "none")
    BY <2>2, <2>3
  <2>6. both \subseteq {c} \X Scratch
    BY <2>1, <2>3
  <2> QED
    BY <2>4, <2>5, <2>6
<1>2. "none" \in Sorts /\ "default" \in StreamsOf("none") \cap Streams
  BY DEF Sorts, Kinds, StreamsOf, Streams
<1>3. OnScratch(c, given) = p
  BY DEF OnScratch
<1> HIDE DEF first, result, both
<1>4. p \in Seq(Deeds(c, "none"))
  <2>1. /\ Malloc(both) \in Deeds(c, "none") /\ Upload("default", first) \in Deeds(c, "none")
        /\ Kernel("default", first, result) \in Deeds(c, "none")
        /\ Download("default", result) \in Deeds(c, "none") /\ Sync("every") \in Deeds(c, "none")
    BY <1>1, <1>2, DeedsAre
  <2> QED
    BY <2>1
<1>5. Proper(p)
  <2>1. /\ DOMAIN p = 1 .. 5
        /\ p[1].from = {} /\ p[2].from = {} /\ p[3].from = first /\ p[4].from = result
        /\ p[5].from = {} /\ p[4].op = "read"
    BY DEF Upload, Kernel, Download, Sync, Malloc, Op
  <2>2. /\ \A b \in first : Writes(p[2], b)
        /\ \A b \in result : Writes(p[3], b)
    BY DEF Upload, Kernel, Download, Sync, Malloc, Op, Writes
  <2> HIDE DEF p
  <2>3. ASSUME NEW i \in DOMAIN p, NEW b \in p[i].from PROVE \E j \in 1 .. (i - 1) : Writes(p[j], b)
    <3>1. i \in 3 .. 4 /\ Writes(p[i - 1], b)
      BY <1>1, <2>1, <2>2, <2>3
    <3>2. i - 1 \in 1 .. (i - 1)
      BY <3>1
    <3> QED
      BY <3>1, <3>2
  <2>4. 4 \in DOMAIN p /\ p[4].op = "read"
    BY <2>1
  <2> QED
    BY <2>3, <2>4 DEF Proper
<1> QED
  BY <1>3, <1>4, <1>5

LEMMA ProgramsOfWaveform ==
    ASSUME NEW c \in Charts
    PROVE  /\ RunWaveformFft \in Seq(Deeds(c, "waveform"))
           /\ RunWaveformIfft \in Seq(Deeds(c, "waveform"))
<1>1. /\ Samples \in SUBSET Buffers(c, "waveform") /\ Spectrum \in SUBSET Buffers(c, "waveform")
      /\ Parts \in SUBSET Buffers(c, "waveform") /\ Samples # {} /\ Parts # {}
  BY CellsAre DEF Samples, Spectrum, Parts, Of, Buffers, Kinds
<1>2. /\ "waveform" \in Sorts /\ "fft" \in StreamsOf("waveform") \cap Streams
      /\ "post" \in StreamsOf("waveform") \cap Streams
  BY DEF Sorts, Kinds, StreamsOf, Streams
<1>3. /\ Upload("fft", Samples) \in Deeds(c, "waveform")
      /\ Kernel("fft", Samples, Spectrum) \in Deeds(c, "waveform")
      /\ Kernel("post", Spectrum, Parts) \in Deeds(c, "waveform")
      /\ Download("post", Parts) \in Deeds(c, "waveform")
      /\ Sync("post") \in Deeds(c, "waveform") /\ Sync("fft") \in Deeds(c, "waveform")
  BY <1>1, <1>2, DeedsAre
<1>4. /\ Upload("fft", Parts) \in Deeds(c, "waveform")
      /\ Kernel("fft", Parts, Spectrum) \in Deeds(c, "waveform")
      /\ Kernel("fft", Spectrum, Samples) \in Deeds(c, "waveform")
      /\ Download("post", Samples) \in Deeds(c, "waveform")
  BY <1>1, <1>2, DeedsAre
<1> QED
  BY <1>3, <1>4 DEF RunWaveformFft, RunWaveformIfft

LEMMA ProgramsAre ==
    ASSUME NEW c \in Charts, NEW name \in CallNames
    PROVE  /\ KindOf(name) \in Sorts
           /\ Program(c)[name] \in Seq(Deeds(c, KindOf(name)))
           /\ KindOf(name) # "waveform" => Proper(Program(c)[name])
<1>1. CASE name \in {"fft", "ifft"}
  <2>1. KindOf(name) = "waveform" /\ Program(c)[name] \in {RunWaveformFft, RunWaveformIfft}
    BY <1>1 DEF KindOf, Program
  <2> QED
    BY <2>1, ProgramsOfWaveform DEF Sorts, Kinds
<1>2. CASE name = "batch"
  <2>1. KindOf(name) = "batch" /\ Program(c)[name] = RunBatchWaveformFft
    BY <1>2 DEF KindOf, Kinds, Program
  <2> QED
    BY <2>1, ProgramOfBatch DEF Sorts, Kinds
<1>3. CASE name = "supdem"
  <2>1. KindOf(name) = "supdem" /\ Program(c)[name] = RunSupDemVolumeKernel
    BY <1>3 DEF KindOf, Kinds, Program
  <2> QED
    BY <2>1, ProgramOfSupDem DEF Sorts, Kinds
<1>4. CASE name = "cwt"
  <2>1. KindOf(name) = "cwt" /\ Program(c)[name] = RunCwtOnGpu(c)
    BY <1>4 DEF KindOf, Kinds, Program
  <2> QED
    BY <2>1, ProgramOfCwt DEF Sorts, Kinds
<1>5. CASE name \in {"magnitude", "phase", "power", "dominant", "total"}
  <2>1. KindOf(name) = "none"
    BY <1>5 DEF KindOf, Kinds
  <2>2. Program(c)[name] \in {OnScratch(c, {"d_first", "d_second"}), OnScratch(c, {"d_first"})}
    BY <1>5 DEF Program, ComputeMagnitudeSpectrumGpu, ComputePhaseSpectrumGpu, ComputePowerSpectrumGpu,
                FindDominantFrequencyGpu, ComputeTotalPowerGpu
  <2>3. {"d_first"} \in SUBSET {"d_first", "d_second"}
    OBVIOUS
  <2> QED
    BY <2>1, <2>2, <2>3, ProgramOnScratch DEF Sorts
<1> QED
  BY <1>1, <1>2, <1>3, <1>4, <1>5 DEF CallNames

-----------------------------------------------------------------------------
(* What a buffer will hold when the first n operations of a stream are done *)

\* The last of them that writes b, or what b holds now, is of the call id, and
\* so is every later one that writes it.
Good(q, n, b, v, id) ==
    \E i \in 0 .. n :
        /\ IF i = 0 THEN v = {id} ELSE q[i].id = id /\ b \in q[i].to
        /\ \A j \in (i + 1) .. n : b \in q[j].to => q[j].id = id

LEMMA GoodNow ==
    ASSUME NEW q, NEW b, NEW v, NEW id, Good(q, 0, b, v, id) PROVE v = {id}
  BY DEF Good

LEMMA GoodAppend ==
    ASSUME NEW S, NEW q \in Seq(S), NEW o \in S, NEW n \in 0 .. Len(q), NEW b, NEW v, NEW id,
           Good(q, n, b, v, id)
    PROVE  Good(Append(q, o), n, b, v, id)
<1>1. \A j \in 1 .. n : Append(q, o)[j] = q[j]
  OBVIOUS
<1> DEFINE r == Append(q, o)
<1> HIDE DEF r
<1>2. PICK i \in 0 .. n : /\ IF i = 0 THEN v = {id} ELSE q[i].id = id /\ b \in q[i].to
                          /\ \A j \in (i + 1) .. n : b \in q[j].to => q[j].id = id
  BY DEF Good
<1>3. \A j \in (i + 1) .. n : r[j] = q[j]
  BY <1>1 DEF r
<1>4. i # 0 => r[i] = q[i]
  BY <1>1 DEF r
<1>5. Good(r, n, b, v, id)
  BY <1>2, <1>3, <1>4 DEF Good
<1> QED
  BY <1>5 DEF r

\* An operation of the call itself, or one that does not write the buffer.
LEMMA GoodAppendOwn ==
    ASSUME NEW S, NEW q \in Seq(S), NEW o \in S, NEW b, NEW v, NEW id,
           Good(q, Len(q), b, v, id), b \in o.to => o.id = id
    PROVE  Good(Append(q, o), Len(q) + 1, b, v, id)
<1> DEFINE r == Append(q, o)
           n == Len(q)
<1>1. /\ n \in Nat /\ r[n + 1] = o /\ \A j \in 1 .. n : r[j] = q[j]
  OBVIOUS
<1>2. PICK i \in 0 .. n : /\ IF i = 0 THEN v = {id} ELSE q[i].id = id /\ b \in q[i].to
                          /\ \A j \in (i + 1) .. n : b \in q[j].to => q[j].id = id
  BY DEF Good
<1> HIDE DEF r, n
<1>3. \A j \in (i + 1) .. (n + 1) : b \in r[j].to => r[j].id = id
  BY <1>1, <1>2
<1>4. IF i = 0 THEN v = {id} ELSE r[i].id = id /\ b \in r[i].to
  BY <1>1, <1>2
<1>5. i \in 0 .. (n + 1)
  BY <1>1
<1>6. Good(r, n + 1, b, v, id)
  BY <1>3, <1>4, <1>5 DEF Good
<1> QED
  BY <1>6 DEF r, n

LEMMA GoodWritten ==
    ASSUME NEW S, NEW q \in Seq(S), NEW o \in S, NEW b, NEW v, NEW id, b \in o.to, o.id = id
    PROVE  Good(Append(q, o), Len(q) + 1, b, v, id)
<1> DEFINE r == Append(q, o)
           n == Len(q) + 1
<1>1. n \in Nat /\ n # 0 /\ r[n] = o
  OBVIOUS
<1> HIDE DEF r, n
<1>2. Good(r, n, b, v, id)
  BY <1>1 DEF Good
<1> QED
  BY <1>2 DEF r, n

\* The first operation is carried out, and the buffer holds w afterwards.
LEMMA GoodTail ==
    ASSUME NEW S, NEW q \in Seq(S), NEW n \in 1 .. Len(q), NEW b, NEW v, NEW w, NEW id,
           Good(q, n, b, v, id),
           b \notin q[1].to => w = v,
           b \in q[1].to /\ q[1].id = id => w = {id}
    PROVE  Good(Tail(q), n - 1, b, w, id)
<1> DEFINE r == Tail(q)
<1>1. \A j \in 1 .. (n - 1) : r[j] = q[j + 1]
  OBVIOUS
<1>2. PICK i \in 0 .. n : /\ IF i = 0 THEN v = {id} ELSE q[i].id = id /\ b \in q[i].to
                          /\ \A j \in (i + 1) .. n : b \in q[j].to => q[j].id = id
  BY DEF Good
<1> HIDE DEF r
<1>3. \A j \in (i + 1) .. n : j \in 2 .. n => r[j - 1] = q[j]
  BY <1>1
<1>4. CASE i \in {0, 1}
  <2>1. w = {id}
    BY <1>2, <1>4
  <2>2. \A j \in 1 .. (n - 1) : b \in r[j].to => r[j].id = id
    BY <1>1, <1>2, <1>4
  <2>3. Good(r, n - 1, b, w, id)
    <3>1. 0 \in 0 .. (n - 1)
      OBVIOUS
    <3> QED
      BY <2>1, <2>2, <3>1 DEF Good
  <2> QED
    BY <2>3 DEF r
<1>5. CASE i > 1
  <2>1. i - 1 \in 0 .. (n - 1) /\ i - 1 # 0 /\ r[i - 1] = q[i]
    BY <1>1, <1>5
  <2>2. \A j \in i .. (n - 1) : b \in r[j].to => r[j].id = id
    BY <1>1, <1>2, <1>5
  <2>3. Good(r, n - 1, b, w, id)
    BY <1>2, <2>1, <2>2 DEF Good
  <2> QED
    BY <2>3 DEF r
<1> QED
  BY <1>4, <1>5

-----------------------------------------------------------------------------
(* What a step may do to the calls and to the data *)

\* Every session ends; a configuration is made anew; a call begins.
Ended ==
    /\ stream' = [s \in Streams |-> <<>>] /\ data' = [b \in Cells |-> {0}] /\ okay' = 0
    /\ met' = met \cup Busy(Sorts)
    /\ UNCHANGED <<pc, call, lastId>>

Remade(k) == data' = [b \in Cells |-> IF b[1] = k THEN {0} ELSE data[b]]

Reconfigured(k) ==
    /\ Remade(k) /\ okay' = IF k = "waveform" THEN 0 ELSE okay
    /\ met' = met \cup Busy({k})
    /\ UNCHANGED <<stream, pc, call, lastId>>

Begun(c, name) ==
    /\ pc[c] = "idle" /\ Begin(c, name)
    /\ UNCHANGED data \/ (name = "batch" /\ Remade("batch"))
    /\ UNCHANGED <<stream, okay>>

LEMMA WhatChanges ==
    ASSUME [Next]_vars
    PROVE  \/ UNCHANGED <<stream, data, pc, call, met, lastId, okay>>
           \/ Ended
           \/ \E k \in Kinds : Reconfigured(k)
           \/ \E c \in Charts, name \in CallNames : Begun(c, name)
           \/ \E c \in Charts : Step(c) \/ Fail(c) \/ LaunchUnallocated(c) \/ Return(c)
           \/ \E s \in Streams : Device(s)
<1>1. ASSUME NEW c \in Charts, GpuSessionInit(c) \/ Leave(c)
      PROVE  UNCHANGED <<stream, data, pc, call, met, lastId, okay>>
  BY <1>1 DEF GpuSessionInit, Leave
<1>2. ASSUME NEW c \in Charts, GpuSessionClose(c)
      PROVE  UNCHANGED <<stream, data, pc, call, met, lastId, okay>> \/ Ended
  BY <1>2 DEF GpuSessionClose, Shutdown, Ended, Sorts
<1>3. ASSUME NEW c \in Charts, NEW name \in Uses[c], Refuse(c, name)
      PROVE  UNCHANGED <<stream, data, pc, call, met, lastId, okay>>
  BY <1>3 DEF Refuse
<1>4. ASSUME NEW c \in Charts, NEW name \in Uses[c], Start(c, name)
      PROVE  name \in CallNames /\ Begun(c, name)
  BY <1>4, ChartsAssumption DEF Start, MayCall, Begun
<1>5. ASSUME NEW c \in Charts, NEW k \in Kinds, Configure(c, k)
      PROVE  UNCHANGED <<stream, data, pc, call, met, lastId, okay>> \/ Reconfigured(k)
  BY <1>5 DEF Configure, Remake, Reconfigured, Remade
<1>6. ASSUME NEW c \in Charts, StartBatch(c)
      PROVE  Reconfigured("batch") \/ Begun(c, "batch")
  <2>1. pc[c] = "idle" /\ Remade("batch") /\ UNCHANGED <<stream, okay>>
    BY <1>6 DEF StartBatch, MayCall, Remake, Remade
  <2>2. \/ Begin(c, "batch")
        \/ met' = met \cup Busy({"batch"}) /\ UNCHANGED <<pc, call, lastId>>
    BY <1>6 DEF StartBatch
  <2> QED
    BY <2>1, <2>2 DEF Reconfigured, Begun
<1>7. CASE UNCHANGED vars
  BY <1>7 DEF vars
<1> QED
  BY <1>1, <1>2, <1>3, <1>4, <1>5, <1>6, <1>7 DEF Next, Kinds, CallNames

-----------------------------------------------------------------------------
(* Where the operations that are waiting work, and which calls are in progress *)

Queued == [id : Nat, from : SUBSET Cells, to : SUBSET Cells]

\* An operation waiting on s works on buffers of the calls that use s.
Placed(s, o) == \E c \in Charts : o.from \cup o.to \subseteq Buffers(c, KindOn(s))

StreamsInv ==
    /\ stream \in [Streams -> Seq(Queued)] /\ DOMAIN data = Cells
    /\ \A s \in Streams : \A i \in DOMAIN stream[s] :
          stream[s][i].id <= lastId /\ Placed(s, stream[s][i])

\* Two calls of one configuration have met, and no two have the same number.
BusyInv ==
    /\ lastId \in Nat
    /\ \A c \in Charts : pc[c] # "idle" =>
          /\ call[c].kind \in Sorts /\ call[c].id \in 1 .. lastId
          /\ call[c].todo \in Seq(Deeds(c, call[c].kind))
          /\ pc[c] = "run" => ~ call[c].ok
          /\ \A d \in Charts \ {c} : pc[d] # "idle" =>
                /\ call[d].id # call[c].id
                /\ call[d].kind = call[c].kind /\ call[c].kind \in Kinds => c \in met

\* The step of a call: what it enqueues and what is left of it.
LEMMA StepIs ==
    ASSUME CallInv, StreamsInv, BusyInv, NEW c \in Charts, Step(c)
    PROVE  LET op == Head(call[c].todo)
           IN /\ pc[c] = "run" /\ call[c].todo # <<>> /\ op \in Deeds(c, call[c].kind)
              /\ op.op \in {"read", "sync"} => Waited(op.s)
              /\ op.op # "enqueue" => stream' = stream
              /\ op.op = "enqueue" =>
                    /\ op.s \in Streams \cap StreamsOf(call[c].kind)
                    /\ \A s \in Streams \ {op.s} : stream'[s] = stream[s]
                    /\ [id |-> call[c].id, from |-> op.from, to |-> op.to] \in Queued
                    /\ stream' = [stream EXCEPT ![op.s] =
                          Append(@, [id |-> call[c].id, from |-> op.from, to |-> op.to])]
              /\ call'[c].id = call[c].id /\ call'[c].kind = call[c].kind
              /\ call'[c].floor = call[c].floor /\ call'[c].clean = call[c].clean
              /\ call'[c].todo = Tail(call[c].todo)
              /\ call'[c].ok = (Tail(call[c].todo) = <<>>)
              /\ call'[c].out = IF op.op = "read" THEN call[c].out \cup UNION {data[b] : b \in op.from}
                                                  ELSE call[c].out
              /\ pc'[c] = IF Tail(call[c].todo) = <<>> THEN "back" ELSE "run"
              /\ \A d \in Charts \ {c} : call'[d] = call[d] /\ pc'[d] = pc[d]
              /\ UNCHANGED <<data, met, lastId, okay>>
<1> DEFINE op   == Head(call[c].todo)
           rest == Tail(call[c].todo)
<1>1. pc[c] = "run" /\ call[c].todo # <<>> /\ op \in Deeds(c, call[c].kind)
  <2>1. pc[c] = "run" /\ call[c].todo # <<>> /\ call[c].todo \in Seq(Deeds(c, call[c].kind))
    BY DEF Step, CallInv, BusyInv
  <2> QED
    BY <2>1
<1>2. /\ op.op \in {"read", "sync"} => Waited(op.s)
      /\ op.op # "enqueue" => stream' = stream
      /\ op.op = "enqueue" => stream' = [stream EXCEPT ![op.s] =
              Append(@, [id |-> call[c].id, from |-> op.from, to |-> op.to])]
      /\ call' = [call EXCEPT ![c] =
                        [id |-> @.id, kind |-> @.kind, todo |-> rest, ok |-> rest = <<>>,
                         floor |-> @.floor, clean |-> @.clean,
                         out |-> IF op.op = "read" THEN @.out \cup UNION {data[b] : b \in op.from} ELSE @.out]]
      /\ pc' = [pc EXCEPT ![c] = IF rest = <<>> THEN "back" ELSE "run"]
      /\ UNCHANGED <<data, met, lastId, okay>>
  BY DEF Step, Waiting
<1>3. DOMAIN call = Charts /\ DOMAIN pc = Charts /\ call[c].id \in Nat
  BY <1>1 DEF CallInv, BusyInv
<1>4. op.op = "enqueue" =>
         /\ op.s \in Streams \cap StreamsOf(call[c].kind)
         /\ op.from \subseteq Cells /\ op.to \subseteq Cells
  BY <1>1, <1>3 DEF Deeds, StreamsOf, Buffers, Sorts, Kinds, Streams, BusyInv
<1> HIDE DEF op, rest
<1>5. op.op = "enqueue" => [id |-> call[c].id, from |-> op.from, to |-> op.to] \in Queued
  BY <1>3, <1>4 DEF Queued
<1>6. op.op = "enqueue" => \A s \in Streams \ {op.s} : stream'[s] = stream[s]
  BY <1>2, <1>4 DEF StreamsInv
<1>7. /\ call'[c].id = call[c].id /\ call'[c].kind = call[c].kind
      /\ call'[c].floor = call[c].floor /\ call'[c].clean = call[c].clean
      /\ call'[c].todo = rest /\ call'[c].ok = (rest = <<>>)
      /\ call'[c].out = IF op.op = "read" THEN call[c].out \cup UNION {data[b] : b \in op.from}
                                          ELSE call[c].out
  BY <1>2, <1>3
<1>8. /\ pc'[c] = IF rest = <<>> THEN "back" ELSE "run"
      /\ \A d \in Charts \ {c} : call'[d] = call[d] /\ pc'[d] = pc[d]
  BY <1>2, <1>3
<1> QED
  BY <1>1, <1>2, <1>4, <1>5, <1>6, <1>7, <1>8 DEF op, rest

-----------------------------------------------------------------------------
(* The steps of the calls and of the device *)

LEMMA BeginIs ==
    ASSUME CallInv, NEW c \in Charts, NEW name \in CallNames, Begin(c, name), lastId \in Nat
    PROVE  /\ lastId' = lastId + 1 /\ pc'[c] = "run" /\ KindOf(name) \in Sorts
           /\ call'[c].id = lastId + 1 /\ call'[c].kind = KindOf(name)
           /\ call'[c].todo = Program(c)[name] /\ call'[c].todo \in Seq(Deeds(c, KindOf(name)))
           /\ call'[c].out = {} /\ ~ call'[c].ok /\ call'[c].floor = okay
           /\ call'[c].clean = (stream["fft"] = <<>> /\ stream["post"] = <<>>)
           /\ \A d \in Charts \ {c} : pc'[d] = pc[d] /\ call'[d] = call[d]
           /\ met \subseteq met'
           /\ \A d \in Charts \ {c} : pc[d] # "idle" /\ call[d].kind = KindOf(name) /\ KindOf(name) \in Kinds
                                      => c \in met' /\ d \in met'
<1> DEFINE k    == KindOf(name)
           same == IF k \in Kinds THEN Busy({k}) ELSE {}
<1>1. /\ lastId' = lastId + 1
      /\ call' = [call EXCEPT ![c] = [id |-> lastId + 1, kind |-> k, todo |-> Program(c)[name],
                                      out |-> {}, ok |-> FALSE, floor |-> okay,
                                      clean |-> stream["fft"] = <<>> /\ stream["post"] = <<>>]]
      /\ met' = met \cup same \cup (IF same = {} THEN {} ELSE {c})
      /\ pc' = [pc EXCEPT ![c] = "run"]
  BY DEF Begin
<1>2. DOMAIN call = Charts /\ DOMAIN pc = Charts
  BY DEF CallInv
<1>3. k \in Sorts /\ Program(c)[name] \in Seq(Deeds(c, k))
  BY ProgramsAre
<1> QED
  BY <1>1, <1>2, <1>3 DEF Busy

LEMMA ReturnIs ==
    ASSUME CallInv, NEW c \in Charts, Return(c)
    PROVE  /\ pc[c] = "back" /\ pc'[c] = "idle"
           /\ \A d \in Charts \ {c} : pc'[d] = pc[d] /\ call'[d] = call[d] /\ (d \in met' <=> d \in met)
           /\ data' = [b \in Cells |-> IF b[1] = c THEN {0} ELSE data[b]]
           /\ okay' = IF call[c].ok /\ call[c].kind = "waveform" /\ call[c].clean /\ c \notin met
                      THEN call[c].id ELSE okay
           /\ UNCHANGED <<stream, lastId>>
  BY DEF Return, CallInv

LEMMA SeqAppend ==
    ASSUME NEW S, NEW q \in Seq(S), NEW o \in S
    PROVE  /\ Append(q, o) \in Seq(S) /\ DOMAIN Append(q, o) = 1 .. (Len(q) + 1)
           /\ Len(Append(q, o)) = Len(q) + 1 /\ Append(q, o)[Len(q) + 1] = o
           /\ DOMAIN q = 1 .. Len(q) /\ Len(q) \in Nat
           /\ \A i \in 1 .. Len(q) : Append(q, o)[i] = q[i] /\ q[i] \in S
  OBVIOUS

LEMMA SeqTail ==
    ASSUME NEW S, NEW q \in Seq(S), q # <<>>
    PROVE  /\ Tail(q) \in Seq(S) /\ DOMAIN Tail(q) = 1 .. (Len(q) - 1)
           /\ Len(Tail(q)) = Len(q) - 1 /\ Head(q) = q[1] /\ q[1] \in S
           /\ DOMAIN q = 1 .. Len(q) /\ Len(q) \in Nat /\ Len(q) > 0
           /\ \A i \in 1 .. (Len(q) - 1) : Tail(q)[i] = q[i + 1]
           /\ \A i \in 1 .. Len(q) : q[i] \in S
  OBVIOUS

\* The kernel RunCwtOnGpu launches even if it has no buffer for the result.
LEMMA LaunchIs ==
    ASSUME CallInv, StreamsInv, BusyInv, NEW c \in Charts, LaunchUnallocated(c)
    PROVE  LET o == [id |-> call[c].id, from |-> Coefficients, to |-> DominantScale(c)]
           IN /\ pc[c] = "run" /\ call[c].kind = "cwt" /\ o \in Queued /\ o.id <= lastId
              /\ o.from \cup o.to \subseteq Buffers(c, "cwt")
              /\ stream' = [stream EXCEPT !["cwt"] = Append(@, o)]
              /\ pc' = [pc EXCEPT ![c] = "back"] /\ pc'[c] = "back"
              /\ \A d \in Charts \ {c} : pc'[d] = pc[d]
              /\ UNCHANGED <<data, call, met, lastId, okay>>
<1> DEFINE o == [id |-> call[c].id, from |-> Coefficients, to |-> DominantScale(c)]
<1>1. /\ pc[c] = "run" /\ call[c].kind = "cwt"
      /\ stream' = [stream EXCEPT !["cwt"] = Append(@, o)]
      /\ pc' = [pc EXCEPT ![c] = "back"]
      /\ UNCHANGED <<data, call, met, lastId, okay>>
  BY DEF LaunchUnallocated, Unchecked, Waiting, FindDominantKernel, Kernel, Op
<1>2. call[c].id \in 1 .. lastId /\ lastId \in Nat
  BY <1>1 DEF BusyInv
<1>3. Coefficients \in SUBSET Buffers(c, "cwt") /\ DominantScale(c) \in SUBSET Buffers(c, "cwt")
  <2>1. Coefficients = {<<"cwt", "d_cwt_coeffs">>, <<"cwt", "d_scales">>}
    BY DEF Coefficients, Of
  <2>2. DominantScale(c) = {<<c, "d_dominant_temp">>}
    BY DEF DominantScale, Of
  <2>3. "d_dominant_temp" \in Scratch /\ "d_dominant_temp" \in Temporary("cwt")
    BY DEF Scratch, Temporary
  <2>4. Coefficients \in SUBSET Buffers(c, "cwt")
    BY <2>1, CellsAre DEF Buffers, Kinds
  <2> QED
    BY <2>2, <2>3, <2>4, TemporaryBuffers
<1>4. Buffers(c, "cwt") \subseteq Cells
  BY DEF Buffers
<1>5. DOMAIN pc = Charts
  BY DEF CallInv
<1> QED
  BY <1>1, <1>2, <1>3, <1>4, <1>5 DEF Queued

LEMMA StreamsStep ==
    ASSUME CallInv, StreamsInv, BusyInv, [Next]_vars
    PROVE  StreamsInv'
<1>0. lastId \in Nat /\ \A s \in Streams : stream[s] \in Seq(Queued)
  BY DEF BusyInv, StreamsInv
<1>1. ASSUME UNCHANGED stream, lastId' \in Nat, lastId' >= lastId, DOMAIN data' = Cells
      PROVE  StreamsInv'
  <2>1. \A s \in Streams : \A i \in DOMAIN stream[s] : stream[s][i].id \in Nat
    <3>1. \A q \in Seq(Queued) : \A i \in DOMAIN q : q[i] \in Queued
      OBVIOUS
    <3> QED
      BY <1>0, <3>1 DEF Queued
  <2>2. \A s \in Streams : \A i \in DOMAIN stream[s] : Placed(s, stream[s][i])' <=> Placed(s, stream[s][i])
    BY <1>1 DEF Placed
  <2>3. \A s \in Streams : \A i \in DOMAIN stream[s] : stream[s][i].id <= lastId'
    BY <1>0, <1>1, <2>1 DEF StreamsInv
  <2> QED
    BY <1>1, <2>2, <2>3 DEF StreamsInv
<1>2. CASE Ended
  BY <1>2 DEF Ended, StreamsInv
<1>3. ASSUME NEW k \in Kinds, Reconfigured(k) PROVE StreamsInv'
  BY <1>0, <1>1, <1>3 DEF Reconfigured, Remade
<1>4. ASSUME NEW c \in Charts, NEW name \in CallNames, Begun(c, name) PROVE StreamsInv'
  <2>1. lastId' = lastId + 1
    BY <1>4 DEF Begun, Begin
  <2> QED
    BY <1>0, <1>1, <1>4, <2>1 DEF Begun, Remade, StreamsInv
<1>5. ASSUME NEW c \in Charts, Step(c) PROVE StreamsInv'
  <2> DEFINE op == Head(call[c].todo)
             o  == [id |-> call[c].id, from |-> op.from, to |-> op.to]
             q  == stream[op.s]
  <2>1. UNCHANGED <<data, lastId>>
    BY <1>5, StepIs
  <2>2. CASE op.op # "enqueue"
    BY <1>0, <1>1, <1>5, <2>1, <2>2, StepIs DEF StreamsInv
  <2>3. CASE op.op = "enqueue"
    <3>1. /\ op.s \in Streams /\ o \in Queued /\ \A s \in Streams \ {op.s} : stream'[s] = stream[s]
          /\ stream' = [stream EXCEPT ![op.s] = Append(@, o)]
          /\ op \in Deeds(c, call[c].kind) /\ op.s \in StreamsOf(call[c].kind) /\ pc[c] = "run"
      BY <1>5, <2>3, StepIs
    <3>2. call[c].kind \in Sorts /\ call[c].id \in 1 .. lastId
      BY <3>1 DEF BusyInv
    <3>3. KindOn(op.s) = call[c].kind
      BY <3>1, <3>2 DEF KindOn, StreamsOf, Sorts, Kinds
    <3>4. o.id <= lastId /\ Placed(op.s, o)
      BY <1>0, <2>3, <3>1, <3>2, <3>3 DEF Placed, Deeds
    <3> HIDE DEF op, o
    <3>5. stream' \in [Streams -> Seq(Queued)]
      BY <1>0, <3>1 DEF StreamsInv
    <3>6. stream'[op.s] = Append(q, o)
      BY <3>1 DEF StreamsInv
    <3>7. \A i \in DOMAIN stream'[op.s] : stream'[op.s][i].id <= lastId /\ Placed(op.s, stream'[op.s][i])
      <4>1. q \in Seq(Queued)
        BY <1>0, <3>1
      <4>2. \A i \in 1 .. Len(q) : q[i].id <= lastId /\ Placed(op.s, q[i])
        BY <3>1, <4>1, SeqAppend DEF StreamsInv
      <4> QED
        BY <3>1, <3>4, <3>6, <4>1, <4>2, SeqAppend
    <3>8. \A s \in Streams : \A x : Placed(s, x)' <=> Placed(s, x)
      BY DEF Placed
    <3> QED
      BY <2>1, <3>1, <3>5, <3>7, <3>8 DEF StreamsInv
  <2> QED
    BY <2>2, <2>3
<1>6. ASSUME NEW c \in Charts, Fail(c) \/ Return(c) PROVE StreamsInv'
  BY <1>0, <1>1, <1>6 DEF Fail, Return, StreamsInv
<1>7. ASSUME NEW s \in Streams, Device(s) PROVE StreamsInv'
  <2>1. /\ stream[s] # <<>> /\ stream' = [stream EXCEPT ![s] = Tail(@)] /\ DOMAIN data' = Cells
        /\ lastId' = lastId
    BY <1>7 DEF Device
  <2>2. stream' \in [Streams -> Seq(Queued)]
    BY <1>0, <2>1, SeqTail DEF StreamsInv
  <2>3. stream'[s] = Tail(stream[s]) /\ \A t \in Streams \ {s} : stream'[t] = stream[t]
    BY <2>1 DEF StreamsInv
  <2>4. \A i \in DOMAIN stream'[s] : stream'[s][i].id <= lastId /\ Placed(s, stream'[s][i])
    <3>1. \A i \in 1 .. Len(stream[s]) : stream[s][i].id <= lastId /\ Placed(s, stream[s][i])
      BY <1>0, <2>1, SeqTail DEF StreamsInv
    <3>2. /\ DOMAIN Tail(stream[s]) = 1 .. (Len(stream[s]) - 1) /\ Len(stream[s]) \in Nat
          /\ \A i \in 1 .. (Len(stream[s]) - 1) : Tail(stream[s])[i] = stream[s][i + 1]
      BY <1>0, <2>1, SeqTail
    <3>3. \A i \in 1 .. (Len(stream[s]) - 1) : i + 1 \in 1 .. Len(stream[s])
      BY <3>2
    <3> QED
      BY <2>3, <3>1, <3>2, <3>3
  <2>5. \A t \in Streams : \A x : Placed(t, x)' <=> Placed(t, x)
    BY DEF Placed
  <2> QED
    BY <2>1, <2>2, <2>3, <2>4, <2>5 DEF StreamsInv
<1>8. CASE UNCHANGED <<stream, data, pc, call, met, lastId, okay>>
  BY <1>0, <1>1, <1>8 DEF StreamsInv
<1>9. ASSUME NEW c \in Charts, LaunchUnallocated(c) PROVE StreamsInv'
  <2> DEFINE o == [id |-> call[c].id, from |-> Coefficients, to |-> DominantScale(c)]
             q == stream["cwt"]
  <2>1. /\ o \in Queued /\ o.id <= lastId /\ o.from \cup o.to \subseteq Buffers(c, "cwt")
        /\ stream' = [stream EXCEPT !["cwt"] = Append(@, o)] /\ UNCHANGED <<data, lastId>>
    BY <1>9, LaunchIs
  <2>2. "cwt" \in Streams /\ KindOn("cwt") = "cwt"
    BY DEF Streams, KindOn
  <2>3. Placed("cwt", o)
    BY <2>1, <2>2 DEF Placed
  <2> HIDE DEF o
  <2>4. stream' \in [Streams -> Seq(Queued)]
    BY <1>0, <2>1, <2>2 DEF StreamsInv
  <2>5. stream'["cwt"] = Append(q, o) /\ \A s \in Streams \ {"cwt"} : stream'[s] = stream[s]
    BY <2>1, <2>2 DEF StreamsInv
  <2>6. \A i \in DOMAIN stream'["cwt"] : stream'["cwt"][i].id <= lastId /\ Placed("cwt", stream'["cwt"][i])
    <3>1. q \in Seq(Queued)
      BY <1>0, <2>2
    <3>2. \A i \in 1 .. Len(q) : q[i].id <= lastId /\ Placed("cwt", q[i])
      BY <2>2, <3>1, SeqAppend, <2>1 DEF StreamsInv
    <3> QED
      BY <2>1, <2>3, <2>5, <3>1, <3>2, SeqAppend
  <2>7. \A s \in Streams : \A x : Placed(s, x)' <=> Placed(s, x)
    BY DEF Placed
  <2> QED
    BY <2>1, <2>4, <2>5, <2>6, <2>7 DEF StreamsInv
<1> QED
  BY <1>2, <1>3, <1>4, <1>5, <1>6, <1>7, <1>8, <1>9, WhatChanges

LEMMA BusyStep ==
    ASSUME CallInv, StreamsInv, BusyInv, [Next]_vars
    PROVE  BusyInv'
<1>0. lastId \in Nat
  BY DEF BusyInv
<1>1. ASSUME UNCHANGED <<pc, call, lastId>>, met \subseteq met' PROVE BusyInv'
  <2>1. \A k : \A c \in Charts : Deeds(c, k)' = Deeds(c, k)
    BY DEF Deeds, Mine, Operation
  <2> QED
    BY <1>1, <2>1 DEF BusyInv
<1>2. CASE Ended
  BY <1>1, <1>2 DEF Ended
<1>3. ASSUME NEW k \in Kinds, Reconfigured(k) PROVE BusyInv'
  BY <1>1, <1>3 DEF Reconfigured
<1>4. ASSUME NEW c \in Charts, NEW name \in CallNames, Begun(c, name) PROVE BusyInv'
  <2>1. Begin(c, name) /\ pc[c] = "idle"
    BY <1>4 DEF Begun
  <2> SUFFICES ASSUME NEW d \in Charts, pc'[d] # "idle"
               PROVE  /\ call'[d].kind \in Sorts /\ call'[d].id \in 1 .. lastId'
                      /\ call'[d].todo \in Seq(Deeds(d, call'[d].kind))
                      /\ pc'[d] = "run" => ~ call'[d].ok
                      /\ \A e \in Charts \ {d} : pc'[e] # "idle" =>
                            /\ call'[e].id # call'[d].id
                            /\ call'[e].kind = call'[d].kind /\ call'[d].kind \in Kinds => d \in met'
    BY <1>0, <2>1, BeginIs DEF BusyInv
  <2>2. CASE d = c
    <3>1. \A e \in Charts \ {c} : pc'[e] # "idle" =>
             call'[e].id \in 1 .. lastId /\ call'[e] = call[e] /\ pc[e] # "idle"
      BY <1>0, <2>1, BeginIs DEF BusyInv
    <3> QED
      BY <1>0, <2>1, <2>2, <3>1, BeginIs
  <2>3. CASE d # c
    <3>1. pc[d] # "idle" /\ call'[d] = call[d] /\ pc'[d] = pc[d] /\ met \subseteq met' /\ lastId' = lastId + 1
      BY <1>0, <2>1, <2>3, BeginIs
    <3>2. /\ call[d].kind \in Sorts /\ call[d].id \in 1 .. lastId'
          /\ call[d].todo \in Seq(Deeds(d, call[d].kind)) /\ (pc[d] = "run" => ~ call[d].ok)
      BY <1>0, <3>1 DEF BusyInv
    <3>3. ASSUME NEW e \in Charts \ {d}, pc'[e] # "idle", e # c
          PROVE  /\ call'[e].id # call'[d].id
                 /\ call'[e].kind = call'[d].kind /\ call'[d].kind \in Kinds => d \in met'
      <4>1. pc[e] # "idle" /\ call'[e] = call[e]
        BY <1>0, <2>1, <3>3, BeginIs
      <4> QED
        BY <3>1, <3>3, <4>1 DEF BusyInv
    <3>4. /\ call'[c].id # call'[d].id
          /\ call'[c].kind = call'[d].kind /\ call'[d].kind \in Kinds => d \in met'
      <4>1. call[d].id \in 1 .. lastId
        BY <3>1 DEF BusyInv
      <4> QED
        BY <1>0, <2>1, <2>3, <3>1, <4>1, BeginIs
    <3> QED
      BY <3>1, <3>2, <3>3, <3>4
  <2> QED
    BY <2>2, <2>3
<1>5. ASSUME NEW c \in Charts, Step(c) PROVE BusyInv'
  <2>1. /\ pc[c] = "run" /\ call'[c].id = call[c].id /\ call'[c].kind = call[c].kind
        /\ call'[c].todo = Tail(call[c].todo) /\ call[c].todo # <<>>
        /\ pc'[c] = IF Tail(call[c].todo) = <<>> THEN "back" ELSE "run"
        /\ call'[c].ok = (Tail(call[c].todo) = <<>>)
        /\ \A d \in Charts \ {c} : call'[d] = call[d] /\ pc'[d] = pc[d]
        /\ UNCHANGED <<met, lastId>>
    BY <1>5, StepIs
  <2>2. call[c].todo \in Seq(Deeds(c, call[c].kind))
    BY <2>1 DEF BusyInv
  <2>3. call'[c].todo \in Seq(Deeds(c, call'[c].kind))
    <3>1. Tail(call[c].todo) \in Seq(Deeds(c, call[c].kind))
      BY <2>1, <2>2, SeqTail
    <3> QED
      BY <2>1, <3>1
  <2>4. pc'[c] = "run" => ~ call'[c].ok
    BY <2>1
  <2>5. \A d \in Charts : pc'[d] # "idle" => pc[d] # "idle" /\ call'[d].id = call[d].id /\ call'[d].kind = call[d].kind
    BY <2>1
  <2>6. \A d \in Charts : pc'[d] # "idle" => call'[d].todo \in Seq(Deeds(d, call'[d].kind))
    BY <2>1, <2>3 DEF BusyInv
  <2>7. \A d \in Charts : pc'[d] = "run" => ~ call'[d].ok
    BY <2>1, <2>4 DEF BusyInv
  <2>8. \A d, e \in Charts : d # e /\ pc'[d] # "idle" /\ pc'[e] # "idle" =>
          /\ call'[e].id # call'[d].id
          /\ call'[e].kind = call'[d].kind /\ call'[d].kind \in Kinds => d \in met'
    <3>1. \A d, e \in Charts : d # e /\ pc[d] # "idle" /\ pc[e] # "idle" =>
             /\ call[e].id # call[d].id
             /\ call[e].kind = call[d].kind /\ call[d].kind \in Kinds => d \in met
      BY DEF BusyInv
    <3> SUFFICES ASSUME NEW d \in Charts, NEW e \in Charts, d # e, pc'[d] # "idle", pc'[e] # "idle"
                 PROVE  /\ call'[e].id # call'[d].id
                        /\ call'[e].kind = call'[d].kind /\ call'[d].kind \in Kinds => d \in met'
      OBVIOUS
    <3>2. /\ call'[d].id = call[d].id /\ call'[d].kind = call[d].kind /\ pc[d] # "idle"
          /\ call'[e].id = call[e].id /\ call'[e].kind = call[e].kind /\ pc[e] # "idle"
      BY <2>5
    <3> QED
      BY <2>1, <3>1, <3>2
  <2>9. \A d \in Charts : pc'[d] # "idle" => call'[d].kind \in Sorts /\ call'[d].id \in 1 .. lastId'
    <3>1. \A d \in Charts : pc[d] # "idle" => call[d].kind \in Sorts /\ call[d].id \in 1 .. lastId
      BY DEF BusyInv
    <3> QED
      BY <2>1, <2>5, <3>1
  <2>10. \A k : \A d \in Charts : Deeds(d, k)' = Deeds(d, k)
    BY DEF Deeds, Mine, Operation
  <2> QED
    BY <1>0, <2>1, <2>6, <2>7, <2>8, <2>9, <2>10 DEF BusyInv
<1>6. ASSUME NEW c \in Charts, Fail(c) \/ LaunchUnallocated(c) PROVE BusyInv'
  <2>1. /\ pc[c] = "run" /\ pc' = [pc EXCEPT ![c] = "back"] /\ UNCHANGED <<call, met, lastId>>
    BY <1>6 DEF Fail, LaunchUnallocated
  <2>2. \A d \in Charts : (pc'[d] # "idle" => pc[d] # "idle") /\ (pc'[d] = "run" => pc[d] = "run")
    BY <2>1 DEF CallInv
  <2> QED
    BY <2>1, <2>2 DEF BusyInv
<1>7. ASSUME NEW c \in Charts, Return(c) PROVE BusyInv'
  <2>1. /\ pc'[c] = "idle"
        /\ \A d \in Charts \ {c} : pc'[d] = pc[d] /\ call'[d] = call[d] /\ (d \in met' <=> d \in met)
        /\ lastId' = lastId
    BY <1>7, ReturnIs
  <2> QED
    BY <2>1 DEF BusyInv
<1>8. ASSUME NEW s \in Streams, Device(s) PROVE BusyInv'
  BY <1>1, <1>8 DEF Device
<1>9. CASE UNCHANGED <<stream, data, pc, call, met, lastId, okay>>
  BY <1>1, <1>9
<1> QED
  BY <1>2, <1>3, <1>4, <1>5, <1>6, <1>7, <1>8, <1>9, WhatChanges

-----------------------------------------------------------------------------
(* A call that works on one stream and meets no other *)

Home(k) == IF k = "none" THEN "default" ELSE k

\* Its operations that wait read what comes from itself alone, when their turn
\* comes; so will those it has still to enqueue; and it has read, or will.
OwnRun(c) ==
    LET id   == call[c].id
        q    == stream[Home(call[c].kind)]
        todo == call[c].todo
    IN /\ \A j \in DOMAIN q : q[j].id = id =>
             /\ q[j].from \subseteq Buffers(c, call[c].kind)
             /\ \A b \in q[j].from : Good(q, j - 1, b, data[b], id)
       /\ \A i \in DOMAIN todo : \A b \in todo[i].from :
             (\E j \in 1 .. (i - 1) : Writes(todo[j], b)) \/ Good(q, Len(q), b, data[b], id)
       /\ call[c].out \in {{}, {id}}
       /\ call[c].out = {id} \/ \E i \in DOMAIN todo : todo[i].op = "read"

Undisturbed(c) == c \notin met /\ call[c].kind # "waveform"

OwnInv ==
    \A c \in Charts : Undisturbed(c) =>
        /\ pc[c] = "run" => OwnRun(c)
        /\ pc[c] = "back" /\ call[c].ok => call[c].out = {call[c].id}

DataInv == StreamsInv /\ BusyInv /\ OwnInv

LEMMA HomeIs ==
    ASSUME NEW k \in Sorts, k # "waveform"
    PROVE  /\ Home(k) \in Streams /\ KindOn(Home(k)) = k
           /\ \A s \in Streams : KindOn(s) = k => s = Home(k)
           /\ \A s \in Streams : s \in StreamsOf(k) => s = Home(k)
  BY DEF Sorts, Kinds, Home, KindOn, Streams, StreamsOf

LEMMA KindsOfStreams ==
    ASSUME NEW s \in Streams, NEW k \in Sorts, s \in StreamsOf(k)
    PROVE  KindOn(s) = k
  BY DEF Sorts, Kinds, KindOn, Streams, StreamsOf

LEMMA KindOnIsSort == \A s \in Streams : KindOn(s) \in Sorts
  BY DEF Sorts, Kinds, KindOn, Streams

\* What others do to other buffers and streams is nothing to it.
LEMMA OwnKept ==
    ASSUME StreamsInv, BusyInv, NEW c \in Charts, pc[c] = "run", Undisturbed(c), OwnRun(c),
           call'[c] = call[c], stream'[Home(call[c].kind)] = stream[Home(call[c].kind)],
           \A b \in Buffers(c, call[c].kind) : data'[b] = data[b]
    PROVE  OwnRun(c)'
<1> DEFINE k    == call[c].kind
           id   == call[c].id
           q    == stream[Home(k)]
           todo == call[c].todo
<1>1. /\ \A j \in DOMAIN q : q[j].id = id =>
             /\ q[j].from \subseteq Buffers(c, k)
             /\ \A b \in q[j].from : Good(q, j - 1, b, data[b], id)
      /\ \A i \in DOMAIN todo : \A b \in todo[i].from :
             (\E j \in 1 .. (i - 1) : Writes(todo[j], b)) \/ Good(q, Len(q), b, data[b], id)
      /\ call[c].out \in {{}, {id}}
      /\ call[c].out = {id} \/ \E i \in DOMAIN todo : todo[i].op = "read"
  BY DEF OwnRun
<1>2. \A i \in DOMAIN todo : todo[i].from \subseteq Buffers(c, k)
  <2>1. todo \in Seq(Deeds(c, k))
    BY DEF BusyInv
  <2>2. \A i \in DOMAIN todo : todo[i] \in Deeds(c, k)
    BY <2>1
  <2> QED
    BY <2>2 DEF Deeds, Mine, Operation
<1>3. \A j \in DOMAIN q : q[j].id = id => \A b \in q[j].from : Good(q, j - 1, b, data'[b], id)
  BY <1>1
<1>4. \A i \in DOMAIN todo : \A b \in todo[i].from :
             (\E j \in 1 .. (i - 1) : Writes(todo[j], b)) \/ Good(q, Len(q), b, data'[b], id)
  BY <1>1, <1>2
<1>5. Buffers(c, k)' = Buffers(c, k)
  BY DEF Buffers
<1> QED
  BY <1>1, <1>3, <1>4, <1>5 DEF OwnRun

\* Another chart that works without a configuration shares its stream.
LEMMA OwnBeside ==
    ASSUME StreamsInv, BusyInv, NEW c \in Charts, pc[c] = "run", Undisturbed(c), OwnRun(c),
           call'[c] = call[c], data' = data, NEW o \in Queued, o.id # call[c].id,
           o.to \cap Buffers(c, call[c].kind) = {},
           stream'[Home(call[c].kind)] = Append(stream[Home(call[c].kind)], o)
    PROVE  OwnRun(c)'
<1> DEFINE k    == call[c].kind
           id   == call[c].id
           q    == stream[Home(k)]
           r    == Append(q, o)
           todo == call[c].todo
<1>1. /\ \A j \in DOMAIN q : q[j].id = id =>
             /\ q[j].from \subseteq Buffers(c, k)
             /\ \A b \in q[j].from : Good(q, j - 1, b, data[b], id)
      /\ \A i \in DOMAIN todo : \A b \in todo[i].from :
             (\E j \in 1 .. (i - 1) : Writes(todo[j], b)) \/ Good(q, Len(q), b, data[b], id)
      /\ call[c].out \in {{}, {id}}
      /\ call[c].out = {id} \/ \E i \in DOMAIN todo : todo[i].op = "read"
  BY DEF OwnRun
<1>2. \A i \in DOMAIN todo : todo[i].from \subseteq Buffers(c, k)
  <2>1. todo \in Seq(Deeds(c, k))
    BY DEF BusyInv
  <2>2. \A i \in DOMAIN todo : todo[i] \in Deeds(c, k)
    BY <2>1
  <2> QED
    BY <2>2 DEF Deeds, Mine, Operation
<1>3. k \in Sorts /\ q \in Seq(Queued)
  <2>1. k \in Sorts
    BY DEF BusyInv
  <2> QED
    BY <2>1, HomeIs DEF StreamsInv, Undisturbed
<1>4. /\ DOMAIN r = 1 .. (Len(q) + 1) /\ DOMAIN q = 1 .. Len(q) /\ Len(q) \in Nat
      /\ Len(r) = Len(q) + 1 /\ r[Len(q) + 1] = o /\ \A i \in 1 .. Len(q) : r[i] = q[i]
  BY <1>3, SeqAppend
<1>5. \A b : \A n \in 0 .. Len(q) : Good(q, n, b, data[b], id) => Good(r, n, b, data[b], id)
  BY <1>3, GoodAppend
<1>6. \A b \in Buffers(c, k) : Good(q, Len(q), b, data[b], id) => Good(r, Len(q) + 1, b, data[b], id)
  BY <1>3, GoodAppendOwn
<1> HIDE DEF r
<1>7. ASSUME NEW j \in DOMAIN r, r[j].id = id
      PROVE  r[j].from \subseteq Buffers(c, k) /\ \A b \in r[j].from : Good(r, j - 1, b, data[b], id)
  <2>1. j \in 1 .. Len(q) /\ j - 1 \in 0 .. Len(q)
    BY <1>4, <1>7
  <2> QED
    BY <1>1, <1>4, <1>5, <1>7, <2>1
<1>8. \A i \in DOMAIN todo : \A b \in todo[i].from :
             (\E j \in 1 .. (i - 1) : Writes(todo[j], b)) \/ Good(r, Len(r), b, data[b], id)
  BY <1>1, <1>2, <1>4, <1>6
<1>9. Buffers(c, k)' = Buffers(c, k) /\ stream'[Home(k)] = r
  BY DEF Buffers, r
<1> QED
  BY <1>1, <1>7, <1>8, <1>9 DEF OwnRun

\* The device carries out the first operation of its stream.
LEMMA OwnDevice ==
    ASSUME StreamsInv, BusyInv, NEW c \in Charts, pc[c] = "run", Undisturbed(c), OwnRun(c),
           Device(Home(call[c].kind))
    PROVE  OwnRun(c)'
<1> DEFINE k    == call[c].kind
           id   == call[c].id
           q    == stream[Home(k)]
           r    == Tail(q)
           todo == call[c].todo
           new  == IF q[1].from = {} THEN {q[1].id} ELSE UNION {data[b] : b \in q[1].from}
<1>1. /\ \A j \in DOMAIN q : q[j].id = id =>
             /\ q[j].from \subseteq Buffers(c, k)
             /\ \A b \in q[j].from : Good(q, j - 1, b, data[b], id)
      /\ \A i \in DOMAIN todo : \A b \in todo[i].from :
             (\E j \in 1 .. (i - 1) : Writes(todo[j], b)) \/ Good(q, Len(q), b, data[b], id)
      /\ call[c].out \in {{}, {id}}
      /\ call[c].out = {id} \/ \E i \in DOMAIN todo : todo[i].op = "read"
  BY DEF OwnRun
<1>2. k \in Sorts /\ q \in Seq(Queued) /\ Home(k) \in Streams
  <2>1. k \in Sorts
    BY DEF BusyInv
  <2> QED
    BY <2>1, HomeIs DEF StreamsInv, Undisturbed
<1>3. q # <<>> /\ call' = call /\ stream'[Home(k)] = r
  BY <1>2 DEF Device, StreamsInv
<1>4. /\ DOMAIN r = 1 .. (Len(q) - 1) /\ Len(r) = Len(q) - 1 /\ Head(q) = q[1]
      /\ DOMAIN q = 1 .. Len(q) /\ Len(q) \in Nat /\ Len(q) > 0
      /\ \A i \in 1 .. (Len(q) - 1) : r[i] = q[i + 1]
      /\ \A i \in 1 .. Len(q) : q[i] \in Queued
  BY <1>2, <1>3, SeqTail
<1>5. data' = [b \in Cells |-> IF b \in q[1].to THEN new ELSE data[b]]
  BY <1>4 DEF Device
<1>6. q[1].id = id => new = {id}
  <2>1. ASSUME q[1].id = id, NEW b \in q[1].from PROVE data[b] = {id}
    <3>1. Good(q, 1 - 1, b, data[b], id) /\ 1 - 1 = 0
      BY <1>1, <1>4, <2>1
    <3> QED
      BY <3>1, GoodNow
  <2>2. ASSUME q[1].id = id, q[1].from # {} PROVE UNION {data[b] : b \in q[1].from} = {id}
    BY <2>1, <2>2
  <2> QED
    BY <2>2
<1> HIDE DEF r, new
<1>7. ASSUME NEW n \in 1 .. Len(q), NEW b \in Cells, Good(q, n, b, data[b], id)
      PROVE  Good(r, n - 1, b, data'[b], id)
  <2>1. (b \notin q[1].to => data'[b] = data[b]) /\ (b \in q[1].to => data'[b] = new)
    BY <1>5
  <2> QED
    BY <1>2, <1>6, <1>7, <2>1, GoodTail DEF r
<1>8. ASSUME NEW j \in DOMAIN r, r[j].id = id
      PROVE  r[j].from \subseteq Buffers(c, k) /\ \A b \in r[j].from : Good(r, j - 1, b, data'[b], id)
  <2>1. /\ j + 1 \in DOMAIN q /\ j \in 1 .. Len(q) /\ r[j] = q[j + 1] /\ (j + 1) - 1 = j
        /\ q[j + 1] \in Queued
    BY <1>4
  <2>2. r[j].from \subseteq Buffers(c, k) /\ r[j].from \subseteq Cells
    BY <1>1, <1>8, <2>1 DEF Queued
  <2>3. \A b \in r[j].from : Good(q, j, b, data[b], id)
    BY <1>1, <1>8, <2>1
  <2> QED
    BY <1>7, <2>1, <2>2, <2>3
<1>9. ASSUME NEW i \in DOMAIN todo, NEW b \in todo[i].from
      PROVE (\E j \in 1 .. (i - 1) : Writes(todo[j], b)) \/ Good(r, Len(r), b, data'[b], id)
  <2>1. todo[i] \in Deeds(c, k)
    <3>1. todo \in Seq(Deeds(c, k))
      BY DEF BusyInv
    <3> QED
      BY <3>1
  <2>2. b \in Cells
    BY <1>9, <2>1 DEF Deeds, Buffers, Mine, Operation
  <2>3. Len(q) \in 1 .. Len(q)
    BY <1>4
  <2> QED
    BY <1>1, <1>4, <1>7, <1>9, <2>2, <2>3
<1>10. Buffers(c, k)' = Buffers(c, k)
  BY <1>3 DEF Buffers
<1> QED
  BY <1>1, <1>3, <1>8, <1>9, <1>10 DEF OwnRun

\* The call takes its next step.
LEMMA OwnStep ==
    ASSUME CallInv, StreamsInv, BusyInv, NEW c \in Charts, Undisturbed(c), OwnRun(c), Step(c)
    PROVE  /\ pc'[c] = "run" => OwnRun(c)'
           /\ pc'[c] = "back" => call'[c].out = {call'[c].id}
<1> DEFINE k    == call[c].kind
           id   == call[c].id
           q    == stream[Home(k)]
           todo == call[c].todo
           op   == Head(todo)
           rest == Tail(todo)
           o    == [id |-> id, from |-> op.from, to |-> op.to]
           r    == Append(q, o)
<1>1. /\ \A j \in DOMAIN q : q[j].id = id =>
             /\ q[j].from \subseteq Buffers(c, k)
             /\ \A b \in q[j].from : Good(q, j - 1, b, data[b], id)
      /\ \A i \in DOMAIN todo : \A b \in todo[i].from :
             (\E j \in 1 .. (i - 1) : Writes(todo[j], b)) \/ Good(q, Len(q), b, data[b], id)
      /\ call[c].out \in {{}, {id}}
      /\ call[c].out = {id} \/ \E i \in DOMAIN todo : todo[i].op = "read"
  BY DEF OwnRun
<1>2. /\ pc[c] = "run" /\ todo # <<>> /\ op \in Deeds(c, k)
      /\ op.op \in {"read", "sync"} => Waited(op.s)
      /\ op.op # "enqueue" => stream' = stream
      /\ op.op = "enqueue" =>
            op.s \in Streams \cap StreamsOf(k) /\ o \in Queued /\ stream' = [stream EXCEPT ![op.s] = Append(@, o)]
      /\ call'[c].id = id /\ call'[c].kind = k /\ call'[c].todo = rest
      /\ call'[c].out = IF op.op = "read" THEN call[c].out \cup UNION {data[b] : b \in op.from}
                                          ELSE call[c].out
      /\ pc'[c] = (IF rest = <<>> THEN "back" ELSE "run") /\ data' = data
  BY StepIs
<1>3. k \in Sorts /\ todo \in Seq(Deeds(c, k))
  BY <1>2 DEF BusyInv
<1>4. q \in Seq(Queued) /\ Home(k) \in Streams /\ Len(q) \in Nat
  BY <1>3, HomeIs DEF StreamsInv, Undisturbed
<1>5. /\ DOMAIN rest = 1 .. (Len(todo) - 1) /\ op = todo[1] /\ DOMAIN todo = 1 .. Len(todo)
      /\ Len(todo) \in Nat /\ Len(todo) > 0 /\ \A i \in 1 .. (Len(todo) - 1) : rest[i] = todo[i + 1]
  BY <1>2, <1>3, SeqTail
<1>6. Buffers(c, k)' = Buffers(c, k)
  BY <1>2 DEF Buffers
<1>7. \A b \in op.from : Good(q, Len(q), b, data[b], id)
  BY <1>1, <1>5
<1> HIDE DEF op, rest, o, r
<1>8. CASE op.op = "enqueue"
  <2>1. op.s = Home(k) /\ o \in Queued /\ stream'[Home(k)] = r
    BY <1>2, <1>3, <1>4, <1>8, HomeIs DEF StreamsInv, Undisturbed, r
  <2>2. /\ DOMAIN r = 1 .. (Len(q) + 1) /\ DOMAIN q = 1 .. Len(q)
        /\ Len(r) = Len(q) + 1 /\ r[Len(q) + 1] = o /\ \A i \in 1 .. Len(q) : r[i] = q[i]
    BY <1>4, <2>1, SeqAppend DEF r
  <2>3. \A b : \A n \in 0 .. Len(q) : Good(q, n, b, data[b], id) => Good(r, n, b, data[b], id)
    BY <1>4, <2>1, GoodAppend DEF r
  <2>4. o.id = id /\ o.from = op.from /\ o.to = op.to
    BY DEF o
  <2>5. \A b : Good(q, Len(q), b, data[b], id) \/ b \in op.to => Good(r, Len(q) + 1, b, data[b], id)
    BY <1>4, <2>1, <2>4, GoodAppendOwn, GoodWritten DEF r
  <2>6. ASSUME NEW j \in DOMAIN r, r[j].id = id
        PROVE  r[j].from \subseteq Buffers(c, k) /\ \A b \in r[j].from : Good(r, j - 1, b, data[b], id)
    <3>1. CASE j \in 1 .. Len(q)
      <4>1. j - 1 \in 0 .. Len(q)
        BY <3>1, <1>4
      <4> QED
        BY <1>1, <2>2, <2>3, <2>6, <3>1, <4>1
    <3>2. CASE j = Len(q) + 1
      <4>1. j - 1 = Len(q) /\ r[j] = o /\ Len(q) \in 0 .. Len(q)
        BY <1>4, <2>2, <3>2
      <4>2. op.from \subseteq Buffers(c, k)
        BY <1>2, <1>8 DEF Deeds
      <4> QED
        BY <1>7, <2>3, <2>4, <4>1, <4>2
    <3> QED
      BY <2>2, <2>6, <3>1, <3>2, <1>4
  <2>7. ASSUME NEW i \in DOMAIN rest, NEW b \in rest[i].from
        PROVE  (\E j \in 1 .. (i - 1) : Writes(rest[j], b)) \/ Good(r, Len(r), b, data[b], id)
    <3>1. /\ i + 1 \in DOMAIN todo /\ rest[i] = todo[i + 1] /\ i \in Nat
          /\ (\E j \in 1 .. i : Writes(todo[j], b)) \/ Good(q, Len(q), b, data[b], id)
      <4>1. i + 1 \in DOMAIN todo /\ rest[i] = todo[i + 1] /\ (i + 1) - 1 = i /\ i \in Nat
        BY <1>5
      <4> QED
        BY <1>1, <2>7, <4>1
    <3>2. CASE Good(q, Len(q), b, data[b], id) \/ Writes(todo[1], b)
      BY <1>5, <2>2, <2>5, <3>2 DEF Writes
    <3>3. CASE \E j \in 2 .. i : Writes(todo[j], b)
      <4>1. PICK j \in 2 .. i : Writes(todo[j], b)
        BY <3>3
      <4>2. j - 1 \in 1 .. (i - 1) /\ rest[j - 1] = todo[j]
        BY <1>5, <3>1, <4>1
      <4> QED
        BY <4>1, <4>2
    <3>4. \A j \in 1 .. i : j = 1 \/ j \in 2 .. i
      BY <3>1
    <3> QED
      BY <3>1, <3>2, <3>3, <3>4
  <2>8. call'[c].out = {id} \/ \E i \in DOMAIN rest : rest[i].op = "read"
    <3>1. \A i \in DOMAIN todo : todo[i].op = "read" => i - 1 \in DOMAIN rest /\ rest[i - 1] = todo[i]
      BY <1>5, <1>8
    <3> QED
      BY <1>1, <1>2, <1>8, <3>1
  <2>9. OwnRun(c)'
    BY <1>1, <1>2, <1>6, <1>8, <2>1, <2>6, <2>7, <2>8 DEF OwnRun
  <2> QED
    BY <1>2, <1>5, <2>8, <2>9
<1>9. CASE op.op # "enqueue"
  <2>1. stream' = stream
    BY <1>2, <1>9
  <2>2. ASSUME NEW i \in DOMAIN rest, NEW b \in rest[i].from
        PROVE  (\E j \in 1 .. (i - 1) : Writes(rest[j], b)) \/ Good(q, Len(q), b, data[b], id)
    <3>1. /\ i + 1 \in DOMAIN todo /\ rest[i] = todo[i + 1] /\ i \in Nat
          /\ (\E j \in 1 .. i : Writes(todo[j], b)) \/ Good(q, Len(q), b, data[b], id)
      <4>1. i + 1 \in DOMAIN todo /\ rest[i] = todo[i + 1] /\ (i + 1) - 1 = i /\ i \in Nat
        BY <1>5
      <4> QED
        BY <1>1, <2>2, <4>1
    <3>2. ASSUME NEW j \in 1 .. i, Writes(todo[j], b) PROVE j - 1 \in 1 .. (i - 1) /\ rest[j - 1] = todo[j]
      <4>1. j # 1
        BY <1>5, <1>9, <3>2 DEF Writes
      <4> QED
        BY <1>5, <3>1, <4>1
    <3> QED
      BY <3>1, <3>2
  <2>3. op.op = "read" => UNION {data[b] : b \in op.from} = {id}
    <3> SUFFICES ASSUME op.op = "read" PROVE UNION {data[b] : b \in op.from} = {id}
      OBVIOUS
    <3>1. q = <<>> /\ op.from # {}
      <4>1. op.s \in StreamsOf(k) /\ op.from # {} /\ Waited(op.s)
        BY <1>2 DEF Deeds
      <4>2. op.s = Home(k)
        BY <1>3, <4>1 DEF StreamsOf, Home, Undisturbed, Sorts, Kinds
      <4>3. Home(k) # "every"
        BY <1>4 DEF Streams
      <4> QED
        BY <4>1, <4>2, <4>3 DEF Waited
    <3>2. \A b \in op.from : data[b] = {id}
      <4>1. \A b \in op.from : Good(q, 0, b, data[b], id)
        BY <1>7, <3>1
      <4> QED
        BY <4>1, GoodNow
    <3> QED
      BY <3>1, <3>2
  <2>4. call'[c].out \in {{}, {id}} /\ (op.op = "read" => call'[c].out = {id})
    BY <1>1, <1>2, <2>3
  <2>5. call'[c].out = {id} \/ \E i \in DOMAIN rest : rest[i].op = "read"
    <3>1. CASE op.op = "read" \/ call[c].out = {id}
      BY <1>2, <2>4, <3>1
    <3>2. CASE op.op # "read" /\ call[c].out # {id}
      <4>1. \A i \in DOMAIN todo : todo[i].op = "read" => i - 1 \in DOMAIN rest /\ rest[i - 1] = todo[i]
        BY <1>5, <3>2
      <4> QED
        BY <1>1, <3>2, <4>1
    <3> QED
      BY <3>1, <3>2
  <2>6. OwnRun(c)'
    BY <1>1, <1>2, <1>6, <2>1, <2>2, <2>4, <2>5 DEF OwnRun
  <2> QED
    BY <1>2, <1>5, <2>5, <2>6
<1> QED
  BY <1>8, <1>9

\* The call begins: no operation that waits bears its number, and its program
\* reads nothing it has not written.
LEMMA OwnBegin ==
    ASSUME CallInv, StreamsInv, BusyInv, NEW c \in Charts, NEW name \in CallNames, Begin(c, name),
           UNCHANGED stream, KindOf(name) # "waveform"
    PROVE  OwnRun(c)'
<1> DEFINE k == KindOf(name)
           q == stream[Home(k)]
           p == Program(c)[name]
<1>1. /\ call'[c].id = lastId + 1 /\ call'[c].kind = k /\ call'[c].todo = p /\ call'[c].out = {}
      /\ k \in Sorts /\ lastId \in Nat
  BY BeginIs DEF BusyInv
<1>2. Proper(p)
  BY ProgramsAre
<1>3. \A j \in DOMAIN q : q[j].id # lastId + 1
  <2>1. Home(k) \in Streams /\ q \in Seq(Queued)
    BY <1>1, HomeIs DEF StreamsInv
  <2>2. \A j \in DOMAIN q : q[j].id <= lastId /\ q[j] \in Queued
    BY <2>1 DEF StreamsInv
  <2>3. \A j \in DOMAIN q : q[j].id \in Nat /\ q[j].id <= lastId
    BY <2>2 DEF Queued
  <2> QED
    BY <1>1, <2>3
<1> HIDE DEF p, k
<1> QED
  BY <1>1, <1>2, <1>3 DEF OwnRun, Proper

LEMMA OwnAmongOthers ==
    ASSUME CallInv, StreamsInv, BusyInv, NEW c \in Charts, pc[c] = "run", Undisturbed(c), OwnRun(c),
           NEW d \in Charts \ {c}, Step(d)
    PROVE  OwnRun(c)'
<1> DEFINE h  == Home(call[c].kind)
           op == Head(call[d].todo)
           o  == [id |-> call[d].id, from |-> op.from, to |-> op.to]
<1>1. /\ pc[d] = "run" /\ op \in Deeds(d, call[d].kind)
      /\ op.op # "enqueue" => stream' = stream
      /\ op.op = "enqueue" =>
            /\ op.s \in Streams \cap StreamsOf(call[d].kind) /\ o \in Queued
            /\ \A s \in Streams \ {op.s} : stream'[s] = stream[s]
            /\ stream' = [stream EXCEPT ![op.s] = Append(@, o)]
      /\ call'[c] = call[c] /\ data' = data
  BY StepIs
<1>2. call[c].kind \in Sorts /\ call[d].kind \in Sorts
  BY <1>1 DEF BusyInv
<1>3. h \in Streams
  BY <1>2, HomeIs DEF Undisturbed
<1>4. CASE op.op # "enqueue" \/ op.s # h
  BY <1>1, <1>3, <1>4, OwnKept
<1>5. CASE op.op = "enqueue" /\ op.s = h
  <2>1. call[d].kind = call[c].kind
    BY <1>1, <1>2, <1>5, KindsOfStreams, HomeIs DEF Undisturbed
  <2>2. call[c].kind = "none"
    BY <1>1, <1>2, <2>1 DEF BusyInv, Undisturbed, Sorts
  <2>3. Buffers(d, "none") \cap Buffers(c, "none") = {}
    BY BuffersApart DEF Sorts
  <2>4. o.to \cap Buffers(c, call[c].kind) = {} /\ o \in Queued
    BY <1>1, <1>5, <2>1, <2>2, <2>3 DEF Deeds
  <2>5. o.id # call[c].id
    BY <1>1 DEF BusyInv
  <2>6. stream'[h] = Append(stream[h], o)
    BY <1>1, <1>3, <1>5 DEF StreamsInv
  <2> HIDE DEF o
  <2> QED
    BY <1>1, <2>4, <2>5, <2>6, OwnBeside
<1> QED
  BY <1>4, <1>5

LEMMA OwnInvStep ==
    ASSUME CallInv, DataInv, [Next]_vars
    PROVE  OwnInv'
<1>0. StreamsInv /\ BusyInv /\ OwnInv
  BY DEF DataInv
<1>2. CASE UNCHANGED <<stream, data, pc, call, met, lastId, okay>>
  <2>1. \A c \in Charts : pc[c] = "run" /\ Undisturbed(c) => OwnRun(c)'
    BY <1>0, <1>2, OwnKept DEF OwnInv
  <2> QED
    BY <1>0, <1>2, <2>1 DEF OwnInv, Undisturbed
<1>3. CASE Ended
  <2>1. \A c \in Charts : pc[c] # "idle" => c \in met'
    BY <1>0, <1>3 DEF Ended, Busy, BusyInv
  <2> QED
    BY <1>3, <2>1 DEF Ended, OwnInv, Undisturbed
<1>4. ASSUME NEW k \in Kinds, Reconfigured(k) PROVE OwnInv'
  <2>1. UNCHANGED <<stream, pc, call>> /\ Remade(k) /\ met' = met \cup Busy({k})
    BY <1>4 DEF Reconfigured
  <2>2. ASSUME NEW c \in Charts, pc[c] # "idle", Undisturbed(c)' PROVE call[c].kind # k /\ Undisturbed(c)
    BY <2>1, <2>2 DEF Undisturbed, Busy
  <2>3. ASSUME NEW c \in Charts, pc[c] = "run", Undisturbed(c)' PROVE OwnRun(c)'
    <3>1. call[c].kind # k /\ Undisturbed(c) /\ OwnRun(c)
      BY <1>0, <2>2, <2>3 DEF OwnInv
    <3>2. \A b \in Buffers(c, call[c].kind) : b \in Cells /\ b[1] # k
      BY <3>1, ChartsAssumption DEF Buffers
    <3>3. \A b \in Buffers(c, call[c].kind) : data'[b] = data[b]
      BY <2>1, <3>2 DEF Remade
    <3> QED
      BY <1>0, <2>1, <2>3, <3>1, <3>3, OwnKept
  <2> QED
    BY <1>0, <2>1, <2>2, <2>3 DEF OwnInv
<1>5. ASSUME NEW d \in Charts, NEW name \in CallNames, Begun(d, name) PROVE OwnInv'
  <2>1. pc[d] = "idle" /\ Begin(d, name) /\ stream' = stream /\ lastId \in Nat
    BY <1>0, <1>5 DEF Begun, BusyInv
  <2>2. ASSUME Undisturbed(d)' PROVE OwnRun(d)'
    <3>1. KindOf(name) # "waveform"
      BY <2>1, <2>2, BeginIs DEF Undisturbed
    <3> QED
      BY <1>0, <2>1, <3>1, OwnBegin
  <2>3. pc'[d] = "run" /\ ~ call'[d].ok
    BY <2>1, BeginIs
  <2>4. ASSUME NEW c \in Charts \ {d}, Undisturbed(c)'
        PROVE  /\ pc'[c] = pc[c] /\ call'[c] = call[c] /\ Undisturbed(c)
               /\ pc[c] = "run" => OwnRun(c)'
    <3>1. /\ pc'[c] = pc[c] /\ call'[c] = call[c] /\ met \subseteq met'
          /\ pc[c] # "idle" /\ call[c].kind = KindOf(name) /\ KindOf(name) \in Kinds => c \in met'
      BY <2>1, BeginIs
    <3>2. Undisturbed(c)
      BY <2>4, <3>1 DEF Undisturbed
    <3>3. ASSUME pc[c] = "run" PROVE \A b \in Buffers(c, call[c].kind) : data'[b] = data[b]
      <4>1. CASE data' = data
        BY <4>1
      <4>2. CASE name = "batch" /\ Remade("batch")
        <5>1. KindOf(name) = "batch" /\ "batch" \in Kinds
          BY <4>2 DEF KindOf, Kinds
        <5>2. call[c].kind # "batch"
          BY <2>4, <3>1, <3>3, <5>1 DEF Undisturbed
        <5>3. \A b \in Buffers(c, call[c].kind) : b \in Cells /\ b[1] # "batch"
          BY <5>1, <5>2, ChartsAssumption DEF Buffers
        <5> QED
          BY <4>2, <5>3 DEF Remade
      <4> QED
        BY <1>5, <4>1, <4>2 DEF Begun
    <3> QED
      BY <1>0, <2>1, <3>1, <3>2, <3>3, OwnKept DEF OwnInv
  <2> QED
    BY <1>0, <2>2, <2>3, <2>4 DEF OwnInv
<1>6. ASSUME NEW d \in Charts, Step(d) PROVE OwnInv'
  <2>1. /\ pc[d] = "run" /\ met' = met /\ call'[d].kind = call[d].kind /\ pc'[d] \in {"run", "back"}
        /\ \A c \in Charts \ {d} : call'[c] = call[c] /\ pc'[c] = pc[c]
    BY <1>0, <1>6, StepIs
  <2>2. \A c \in Charts : Undisturbed(c)' => Undisturbed(c)
    BY <2>1 DEF Undisturbed
  <2>3. Undisturbed(d) => /\ pc'[d] = "run" => OwnRun(d)'
                          /\ pc'[d] = "back" => call'[d].out = {call'[d].id}
    BY <1>0, <1>6, <2>1, OwnStep DEF OwnInv
  <2>4. \A c \in Charts \ {d} : pc[c] = "run" /\ Undisturbed(c) => OwnRun(c)'
    BY <1>0, <1>6, OwnAmongOthers DEF OwnInv
  <2> QED
    BY <1>0, <2>1, <2>2, <2>3, <2>4 DEF OwnInv
<1>7. ASSUME NEW d \in Charts, Fail(d) PROVE OwnInv'
  <2>1. pc[d] = "run" /\ pc' = [pc EXCEPT ![d] = "back"] /\ UNCHANGED <<stream, data, call, met>>
    BY <1>7 DEF Fail
  <2>2. /\ pc'[d] = "back" /\ ~ call'[d].ok /\ \A c \in Charts \ {d} : pc'[c] = pc[c]
    BY <1>0, <2>1 DEF CallInv, BusyInv
  <2>3. \A c \in Charts : Undisturbed(c)' => Undisturbed(c)
    BY <2>1 DEF Undisturbed
  <2>4. \A c \in Charts : pc[c] = "run" /\ Undisturbed(c) => OwnRun(c)'
    BY <1>0, <2>1, OwnKept DEF OwnInv
  <2> QED
    BY <1>0, <2>1, <2>2, <2>3, <2>4 DEF OwnInv
<1>8. ASSUME NEW d \in Charts, Return(d) PROVE OwnInv'
  <2>1. /\ pc'[d] = "idle" /\ stream' = stream
        /\ \A c \in Charts \ {d} : pc'[c] = pc[c] /\ call'[c] = call[c] /\ (c \in met' <=> c \in met)
        /\ data' = [b \in Cells |-> IF b[1] = d THEN {0} ELSE data[b]]
    BY <1>8, ReturnIs
  <2>2. \A c \in Charts \ {d} : Undisturbed(c)' => Undisturbed(c)
    BY <2>1 DEF Undisturbed
  <2>3. ASSUME NEW c \in Charts \ {d}, pc[c] = "run", Undisturbed(c) PROVE OwnRun(c)'
    <3>1. \A b \in Buffers(c, call[c].kind) : b \in Cells /\ b[1] # d
      BY ChartsAssumption DEF Buffers
    <3>2. \A b \in Buffers(c, call[c].kind) : data'[b] = data[b]
      BY <2>1, <3>1
    <3> QED
      BY <1>0, <2>1, <2>3, <3>2, OwnKept DEF OwnInv
  <2> QED
    BY <1>0, <2>1, <2>2, <2>3 DEF OwnInv
<1>9. ASSUME NEW s \in Streams, Device(s) PROVE OwnInv'
  <2>1. /\ UNCHANGED <<pc, call, met>> /\ stream[s] # <<>>
        /\ \A t \in Streams \ {s} : stream'[t] = stream[t]
        /\ data' = [b \in Cells |-> IF b \in Head(stream[s]).to
                                    THEN IF Head(stream[s]).from = {} THEN {Head(stream[s]).id}
                                         ELSE UNION {data[x] : x \in Head(stream[s]).from}
                                    ELSE data[b]]
    BY <1>0, <1>9 DEF Device, StreamsInv
  <2>2. \A c \in Charts : Undisturbed(c)' => Undisturbed(c)
    BY <2>1 DEF Undisturbed
  <2>3. ASSUME NEW c \in Charts, pc[c] = "run", Undisturbed(c) PROVE OwnRun(c)'
    <3>1. call[c].kind \in Sorts /\ call[c].kind # "waveform" /\ OwnRun(c)
      BY <1>0, <2>3 DEF BusyInv, Undisturbed, OwnInv
    <3>2. CASE s = Home(call[c].kind)
      BY <1>0, <1>9, <2>3, <3>1, <3>2, OwnDevice
    <3>3. CASE s # Home(call[c].kind)
      <4>1. Home(call[c].kind) \in Streams /\ KindOn(s) # call[c].kind /\ KindOn(s) \in Sorts
        BY <3>1, <3>3, HomeIs, KindOnIsSort
      <4>2. PICK e \in Charts : Head(stream[s]).to \subseteq Buffers(e, KindOn(s))
        <5>1. stream[s] \in Seq(Queued)
          BY <1>0 DEF StreamsInv
        <5>2. Head(stream[s]) = stream[s][1] /\ 1 \in DOMAIN stream[s]
          BY <2>1, <5>1
        <5> QED
          BY <1>0, <5>2 DEF StreamsInv, Placed
      <4>3. Buffers(e, KindOn(s)) \cap Buffers(c, call[c].kind) = {}
        BY <3>1, <4>1, BuffersApart
      <4>4. \A b \in Buffers(c, call[c].kind) : b \in Cells /\ b \notin Head(stream[s]).to
        BY <4>2, <4>3 DEF Buffers
      <4>5. \A b \in Buffers(c, call[c].kind) : data'[b] = data[b]
        BY <2>1, <4>4
      <4> QED
        BY <1>0, <2>1, <2>3, <3>1, <3>3, <4>1, <4>5, OwnKept
    <3> QED
      BY <3>2, <3>3
  <2> QED
    BY <1>0, <2>1, <2>2, <2>3 DEF OwnInv
<1>10. ASSUME NEW d \in Charts, LaunchUnallocated(d) PROVE OwnInv'
  <2>1. /\ pc[d] = "run" /\ call[d].kind = "cwt" /\ pc'[d] = "back" /\ UNCHANGED <<data, call, met>>
        /\ \A c \in Charts \ {d} : pc'[c] = pc[c]
        /\ \A s \in Streams \ {"cwt"} : stream'[s] = stream[s]
    BY <1>0, <1>10, LaunchIs DEF StreamsInv
  <2>2. ~ call'[d].ok /\ \A c \in Charts : Undisturbed(c)' <=> Undisturbed(c)
    BY <1>0, <2>1 DEF BusyInv, Undisturbed
  <2>3. ASSUME NEW c \in Charts \ {d}, pc[c] = "run", Undisturbed(c) PROVE OwnRun(c)'
    <3>1. call[c].kind \in Sorts /\ call[c].kind # "waveform" /\ call[c].kind # "cwt"
      BY <1>0, <2>1, <2>3 DEF BusyInv, Undisturbed, Kinds
    <3>2. Home(call[c].kind) \in Streams \ {"cwt"}
      BY <3>1 DEF Home, Streams, Sorts, Kinds
    <3> QED
      BY <1>0, <2>1, <2>3, <3>2, OwnKept DEF OwnInv
  <2> QED
    BY <1>0, <2>1, <2>2, <2>3 DEF OwnInv
<1> QED
  BY <1>2, <1>3, <1>4, <1>5, <1>6, <1>7, <1>8, <1>9, <1>10, WhatChanges

LEMMA DataInit == Init => DataInv
  BY DEF Init, DataInv, StreamsInv, BusyInv, OwnInv, Queued

LEMMA DataStep == BridgeInv /\ DataInv /\ [Next]_vars => DataInv'
  BY StreamsStep, BusyStep, OwnInvStep DEF DataInv, BridgeInv

\* A call off the waveform buffers that ended in STATUS_OK, and that met no other
\* of its kind and no end of the session, returns what comes from its own input, whatever failed calls have left in the streams.
THEOREM OwnResultsReturned == Spec => []OwnResults
<1>1. DataInv => OwnResults
  BY DEF DataInv, OwnInv, OwnResults, Undisturbed
<1> QED
  BY BridgeInit, BridgeStep, DataInit, DataStep, <1>1, PTL DEF Spec

-----------------------------------------------------------------------------
(* The waveform buffers, which two streams share *)

Wave == Samples \cup Spectrum \cup Parts

LEMMA WaveBuffers ==
    /\ Samples # {} /\ Spectrum # {} /\ Parts # {}
    /\ Samples \cap Spectrum = {} /\ Samples \cap Parts = {} /\ Spectrum \cap Parts = {}
    /\ Wave \subseteq Cells /\ \A b \in Wave : b[1] = "waveform"
<1>1. /\ Samples = {<<"waveform", "d_input">>} /\ Spectrum = {<<"waveform", "d_fft">>}
      /\ Parts = {<<"waveform", "d_real">>, <<"waveform", "d_imag">>}
  BY DEF Samples, Spectrum, Parts, Of
<1> QED
  BY <1>1, CellsAre DEF Wave

\* What comes from no call before the last one that ended well on empty streams.
Young(B) == \A b \in B : data[b] \subseteq okay .. lastId

Enqueues(o, s) == o.op = "enqueue" /\ o.s = s

FftShape(o) ==
    \/ o.from = {} /\ o.to \in {Samples, Parts}
    \/ o.from \in {Samples, Parts} /\ o.to = Spectrum
    \/ o.from = Spectrum /\ o.to = Samples

PostShape(o) == o.from = Spectrum /\ o.to = Parts

\* What a call on the waveform configuration does.
WaveDeed(o) ==
    \/ Enqueues(o, "fft") /\ FftShape(o)
    \/ Enqueues(o, "post") /\ PostShape(o)
    \/ o.op = "read" /\ o.s = "post" /\ o.from \in {Samples, Parts}
    \/ o.op = "sync" /\ o.s \in {"fft", "post"}

\* What waits on the two streams, and what it will read.
QueueInv ==
    /\ okay \in 0 .. lastId /\ data \in [Cells -> SUBSET (0 .. lastId)]
    /\ \A i \in DOMAIN stream["fft"] : stream["fft"][i].id >= okay /\ FftShape(stream["fft"][i])
    /\ \A i \in DOMAIN stream["post"] : stream["post"][i].id >= okay /\ PostShape(stream["post"][i])
    /\ Young(Samples \cup Spectrum)
    /\ \A j \in DOMAIN stream["fft"] : stream["fft"][j].from = Parts =>
          Young(Parts) \/ \E i \in 1 .. (j - 1) : stream["fft"][i].to = Parts

\* A call on the waveform configuration that has not failed.
Going(c) == call[c].kind = "waveform" /\ (pc[c] = "run" \/ (pc[c] = "back" /\ call[c].ok))

\* What it has still to do: it transforms what it has uploaded, or what is young.
Shaped(c) ==
    LET todo == call[c].todo
    IN /\ okay <= call[c].id
       /\ \A i \in DOMAIN todo : WaveDeed(todo[i])
       /\ pc[c] = "back" => todo = <<>>
       /\ \A i \in DOMAIN todo : Enqueues(todo[i], "fft") /\ todo[i].from = Parts =>
             \/ Young(Parts)
             \/ \E j \in DOMAIN stream["fft"] : stream["fft"][j].to = Parts
             \/ \E j \in 1 .. (i - 1) : Enqueues(todo[j], "fft") /\ todo[j].to = Parts

\* It waits for whatever it enqueues on a stream.
Awaits(c, s) ==
    LET todo == call[c].todo
    IN stream[s] # <<>> \/ (\E i \in DOMAIN todo : Enqueues(todo[i], s)) =>
          \E k \in DOMAIN todo : /\ todo[k].op = "sync" /\ todo[k].s = s
                                 /\ \A i \in DOMAIN todo : Enqueues(todo[i], s) => i < k

\* It has met no other: nothing is newer, and what it reads is young.
Fresh(c) ==
    LET todo == call[c].todo
        id   == call[c].id
    IN /\ call[c].floor = okay
       /\ \A s \in {"fft", "post"} : \A i \in DOMAIN stream[s] : stream[s][i].id <= id
       /\ \A b \in Wave : data[b] \subseteq 0 .. id
       /\ call[c].out \subseteq okay .. id
       /\ \A i \in DOMAIN todo : todo[i].op = "read" /\ todo[i].from = Parts =>
             \/ Young(Parts) \/ stream["post"] # <<>>
             \/ \E j \in 1 .. (i - 1) : Enqueues(todo[j], "post")
       /\ \A s \in {"fft", "post"} : Awaits(c, s)

\* It began on empty streams besides: whatever it transforms is its own, and
\* so are the samples and the spectrum in the end.
OnlyOwn(c) ==
    LET todo == call[c].todo
        id   == call[c].id
        q    == stream["fft"]
    IN /\ \A s \in {"fft", "post"} : \A i \in DOMAIN stream[s] : stream[s][i].id = id
       /\ \A j \in DOMAIN q : \A b \in q[j].from : Good(q, j - 1, b, data[b], id)
       /\ \A i \in DOMAIN todo : Enqueues(todo[i], "fft") => \A b \in todo[i].from :
             \/ Good(q, Len(q), b, data[b], id)
             \/ \E j \in 1 .. (i - 1) : Enqueues(todo[j], "fft") /\ b \in todo[j].to
       /\ \A b \in Samples \cup Spectrum :
             \/ Good(q, Len(q), b, data[b], id)
             \/ \E j \in DOMAIN todo : Enqueues(todo[j], "fft") /\ b \in todo[j].to
       /\ stream["post"] # <<>> \/ (\E i \in DOMAIN todo : Enqueues(todo[i], "post")) =>
             /\ \A j \in DOMAIN q : q[j].from # Parts
             /\ \A i \in DOMAIN todo : Enqueues(todo[i], "fft") => todo[i].from # Parts

GoesWell(c) ==
    Going(c) => /\ Shaped(c)
                /\ c \notin met => Fresh(c)
                /\ c \notin met /\ call[c].clean => OnlyOwn(c)

GoingInv == \A c \in Charts : GoesWell(c)

WaveInv == QueueInv /\ GoingInv

LEMMA StreamsAreSeqs ==
    ASSUME StreamsInv
    PROVE  /\ stream["fft"] \in Seq(Queued) /\ stream["post"] \in Seq(Queued)
           /\ "fft" \in Streams /\ "post" \in Streams
           /\ \A s \in {"fft", "post"} : \A i \in DOMAIN stream[s] :
                 stream[s][i] \in Queued /\ stream[s][i].id \in Nat /\ stream[s][i].id <= lastId
<1>1. stream["fft"] \in Seq(Queued) /\ stream["post"] \in Seq(Queued) /\ "fft" \in Streams /\ "post" \in Streams
  BY DEF StreamsInv, Streams
<1>2. \A q \in Seq(Queued) : \A i \in DOMAIN q : q[i] \in Queued
  OBVIOUS
<1>3. \A o \in Queued : o.id \in Nat
  BY DEF Queued
<1> QED
  BY <1>1, <1>2, <1>3 DEF StreamsInv

-----------------------------------------------------------------------------
(* Steps that leave the waveform buffers and their streams alone *)

WaveSame ==
    /\ okay' = okay /\ lastId' \in Nat /\ lastId' >= lastId
    /\ stream'["fft"] = stream["fft"] /\ stream'["post"] = stream["post"]
    /\ \A b \in Wave : data'[b] = data[b]

LEMMA YoungKept ==
    ASSUME WaveSame, lastId \in Nat, okay \in Nat, NEW B \in SUBSET Wave, Young(B)
    PROVE  Young(B)'
  BY DEF WaveSame, Young

LEMMA QueueKept ==
    ASSUME QueueInv, StreamsInv, lastId \in Nat, WaveSame, data' \in [Cells -> SUBSET (0 .. lastId')]
    PROVE  QueueInv'
<1>1. /\ Young(Samples \cup Spectrum)'
      /\ Young(Parts) => Young(Parts)'
  <2>1. Samples \cup Spectrum \in SUBSET Wave /\ Parts \in SUBSET Wave /\ okay \in Nat
    BY DEF Wave, QueueInv
  <2> QED
    BY <2>1, YoungKept DEF QueueInv
<1>2. okay' \in 0 .. lastId'
  BY DEF QueueInv, WaveSame
<1> QED
  BY <1>1, <1>2 DEF QueueInv, WaveSame

LEMMA GoingKept ==
    ASSUME StreamsInv, QueueInv, lastId \in Nat, WaveSame, NEW c \in Charts, Going(c),
           call'[c] = call[c], pc'[c] = pc[c]
    PROVE  /\ Shaped(c) => Shaped(c)'
           /\ Fresh(c) => Fresh(c)'
           /\ Shaped(c) /\ OnlyOwn(c) => OnlyOwn(c)'
<1>1. Young(Parts) => Young(Parts)'
  <2>1. Parts \in SUBSET Wave /\ okay \in Nat
    BY DEF Wave, QueueInv
  <2> QED
    BY <2>1, YoungKept
<1>2. Shaped(c) => Shaped(c)'
  BY <1>1 DEF Shaped, WaveSame
<1>3. Fresh(c) => Fresh(c)'
  <2>1. \A s \in {"fft", "post"} : Awaits(c, s) => Awaits(c, s)'
    BY DEF Awaits, WaveSame
  <2> QED
    BY <1>1, <2>1 DEF Fresh, WaveSame
<1>4. Shaped(c) /\ OnlyOwn(c) => OnlyOwn(c)'
  <2>1. \A b \in Samples \cup Spectrum : b \in Wave
    BY DEF Wave
  <2>2. \A i \in DOMAIN stream["fft"] : stream["fft"][i].from \subseteq Wave
    BY DEF QueueInv, FftShape, Wave
  <2> SUFFICES ASSUME Shaped(c), OnlyOwn(c) PROVE OnlyOwn(c)'
    OBVIOUS
  <2>3. \A i \in DOMAIN call[c].todo : Enqueues(call[c].todo[i], "fft") => call[c].todo[i].from \subseteq Wave
    BY DEF Shaped, WaveDeed, Enqueues, FftShape, Wave
  <2> QED
    BY <2>1, <2>2, <2>3 DEF OnlyOwn, WaveSame
<1> QED
  BY <1>2, <1>3, <1>4

-----------------------------------------------------------------------------
(* The device carries out an operation *)

Produced(s) == LET o == stream[s][1]
           IN IF o.from = {} THEN {o.id} ELSE UNION {data[b] : b \in o.from}

LEMMA DeviceIs ==
    ASSUME StreamsInv, QueueInv, lastId \in Nat, NEW s \in Streams, Device(s)
    PROVE  /\ stream[s] \in Seq(Queued) /\ stream[s] # <<>> /\ stream'[s] = Tail(stream[s])
           /\ \A t \in Streams \ {s} : stream'[t] = stream[t]
           /\ stream[s][1].from \subseteq Cells /\ stream[s][1].to \subseteq Cells
           /\ data' = [b \in Cells |-> IF b \in stream[s][1].to THEN Produced(s) ELSE data[b]]
           /\ data' \in [Cells -> SUBSET (0 .. lastId')]
           /\ UNCHANGED <<pc, call, met, lastId, okay>>
<1>1. /\ stream[s] \in Seq(Queued) /\ stream[s] # <<>> /\ stream'[s] = Tail(stream[s])
      /\ \A t \in Streams \ {s} : stream'[t] = stream[t]
      /\ UNCHANGED <<pc, call, met, lastId, okay>>
  BY DEF Device, StreamsInv
<1>2. Head(stream[s]) = stream[s][1] /\ stream[s][1] \in Queued /\ 1 \in DOMAIN stream[s]
  BY <1>1, SeqTail
<1>3. data' = [b \in Cells |-> IF b \in stream[s][1].to THEN Produced(s) ELSE data[b]]
  BY <1>2 DEF Device, Produced
<1>4. Produced(s) \subseteq 0 .. lastId
  <2>1. stream[s][1].id \in Nat /\ stream[s][1].id <= lastId /\ stream[s][1].from \subseteq Cells
    BY <1>2 DEF StreamsInv, Queued
  <2>2. \A b \in Cells : data[b] \subseteq 0 .. lastId
    BY DEF QueueInv
  <2> QED
    BY <2>1, <2>2 DEF Produced
<1>5. data' \in [Cells -> SUBSET (0 .. lastId')]
  BY <1>1, <1>3, <1>4 DEF QueueInv
<1> QED
  BY <1>1, <1>2, <1>3, <1>5 DEF Queued

\* Nothing works on the waveform buffers but what waits on its two streams.
LEMMA DeviceElsewhere ==
    ASSUME StreamsInv, QueueInv, lastId \in Nat, NEW s \in Streams \ {"fft", "post"}, Device(s)
    PROVE  WaveSame
<1>1. PICK e \in Charts : stream[s][1].to \subseteq Buffers(e, KindOn(s))
  <2>1. 1 \in DOMAIN stream[s]
    BY DeviceIs, SeqTail
  <2> QED
    BY <2>1 DEF StreamsInv, Placed
<1>2. Wave \subseteq Buffers(e, "waveform")
  BY WaveBuffers DEF Buffers, Kinds
<1>3. KindOn(s) # "waveform" /\ KindOn(s) \in Sorts /\ "waveform" \in Sorts
  BY KindOnIsSort DEF KindOn, Streams, Sorts, Kinds
<1>4. stream[s][1].to \cap Wave = {}
  BY <1>1, <1>2, <1>3, BuffersApart
<1>5. \A b \in Wave : data'[b] = data[b]
  BY <1>4, WaveBuffers, DeviceIs
<1> QED
  BY <1>5, DeviceIs, StreamsAreSeqs DEF WaveSame

\* What the first operation of either stream makes is young.
LEMMA ProducedIsYoung ==
    ASSUME StreamsInv, QueueInv, lastId \in Nat, NEW s \in {"fft", "post"}, stream[s] # <<>>
    PROVE  Produced(s) \subseteq okay .. lastId
<1>1. stream[s] \in Seq(Queued) /\ 1 \in DOMAIN stream[s] /\ stream[s][1].id \in Nat
      /\ stream[s][1].id <= lastId /\ stream[s][1].id >= okay
  <2>1. stream[s] \in Seq(Queued)
    BY StreamsAreSeqs
  <2>2. 1 \in DOMAIN stream[s]
    BY <2>1, SeqTail
  <2> QED
    BY <2>1, <2>2, StreamsAreSeqs DEF QueueInv
<1>2. CASE stream[s][1].from = {}
  BY <1>1, <1>2 DEF Produced, QueueInv
<1>3. CASE stream[s][1].from # {}
  <2>1. Young(stream[s][1].from)
    <3>1. stream[s][1].from \in {Samples, Spectrum, Parts} /\ (stream[s][1].from = Parts => s = "fft")
      BY <1>1, <1>3, WaveBuffers DEF QueueInv, FftShape, PostShape
    <3>2. Young(Samples) /\ Young(Spectrum)
      BY DEF QueueInv, Young
    <3>3. stream[s][1].from = Parts => Young(Parts)
      BY <1>1, <3>1 DEF QueueInv
    <3> QED
      BY <3>1, <3>2, <3>3
  <2> QED
    BY <1>3, <2>1 DEF Produced, Young
<1> QED
  BY <1>2, <1>3

\* After the first operation of either stream, young buffers are still young,
\* and so are those that it has written.
LEMMA YoungAfter ==
    ASSUME StreamsInv, QueueInv, lastId \in Nat, NEW s \in {"fft", "post"}, Device(s)
    PROVE  /\ Young(Samples \cup Spectrum)'
           /\ Young(Parts) \/ stream[s][1].to = Parts => Young(Parts)'
<1>1. Produced(s) \subseteq okay .. lastId /\ s \in Streams
  BY DeviceIs, ProducedIsYoung, StreamsAreSeqs
<1>2. /\ data' = [b \in Cells |-> IF b \in stream[s][1].to THEN Produced(s) ELSE data[b]]
      /\ UNCHANGED <<lastId, okay>>
  BY <1>1, DeviceIs
<1>3. Wave \subseteq Cells
  BY WaveBuffers
<1> QED
  BY <1>1, <1>2, <1>3 DEF QueueInv, Young, Wave

LEMMA QueueDevice ==
    ASSUME StreamsInv, QueueInv, lastId \in Nat, NEW s \in {"fft", "post"}, Device(s)
    PROVE  QueueInv'
<1> DEFINE q == stream["fft"]
<1>1. /\ s \in Streams /\ stream[s] \in Seq(Queued) /\ stream[s] # <<>> /\ stream'[s] = Tail(stream[s])
      /\ \A t \in Streams \ {s} : stream'[t] = stream[t]
      /\ data' \in [Cells -> SUBSET (0 .. lastId')] /\ UNCHANGED <<lastId, okay>>
  BY DeviceIs, StreamsAreSeqs
<1>2. /\ DOMAIN Tail(stream[s]) = 1 .. (Len(stream[s]) - 1) /\ DOMAIN stream[s] = 1 .. Len(stream[s])
      /\ Len(stream[s]) \in Nat /\ Len(stream[s]) > 0
      /\ \A i \in 1 .. (Len(stream[s]) - 1) : Tail(stream[s])[i] = stream[s][i + 1]
  BY <1>1, SeqTail
<1>3. /\ \A i \in DOMAIN stream'["fft"] : stream'["fft"][i].id >= okay /\ FftShape(stream'["fft"][i])
      /\ \A i \in DOMAIN stream'["post"] : stream'["post"][i].id >= okay /\ PostShape(stream'["post"][i])
  <2>1. \A i \in 1 .. (Len(stream[s]) - 1) : i + 1 \in DOMAIN stream[s]
    BY <1>2
  <2>2. \A i \in DOMAIN stream'[s] : i + 1 \in DOMAIN stream[s] /\ stream'[s][i] = stream[s][i + 1]
    BY <1>1, <1>2, <2>1
  <2>3. CASE s = "fft"
    <3>1. stream'["post"] = stream["post"]
      BY <1>1, <2>3, StreamsAreSeqs
    <3> QED
      BY <2>2, <2>3, <3>1 DEF QueueInv
  <2>4. CASE s = "post"
    <3>1. stream'["fft"] = stream["fft"]
      BY <1>1, <2>4, StreamsAreSeqs
    <3> QED
      BY <2>2, <2>4, <3>1 DEF QueueInv
  <2> QED
    BY <2>3, <2>4
<1>4. ASSUME NEW j \in DOMAIN stream'["fft"], stream'["fft"][j].from = Parts
      PROVE  Young(Parts)' \/ \E i \in 1 .. (j - 1) : stream'["fft"][i].to = Parts
  <2>1. CASE s = "post"
    BY <1>1, <1>4, <2>1, YoungAfter, StreamsAreSeqs DEF QueueInv
  <2>2. CASE s = "fft"
    <3>0. /\ stream'["fft"] = Tail(q) /\ DOMAIN Tail(q) = 1 .. (Len(q) - 1) /\ DOMAIN q = 1 .. Len(q)
          /\ Len(q) \in Nat /\ \A i \in 1 .. (Len(q) - 1) : Tail(q)[i] = q[i + 1]
      BY <1>1, <1>2, <2>2
    <3>1. j + 1 \in DOMAIN q /\ q[j + 1].from = Parts /\ j \in Nat /\ j > 0 /\ (j + 1) - 1 = j
      BY <1>4, <3>0
    <3>2. Young(Parts) \/ \E i \in 1 .. j : q[i].to = Parts
      BY <3>1 DEF QueueInv
    <3>3. ASSUME NEW i \in 2 .. j, q[i].to = Parts PROVE \E l \in 1 .. (j - 1) : stream'["fft"][l].to = Parts
      <4>1. i - 1 \in 1 .. (j - 1) /\ stream'["fft"][i - 1] = q[i]
        BY <3>0, <3>1
      <4> QED
        BY <3>3, <4>1
    <3>4. \A i \in 1 .. j : i = 1 \/ i \in 2 .. j
      BY <3>1
    <3>5. CASE Young(Parts) \/ q[1].to = Parts
      BY <2>2, <3>5, YoungAfter
    <3> QED
      BY <3>2, <3>3, <3>4, <3>5
  <2> QED
    BY <2>1, <2>2
<1> QED
  BY <1>1, <1>3, <1>4, YoungAfter DEF QueueInv

LEMMA AwaitsAfter ==
    ASSUME StreamsInv, QueueInv, lastId \in Nat, NEW s \in {"fft", "post"}, Device(s), NEW c \in Charts,
           NEW t \in {"fft", "post"}, Awaits(c, t)
    PROVE  Awaits(c, t)'
<1>1. /\ s \in Streams /\ t \in Streams /\ stream[s] # <<>>
      /\ \A u \in Streams \ {s} : stream'[u] = stream[u] /\ call' = call
  BY DeviceIs, StreamsAreSeqs
<1>2. stream'[t] # <<>> => stream[t] # <<>>
  BY <1>1
<1>3. call' = call
  BY DEF Device
<1> QED
  BY <1>2, <1>3 DEF Awaits

LEMMA GoingDevice ==
    ASSUME StreamsInv, QueueInv, lastId \in Nat, NEW s \in {"fft", "post"}, Device(s),
           NEW c \in Charts, Going(c)
    PROVE  /\ Shaped(c) => Shaped(c)'
           /\ Fresh(c) => Fresh(c)'
<1> DEFINE todo == call[c].todo
           id   == call[c].id
<1>1. /\ s \in Streams /\ stream[s] \in Seq(Queued) /\ stream[s] # <<>> /\ stream'[s] = Tail(stream[s])
      /\ \A t \in Streams \ {s} : stream'[t] = stream[t]
      /\ data' = [b \in Cells |-> IF b \in stream[s][1].to THEN Produced(s) ELSE data[b]]
      /\ UNCHANGED <<pc, call, met, lastId, okay>>
  BY DeviceIs, StreamsAreSeqs
<1>2. /\ DOMAIN Tail(stream[s]) = 1 .. (Len(stream[s]) - 1) /\ DOMAIN stream[s] = 1 .. Len(stream[s])
      /\ Len(stream[s]) \in Nat /\ Len(stream[s]) > 0
      /\ \A i \in 1 .. (Len(stream[s]) - 1) : Tail(stream[s])[i] = stream[s][i + 1]
  BY <1>1, SeqTail
<1>3. Young(Parts) \/ stream[s][1].to = Parts => Young(Parts)'
  BY YoungAfter
<1>4. \A i \in DOMAIN stream'[s] : i + 1 \in DOMAIN stream[s] /\ stream'[s][i] = stream[s][i + 1]
  BY <1>1, <1>2
<1>5. Shaped(c) => Shaped(c)'
  <2>1. ASSUME NEW j \in DOMAIN stream["fft"], stream["fft"][j].to = Parts
        PROVE  Young(Parts)' \/ \E l \in DOMAIN stream'["fft"] : stream'["fft"][l].to = Parts
    <3>1. CASE s = "post"
      BY <1>1, <2>1, <3>1, StreamsAreSeqs
    <3>2. CASE s = "fft" /\ j = 1
      BY <1>3, <2>1, <3>2
    <3>3. CASE s = "fft" /\ j # 1
      <4>1. /\ j \in 2 .. Len(stream[s]) /\ DOMAIN stream'[s] = 1 .. (Len(stream[s]) - 1)
            /\ \A i \in 1 .. (Len(stream[s]) - 1) : stream'[s][i] = stream[s][i + 1]
        BY <1>1, <1>2, <2>1, <3>3
      <4>2. j - 1 \in DOMAIN stream'[s] /\ stream'[s][j - 1] = stream[s][j]
        BY <1>2, <4>1
      <4> QED
        BY <2>1, <3>3, <4>2
    <3> QED
      BY <3>1, <3>2, <3>3
  <2> QED
    BY <1>1, <1>3, <2>1 DEF Shaped
<1>6. Fresh(c) => Fresh(c)'
  <2> SUFFICES ASSUME Fresh(c) PROVE Fresh(c)'
    OBVIOUS
  <2>1. \A t \in {"fft", "post"} : \A i \in DOMAIN stream'[t] : stream'[t][i].id <= id
    <3> SUFFICES ASSUME NEW t \in {"fft", "post"}, NEW i \in DOMAIN stream'[t] PROVE stream'[t][i].id <= id
      OBVIOUS
    <3>1. CASE t = s
      BY <1>4, <3>1 DEF Fresh
    <3>2. CASE t # s
      BY <1>1, <3>2, StreamsAreSeqs DEF Fresh
    <3> QED
      BY <3>1, <3>2
  <2>2. \A b \in Wave : data'[b] \subseteq 0 .. id
    <3>1. Produced(s) \subseteq 0 .. id
      <4>1. 1 \in DOMAIN stream[s]
        BY <1>2
      <4>2. stream[s][1].id \in Nat /\ stream[s][1].id <= id /\ stream[s][1].from \subseteq Wave
        BY <4>1, StreamsAreSeqs DEF Fresh, QueueInv, FftShape, PostShape, Wave
      <4>3. \A b \in Wave : data[b] \subseteq 0 .. id
        BY DEF Fresh
      <4> QED
        BY <4>2, <4>3 DEF Produced
    <3> QED
      BY <1>1, <3>1, WaveBuffers DEF Fresh
  <2>3. ASSUME NEW i \in DOMAIN todo, todo[i].op = "read", todo[i].from = Parts
        PROVE  \/ Young(Parts)' \/ stream'["post"] # <<>>
               \/ \E j \in 1 .. (i - 1) : Enqueues(todo[j], "post")
    <3>1. s = "post" => Young(Parts)'
      BY <1>2, <1>3 DEF QueueInv, PostShape
    <3>2. s = "fft" => stream'["post"] = stream["post"]
      BY <1>1, StreamsAreSeqs
    <3> QED
      BY <1>3, <2>3, <3>1, <3>2 DEF Fresh
  <2>4. \A t \in {"fft", "post"} : Awaits(c, t)'
    BY AwaitsAfter DEF Fresh
  <2> QED
    BY <1>1, <2>1, <2>2, <2>3, <2>4 DEF Fresh
<1> QED
  BY <1>5, <1>6

\* The transform in turn reads and makes what is the call's own.
LEMMA OnlyOwnFft ==
    ASSUME StreamsInv, QueueInv, lastId \in Nat, Device("fft"), NEW c \in Charts, Going(c), Shaped(c), OnlyOwn(c)
    PROVE  OnlyOwn(c)'
<1> DEFINE todo == call[c].todo
           id   == call[c].id
           q    == stream["fft"]
           r    == Tail(q)
<1>1. /\ q \in Seq(Queued) /\ q # <<>> /\ stream'["fft"] = r /\ stream'["post"] = stream["post"]
      /\ data' = [b \in Cells |-> IF b \in q[1].to THEN Produced("fft") ELSE data[b]]
      /\ UNCHANGED <<pc, call, met, lastId, okay>>
  BY DeviceIs, StreamsAreSeqs
<1>2. /\ DOMAIN r = 1 .. (Len(q) - 1) /\ Len(r) = Len(q) - 1 /\ DOMAIN q = 1 .. Len(q)
      /\ Len(q) \in Nat /\ Len(q) > 0 /\ \A i \in 1 .. (Len(q) - 1) : r[i] = q[i + 1]
  BY <1>1, SeqTail
<1>3. /\ \A i \in DOMAIN q : q[i].id = id
      /\ \A i \in DOMAIN stream["post"] : stream["post"][i].id = id
      /\ \A j \in DOMAIN q : \A b \in q[j].from : Good(q, j - 1, b, data[b], id)
      /\ \A i \in DOMAIN todo : Enqueues(todo[i], "fft") => \A b \in todo[i].from :
             \/ Good(q, Len(q), b, data[b], id)
             \/ \E j \in 1 .. (i - 1) : Enqueues(todo[j], "fft") /\ b \in todo[j].to
      /\ \A b \in Samples \cup Spectrum :
             \/ Good(q, Len(q), b, data[b], id)
             \/ \E j \in DOMAIN todo : Enqueues(todo[j], "fft") /\ b \in todo[j].to
      /\ stream["post"] # <<>> \/ (\E i \in DOMAIN todo : Enqueues(todo[i], "post")) =>
             /\ \A j \in DOMAIN q : q[j].from # Parts
             /\ \A i \in DOMAIN todo : Enqueues(todo[i], "fft") => todo[i].from # Parts
  BY DEF OnlyOwn
<1>4. Produced("fft") = {id}
  <2>1. 1 \in DOMAIN q /\ q[1].id = id
    BY <1>2, <1>3
  <2>2. ASSUME NEW b \in q[1].from PROVE data[b] = {id}
    <3>1. Good(q, 1 - 1, b, data[b], id) /\ 1 - 1 = 0
      BY <1>3, <2>1, <2>2
    <3> QED
      BY <3>1, GoodNow
  <2>3. q[1].from # {} => UNION {data[b] : b \in q[1].from} = {id}
    BY <2>2
  <2> QED
    BY <2>1, <2>3 DEF Produced
<1> HIDE DEF r
<1>5. ASSUME NEW n \in 1 .. Len(q), NEW b \in Wave, Good(q, n, b, data[b], id)
      PROVE  Good(r, n - 1, b, data'[b], id)
  <2>1. (b \notin q[1].to => data'[b] = data[b]) /\ (b \in q[1].to => data'[b] = {id})
    BY <1>1, <1>4, WaveBuffers
  <2> QED
    BY <1>1, <1>5, <2>1, GoodTail DEF r
<1>6. ASSUME NEW j \in DOMAIN r
      PROVE  /\ r[j].id = id /\ (r[j].from = Parts => \E i \in DOMAIN q : q[i].from = Parts)
             /\ \A b \in r[j].from : Good(r, j - 1, b, data'[b], id)
  <2>1. j + 1 \in DOMAIN q /\ j \in 1 .. Len(q) /\ r[j] = q[j + 1] /\ (j + 1) - 1 = j
    BY <1>2
  <2>2. r[j].from \subseteq Wave
    BY <2>1 DEF QueueInv, FftShape, Wave
  <2>3. \A b \in r[j].from : Good(q, j, b, data[b], id)
    BY <1>3, <2>1
  <2> QED
    BY <1>3, <1>5, <2>1, <2>2, <2>3
<1>7. Len(q) \in 1 .. Len(q)
  BY <1>2
<1>8. ASSUME NEW i \in DOMAIN todo, Enqueues(todo[i], "fft"), NEW b \in todo[i].from
      PROVE  \/ Good(r, Len(r), b, data'[b], id)
             \/ \E j \in 1 .. (i - 1) : Enqueues(todo[j], "fft") /\ b \in todo[j].to
  <2>1. b \in Wave
    BY <1>8 DEF Shaped, WaveDeed, Enqueues, FftShape, Wave
  <2> QED
    BY <1>2, <1>3, <1>5, <1>7, <1>8, <2>1
<1>9. ASSUME NEW b \in Samples \cup Spectrum
      PROVE  \/ Good(r, Len(r), b, data'[b], id)
             \/ \E j \in DOMAIN todo : Enqueues(todo[j], "fft") /\ b \in todo[j].to
  <2>1. b \in Wave
    BY DEF Wave
  <2> QED
    BY <1>2, <1>3, <1>5, <1>7, <2>1
<1>10. \A s \in {"fft", "post"} : \A i \in DOMAIN stream'[s] : stream'[s][i].id = id
  BY <1>1, <1>3, <1>6
<1>11. stream'["post"] # <<>> \/ (\E i \in DOMAIN todo : Enqueues(todo[i], "post")) =>
             /\ \A j \in DOMAIN r : r[j].from # Parts
             /\ \A i \in DOMAIN todo : Enqueues(todo[i], "fft") => todo[i].from # Parts
  BY <1>1, <1>3, <1>6
<1> QED
  BY <1>1, <1>6, <1>8, <1>9, <1>10, <1>11 DEF OnlyOwn

\* While something waits on the other stream, what it writes is not read.
LEMMA OnlyOwnPost ==
    ASSUME StreamsInv, QueueInv, lastId \in Nat, Device("post"), NEW c \in Charts, Going(c), Shaped(c), OnlyOwn(c)
    PROVE  OnlyOwn(c)'
<1> DEFINE todo == call[c].todo
           id   == call[c].id
           q    == stream["fft"]
           p    == stream["post"]
<1>1. /\ p \in Seq(Queued) /\ p # <<>> /\ stream'["post"] = Tail(p) /\ stream'["fft"] = q
      /\ data' = [b \in Cells |-> IF b \in p[1].to THEN Produced("post") ELSE data[b]]
      /\ UNCHANGED <<pc, call, met, lastId, okay>>
  BY DeviceIs, StreamsAreSeqs
<1>2. /\ DOMAIN Tail(p) = 1 .. (Len(p) - 1) /\ DOMAIN p = 1 .. Len(p)
      /\ Len(p) \in Nat /\ Len(p) > 0 /\ \A i \in 1 .. (Len(p) - 1) : Tail(p)[i] = p[i + 1]
  BY <1>1, SeqTail
<1>3. p[1].to = Parts
  BY <1>2 DEF QueueInv, PostShape
<1>4. \A b \in Samples \cup Spectrum : data'[b] = data[b]
  BY <1>1, <1>3, WaveBuffers DEF Wave
<1>5. /\ \A j \in DOMAIN q : q[j].from \subseteq Samples \cup Spectrum
      /\ \A i \in DOMAIN todo : Enqueues(todo[i], "fft") => todo[i].from \subseteq Samples \cup Spectrum
  <2>1. /\ \A j \in DOMAIN q : q[j].from # Parts
        /\ \A i \in DOMAIN todo : Enqueues(todo[i], "fft") => todo[i].from # Parts
    BY <1>1 DEF OnlyOwn
  <2>2. \A j \in DOMAIN q : FftShape(q[j])
    BY DEF QueueInv
  <2>3. \A i \in DOMAIN todo : Enqueues(todo[i], "fft") => FftShape(todo[i])
    BY DEF Shaped, WaveDeed, Enqueues
  <2> QED
    BY <2>1, <2>2, <2>3 DEF FftShape
<1>6. \A i \in DOMAIN stream'["post"] : stream'["post"][i].id = id
  <2>1. \A i \in 1 .. (Len(p) - 1) : i + 1 \in DOMAIN p
    BY <1>2
  <2> QED
    BY <1>1, <1>2, <2>1 DEF OnlyOwn
<1>7. \A j \in DOMAIN q : q[j].id = id
  BY DEF OnlyOwn
<1>8. \A s \in {"fft", "post"} : \A i \in DOMAIN stream'[s] : stream'[s][i].id = id
  BY <1>1, <1>6, <1>7
<1>9. stream'["post"] # <<>> => stream["post"] # <<>>
  BY <1>1
<1> QED
  BY <1>1, <1>4, <1>5, <1>8, <1>9 DEF OnlyOwn

-----------------------------------------------------------------------------
(* A call on the waveform configuration begins *)

\* What the two transforms have in common.
Transform(p) ==
    /\ \A i \in DOMAIN p : WaveDeed(p[i])
    /\ \A i \in DOMAIN p : p[i].op = "read" /\ p[i].from = Parts =>
          \E j \in 1 .. (i - 1) : Enqueues(p[j], "post")
    /\ \A s \in {"fft", "post"} :
          \E k \in DOMAIN p : /\ p[k].op = "sync" /\ p[k].s = s
                              /\ \A i \in DOMAIN p : Enqueues(p[i], s) => i < k
    /\ \A i \in DOMAIN p : Enqueues(p[i], "fft") /\ p[i].from # {} =>
          \E j \in 1 .. (i - 1) : Enqueues(p[j], "fft") /\ p[j].to = p[i].from
    /\ \A B \in {Samples, Spectrum} : \E j \in DOMAIN p : Enqueues(p[j], "fft") /\ p[j].to = B
    /\ (\E i \in DOMAIN p : Enqueues(p[i], "post")) =>
          \A i \in DOMAIN p : Enqueues(p[i], "fft") => p[i].from # Parts

LEMMA FftTransform == Transform(RunWaveformFft)
<1> DEFINE p == RunWaveformFft
<1>1. /\ DOMAIN p = 1 .. 6
      /\ p[1] = Op("enqueue", "fft", {}, Samples) /\ p[2] = Op("enqueue", "fft", Samples, Spectrum)
      /\ p[3] = Op("enqueue", "post", Spectrum, Parts) /\ p[4] = Op("read", "post", Parts, {})
      /\ p[5] = Op("sync", "post", {}, {}) /\ p[6] = Op("sync", "fft", {}, {})
  BY DEF RunWaveformFft, Upload, Kernel, Download, Sync
<1> HIDE DEF p
<1>2. /\ p[1].op = "enqueue" /\ p[1].s = "fft" /\ p[1].from = {} /\ p[1].to = Samples
      /\ p[2].op = "enqueue" /\ p[2].s = "fft" /\ p[2].from = Samples /\ p[2].to = Spectrum
      /\ p[3].op = "enqueue" /\ p[3].s = "post" /\ p[3].from = Spectrum /\ p[3].to = Parts
      /\ p[4].op = "read" /\ p[4].s = "post" /\ p[4].from = Parts
      /\ p[5].op = "sync" /\ p[5].s = "post" /\ p[6].op = "sync" /\ p[6].s = "fft"
  BY <1>1 DEF Op
<1>3. \A i \in DOMAIN p : WaveDeed(p[i])
  BY <1>1, <1>2 DEF WaveDeed, Enqueues, FftShape, PostShape
<1>4. /\ \A i \in DOMAIN p : Enqueues(p[i], "fft") => i \in {1, 2}
      /\ \A i \in DOMAIN p : Enqueues(p[i], "post") => i = 3
      /\ Enqueues(p[1], "fft") /\ Enqueues(p[2], "fft") /\ Enqueues(p[3], "post")
  BY <1>1, <1>2 DEF Enqueues
<1>5. \A i \in DOMAIN p : p[i].op = "read" /\ p[i].from = Parts => \E j \in 1 .. (i - 1) : Enqueues(p[j], "post")
  <2>1. \A i \in DOMAIN p : p[i].op = "read" => 3 \in 1 .. (i - 1)
    BY <1>1, <1>2
  <2> QED
    BY <1>4, <2>1
<1>6. \A s \in {"fft", "post"} :
          \E k \in DOMAIN p : /\ p[k].op = "sync" /\ p[k].s = s
                              /\ \A i \in DOMAIN p : Enqueues(p[i], s) => i < k
  <2>1. 5 \in DOMAIN p /\ \A i \in DOMAIN p : Enqueues(p[i], "post") => i < 5
    BY <1>1, <1>4
  <2>2. 6 \in DOMAIN p /\ \A i \in DOMAIN p : Enqueues(p[i], "fft") => i < 6
    BY <1>1, <1>4
  <2> QED
    BY <1>2, <2>1, <2>2
<1>7. \A i \in DOMAIN p : Enqueues(p[i], "fft") /\ p[i].from # {} =>
          \E j \in 1 .. (i - 1) : Enqueues(p[j], "fft") /\ p[j].to = p[i].from
  <2>1. 1 \in 1 .. (2 - 1)
    OBVIOUS
  <2> QED
    BY <1>2, <1>4, <2>1
<1>8. \A B \in {Samples, Spectrum} : \E j \in DOMAIN p : Enqueues(p[j], "fft") /\ p[j].to = B
  <2>1. 1 \in DOMAIN p /\ 2 \in DOMAIN p
    BY <1>1
  <2> QED
    BY <1>2, <1>4, <2>1
<1>9. \A i \in DOMAIN p : Enqueues(p[i], "fft") => p[i].from # Parts
  BY <1>2, <1>4, WaveBuffers
<1>10. Transform(p)
  BY <1>3, <1>5, <1>6, <1>7, <1>8, <1>9 DEF Transform
<1> QED
  BY <1>10 DEF p

LEMMA IfftTransform == Transform(RunWaveformIfft)
<1> DEFINE p == RunWaveformIfft
<1>1. /\ DOMAIN p = 1 .. 6
      /\ p[1] = Op("enqueue", "fft", {}, Parts) /\ p[2] = Op("enqueue", "fft", Parts, Spectrum)
      /\ p[3] = Op("enqueue", "fft", Spectrum, Samples) /\ p[4] = Op("read", "post", Samples, {})
      /\ p[5] = Op("sync", "post", {}, {}) /\ p[6] = Op("sync", "fft", {}, {})
  BY DEF RunWaveformIfft, Upload, Kernel, Download, Sync
<1> HIDE DEF p
<1>2. /\ p[1].op = "enqueue" /\ p[1].s = "fft" /\ p[1].from = {} /\ p[1].to = Parts
      /\ p[2].op = "enqueue" /\ p[2].s = "fft" /\ p[2].from = Parts /\ p[2].to = Spectrum
      /\ p[3].op = "enqueue" /\ p[3].s = "fft" /\ p[3].from = Spectrum /\ p[3].to = Samples
      /\ p[4].op = "read" /\ p[4].s = "post" /\ p[4].from = Samples
      /\ p[5].op = "sync" /\ p[5].s = "post" /\ p[6].op = "sync" /\ p[6].s = "fft"
  BY <1>1 DEF Op
<1>3. \A i \in DOMAIN p : WaveDeed(p[i])
  BY <1>1, <1>2 DEF WaveDeed, Enqueues, FftShape, PostShape
<1>4. /\ \A i \in DOMAIN p : Enqueues(p[i], "fft") => i \in {1, 2, 3}
      /\ \A i \in DOMAIN p : ~ Enqueues(p[i], "post")
      /\ Enqueues(p[1], "fft") /\ Enqueues(p[2], "fft") /\ Enqueues(p[3], "fft")
  BY <1>1, <1>2 DEF Enqueues
<1>5. \A i \in DOMAIN p : p[i].op = "read" => p[i].from # Parts
  BY <1>1, <1>2, WaveBuffers
<1>6. \A s \in {"fft", "post"} :
          \E k \in DOMAIN p : /\ p[k].op = "sync" /\ p[k].s = s
                              /\ \A i \in DOMAIN p : Enqueues(p[i], s) => i < k
  <2>1. 5 \in DOMAIN p /\ \A i \in DOMAIN p : Enqueues(p[i], "post") => i < 5
    BY <1>1, <1>4
  <2>2. 6 \in DOMAIN p /\ \A i \in DOMAIN p : Enqueues(p[i], "fft") => i < 6
    BY <1>1, <1>4
  <2> QED
    BY <1>2, <2>1, <2>2
<1>7. \A i \in DOMAIN p : Enqueues(p[i], "fft") /\ p[i].from # {} =>
          \E j \in 1 .. (i - 1) : Enqueues(p[j], "fft") /\ p[j].to = p[i].from
  <2>1. 1 \in 1 .. (2 - 1) /\ 2 \in 1 .. (3 - 1)
    OBVIOUS
  <2> QED
    BY <1>2, <1>4, <2>1
<1>8. \A B \in {Samples, Spectrum} : \E j \in DOMAIN p : Enqueues(p[j], "fft") /\ p[j].to = B
  <2>1. 2 \in DOMAIN p /\ 3 \in DOMAIN p
    BY <1>1
  <2> QED
    BY <1>2, <1>4, <2>1
<1>9. Transform(p)
  BY <1>3, <1>4, <1>5, <1>6, <1>7, <1>8 DEF Transform
<1> QED
  BY <1>9 DEF p

LEMMA GoingBegin ==
    ASSUME CallInv, StreamsInv, QueueInv, lastId \in Nat, NEW c \in Charts, NEW name \in CallNames,
           Begun(c, name), KindOf(name) = "waveform"
    PROVE  Shaped(c)' /\ Fresh(c)' /\ (call'[c].clean => OnlyOwn(c)')
<1> DEFINE p == Program(c)[name]
<1>1. /\ lastId' = lastId + 1 /\ pc'[c] = "run" /\ call'[c].id = lastId + 1 /\ call'[c].todo = p
      /\ call'[c].out = {} /\ call'[c].floor = okay
      /\ call'[c].clean = (stream["fft"] = <<>> /\ stream["post"] = <<>>)
      /\ UNCHANGED <<stream, okay>>
  BY BeginIs DEF Begun
<1>2. Transform(p)
  <2>1. name \in {"fft", "ifft"}
    BY DEF KindOf, CallNames, Kinds
  <2>2. p \in {RunWaveformFft, RunWaveformIfft}
    BY <2>1 DEF Program
  <2> QED
    BY <2>2, FftTransform, IfftTransform
<1>3. data' = data
  <2>1. name # "batch"
    BY DEF KindOf, Kinds
  <2> QED
    BY <2>1 DEF Begun
<1>4. okay \in Nat /\ okay <= lastId
  BY DEF QueueInv
<1> HIDE DEF p
<1>5. Shaped(c)'
  <2>1. ASSUME NEW i \in DOMAIN p, Enqueues(p[i], "fft"), p[i].from = Parts
        PROVE  \E j \in 1 .. (i - 1) : Enqueues(p[j], "fft") /\ p[j].to = Parts
    BY <1>2, <2>1, WaveBuffers DEF Transform
  <2>2. \A i \in DOMAIN p : WaveDeed(p[i])
    BY <1>2 DEF Transform
  <2>3. okay' <= call'[c].id
    BY <1>1, <1>4
  <2> QED
    BY <1>1, <2>1, <2>2, <2>3 DEF Shaped
<1>6. Fresh(c)'
  <2>1. \A s \in {"fft", "post"} : \A i \in DOMAIN stream'[s] : stream'[s][i].id <= lastId + 1
    <3>1. \A s \in {"fft", "post"} : \A i \in DOMAIN stream[s] : stream[s][i].id \in Nat /\ stream[s][i].id <= lastId
      BY StreamsAreSeqs
    <3> QED
      BY <1>1, <3>1
  <2>2. \A b \in Wave : data'[b] \subseteq 0 .. (lastId + 1)
    BY <1>3, WaveBuffers DEF QueueInv
  <2>3. \A s \in {"fft", "post"} : Awaits(c, s)'
    BY <1>1, <1>2 DEF Transform, Awaits
  <2>4. \A i \in DOMAIN p : p[i].op = "read" /\ p[i].from = Parts => \E j \in 1 .. (i - 1) : Enqueues(p[j], "post")
    BY <1>2 DEF Transform
  <2>5. /\ call'[c].floor = okay' /\ call'[c].out \subseteq okay' .. call'[c].id
        /\ call'[c].id = lastId + 1 /\ call'[c].todo = p
    BY <1>1
  <2> QED
    BY <2>1, <2>2, <2>3, <2>4, <2>5 DEF Fresh
<1>7. ASSUME call'[c].clean PROVE OnlyOwn(c)'
  <2>1. stream'["fft"] = <<>> /\ stream'["post"] = <<>>
    BY <1>1, <1>7
  <2>2. \A i \in DOMAIN p : Enqueues(p[i], "fft") => \A b \in p[i].from :
             \E j \in 1 .. (i - 1) : Enqueues(p[j], "fft") /\ b \in p[j].to
    BY <1>2 DEF Transform
  <2>3. \A b \in Samples \cup Spectrum : \E j \in DOMAIN p : Enqueues(p[j], "fft") /\ b \in p[j].to
    BY <1>2 DEF Transform
  <2>4. (\E i \in DOMAIN p : Enqueues(p[i], "post")) =>
          \A i \in DOMAIN p : Enqueues(p[i], "fft") => p[i].from # Parts
    BY <1>2 DEF Transform
  <2>5. \A s \in {"fft", "post"} : DOMAIN stream'[s] = {}
    BY <2>1
  <2> QED
    BY <1>1, <2>1, <2>2, <2>3, <2>4, <2>5 DEF OnlyOwn
<1> QED
  BY <1>5, <1>6, <1>7

-----------------------------------------------------------------------------
(* A call on the waveform configuration takes a step *)

LEMMA WaveStepIs ==
    ASSUME CallInv, StreamsInv, BusyInv, NEW c \in Charts, Step(c), Going(c), Shaped(c)
    PROVE  LET todo == call[c].todo
               op   == todo[1]
               o    == [id |-> call[c].id, from |-> op.from, to |-> op.to]
           IN /\ pc[c] = "run" /\ todo # <<>> /\ todo \in Seq(Deeds(c, "waveform")) /\ WaveDeed(op)
              /\ op.op \in {"read", "sync"} => stream[op.s] = <<>>
              /\ \A s \in {"fft", "post"} :
                    /\ ~ Enqueues(op, s) => stream'[s] = stream[s]
                    /\ Enqueues(op, s) => o \in Queued /\ stream'[s] = Append(stream[s], o)
              /\ call[c].id \in 1 .. lastId /\ call[c].kind = "waveform"
              /\ call'[c].id = call[c].id /\ call'[c].kind = "waveform" /\ call'[c].todo = Tail(todo)
              /\ call'[c].floor = call[c].floor /\ call'[c].clean = call[c].clean
              /\ call'[c].out = IF op.op = "read" THEN call[c].out \cup UNION {data[b] : b \in op.from}
                                                  ELSE call[c].out
              /\ pc'[c] = (IF Tail(todo) = <<>> THEN "back" ELSE "run")
              /\ pc'[c] = "back" => call'[c].ok
              /\ \A d \in Charts \ {c} : call'[d] = call[d] /\ pc'[d] = pc[d]
              /\ UNCHANGED <<data, met, lastId, okay>>
<1> DEFINE todo == call[c].todo
           op   == todo[1]
           o    == [id |-> call[c].id, from |-> op.from, to |-> op.to]
<1>1. /\ pc[c] = "run" /\ todo # <<>> /\ Head(todo) \in Deeds(c, call[c].kind)
      /\ Head(todo).op \in {"read", "sync"} => Waited(Head(todo).s)
      /\ Head(todo).op # "enqueue" => stream' = stream
      /\ Head(todo).op = "enqueue" =>
            /\ Head(todo).s \in Streams \cap StreamsOf(call[c].kind)
            /\ \A s \in Streams \ {Head(todo).s} : stream'[s] = stream[s]
            /\ [id |-> call[c].id, from |-> Head(todo).from, to |-> Head(todo).to] \in Queued
            /\ stream' = [stream EXCEPT ![Head(todo).s] =
                  Append(@, [id |-> call[c].id, from |-> Head(todo).from, to |-> Head(todo).to])]
  BY StepIs
<1>2. /\ call'[c].id = call[c].id /\ call'[c].kind = call[c].kind /\ call'[c].todo = Tail(todo)
      /\ call'[c].floor = call[c].floor /\ call'[c].clean = call[c].clean
      /\ call'[c].ok = (Tail(todo) = <<>>)
      /\ call'[c].out = IF Head(todo).op = "read" THEN call[c].out \cup UNION {data[b] : b \in Head(todo).from}
                                          ELSE call[c].out
      /\ pc'[c] = IF Tail(todo) = <<>> THEN "back" ELSE "run"
      /\ \A d \in Charts \ {c} : call'[d] = call[d] /\ pc'[d] = pc[d]
      /\ UNCHANGED <<data, met, lastId, okay>>
  BY StepIs
<1>3. call[c].kind = "waveform" /\ call[c].id \in 1 .. lastId /\ todo \in Seq(Deeds(c, "waveform"))
  BY <1>1 DEF Going, BusyInv
<1>4. Head(todo) = op /\ 1 \in DOMAIN todo
  BY <1>1, <1>3, SeqTail
<1>5. WaveDeed(op)
  BY <1>4 DEF Shaped
<1>6. op.op \in {"read", "sync"} => stream[op.s] = <<>>
  <2>1. op.op \in {"read", "sync"} => op.s \in {"fft", "post"}
    BY <1>5 DEF WaveDeed, Enqueues
  <2> QED
    BY <1>1, <1>4, <2>1 DEF Waited
<1>7. ASSUME NEW s \in {"fft", "post"}
      PROVE  /\ ~ Enqueues(op, s) => stream'[s] = stream[s]
             /\ Enqueues(op, s) => o \in Queued /\ stream'[s] = Append(stream[s], o)
  <2>1. s \in Streams /\ DOMAIN stream = Streams
    BY DEF Streams, StreamsInv
  <2>2. CASE op.op = "enqueue"
    <3>1. /\ op.s \in Streams /\ o \in Queued /\ stream' = [stream EXCEPT ![op.s] = Append(@, o)]
          /\ \A t \in Streams \ {op.s} : stream'[t] = stream[t]
      BY <1>1, <1>4, <2>2
    <3> HIDE DEF o, op
    <3> QED
      BY <2>1, <2>2, <3>1 DEF Enqueues
  <2>3. CASE op.op # "enqueue"
    BY <1>1, <1>4, <2>3 DEF Enqueues
  <2> QED
    BY <2>2, <2>3
<1> QED
  BY <1>1, <1>2, <1>3, <1>4, <1>5, <1>6, <1>7

\* The rest of a sequence, in terms of the whole of it.
LEMMA RestIs ==
    ASSUME NEW S, NEW q \in Seq(S), q # <<>>
    PROVE  /\ DOMAIN q = 1 .. Len(q) /\ Len(q) \in Nat /\ 1 \in DOMAIN q
           /\ \A i \in DOMAIN Tail(q) : i \in Nat /\ i >= 1 /\ i + 1 \in DOMAIN q /\ Tail(q)[i] = q[i + 1]
           /\ \A i \in DOMAIN q : i \in Nat /\ (i = 1 \/ (i > 1 /\ i - 1 \in DOMAIN Tail(q) /\ Tail(q)[i - 1] = q[i]))
<1>1. /\ DOMAIN q = 1 .. Len(q) /\ Len(q) \in Nat /\ Len(q) > 0 /\ DOMAIN Tail(q) = 1 .. (Len(q) - 1)
      /\ \A i \in 1 .. (Len(q) - 1) : Tail(q)[i] = q[i + 1]
  BY SeqTail
<1> DEFINE r == Tail(q)
<1> HIDE DEF r
<1>2. \A i \in 2 .. Len(q) : i - 1 \in 1 .. (Len(q) - 1) /\ (i - 1) + 1 = i
  BY <1>1
<1> QED
  BY <1>1, <1>2

\* Something in the rest was in the whole, and came no later.
LEMMA Shifted ==
    ASSUME NEW S, NEW q \in Seq(S), q # <<>>, NEW i \in DOMAIN Tail(q),
           NEW j \in 1 .. i, j # 1
    PROVE  j - 1 \in 1 .. (i - 1) /\ Tail(q)[j - 1] = q[j]
<1>1. i \in Nat /\ i + 1 \in DOMAIN q /\ DOMAIN q = 1 .. Len(q) /\ Len(q) \in Nat
  BY RestIs
<1>2. j \in DOMAIN q /\ j - 1 \in 1 .. (i - 1)
  BY <1>1
<1>3. Tail(q)[j - 1] = q[j]
  BY <1>2, RestIs
<1> QED
  BY <1>2, <1>3

LEMMA QueueStep ==
    ASSUME CallInv, StreamsInv, BusyInv, QueueInv, NEW c \in Charts, Step(c), Going(c), Shaped(c)
    PROVE  /\ QueueInv' /\ (Young(Parts) => Young(Parts)')
           /\ \A j \in DOMAIN stream["fft"] : j \in DOMAIN stream'["fft"] /\ stream'["fft"][j] = stream["fft"][j]
<1> DEFINE todo == call[c].todo
           op   == todo[1]
           o    == [id |-> call[c].id, from |-> op.from, to |-> op.to]
           q    == stream["fft"]
           p    == stream["post"]
<1>1. /\ todo # <<>> /\ todo \in Seq(Deeds(c, "waveform")) /\ WaveDeed(op)
      /\ ~ Enqueues(op, "fft") => stream'["fft"] = q
      /\ Enqueues(op, "fft") => o \in Queued /\ stream'["fft"] = Append(q, o)
      /\ ~ Enqueues(op, "post") => stream'["post"] = p
      /\ Enqueues(op, "post") => o \in Queued /\ stream'["post"] = Append(p, o)
      /\ call[c].id \in 1 .. lastId /\ UNCHANGED <<data, met, lastId, okay>>
  BY WaveStepIs
<1>2. o.id = call[c].id /\ o.from = op.from /\ o.to = op.to /\ o.id >= okay
  BY <1>1 DEF Shaped, QueueInv
<1> HIDE DEF o
<1>3. q \in Seq(Queued) /\ p \in Seq(Queued)
  BY StreamsAreSeqs
<1>4. Enqueues(op, "fft") =>
         /\ DOMAIN stream'["fft"] = 1 .. (Len(q) + 1) /\ DOMAIN q = 1 .. Len(q) /\ Len(q) \in Nat
         /\ stream'["fft"][Len(q) + 1] = o /\ \A i \in 1 .. Len(q) : stream'["fft"][i] = q[i]
  <2> SUFFICES ASSUME Enqueues(op, "fft")
               PROVE  /\ DOMAIN stream'["fft"] = 1 .. (Len(q) + 1) /\ DOMAIN q = 1 .. Len(q) /\ Len(q) \in Nat
                      /\ stream'["fft"][Len(q) + 1] = o /\ \A i \in 1 .. Len(q) : stream'["fft"][i] = q[i]
    OBVIOUS
  <2>1. o \in Queued /\ stream'["fft"] = Append(q, o)
    BY <1>1
  <2> QED
    BY <1>3, <2>1, SeqAppend
<1>5. Enqueues(op, "post") =>
         /\ DOMAIN stream'["post"] = 1 .. (Len(p) + 1) /\ DOMAIN p = 1 .. Len(p) /\ Len(p) \in Nat
         /\ stream'["post"][Len(p) + 1] = o /\ \A i \in 1 .. Len(p) : stream'["post"][i] = p[i]
  <2> SUFFICES ASSUME Enqueues(op, "post")
               PROVE  /\ DOMAIN stream'["post"] = 1 .. (Len(p) + 1) /\ DOMAIN p = 1 .. Len(p) /\ Len(p) \in Nat
                      /\ stream'["post"][Len(p) + 1] = o /\ \A i \in 1 .. Len(p) : stream'["post"][i] = p[i]
    OBVIOUS
  <2>1. o \in Queued /\ stream'["post"] = Append(p, o)
    BY <1>1
  <2> QED
    BY <1>3, <2>1, SeqAppend
<1>6. \A i \in DOMAIN stream'["fft"] : stream'["fft"][i].id >= okay /\ FftShape(stream'["fft"][i])
  <2>1. Enqueues(op, "fft") => FftShape(o)
    BY <1>1, <1>2 DEF WaveDeed, Enqueues, FftShape
  <2>2. CASE Enqueues(op, "fft")
    <3>1. \A i \in 1 .. Len(q) : q[i].id >= okay /\ FftShape(q[i])
      BY <1>4, <2>2 DEF QueueInv
    <3>2. \A i \in 1 .. (Len(q) + 1) : i \in 1 .. Len(q) \/ i = Len(q) + 1
      BY <1>4, <2>2
    <3> QED
      BY <1>2, <1>4, <2>1, <2>2, <3>1, <3>2
  <2>3. CASE ~ Enqueues(op, "fft")
    BY <1>1, <2>3 DEF QueueInv
  <2> QED
    BY <2>2, <2>3
<1>7. \A i \in DOMAIN stream'["post"] : stream'["post"][i].id >= okay /\ PostShape(stream'["post"][i])
  <2>1. Enqueues(op, "post") => PostShape(o)
    BY <1>1, <1>2 DEF WaveDeed, Enqueues, PostShape
  <2>2. CASE Enqueues(op, "post")
    <3>1. \A i \in 1 .. Len(p) : p[i].id >= okay /\ PostShape(p[i])
      BY <1>5, <2>2 DEF QueueInv
    <3>2. \A i \in 1 .. (Len(p) + 1) : i \in 1 .. Len(p) \/ i = Len(p) + 1
      BY <1>5, <2>2
    <3> QED
      BY <1>2, <1>5, <2>1, <2>2, <3>1, <3>2
  <2>3. CASE ~ Enqueues(op, "post")
    BY <1>1, <2>3 DEF QueueInv
  <2> QED
    BY <2>2, <2>3
<1>8. \A B : Young(B)' <=> Young(B)
  BY <1>1 DEF Young
<1>9. ASSUME NEW j \in DOMAIN stream'["fft"], stream'["fft"][j].from = Parts
      PROVE  Young(Parts) \/ \E i \in 1 .. (j - 1) : stream'["fft"][i].to = Parts
  <2>1. CASE ~ Enqueues(op, "fft")
    BY <1>1, <1>9, <2>1 DEF QueueInv
  <2>2. CASE Enqueues(op, "fft") /\ j \in DOMAIN q
    <3>1. Young(Parts) \/ \E i \in 1 .. (j - 1) : q[i].to = Parts
      BY <1>4, <1>9, <2>2 DEF QueueInv
    <3>2. \A i \in 1 .. (j - 1) : i \in 1 .. Len(q)
      BY <1>4, <2>2
    <3> QED
      BY <1>4, <2>2, <3>1, <3>2
  <2>3. CASE Enqueues(op, "fft") /\ j \notin DOMAIN q
    <3>1. j = Len(q) + 1 /\ op.from = Parts /\ j - 1 = Len(q)
      BY <1>2, <1>4, <1>9, <2>3
    <3>2. 1 \in DOMAIN todo
      BY <1>1, RestIs
    <3>3. Young(Parts) \/ \E i \in DOMAIN q : q[i].to = Parts
      BY <2>3, <3>1, <3>2 DEF Shaped
    <3> QED
      BY <1>4, <2>3, <3>1, <3>3
  <2> QED
    BY <2>1, <2>2, <2>3
<1>10. \A j \in DOMAIN q : j \in DOMAIN stream'["fft"] /\ stream'["fft"][j] = q[j]
  <2>1. CASE Enqueues(op, "fft")
    BY <1>4, <2>1
  <2>2. CASE ~ Enqueues(op, "fft")
    BY <1>1, <2>2
  <2> QED
    BY <2>1, <2>2
<1> QED
  BY <1>1, <1>6, <1>7, <1>8, <1>9, <1>10 DEF QueueInv

LEMMA ShapedStep ==
    ASSUME CallInv, StreamsInv, BusyInv, QueueInv, NEW c \in Charts, Step(c), Going(c), Shaped(c)
    PROVE  Shaped(c)' /\ Going(c)'
<1> DEFINE todo == call[c].todo
           op   == todo[1]
           o    == [id |-> call[c].id, from |-> op.from, to |-> op.to]
           q    == stream["fft"]
<1>1. /\ todo # <<>> /\ todo \in Seq(Deeds(c, "waveform"))
      /\ Enqueues(op, "fft") => o \in Queued /\ stream'["fft"] = Append(q, o)
      /\ UNCHANGED <<data, met, lastId, okay>>
  BY WaveStepIs
<1>2. /\ call'[c].id = call[c].id /\ call'[c].kind = "waveform" /\ call'[c].todo = Tail(todo)
      /\ pc'[c] = (IF Tail(todo) = <<>> THEN "back" ELSE "run")
      /\ pc'[c] = "back" => call'[c].ok
  BY WaveStepIs
<1>3. /\ \A i \in DOMAIN Tail(todo) : i \in Nat /\ i >= 1 /\ i + 1 \in DOMAIN todo /\ Tail(todo)[i] = todo[i + 1]
      /\ 1 \in DOMAIN todo
  BY <1>1, RestIs
<1>4. ASSUME NEW i \in DOMAIN Tail(todo), Enqueues(Tail(todo)[i], "fft"), Tail(todo)[i].from = Parts
      PROVE  \/ Young(Parts)'
             \/ \E j \in DOMAIN stream'["fft"] : stream'["fft"][j].to = Parts
             \/ \E j \in 1 .. (i - 1) : Enqueues(Tail(todo)[j], "fft") /\ Tail(todo)[j].to = Parts
  <2>1. \/ Young(Parts)
        \/ \E j \in DOMAIN q : q[j].to = Parts
        \/ \E j \in 1 .. i : Enqueues(todo[j], "fft") /\ todo[j].to = Parts
    <3>1. i + 1 \in DOMAIN todo /\ Tail(todo)[i] = todo[i + 1] /\ (i + 1) - 1 = i
      BY <1>3
    <3> QED
      BY <1>4, <3>1 DEF Shaped
  <2>2. CASE Young(Parts) \/ \E j \in DOMAIN q : q[j].to = Parts
    BY <2>2, QueueStep
  <2>3. CASE Enqueues(todo[1], "fft") /\ todo[1].to = Parts
    <3>1. Len(q) + 1 \in DOMAIN stream'["fft"] /\ stream'["fft"][Len(q) + 1] = o
      BY <1>1, <2>3, StreamsAreSeqs, SeqAppend
    <3> QED
      BY <2>3, <3>1
  <2>4. ASSUME NEW j \in 1 .. i, j # 1, Enqueues(todo[j], "fft"), todo[j].to = Parts
        PROVE  \E l \in 1 .. (i - 1) : Enqueues(Tail(todo)[l], "fft") /\ Tail(todo)[l].to = Parts
    <3>1. j - 1 \in 1 .. (i - 1) /\ Tail(todo)[j - 1] = todo[j]
      BY <1>1, <2>4, Shifted
    <3> QED
      BY <2>4, <3>1
  <2> QED
    BY <2>1, <2>2, <2>3, <2>4
<1>5. \A i \in DOMAIN Tail(todo) : WaveDeed(Tail(todo)[i])
  BY <1>3 DEF Shaped
<1>6. Going(c)'
  BY <1>2 DEF Going
<1>7. okay' <= call'[c].id
  BY <1>1, <1>2 DEF Shaped
<1>8. pc'[c] = "back" => Tail(todo) = <<>>
  BY <1>2
<1>9. Shaped(c)'
  BY <1>2, <1>4, <1>5, <1>7, <1>8 DEF Shaped
<1> QED
  BY <1>6, <1>9

\* Another call on the configuration, which has met this one.
LEMMA ShapedBeside ==
    ASSUME CallInv, StreamsInv, BusyInv, QueueInv, NEW c \in Charts, Step(c), Going(c), Shaped(c),
           NEW d \in Charts \ {c}, Shaped(d)
    PROVE  Shaped(d)'
<1>1. call'[d] = call[d] /\ pc'[d] = pc[d] /\ okay' = okay
  BY WaveStepIs
<1> QED
  BY <1>1, QueueStep DEF Shaped

LEMMA FreshStep ==
    ASSUME CallInv, StreamsInv, BusyInv, QueueInv, NEW c \in Charts, Step(c), Going(c), Shaped(c), Fresh(c)
    PROVE  Fresh(c)'
<1> DEFINE todo == call[c].todo
           id   == call[c].id
           op   == todo[1]
           o    == [id |-> id, from |-> op.from, to |-> op.to]
<1>1. /\ todo # <<>> /\ todo \in Seq(Deeds(c, "waveform")) /\ WaveDeed(op)
      /\ op.op \in {"read", "sync"} => stream[op.s] = <<>>
      /\ \A s \in {"fft", "post"} :
            /\ ~ Enqueues(op, s) => stream'[s] = stream[s]
            /\ Enqueues(op, s) => o \in Queued /\ stream'[s] = Append(stream[s], o)
      /\ id \in 1 .. lastId /\ UNCHANGED <<data, met, lastId, okay>>
  BY WaveStepIs
<1>2. /\ call'[c].id = id /\ call'[c].todo = Tail(todo) /\ call'[c].floor = call[c].floor
      /\ call'[c].out = IF op.op = "read" THEN call[c].out \cup UNION {data[b] : b \in op.from}
                                          ELSE call[c].out
  BY WaveStepIs
<1>3. /\ \A i \in DOMAIN Tail(todo) : i \in Nat /\ i >= 1 /\ i + 1 \in DOMAIN todo /\ Tail(todo)[i] = todo[i + 1]
      /\ \A i \in DOMAIN todo : i \in Nat /\ (i = 1 \/ (i > 1 /\ i - 1 \in DOMAIN Tail(todo)
                                                         /\ Tail(todo)[i - 1] = todo[i]))
      /\ 1 \in DOMAIN todo
  BY <1>1, RestIs
<1>4. \A s \in {"fft", "post"} : stream[s] \in Seq(Queued)
  BY StreamsAreSeqs
<1>5. \A s \in {"fft", "post"} : \A i \in DOMAIN stream'[s] : stream'[s][i].id <= id
  <2> SUFFICES ASSUME NEW s \in {"fft", "post"}, NEW i \in DOMAIN stream'[s] PROVE stream'[s][i].id <= id
    OBVIOUS
  <2>1. CASE ~ Enqueues(op, s)
    BY <1>1, <2>1 DEF Fresh
  <2>2. CASE Enqueues(op, s)
    <3>1. /\ i \in 1 .. (Len(stream[s]) + 1) /\ DOMAIN stream[s] = 1 .. Len(stream[s]) /\ Len(stream[s]) \in Nat
          /\ stream'[s][Len(stream[s]) + 1] = o
          /\ \A j \in 1 .. Len(stream[s]) : stream'[s][j] = stream[s][j]
      <4>1. o \in Queued /\ stream'[s] = Append(stream[s], o)
        BY <1>1, <2>2
      <4> HIDE DEF o
      <4> QED
        BY <1>4, <4>1, SeqAppend
    <3>2. \A j \in DOMAIN stream[s] : stream[s][j].id <= id
      BY DEF Fresh
    <3>3. i \in 1 .. Len(stream[s]) \/ i = Len(stream[s]) + 1
      BY <3>1
    <3>4. id <= id
      BY <1>1
    <3> QED
      BY <3>1, <3>2, <3>3, <3>4
  <2> QED
    BY <2>1, <2>2
<1>6. call'[c].out \subseteq okay .. id
  <2>1. ASSUME op.op = "read" PROVE \A b \in op.from : data[b] \subseteq okay .. id
    <3>1. op.from \in {Samples, Parts} /\ op.s = "post"
      BY <1>1, <2>1 DEF WaveDeed, Enqueues
    <3>2. Young(op.from)
      <4>1. CASE op.from = Samples
        BY <4>1 DEF QueueInv, Young
      <4>2. CASE op.from = Parts
        <5>1. stream["post"] = <<>>
          BY <1>1, <2>1, <3>1
        <5>2. \A j \in 1 .. (1 - 1) : FALSE
          OBVIOUS
        <5> QED
          BY <1>3, <2>1, <4>2, <5>1, <5>2 DEF Fresh
      <4> QED
        BY <3>1, <4>1, <4>2
    <3>3. \A b \in op.from : data[b] \subseteq 0 .. id /\ data[b] \subseteq okay .. lastId
      BY <3>1, <3>2 DEF Fresh, Young, Wave
    <3>4. \A x : x \in 0 .. id /\ x \in okay .. lastId => x \in okay .. id
      BY <1>1 DEF QueueInv
    <3> QED
      BY <3>3, <3>4
  <2>2. call[c].out \subseteq okay .. id
    BY DEF Fresh
  <2> QED
    BY <1>2, <2>1, <2>2
<1>7. ASSUME NEW i \in DOMAIN Tail(todo), Tail(todo)[i].op = "read", Tail(todo)[i].from = Parts
      PROVE  \/ Young(Parts)' \/ stream'["post"] # <<>>
             \/ \E j \in 1 .. (i - 1) : Enqueues(Tail(todo)[j], "post")
  <2>1. \/ Young(Parts) \/ stream["post"] # <<>>
        \/ \E j \in 1 .. i : Enqueues(todo[j], "post")
    <3>1. i + 1 \in DOMAIN todo /\ Tail(todo)[i] = todo[i + 1] /\ (i + 1) - 1 = i
      BY <1>3
    <3> QED
      BY <1>7, <3>1 DEF Fresh
  <2>2. stream["post"] # <<>> \/ Enqueues(op, "post") => stream'["post"] # <<>>
    <3>1. CASE Enqueues(op, "post")
      <4>1. o \in Queued /\ stream'["post"] = Append(stream["post"], o)
        BY <1>1, <3>1
      <4> HIDE DEF o
      <4>2. /\ Len(stream'["post"]) = Len(stream["post"]) + 1 /\ Len(stream["post"]) \in Nat
        BY <1>4, <4>1, SeqAppend
      <4>3. Len(<<>>) = 0
        OBVIOUS
      <4> QED
        BY <4>2, <4>3
    <3>2. CASE ~ Enqueues(op, "post")
      BY <1>1, <3>2
    <3> QED
      BY <3>1, <3>2
  <2>3. ASSUME NEW j \in 1 .. i, j # 1, Enqueues(todo[j], "post")
        PROVE  \E l \in 1 .. (i - 1) : Enqueues(Tail(todo)[l], "post")
    <3>1. j - 1 \in 1 .. (i - 1) /\ Tail(todo)[j - 1] = todo[j]
      BY <1>1, <2>3, Shifted
    <3> QED
      BY <2>3, <3>1
  <2> QED
    BY <2>1, <2>2, <2>3, QueueStep
<1>8. \A s \in {"fft", "post"} : Awaits(c, s)'
  <2> SUFFICES ASSUME NEW s \in {"fft", "post"},
                      stream'[s] # <<>> \/ \E i \in DOMAIN Tail(todo) : Enqueues(Tail(todo)[i], s)
               PROVE  \E k \in DOMAIN Tail(todo) :
                         /\ Tail(todo)[k].op = "sync" /\ Tail(todo)[k].s = s
                         /\ \A i \in DOMAIN Tail(todo) : Enqueues(Tail(todo)[i], s) => i < k
    BY <1>2 DEF Awaits
  <2>1. stream[s] # <<>> \/ \E i \in DOMAIN todo : Enqueues(todo[i], s)
    <3>1. CASE Enqueues(op, s)
      BY <1>3, <3>1
    <3>2. CASE ~ Enqueues(op, s)
      BY <1>1, <1>3, <3>2
    <3> QED
      BY <3>1, <3>2
  <2>2. PICK k \in DOMAIN todo : /\ todo[k].op = "sync" /\ todo[k].s = s
                                 /\ \A i \in DOMAIN todo : Enqueues(todo[i], s) => i < k
    BY <2>1 DEF Fresh, Awaits
  <2>3. k # 1
    <3> SUFFICES ASSUME k = 1 PROVE FALSE
      OBVIOUS
    <3>1. op.op = "sync" /\ op.s = s /\ ~ Enqueues(op, s)
      BY <2>2 DEF Enqueues
    <3>2. stream[s] = <<>> /\ stream'[s] = stream[s]
      BY <1>1, <3>1
    <3>3. PICK i \in DOMAIN Tail(todo) : Enqueues(Tail(todo)[i], s)
      BY <3>2
    <3>4. i + 1 \in DOMAIN todo /\ Tail(todo)[i] = todo[i + 1] /\ i + 1 > 1
      BY <1>3
    <3> QED
      BY <2>2, <3>3, <3>4
  <2>4. k - 1 \in DOMAIN Tail(todo) /\ Tail(todo)[k - 1] = todo[k] /\ k \in Nat
    BY <1>3, <2>3
  <2>5. ASSUME NEW i \in DOMAIN Tail(todo), Enqueues(Tail(todo)[i], s) PROVE i < k - 1
    <3>1. i + 1 \in DOMAIN todo /\ Tail(todo)[i] = todo[i + 1] /\ i \in Nat
      BY <1>3
    <3>2. i + 1 < k
      BY <2>2, <2>5, <3>1
    <3> QED
      BY <2>4, <3>1, <3>2
  <2> QED
    BY <2>2, <2>4, <2>5
<1> HIDE DEF o, op
<1> QED
  BY <1>1, <1>2, <1>5, <1>6, <1>7, <1>8 DEF Fresh

LEMMA OnlyOwnStep ==
    ASSUME CallInv, StreamsInv, BusyInv, QueueInv, NEW c \in Charts, Step(c), Going(c), Shaped(c), OnlyOwn(c)
    PROVE  OnlyOwn(c)'
<1> DEFINE todo == call[c].todo
           id   == call[c].id
           op   == todo[1]
           o    == [id |-> id, from |-> op.from, to |-> op.to]
           q    == stream["fft"]
           r    == stream'["fft"]
<1>1. /\ todo # <<>> /\ todo \in Seq(Deeds(c, "waveform")) /\ WaveDeed(op)
      /\ \A s \in {"fft", "post"} :
            /\ ~ Enqueues(op, s) => stream'[s] = stream[s]
            /\ Enqueues(op, s) => o \in Queued /\ stream'[s] = Append(stream[s], o)
      /\ UNCHANGED <<data, met, lastId, okay>>
      /\ call'[c].id = id /\ call'[c].todo = Tail(todo)
  BY WaveStepIs
<1>2. /\ \A i \in DOMAIN Tail(todo) : i \in Nat /\ i >= 1 /\ i + 1 \in DOMAIN todo /\ Tail(todo)[i] = todo[i + 1]
      /\ \A i \in DOMAIN todo : i \in Nat /\ (i = 1 \/ (i > 1 /\ i - 1 \in DOMAIN Tail(todo)
                                                         /\ Tail(todo)[i - 1] = todo[i]))
      /\ 1 \in DOMAIN todo
  BY <1>1, RestIs
<1>3. \A s \in {"fft", "post"} : stream[s] \in Seq(Queued)
  BY StreamsAreSeqs
<1>4. /\ \A s \in {"fft", "post"} : \A i \in DOMAIN stream[s] : stream[s][i].id = id
      /\ \A j \in DOMAIN q : \A b \in q[j].from : Good(q, j - 1, b, data[b], id)
      /\ \A i \in DOMAIN todo : Enqueues(todo[i], "fft") => \A b \in todo[i].from :
             \/ Good(q, Len(q), b, data[b], id)
             \/ \E j \in 1 .. (i - 1) : Enqueues(todo[j], "fft") /\ b \in todo[j].to
      /\ \A b \in Samples \cup Spectrum :
             \/ Good(q, Len(q), b, data[b], id)
             \/ \E j \in DOMAIN todo : Enqueues(todo[j], "fft") /\ b \in todo[j].to
      /\ stream["post"] # <<>> \/ (\E i \in DOMAIN todo : Enqueues(todo[i], "post")) =>
             /\ \A j \in DOMAIN q : q[j].from # Parts
             /\ \A i \in DOMAIN todo : Enqueues(todo[i], "fft") => todo[i].from # Parts
  BY DEF OnlyOwn
<1>5. o.id = id /\ o.from = op.from /\ o.to = op.to
  OBVIOUS
<1> HIDE DEF o
<1>6. \A s \in {"fft", "post"} : Enqueues(op, s) =>
         /\ DOMAIN stream'[s] = 1 .. (Len(stream[s]) + 1) /\ DOMAIN stream[s] = 1 .. Len(stream[s])
         /\ Len(stream[s]) \in Nat /\ stream'[s][Len(stream[s]) + 1] = o /\ Len(stream'[s]) = Len(stream[s]) + 1
         /\ \A j \in 1 .. Len(stream[s]) : stream'[s][j] = stream[s][j]
  <2> SUFFICES ASSUME NEW s \in {"fft", "post"}, Enqueues(op, s)
               PROVE  /\ DOMAIN stream'[s] = 1 .. (Len(stream[s]) + 1) /\ DOMAIN stream[s] = 1 .. Len(stream[s])
                      /\ Len(stream[s]) \in Nat /\ stream'[s][Len(stream[s]) + 1] = o
                      /\ Len(stream'[s]) = Len(stream[s]) + 1
                      /\ \A j \in 1 .. Len(stream[s]) : stream'[s][j] = stream[s][j]
    OBVIOUS
  <2>1. o \in Queued /\ stream'[s] = Append(stream[s], o)
    BY <1>1
  <2> QED
    BY <1>3, <2>1, SeqAppend
<1>7. \A s \in {"fft", "post"} : \A i \in DOMAIN stream'[s] : stream'[s][i].id = id
  <2> SUFFICES ASSUME NEW s \in {"fft", "post"}, NEW i \in DOMAIN stream'[s] PROVE stream'[s][i].id = id
    OBVIOUS
  <2>1. CASE ~ Enqueues(op, s)
    BY <1>1, <1>4, <2>1
  <2>2. CASE Enqueues(op, s)
    <3>1. i \in 1 .. Len(stream[s]) \/ i = Len(stream[s]) + 1
      BY <1>6, <2>2
    <3> QED
      BY <1>4, <1>5, <1>6, <2>2, <3>1
  <2> QED
    BY <2>1, <2>2
\* what holds of the stream, and of the stream with the operation on it
<1>8. \A b : Good(q, Len(q), b, data[b], id) => Good(r, Len(r), b, data[b], id)
  <2>1. CASE ~ Enqueues(op, "fft")
    BY <1>1, <2>1
  <2>2. CASE Enqueues(op, "fft")
    <3>1. r = Append(q, o) /\ o \in Queued /\ Len(r) = Len(q) + 1
      BY <1>1, <1>6, <2>2
    <3>2. q \in Seq(Queued)
      BY <1>3
    <3> HIDE DEF q, r
    <3> QED
      BY <1>5, <3>1, <3>2, GoodAppendOwn
  <2> QED
    BY <2>1, <2>2
<1>9. \A b : Enqueues(op, "fft") /\ b \in op.to => Good(r, Len(r), b, data[b], id)
  <2> SUFFICES ASSUME Enqueues(op, "fft"), NEW b, b \in op.to PROVE Good(r, Len(r), b, data[b], id)
    OBVIOUS
  <2>1. r = Append(q, o) /\ o \in Queued /\ Len(r) = Len(q) + 1
    BY <1>1, <1>6
  <2>2. q \in Seq(Queued)
    BY <1>3
  <2> HIDE DEF q, r
  <2> QED
    BY <1>5, <2>1, <2>2, GoodWritten
<1>10. ASSUME NEW j \in DOMAIN r
       PROVE  /\ \A b \in r[j].from : Good(r, j - 1, b, data[b], id)
              /\ j \in DOMAIN q \/ r[j].from = op.from
  <2>1. CASE ~ Enqueues(op, "fft")
    BY <1>1, <1>4, <2>1
  <2>2. CASE Enqueues(op, "fft")
    <3>1. r = Append(q, o) /\ o \in Queued /\ q \in Seq(Queued) /\ Len(q) \in Nat
      BY <1>1, <1>3, <1>6, <2>2
    <3>2. /\ j \in 1 .. Len(q) \/ j = Len(q) + 1
          /\ DOMAIN q = 1 .. Len(q) /\ r[Len(q) + 1] = o /\ \A i \in 1 .. Len(q) : r[i] = q[i]
      BY <1>6, <2>2
    <3>3. \A b : \A n \in 0 .. Len(q) : Good(q, n, b, data[b], id) => Good(r, n, b, data[b], id)
      BY <3>1, GoodAppend
    <3>4. CASE j \in 1 .. Len(q)
      <4>1. j - 1 \in 0 .. Len(q) /\ r[j] = q[j] /\ j \in DOMAIN q
        BY <3>1, <3>2, <3>4
      <4> QED
        BY <1>4, <3>3, <4>1
    <3>5. CASE j = Len(q) + 1
      <4>1. j - 1 = Len(q) /\ Len(q) \in 0 .. Len(q) /\ r[j].from = op.from
        BY <1>5, <3>1, <3>2, <3>5
      <4>2. \A b \in op.from : Good(q, Len(q), b, data[b], id)
        <5>1. \A i \in 1 .. (1 - 1) : FALSE
          OBVIOUS
        <5> QED
          BY <1>2, <1>4, <2>2, <5>1
      <4> QED
        BY <3>3, <4>1, <4>2
    <3> QED
      BY <3>2, <3>4, <3>5
  <2> QED
    BY <2>1, <2>2
<1>11. ASSUME NEW i \in DOMAIN Tail(todo), Enqueues(Tail(todo)[i], "fft"), NEW b \in Tail(todo)[i].from
       PROVE  \/ Good(r, Len(r), b, data[b], id)
              \/ \E j \in 1 .. (i - 1) : Enqueues(Tail(todo)[j], "fft") /\ b \in Tail(todo)[j].to
  <2>1. \/ Good(q, Len(q), b, data[b], id)
        \/ \E j \in 1 .. i : Enqueues(todo[j], "fft") /\ b \in todo[j].to
    <3>1. i + 1 \in DOMAIN todo /\ Tail(todo)[i] = todo[i + 1] /\ (i + 1) - 1 = i
      BY <1>2
    <3> QED
      BY <1>4, <1>11, <3>1
  <2>2. ASSUME NEW j \in 1 .. i, j # 1, Enqueues(todo[j], "fft"), b \in todo[j].to
        PROVE  \E l \in 1 .. (i - 1) : Enqueues(Tail(todo)[l], "fft") /\ b \in Tail(todo)[l].to
    <3>1. j - 1 \in 1 .. (i - 1) /\ Tail(todo)[j - 1] = todo[j]
      BY <1>1, <2>2, Shifted
    <3> QED
      BY <2>2, <3>1
  <2> QED
    BY <1>8, <1>9, <2>1, <2>2
<1>12. ASSUME NEW b \in Samples \cup Spectrum
       PROVE  \/ Good(r, Len(r), b, data[b], id)
              \/ \E j \in DOMAIN Tail(todo) : Enqueues(Tail(todo)[j], "fft") /\ b \in Tail(todo)[j].to
  <2>1. \/ Good(q, Len(q), b, data[b], id)
        \/ \E j \in DOMAIN todo : Enqueues(todo[j], "fft") /\ b \in todo[j].to
    BY <1>4
  <2>2. ASSUME NEW j \in DOMAIN todo, j # 1, Enqueues(todo[j], "fft"), b \in todo[j].to
        PROVE  \E l \in DOMAIN Tail(todo) : Enqueues(Tail(todo)[l], "fft") /\ b \in Tail(todo)[l].to
    <3>1. j - 1 \in DOMAIN Tail(todo) /\ Tail(todo)[j - 1] = todo[j]
      BY <1>2, <2>2
    <3> QED
      BY <2>2, <3>1
  <2> QED
    BY <1>8, <1>9, <2>1, <2>2
<1>13. stream'["post"] # <<>> \/ (\E i \in DOMAIN Tail(todo) : Enqueues(Tail(todo)[i], "post")) =>
             /\ \A j \in DOMAIN r : r[j].from # Parts
             /\ \A i \in DOMAIN Tail(todo) : Enqueues(Tail(todo)[i], "fft") => Tail(todo)[i].from # Parts
  <2> SUFFICES ASSUME stream'["post"] # <<>> \/ \E i \in DOMAIN Tail(todo) : Enqueues(Tail(todo)[i], "post")
               PROVE  /\ \A j \in DOMAIN r : r[j].from # Parts
                      /\ \A i \in DOMAIN Tail(todo) : Enqueues(Tail(todo)[i], "fft") => Tail(todo)[i].from # Parts
    OBVIOUS
  <2>1. stream["post"] # <<>> \/ \E i \in DOMAIN todo : Enqueues(todo[i], "post")
    <3>1. CASE Enqueues(op, "post")
      BY <1>2, <3>1
    <3>2. CASE ~ Enqueues(op, "post")
      BY <1>1, <1>2, <3>2
    <3> QED
      BY <3>1, <3>2
  <2>2. /\ \A j \in DOMAIN q : q[j].from # Parts
        /\ \A i \in DOMAIN todo : Enqueues(todo[i], "fft") => todo[i].from # Parts
    BY <1>4, <2>1
  <2>3. ASSUME NEW j \in DOMAIN r PROVE r[j].from # Parts
    <3>1. CASE j \in DOMAIN q
      <4>1. r[j] = q[j]
        BY <3>1, QueueStep
      <4> QED
        BY <2>2, <3>1, <4>1
    <3>2. CASE j \notin DOMAIN q
      <4>1. Enqueues(op, "fft")
        BY <1>1, <2>3, <3>2
      <4> QED
        BY <1>2, <1>10, <2>2, <3>2, <4>1
    <3> QED
      BY <3>1, <3>2
  <2> QED
    BY <1>2, <2>2, <2>3
<1> HIDE DEF op, o
<1> QED
  BY <1>1, <1>7, <1>10, <1>11, <1>12, <1>13 DEF OnlyOwn

-----------------------------------------------------------------------------
(* Every step *)

\* The steps that leave the buffers, the streams and the call alone.
LEMMA WellKept ==
    ASSUME StreamsInv, QueueInv, lastId \in Nat, WaveSame, NEW c \in Charts, GoesWell(c),
           Going(c)' => Going(c) /\ call'[c] = call[c] /\ pc'[c] = pc[c] /\ (c \in met => c \in met')
    PROVE  GoesWell(c)'
<1> SUFFICES ASSUME Going(c)'
             PROVE  /\ Shaped(c)'
                    /\ c \notin met' => Fresh(c)'
                    /\ c \notin met' /\ call'[c].clean => OnlyOwn(c)'
  BY DEF GoesWell
<1>1. Going(c) /\ call'[c] = call[c] /\ pc'[c] = pc[c] /\ (c \in met => c \in met')
  OBVIOUS
<1>2. /\ Shaped(c) => Shaped(c)'
      /\ Fresh(c) => Fresh(c)'
      /\ Shaped(c) /\ OnlyOwn(c) => OnlyOwn(c)'
  BY <1>1, GoingKept
<1> QED
  BY <1>1, <1>2 DEF GoesWell

\* The waveform buffers hold what no call brought, and every call has met that.
LEMMA WellAnew ==
    ASSUME StreamsInv, QueueInv, BusyInv, lastId' = lastId, okay' = 0, UNCHANGED <<pc, call>>,
           data' \in [Cells -> {{0}} \cup SUBSET (0 .. lastId)], \A b \in Wave : data'[b] = {0},
           \A s \in {"fft", "post"} : stream'[s] = stream[s] \/ stream'[s] = <<>>,
           \A c \in Charts : pc[c] # "idle" /\ call[c].kind = "waveform" => c \in met',
           GoingInv
    PROVE  WaveInv'
<1>1. lastId \in Nat /\ Samples \cup Spectrum \subseteq Wave /\ Parts \subseteq Wave
  BY DEF BusyInv, Wave
<1>2. Young(Samples \cup Spectrum)' /\ Young(Parts)'
  BY <1>1 DEF Young
<1>3. data' \in [Cells -> SUBSET (0 .. lastId')]
  <2>1. {0} \in SUBSET (0 .. lastId)
    BY <1>1
  <2> QED
    BY <2>1
<1>4. okay \in Nat /\ okay >= 0 /\ okay' \in 0 .. lastId'
  BY <1>1 DEF QueueInv
<1>5. /\ \A i \in DOMAIN stream'["fft"] : stream'["fft"][i].id >= okay' /\ FftShape(stream'["fft"][i])
      /\ \A i \in DOMAIN stream'["post"] : stream'["post"][i].id >= okay' /\ PostShape(stream'["post"][i])
  <2>1. \A s \in {"fft", "post"} : \A i \in DOMAIN stream[s] : stream[s][i].id \in Nat
    BY StreamsAreSeqs
  <2>2. \A s \in {"fft", "post"} : \A i \in DOMAIN stream'[s] : i \in DOMAIN stream[s] /\ stream'[s][i] = stream[s][i]
    OBVIOUS
  <2> QED
    BY <1>4, <2>1, <2>2 DEF QueueInv
<1>6. QueueInv'
  BY <1>2, <1>3, <1>4, <1>5 DEF QueueInv
<1>7. ASSUME NEW c \in Charts, Going(c)' PROVE Shaped(c)' /\ c \in met'
  <2>1. Going(c) /\ Shaped(c) /\ call[c].id \in Nat /\ c \in met'
    BY <1>7 DEF Going, GoingInv, GoesWell, BusyInv
  <2> QED
    BY <1>2, <2>1 DEF Shaped
<1> QED
  BY <1>6, <1>7 DEF WaveInv, GoingInv, GoesWell

LEMMA WaveInit == Init => WaveInv
<1> SUFFICES ASSUME Init PROVE WaveInv
  OBVIOUS
<1>1. lastId = 0 /\ okay = 0 /\ data = [b \in Cells |-> {0}] /\ stream = [s \in Streams |-> <<>>]
  BY DEF Init
<1>2. Wave \subseteq Cells /\ Samples \cup Spectrum \subseteq Wave
  BY WaveBuffers DEF Wave
<1>3. Young(Samples \cup Spectrum)
  BY <1>1, <1>2 DEF Young
<1>4. stream["fft"] = <<>> /\ stream["post"] = <<>>
  BY <1>1 DEF Streams
<1>5. \A c \in Charts : ~ Going(c)
  BY DEF Init, Going
<1> QED
  BY <1>1, <1>3, <1>4, <1>5 DEF WaveInv, QueueInv, GoingInv, GoesWell

LEMMA WaveBegin ==
    ASSUME CallInv, StreamsInv, BusyInv, WaveInv, NEW d \in Charts, NEW name \in CallNames, Begun(d, name)
    PROVE  WaveInv'
<1>1. /\ lastId \in Nat /\ lastId' = lastId + 1 /\ okay' = okay /\ stream' = stream
      /\ call'[d].kind = KindOf(name)
      /\ \A c \in Charts \ {d} :
            /\ pc'[c] = pc[c] /\ call'[c] = call[c] /\ (c \in met => c \in met')
            /\ pc[c] # "idle" /\ call[c].kind = KindOf(name) /\ KindOf(name) \in Kinds => c \in met'
  BY BeginIs DEF Begun, BusyInv
<1>2. data' \in [Cells -> SUBSET (0 .. lastId')] /\ \A b \in Wave : data'[b] = data[b]
  <2>1. data \in [Cells -> SUBSET (0 .. lastId)] /\ \A b \in Wave : b \in Cells /\ b[1] = "waveform"
    BY WaveBuffers DEF WaveInv, QueueInv
  <2>2. 0 .. lastId \subseteq 0 .. lastId' /\ {0} \subseteq 0 .. lastId'
    BY <1>1
  <2>3. data' = data \/ Remade("batch")
    BY DEF Begun
  <2> QED
    BY <2>1, <2>2, <2>3 DEF Remade
<1>3. WaveSame
  BY <1>1, <1>2 DEF WaveSame
<1>4. QueueInv'
  BY <1>1, <1>2, <1>3, QueueKept DEF WaveInv
<1>5. GoesWell(d)'
  <2>1. CASE KindOf(name) = "waveform"
    BY <1>1, <2>1, GoingBegin DEF WaveInv, GoesWell
  <2>2. CASE KindOf(name) # "waveform"
    BY <1>1, <2>2 DEF GoesWell, Going
  <2> QED
    BY <2>1, <2>2
<1>6. ASSUME NEW c \in Charts \ {d} PROVE GoesWell(c)'
  <2>1. GoesWell(c)
    BY DEF WaveInv, GoingInv
  <2>2. Going(c)' => Going(c)
    BY <1>1 DEF Going
  <2> QED
    BY <1>1, <1>3, <2>1, <2>2, WellKept DEF WaveInv
<1> QED
  BY <1>4, <1>5, <1>6 DEF WaveInv, GoingInv

LEMMA WaveRun ==
    ASSUME CallInv, StreamsInv, BusyInv, WaveInv, NEW d \in Charts, Step(d)
    PROVE  WaveInv'
<1>1. /\ pc[d] = "run" /\ lastId \in Nat /\ UNCHANGED <<data, met, lastId, okay>>
      /\ call'[d].kind = call[d].kind /\ call'[d].clean = call[d].clean
      /\ \A c \in Charts \ {d} : call'[c] = call[c] /\ pc'[c] = pc[c]
  BY StepIs DEF BusyInv
<1>2. \A c \in Charts \ {d} : GoesWell(c) /\ (Going(c)' => Going(c))
  BY <1>1 DEF WaveInv, GoingInv, Going
<1>3. CASE call[d].kind = "waveform"
  <2>1. Going(d) /\ Shaped(d)
    BY <1>1, <1>3 DEF Going, WaveInv, GoingInv, GoesWell
  <2>2. QueueInv'
    BY <2>1, QueueStep DEF WaveInv
  <2>3. GoesWell(d)'
    <3>1. Shaped(d)' /\ (Fresh(d) => Fresh(d)') /\ (OnlyOwn(d) => OnlyOwn(d)')
      BY <2>1, ShapedStep, FreshStep, OnlyOwnStep DEF WaveInv
    <3> QED
      BY <1>1, <2>1, <3>1 DEF GoesWell, WaveInv, GoingInv
  <2>4. ASSUME NEW c \in Charts \ {d} PROVE GoesWell(c)'
    <3>1. Going(c) => c \in met'
      BY <1>1, <1>3 DEF Going, BusyInv, Kinds
    <3>2. Going(c) => Shaped(c)'
      BY <1>2, <2>1, ShapedBeside DEF WaveInv, GoesWell
    <3> QED
      BY <1>2, <3>1, <3>2 DEF GoesWell
  <2> QED
    BY <2>2, <2>3, <2>4 DEF WaveInv, GoingInv
<1>4. CASE call[d].kind # "waveform"
  <2>1. stream'["fft"] = stream["fft"] /\ stream'["post"] = stream["post"]
    <3>1. call[d].kind \in Sorts
      BY <1>1 DEF BusyInv
    <3>2. "fft" \notin StreamsOf(call[d].kind) /\ "post" \notin StreamsOf(call[d].kind)
      BY <1>4, <3>1 DEF StreamsOf, Sorts, Kinds
    <3>3. LET op == Head(call[d].todo)
          IN /\ op.op # "enqueue" => stream' = stream
             /\ op.op = "enqueue" => /\ op.s \in StreamsOf(call[d].kind)
                                     /\ \A s \in Streams \ {op.s} : stream'[s] = stream[s]
      BY StepIs
    <3> QED
      BY <3>2, <3>3, StreamsAreSeqs
  <2>2. WaveSame
    BY <1>1, <2>1 DEF WaveSame
  <2>3. QueueInv'
    BY <1>1, <2>2, QueueKept DEF WaveInv, QueueInv
  <2>4. GoesWell(d)'
    BY <1>1, <1>4 DEF GoesWell, Going
  <2>5. \A c \in Charts \ {d} : GoesWell(c)'
    BY <1>1, <1>2, <2>2, WellKept DEF WaveInv
  <2> QED
    BY <2>3, <2>4, <2>5 DEF WaveInv, GoingInv
<1> QED
  BY <1>3, <1>4

LEMMA WaveReturn ==
    ASSUME CallInv, StreamsInv, BusyInv, WaveInv, NEW d \in Charts, Return(d)
    PROVE  WaveInv'
<1>1. /\ pc[d] = "back" /\ pc'[d] = "idle" /\ lastId \in Nat
      /\ \A c \in Charts \ {d} : pc'[c] = pc[c] /\ call'[c] = call[c] /\ (c \in met' <=> c \in met)
      /\ data' = [b \in Cells |-> IF b[1] = d THEN {0} ELSE data[b]]
      /\ okay' = IF call[d].ok /\ call[d].kind = "waveform" /\ call[d].clean /\ d \notin met
                 THEN call[d].id ELSE okay
      /\ UNCHANGED <<stream, lastId>>
  BY ReturnIs DEF BusyInv
<1>2. /\ data' \in [Cells -> SUBSET (0 .. lastId')]
      /\ \A b \in Wave : b \in Cells /\ data'[b] = data[b]
  <2>1. data \in [Cells -> SUBSET (0 .. lastId)] /\ \A b \in Wave : b \in Cells /\ b[1] = "waveform"
    BY WaveBuffers DEF WaveInv, QueueInv
  <2>2. {0} \subseteq 0 .. lastId /\ d # "waveform"
    BY <1>1, ChartsAssumption DEF Kinds
  <2> QED
    BY <1>1, <2>1, <2>2
<1>3. /\ ~ Going(d)'
      /\ \A c \in Charts \ {d} : GoesWell(c) /\ (Going(c)' => Going(c))
  BY <1>1 DEF WaveInv, GoingInv, Going
<1>4. CASE okay' = okay
  <2>1. WaveSame
    BY <1>1, <1>2, <1>4 DEF WaveSame
  <2>2. QueueInv'
    BY <1>1, <1>2, <2>1, QueueKept DEF WaveInv
  <2>3. \A c \in Charts \ {d} : GoesWell(c)'
    BY <1>1, <1>3, <2>1, WellKept DEF WaveInv
  <2> QED
    BY <1>3, <2>2, <2>3 DEF WaveInv, GoingInv, GoesWell
<1>5. CASE okay' # okay
  <2>1. /\ call[d].ok /\ call[d].kind = "waveform" /\ call[d].clean /\ d \notin met /\ okay' = call[d].id
        /\ call[d].id \in 1 .. lastId
    BY <1>1, <1>5 DEF BusyInv
  <2>2. Shaped(d) /\ Fresh(d) /\ OnlyOwn(d)
    BY <1>1, <2>1 DEF WaveInv, GoingInv, GoesWell, Going
  <2>3. call[d].todo = <<>>
    BY <1>1, <2>2 DEF Shaped
  <2>4. stream["fft"] = <<>> /\ stream["post"] = <<>>
    BY <2>2, <2>3 DEF Fresh, Awaits
  <2>5. \A b \in Samples \cup Spectrum : data[b] = {call[d].id}
    <3>1. \A b \in Samples \cup Spectrum : Good(stream["fft"], Len(stream["fft"]), b, data[b], call[d].id)
      BY <2>2, <2>3 DEF OnlyOwn
    <3> QED
      BY <2>4, <3>1, GoodNow
  <2>6. Young(Samples \cup Spectrum)'
    BY <1>1, <1>2, <2>1, <2>5 DEF Young, Wave
  <2>7. QueueInv'
    BY <1>1, <1>2, <2>1, <2>4, <2>6 DEF QueueInv
  <2>8. \A c \in Charts \ {d} : ~ Going(c)'
    BY <1>1, <1>3, <2>1 DEF Going, BusyInv, Kinds
  <2> QED
    BY <1>3, <2>7, <2>8 DEF WaveInv, GoingInv, GoesWell
<1> QED
  BY <1>4, <1>5

LEMMA WaveDevice ==
    ASSUME CallInv, StreamsInv, BusyInv, WaveInv, NEW s \in Streams, Device(s)
    PROVE  WaveInv'
<1>1. lastId \in Nat /\ UNCHANGED <<pc, call, met, lastId, okay>> /\ data' \in [Cells -> SUBSET (0 .. lastId')]
  BY DeviceIs DEF BusyInv, WaveInv
<1>2. \A c \in Charts : GoesWell(c) /\ (Going(c)' => Going(c))
  BY <1>1 DEF WaveInv, GoingInv, Going
<1>3. CASE s \notin {"fft", "post"}
  <2>1. WaveSame
    BY <1>1, <1>3, DeviceElsewhere DEF WaveInv
  <2>2. QueueInv'
    BY <1>1, <2>1, QueueKept DEF WaveInv
  <2>3. \A c \in Charts : GoesWell(c)'
    BY <1>1, <1>2, <2>1, WellKept DEF WaveInv
  <2> QED
    BY <2>2, <2>3 DEF WaveInv, GoingInv
<1>4. CASE s \in {"fft", "post"}
  <2>1. QueueInv'
    BY <1>1, <1>4, QueueDevice DEF WaveInv
  <2>2. ASSUME NEW c \in Charts, Going(c)
        PROVE  /\ Shaped(c) => Shaped(c)'
               /\ Fresh(c) => Fresh(c)'
               /\ Shaped(c) /\ OnlyOwn(c) => OnlyOwn(c)'
    BY <1>1, <1>4, <2>2, GoingDevice, OnlyOwnFft, OnlyOwnPost DEF WaveInv
  <2>3. \A c \in Charts : GoesWell(c)'
    BY <1>1, <1>2, <2>2 DEF GoesWell
  <2> QED
    BY <2>1, <2>3 DEF WaveInv, GoingInv
<1> QED
  BY <1>3, <1>4

LEMMA WaveStep == BridgeInv /\ DataInv /\ WaveInv /\ [Next]_vars => WaveInv'
<1> SUFFICES ASSUME BridgeInv, DataInv, WaveInv, [Next]_vars PROVE WaveInv'
  OBVIOUS
<1>0. CallInv /\ StreamsInv /\ BusyInv /\ QueueInv /\ GoingInv /\ lastId \in Nat /\ okay \in Nat
  BY DEF BridgeInv, DataInv, BusyInv, WaveInv, QueueInv
<1>1. CASE UNCHANGED <<stream, data, pc, call, met, lastId, okay>>
  <2>1. WaveSame
    BY <1>0, <1>1 DEF WaveSame
  <2>2. QueueInv'
    BY <1>0, <1>1, <2>1, QueueKept DEF QueueInv
  <2>3. \A c \in Charts : Going(c)' => Going(c)
    BY <1>1 DEF Going
  <2>4. \A c \in Charts : GoesWell(c)'
    BY <1>0, <1>1, <2>1, <2>3, WellKept DEF GoingInv
  <2> QED
    BY <2>2, <2>4 DEF WaveInv, GoingInv
<1>2. CASE Ended
  <2>1. \A c \in Charts : pc[c] # "idle" => c \in met'
    BY <1>0, <1>2 DEF Ended, Busy, BusyInv
  <2>2. /\ data' = [b \in Cells |-> {0}] /\ okay' = 0 /\ lastId' = lastId /\ UNCHANGED <<pc, call>>
        /\ stream'["fft"] = <<>> /\ stream'["post"] = <<>>
    BY <1>2 DEF Ended, Streams
  <2>3. data' \in [Cells -> {{0}} \cup SUBSET (0 .. lastId)] /\ \A b \in Wave : data'[b] = {0}
    BY <2>2, WaveBuffers
  <2> QED
    BY <1>0, <2>1, <2>2, <2>3, WellAnew
<1>3. ASSUME NEW k \in Kinds, Reconfigured(k) PROVE WaveInv'
  <2>1. /\ Remade(k) /\ okay' = IF k = "waveform" THEN 0 ELSE okay
        /\ met' = met \cup Busy({k})
        /\ UNCHANGED <<stream, pc, call, lastId>>
    BY <1>3 DEF Reconfigured
  <2>2. /\ data' \in [Cells -> SUBSET (0 .. lastId)]
        /\ \A b \in Wave : data'[b] = IF k = "waveform" THEN {0} ELSE data[b]
    <3>1. data \in [Cells -> SUBSET (0 .. lastId)] /\ \A b \in Wave : b \in Cells /\ b[1] = "waveform"
      BY <1>0, WaveBuffers DEF QueueInv
    <3>2. {0} \subseteq 0 .. lastId
      BY <1>0
    <3> QED
      BY <2>1, <3>1, <3>2 DEF Remade
  <2>3. CASE k = "waveform"
    <3>1. \A c \in Charts : pc[c] # "idle" /\ call[c].kind = "waveform" => c \in met'
      BY <2>1, <2>3 DEF Busy
    <3>2. okay' = 0 /\ lastId' = lastId /\ (\A b \in Wave : data'[b] = {0}) /\ stream' = stream
      BY <2>1, <2>2, <2>3
    <3>3. data' \in [Cells -> {{0}} \cup SUBSET (0 .. lastId)]
      BY <2>2
    <3> QED
      BY <1>0, <2>1, <3>1, <3>2, <3>3, WellAnew
  <2>4. CASE k # "waveform"
    <3>1. WaveSame
      BY <1>0, <2>1, <2>2, <2>4 DEF WaveSame
    <3>2. QueueInv'
      BY <1>0, <2>1, <2>2, <3>1, QueueKept
    <3>3. \A c \in Charts : (Going(c)' => Going(c)) /\ (c \in met => c \in met')
      BY <2>1 DEF Going
    <3>4. \A c \in Charts : GoesWell(c)'
      BY <1>0, <2>1, <3>1, <3>3, WellKept DEF GoingInv
    <3> QED
      BY <3>2, <3>4 DEF WaveInv, GoingInv
  <2> QED
    BY <2>3, <2>4
<1>4. ASSUME NEW d \in Charts, Fail(d) PROVE WaveInv'
  <2>1. pc[d] = "run" /\ pc' = [pc EXCEPT ![d] = "back"] /\ UNCHANGED <<stream, data, call, met, lastId, okay>>
    BY <1>4 DEF Fail
  <2>2. /\ pc'[d] = "back" /\ ~ call'[d].ok /\ \A c \in Charts \ {d} : pc'[c] = pc[c]
    BY <1>0, <2>1 DEF CallInv, BusyInv
  <2>3. WaveSame
    BY <1>0, <2>1 DEF WaveSame
  <2>4. QueueInv'
    BY <1>0, <2>1, <2>3, QueueKept DEF QueueInv
  <2>5. GoesWell(d)'
    BY <2>2 DEF GoesWell, Going
  <2>6. ASSUME NEW c \in Charts \ {d} PROVE GoesWell(c)'
    <3>1. Going(c)' => Going(c)
      BY <2>1, <2>2 DEF Going
    <3> QED
      BY <1>0, <2>1, <2>2, <2>3, <3>1, WellKept DEF GoingInv
  <2> QED
    BY <2>4, <2>5, <2>6 DEF WaveInv, GoingInv
<1>5. ASSUME NEW d \in Charts, LaunchUnallocated(d) PROVE WaveInv'
  <2>1. /\ pc[d] = "run" /\ call[d].kind = "cwt" /\ pc'[d] = "back"
        /\ UNCHANGED <<data, call, met, lastId, okay>>
        /\ stream'["fft"] = stream["fft"] /\ stream'["post"] = stream["post"]
        /\ \A c \in Charts \ {d} : pc'[c] = pc[c]
    BY <1>0, <1>5, LaunchIs DEF StreamsInv, Streams
  <2>2. WaveSame
    BY <1>0, <2>1 DEF WaveSame
  <2>3. QueueInv'
    BY <1>0, <2>1, <2>2, QueueKept DEF QueueInv
  <2>4. GoesWell(d)'
    BY <2>1 DEF GoesWell, Going
  <2>5. ASSUME NEW c \in Charts \ {d} PROVE GoesWell(c)'
    <3>1. Going(c)' => Going(c)
      BY <2>1 DEF Going
    <3> QED
      BY <1>0, <2>1, <2>2, <3>1, WellKept DEF GoingInv
  <2> QED
    BY <2>3, <2>4, <2>5 DEF WaveInv, GoingInv
<1> QED
  BY <1>0, <1>1, <1>2, <1>3, <1>4, <1>5, WaveBegin, WaveRun, WaveReturn, WaveDevice, WhatChanges

\* A call that met no other on the waveform buffers, where one stream reads what
\* another writes unordered, returns nothing from before the last such call that
\* began on empty streams and ended in STATUS_OK.
THEOREM NoneStaler == Spec => []NoStalerThanCleanCall
<1>1. BusyInv /\ WaveInv => NoStalerThanCleanCall
  <2> SUFFICES ASSUME BusyInv, WaveInv, NEW c \in Charts, pc[c] = "back", call[c].ok,
                      call[c].kind = "waveform", c \notin met
               PROVE  call[c].out \subseteq call[c].floor .. call[c].id
    BY DEF NoStalerThanCleanCall
  <2>1. Fresh(c)
    BY DEF WaveInv, GoingInv, GoesWell, Going
  <2> QED
    BY <2>1 DEF Fresh
<1>2. DataInv => BusyInv
  BY DEF DataInv
<1> QED
  BY BridgeInit, BridgeStep, DataInit, DataStep, WaveInit, WaveStep, <1>1, <1>2, PTL DEF Spec
=============================================================================
