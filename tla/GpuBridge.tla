----------------------------- MODULE GpuBridge ------------------------------
(***************************************************************************)
(* GpuBridge.dll, the legacy bridge (MQL-GPU/gpu): one GpuContext per        *)
(* process with four configurations, the calls that run on them, the CUDA    *)
(* streams that carry the work out later, and the charts that share it all:  *)
(* the legacy indicator, which falls back to the CPU when a call fails, and  *)
(* users of CGpuParallelProcessor, which do not.  Every chart may run in a   *)
(* thread of its own.  Configure and Shutdown hold mutex_, so each is one    *)
(* step; the Run functions do not take it, and each CUDA call of theirs is   *)
(* a step.                                                                 *)
(*                                                                         *)
(* The data in a buffer is known by the calls it comes from: a set of        *)
(* numbers of calls, 0 for what was there before any.  An operation that     *)
(* overlaps another on a second stream leaves a mixture of what the two      *)
(* orders leave; the properties speak of every order, so of every mixture.   *)
(***************************************************************************)
EXTENDS Integers, Sequences, FiniteSets, SequencesExt

CONSTANTS
    Charts,         \* users of the DLL in one process
    Size,           \* what each configures: a length, and a count of scales or batches
    Uses,           \* the calls each of them makes
    FallsBack,      \* those that leave the GPU for good when a call fails
    MaxCalls        \* bound: calls that run

Kinds     == {"waveform", "supdem", "cwt", "batch"}
CallNames == {"fft", "ifft", "batch", "supdem", "cwt",
              "magnitude", "phase", "power", "dominant", "total"}
Sizes     == [length : Nat \ {0}, count : Nat \ {0}]

ASSUME ChartsAssumption ==
    /\ Charts \cap Kinds = {} /\ FallsBack \subseteq Charts
    /\ Size \in [Charts -> Sizes] /\ Uses \in [Charts -> SUBSET CallNames]
ASSUME BoundAssumption == MaxCalls \in Nat

VARIABLES
    initialized,    \* GpuContext::initialized_
    cfg,            \* the four configurations: ready, size, the handles they hold
    live,           \* what exists on the device: <<owner, piece>>
    outlived,       \* did the batch configuration outlive its session?
    stream,         \* operations enqueued and not yet carried out
    data,           \* the calls from which the content of a buffer comes
    on,             \* of each chart: "off", "open", or "cpu" after a failure
    conf,           \* the configurations it has made since it opened the session
    alone,          \* since then, has no other chart had the session open?
    pc,             \* of its call: "idle", "run", "back"
    call,
    met,            \* the charts whose call in progress has met another
    lastId,         \* calls so far
    okay            \* the last call to end in STATUS_OK that was alone on the
                    \* waveform buffers and began when nothing waited for them

context == <<initialized, cfg, live, outlived>>
device  == <<stream, data>>
users   == <<on, conf, alone>>
calls   == <<pc, call, met, lastId, okay>>
vars    == <<context, device, users, calls>>

-----------------------------------------------------------------------------
(* The configurations, each with its pieces in the order they are made *)

WaveformPieces == <<"stream_fft", "stream_post", "d_input", "d_fft", "d_real", "d_imag",
                    "plan", "plan_inverse">>
SupDemPieces   == <<"stream", "d_volume", "d_media", "d_banda_sup",
                    "d_high", "d_low", "d_open", "d_close", "d_flags">>
CwtPieces      == <<"stream", "d_signal", "d_scales", "d_cwt_coeffs", "d_reconstruction">>
BatchPieces    == <<"stream", "plan_batch", "d_input_batch", "d_fft_batch",
                    "d_real_batch", "d_imag_batch">>

Pieces == [waveform |-> WaveformPieces, supdem |-> SupDemPieces,
           cwt |-> CwtPieces, batch |-> BatchPieces]

NoSize       == [length |-> 0, count |-> 0]
Unconfigured == [ready |-> FALSE, size |-> NoSize, has |-> {}]

\* What an earlier Configure made is kept if it suits; a Run asks the same.
Suits(k, n) ==
    /\ cfg[k].ready
    /\ CASE k = "waveform" -> cfg[k].size.length = n.length
         [] k = "cwt"      -> cfg[k].size = n
         [] k = "supdem"   -> cfg[k].size.length >= n.length
         [] k = "batch"    -> cfg[k].size.length = n.length /\ cfg[k].size.count >= n.count

\* The scratch buffers of the calls that allocate for themselves.
Scratch == {"d_dominant_temp", "d_first", "d_second", "d_result"}
Cells   == (UNION {{k} \X ToSet(Pieces[k]) : k \in Kinds}) \cup (Charts \X Scratch)

Streams == {"fft", "post", "batch", "supdem", "cwt", "default"}
Idle    == \A s \in Streams : stream[s] = <<>>

NoCall == [id |-> 0, kind |-> "none", todo |-> <<>>, out |-> {}, ok |-> FALSE,
           floor |-> 0, clean |-> FALSE]

Init ==
    /\ initialized = FALSE /\ outlived = FALSE
    /\ cfg = [k \in Kinds |-> Unconfigured] /\ live = {}
    /\ stream = [s \in Streams |-> <<>>] /\ data = [b \in Cells |-> {0}]
    /\ on = [c \in Charts |-> "off"] /\ conf = [c \in Charts |-> {}]
    /\ alone = [c \in Charts |-> FALSE]
    /\ pc = [c \in Charts |-> "idle"] /\ call = [c \in Charts |-> NoCall]
    /\ met = {} /\ lastId = 0 /\ okay = 0

\* The charts whose call in progress is of one of the kinds ks.
Busy(ks) == {c \in Charts : pc[c] # "idle" /\ call[c].kind \in ks}

-----------------------------------------------------------------------------
(* The session *)

\* A chart that finds the session open shares it.
GpuSessionInit(c) ==
    /\ on[c] = "off"
    /\ initialized' = TRUE
    /\ on' = [on EXCEPT ![c] = "open"] /\ conf' = [conf EXCEPT ![c] = {}]
    /\ alone' = [d \in Charts |-> d = c /\ \A e \in Charts \ {c} : on[e] # "open"]
    /\ UNCHANGED <<cfg, live, outlived, device, calls>>

\* Mutant: the inverse plan is forgotten.
HandlesButInverse(k, pieces) == {k} \X (pieces \ {"plan_inverse"})

\* What Reset gives back of what a configuration holds.
Handles(k, pieces) == {k} \X pieces

\* cudaFree waits until the device is idle.
Frees(k) == Handles(k, cfg[k].has) \cap live # {} => Idle

\* Mutant: the wavelet configuration is forgotten, as the batch one is.
ResetOfTwo == {"waveform", "supdem"}

\* The configurations that Shutdown resets; the batch one is not among them.
ResetAtShutdown == {"waveform", "supdem", "cwt"}

\* GpuContext::Shutdown: cudaDeviceReset ends whatever is left on the device,
\* whoever uses it.
Shutdown ==
    IF ~initialized THEN UNCHANGED <<context, device, met, okay>>
    ELSE /\ \A k \in ResetAtShutdown : Frees(k)
         /\ initialized' = FALSE
         /\ cfg' = [k \in Kinds |-> IF k \in ResetAtShutdown THEN Unconfigured ELSE cfg[k]]
         /\ live' = {}
         /\ stream' = [s \in Streams |-> <<>>] /\ data' = [b \in Cells |-> {0}]
         /\ okay' = 0
         /\ outlived' = (outlived \/ cfg["batch"].has # {})
         /\ met' = met \cup Busy(Kinds \cup {"none"})

\* The legacy indicator closes only what it configured and did not lose.
GpuSessionClose(c) ==
    /\ pc[c] = "idle" /\ on[c] = "open"
    /\ c \in FallsBack => "waveform" \in conf[c]
    /\ Shutdown
    /\ on' = [on EXCEPT ![c] = "off"] /\ conf' = [conf EXCEPT ![c] = {}]
    /\ alone' = [alone EXCEPT ![c] = FALSE]
    /\ UNCHANGED <<pc, call, lastId>>

\* Mutant: it closes the session it has given up.
LeaveClosing(c) ==
    /\ on[c] = "cpu"
    /\ Shutdown
    /\ on' = [on EXCEPT ![c] = "off"]
    /\ UNCHANGED <<conf, alone, pc, call, lastId>>

\* OnDeinit of an indicator that works on the CPU leaves the session open.
Leave(c) ==
    /\ on[c] = "cpu"
    /\ on' = [on EXCEPT ![c] = "off"]
    /\ UNCHANGED <<context, device, conf, alone, calls>>

-----------------------------------------------------------------------------
(* Configure *)

\* The new pieces come in their order; the first that fails resets them all.
Build(k, n) ==
    \E made \in 0 .. Len(Pieces[k]) :
        LET pieces == ToSet(SubSeq(Pieces[k], 1, made))
            ready  == made = Len(Pieces[k])
            kept   == live \ Handles(k, cfg[k].has)
        IN /\ cfg' = [cfg EXCEPT ![k] = IF ready THEN [ready |-> TRUE, size |-> n, has |-> pieces]
                                                 ELSE Unconfigured]
           /\ live' = IF ready THEN kept \cup ({k} \X pieces)
                      ELSE (kept \cup ({k} \X pieces)) \ Handles(k, pieces)

\* GpuContext::ConfigureWaveform, ConfigureSupDem, ConfigureCwt and
\* ConfigureBatchWaveform for the calls in progress and the data of the device.
Remake(c, k) ==
    /\ Frees(k)
    /\ Build(k, Size[c])
    /\ data' = [b \in Cells |-> IF b[1] = k THEN {0} ELSE data[b]]
    /\ okay' = IF k = "waveform" THEN 0 ELSE okay

KindOf(name) == IF name \in {"fft", "ifft"} THEN "waveform"
                ELSE IF name \in Kinds THEN name ELSE "none"

\* A chart that fails to configure: OnInit ends, or Initialize may be retried.
\* The batch configuration is made by its Run.
Configure(c, k) ==
    /\ pc[c] = "idle" /\ on[c] = "open" /\ k \notin conf[c]
    /\ \/ /\ ~initialized
          /\ on' = [on EXCEPT ![c] = IF c \in FallsBack THEN "off" ELSE "open"]
          /\ UNCHANGED <<context, device, conf, met, okay>>
       \/ /\ initialized /\ Suits(k, Size[c])
          /\ conf' = [conf EXCEPT ![c] = @ \cup {k}]
          /\ UNCHANGED <<context, device, on, met, okay>>
       \/ /\ initialized /\ ~Suits(k, Size[c])
          /\ Remake(c, k)
          /\ IF cfg'[k].ready
             THEN conf' = [conf EXCEPT ![c] = @ \cup {k}] /\ UNCHANGED on
             ELSE /\ on' = [on EXCEPT ![c] = IF c \in FallsBack THEN "off" ELSE "open"]
                  /\ UNCHANGED conf
          /\ met' = met \cup Busy({k})
          /\ UNCHANGED <<initialized, outlived, stream>>
    /\ UNCHANGED <<alone, pc, call, lastId>>

-----------------------------------------------------------------------------
(* What the calls do: the CUDA operations, in program order.  Copies in a row *)
(* that go the same way on the same stream are one operation.                *)

Op(kind, s, from, to) == [op |-> kind, s |-> s, from |-> from, to |-> to]
Upload(s, to)         == Op("enqueue", s, {}, to)
Kernel(s, from, to)   == Op("enqueue", s, from, to)
Download(s, from)     == Op("read", s, from, {})    \* pageable memory: the host waits
Sync(s)               == Op("sync", s, {}, {})
Malloc(pieces)        == Op("malloc", "default", {}, pieces)

Of(k, pieces) == {k} \X pieces
Spectrum      == Of("waveform", {"d_fft"})
Samples       == Of("waveform", {"d_input"})
Parts         == Of("waveform", {"d_real", "d_imag"})

\* Mutant: the stream of the transform is not awaited.
RunWaveformFftUnsynced ==
    << Upload("fft", Samples), Kernel("fft", Samples, Spectrum),
       Kernel("post", Spectrum, Parts), Download("post", Parts), Sync("post") >>

\* The transform runs on one stream and what reads it on the other.
RunWaveformFft ==
    << Upload("fft", Samples), Kernel("fft", Samples, Spectrum),
       Kernel("post", Spectrum, Parts), Download("post", Parts), Sync("post"), Sync("fft") >>

RunWaveformIfft ==
    << Upload("fft", Parts), Kernel("fft", Parts, Spectrum), Kernel("fft", Spectrum, Samples),
       Download("post", Samples), Sync("post"), Sync("fft") >>

BatchInput    == Of("batch", {"d_input_batch"})
BatchSpectrum == Of("batch", {"d_fft_batch"})
BatchParts    == Of("batch", {"d_real_batch", "d_imag_batch"})

\* Mutant: the batch is split on a stream of its own, as a single window is.
RunBatchWaveformFftOnTwo ==
    << Upload("batch", BatchInput), Kernel("batch", BatchInput, BatchSpectrum),
       Kernel("post", BatchSpectrum, BatchParts), Download("post", BatchParts), Sync("batch") >>

RunBatchWaveformFft ==
    << Upload("batch", BatchInput), Kernel("batch", BatchInput, BatchSpectrum),
       Kernel("batch", BatchSpectrum, BatchParts), Download("batch", BatchParts), Sync("batch") >>

\* The kernel reads the volume alone; the four series of prices are only copied.
RunSupDemVolumeKernel ==
    LET bands == Of("supdem", {"d_media", "d_banda_sup"})
    IN << Upload("supdem", Of("supdem", {"d_volume", "d_open", "d_high", "d_low", "d_close"})),
          Kernel("supdem", Of("supdem", {"d_volume"}), bands), Download("supdem", bands),
          Sync("supdem") >>

Coefficients          == Of("cwt", {"d_cwt_coeffs", "d_scales"})
DominantScale(c)      == Of(c, {"d_dominant_temp"})
FindDominantKernel(c) == Kernel("cwt", Coefficients, DominantScale(c))

RunCwtOnGpu(c) ==
    LET value == Of("cwt", {"d_reconstruction"})
    IN << Upload("cwt", Of("cwt", {"d_signal", "d_scales"})),
          Kernel("cwt", Of("cwt", {"d_signal", "d_scales"}), Of("cwt", {"d_cwt_coeffs"})),
          Malloc(DominantScale(c)), FindDominantKernel(c), Kernel("cwt", Coefficients, value),
          Download("cwt", value \cup DominantScale(c)), Sync("cwt") >>

\* A spectrum allocates what it needs and works on the default stream.
OnScratch(c, given) ==
    << Malloc(Of(c, given \cup {"d_result"})), Upload("default", Of(c, given)),
       Kernel("default", Of(c, given), Of(c, {"d_result"})),
       Download("default", Of(c, {"d_result"})), Sync("every") >>

ComputeMagnitudeSpectrumGpu(c) == OnScratch(c, {"d_first", "d_second"})
ComputePhaseSpectrumGpu(c)     == OnScratch(c, {"d_first", "d_second"})
ComputePowerSpectrumGpu(c)     == OnScratch(c, {"d_first", "d_second"})
FindDominantFrequencyGpu(c)    == OnScratch(c, {"d_first"})
ComputeTotalPowerGpu(c)        == OnScratch(c, {"d_first"})

Program(c) ==
    [fft |-> RunWaveformFft, ifft |-> RunWaveformIfft, batch |-> RunBatchWaveformFft,
     supdem |-> RunSupDemVolumeKernel, cwt |-> RunCwtOnGpu(c),
     magnitude |-> ComputeMagnitudeSpectrumGpu(c), phase |-> ComputePhaseSpectrumGpu(c),
     power |-> ComputePowerSpectrumGpu(c), dominant |-> FindDominantFrequencyGpu(c),
     total |-> ComputeTotalPowerGpu(c)]

-----------------------------------------------------------------------------
(* A call *)

MayCall(c, name) ==
    /\ pc[c] = "idle" /\ on[c] = "open" /\ name \in Uses[c] /\ lastId < MaxCalls
    /\ KindOf(name) \in {"waveform", "supdem", "cwt"} => KindOf(name) \in conf[c]

\* The call that begins meets those of its kind that are in progress.
Begin(c, name) ==
    LET k    == KindOf(name)
        same == IF k \in Kinds THEN Busy({k}) ELSE {}
    IN /\ lastId' = lastId + 1
       /\ call' = [call EXCEPT ![c] = [id |-> lastId + 1, kind |-> k, todo |-> Program(c)[name],
                                       out |-> {}, ok |-> FALSE, floor |-> okay,
                                       clean |-> stream["fft"] = <<>> /\ stream["post"] = <<>>]]
       /\ met' = met \cup same \cup (IF same = {} THEN {} ELSE {c})
       /\ pc' = [pc EXCEPT ![c] = "run"]

\* After a failure a chart works on the CPU, or goes on as before.
GivesUp(c) == on' = [on EXCEPT ![c] = IF c \in FallsBack THEN "cpu" ELSE "open"]

\* NOT_INITIALIZED or NOT_CONFIGURED
Refuse(c, name) ==
    /\ MayCall(c, name)
    /\ \/ ~initialized
       \/ KindOf(name) \in {"waveform", "supdem", "cwt"} /\ ~Suits(KindOf(name), Size[c])
    /\ GivesUp(c)
    /\ UNCHANGED <<context, device, conf, alone, calls>>

Start(c, name) ==
    /\ MayCall(c, name) /\ initialized
    /\ KindOf(name) \in Kinds => Suits(KindOf(name), Size[c])
    /\ Begin(c, name)
    /\ UNCHANGED <<context, device, users, okay>>

\* A batch that does not fit what is configured configures itself.
StartBatch(c) ==
    /\ MayCall(c, "batch") /\ initialized /\ ~Suits("batch", Size[c])
    /\ Remake(c, "batch")
    /\ IF cfg'["batch"].ready THEN Begin(c, "batch") /\ UNCHANGED on
       ELSE GivesUp(c) /\ met' = met \cup Busy({"batch"}) /\ UNCHANGED <<pc, call, lastId>>
    /\ UNCHANGED <<initialized, outlived, stream, conf, alone>>

Waiting(s, id, op) == [stream EXCEPT ![s] = Append(@, [id |-> id, from |-> op.from, to |-> op.to])]

Waited(s) == IF s = "every" THEN Idle ELSE stream[s] = <<>>

\* The next operation of a call succeeds.
Step(c) ==
    /\ pc[c] = "run"
    /\ LET op   == Head(call[c].todo)
           rest == Tail(call[c].todo)
       IN /\ op.op \in {"read", "sync"} => Waited(op.s)
          /\ stream' = IF op.op = "enqueue" THEN Waiting(op.s, call[c].id, op) ELSE stream
          /\ live' = IF op.op = "malloc" THEN live \cup op.to ELSE live
          /\ call' = [call EXCEPT ![c] =
                        [id |-> @.id, kind |-> @.kind, todo |-> rest, ok |-> rest = <<>>,
                         floor |-> @.floor, clean |-> @.clean,
                         out |-> IF op.op = "read" THEN @.out \cup UNION {data[b] : b \in op.from} ELSE @.out]]
          /\ pc' = [pc EXCEPT ![c] = IF rest = <<>> THEN "back" ELSE "run"]
    /\ UNCHANGED <<initialized, cfg, outlived, data, users, met, lastId, okay>>

\* What RunCwtOnGpu allocates for itself it does not check.
Unchecked(c) == call[c].kind = "cwt" /\ Head(call[c].todo).op = "malloc"

\* It fails, and the call returns its error without waiting for the device.
Fail(c) ==
    /\ pc[c] = "run" /\ ~Unchecked(c)
    /\ pc' = [pc EXCEPT ![c] = "back"]
    /\ UNCHANGED <<context, device, users, call, met, lastId, okay>>

\* The kernel is launched on the pointer that was not set, and only the error
\* code after the launch, which is that of the allocation, ends the call.  The
\* pointer is what the stack holds: here, the buffer of a call before.
LaunchUnallocated(c) ==
    /\ pc[c] = "run" /\ Unchecked(c)
    /\ stream' = Waiting("cwt", call[c].id, FindDominantKernel(c))
    /\ pc' = [pc EXCEPT ![c] = "back"]
    /\ UNCHANGED <<context, data, users, call, met, lastId, okay>>

\* What a call allocated for itself is freed on every way out.
Return(c) ==
    /\ pc[c] = "back"
    /\ ({c} \X Scratch) \cap live # {} => Idle
    /\ live' = live \ ({c} \X Scratch)
    /\ data' = [b \in Cells |-> IF b[1] = c THEN {0} ELSE data[b]]
    /\ okay' = IF call[c].ok /\ call[c].kind = "waveform" /\ call[c].clean /\ c \notin met
               THEN call[c].id ELSE okay
    /\ on' = [on EXCEPT ![c] = IF ~call[c].ok /\ c \in FallsBack THEN "cpu" ELSE @]
    /\ pc' = [pc EXCEPT ![c] = "idle"] /\ call' = [call EXCEPT ![c] = NoCall]
    /\ met' = met \ {c}
    /\ UNCHANGED <<initialized, cfg, outlived, stream, conf, alone, lastId>>

\* The device carries out the next operation of a stream.
Device(s) ==
    /\ stream[s] # <<>>
    /\ LET op == Head(stream[s])
           new == IF op.from = {} THEN {op.id} ELSE UNION {data[b] : b \in op.from}
       IN data' = [b \in Cells |-> IF b \in op.to THEN new ELSE data[b]]
    /\ stream' = [stream EXCEPT ![s] = Tail(@)]
    /\ UNCHANGED <<context, users, calls>>

Next ==
    \/ \E c \in Charts :
        \/ GpuSessionInit(c) \/ GpuSessionClose(c) \/ Leave(c)
        \/ \E name \in Uses[c] : Refuse(c, name) \/ Start(c, name)
        \/ \E k \in Kinds \ {"batch"} : 
              k \in {"waveform"} \cup {KindOf(name) : name \in Uses[c]} /\ Configure(c, k)
        \/ StartBatch(c) \/ Step(c) \/ Fail(c) \/ LaunchUnallocated(c) \/ Return(c)
    \/ \E s \in Streams : Device(s)

Spec == Init /\ [][Next]_vars

-----------------------------------------------------------------------------
(* Properties *)

\* Nothing on the device is without an owner: every piece belongs to a
\* configuration that holds its handle, or to a call in progress, after any
\* failure half way through Configure, any closing and any failed call.
NothingIsOrphaned ==
    \A x \in live : \/ x[1] \in Kinds  /\ x[2] \in cfg[x[1]].has
                    \/ x[1] \in Charts /\ pc[x[1]] # "idle"

\* A configuration that says ready has everything it holds on the device; for
\* the batch one only until a session ends under it (GpuContext.cpp:209).
ReadyIsLive ==
    \A k \in Kinds : cfg[k].ready /\ (k = "batch" => ~outlived) =>
        /\ cfg[k].has = ToSet(Pieces[k])
        /\ {k} \X cfg[k].has \subseteq live

\* RunWaveformFft and RunWaveformIfft read on one stream what another writes,
\* and nothing orders the two.  Waiting for both before STATUS_OK still keeps
\* what an undisturbed call returns from being older than the last undisturbed
\* call that succeeded, provided that one met no leftovers of a failed call:
\* those write the buffers anew after it, and what they write is older.
NoStalerThanCleanCall ==
    \A c \in Charts :
        pc[c] = "back" /\ call[c].ok /\ call[c].kind = "waveform" /\ c \notin met
        => call[c].out \subseteq call[c].floor .. call[c].id

\* Every other call that ends in STATUS_OK, and that no call of the same kind
\* and no end of the session met, returns what comes from its own input alone,
\* whatever operations failed calls have left in the streams.
OwnResults ==
    \A c \in Charts :
        /\ pc[c] = "back" /\ call[c].ok /\ c \notin met /\ call[c].kind # "waveform"
        /\ (call[c].kind = "batch" => ~outlived)
        => call[c].out = {call[c].id}

\* A chart that has the session to itself is served: the session is open and
\* what the chart configured is still as it asked (GPU_SETUP.md:38), in
\* spite of the charts that came before it and fell back to the CPU.
LoneChartIsServed ==
    \A c \in Charts : on[c] = "open" /\ alone[c] =>
        initialized /\ \A k \in conf[c] : Suits(k, Size[c])
=============================================================================
