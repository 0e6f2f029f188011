--------------------------- MODULE RuntimeConfig ---------------------------
(***************************************************************************)
(* What a worker decides about models and hardware before it takes a job:  *)
(* the settings read from the environment (app/config/settings.py), the    *)
(* resolution of ONNX execution providers (app/models/execution_           *)
(* providers.py), the checks of app/config/runtime_validation.py and the   *)
(* configuration the doctor recommends.                                    *)
(*                                                                         *)
(* An environment is the variables an operator sets, hardware is what      *)
(* detect_hardware finds.  A provider goes by its alias.  Everything here  *)
(* is a function of the two.                                               *)
(***************************************************************************)
EXTENDS Integers, Sequences

Providers == {"cpu", "cuda", "tensorrt", "openvino", "coreml", "qnn"}
GpuProviders == {"cuda", "tensorrt"}
Devices == {"cpu", "cuda"}

\* "other" stands for any value the code has no name for, a typing error say.
Env == [profile : {"dedup-only", "standard", "quality"},
        runtime : {"torch", "onnx", "other"},
        device  : Devices \cup {"auto", "other"},
        ep      : Providers \cup {"auto", "other"}]

Hardware == [system : {"Linux", "Darwin", "Windows"},
             arm    : BOOLEAN,
             docker : BOOLEAN,
             image  : {"cpu", "gpu", "unknown"},  \* WORKER_IMAGE_VARIANT
             cuda   : BOOLEAN,                    \* torch.cuda.is_available()
             ort    : {S \in SUBSET Providers : "cpu" \in S}]  \* installed ONNX providers

-----------------------------------------------------------------------------
\* load_settings
Runtime(env) == IF env.runtime = "onnx" THEN "onnx" ELSE "torch"
Ep(env) == IF env.ep = "auto" THEN "cpu" ELSE env.ep
EmbedOn(env) == env.profile # "dedup-only"
SafetyOn(env) == env.profile # "dedup-only"

\* Mutant: DEVICE is used as it is given.
DeviceAsGiven(env) ==
    IF Runtime(env) = "torch" THEN env.device
    ELSE IF Ep(env) \in GpuProviders THEN "cuda" ELSE "cpu"

Device(env) ==
    IF Runtime(env) = "torch" /\ env.device \in Devices THEN env.device
    ELSE IF Ep(env) \in GpuProviders THEN "cuda" ELSE "cpu"

RequiresCuda(env) ==
    \/ Runtime(env) = "torch" /\ Device(env) = "cuda"
    \/ Runtime(env) = "onnx" /\ Ep(env) \in GpuProviders

\* EP_ALIASES: the providers to try, in order; an unknown alias means any.
Chain(alias) ==
    CASE alias = "cpu"      -> <<"cpu">>
      [] alias = "tensorrt" -> <<"tensorrt", "cuda", "cpu">>
      [] alias \in Providers \ {"cpu", "tensorrt"} -> <<alias, "cpu">>
      [] OTHER -> <<"tensorrt", "cuda", "openvino", "coreml", "qnn", "cpu">>

\* resolve_ort_providers skips what is not installed; with nothing left it asks
\* for the CPU.  The first of the list is what a session calls its active one.
First(alias, installed) ==
    LET chain == Chain(alias)
        found == {k \in 1 .. Len(chain) : chain[k] \in installed}
    IN  IF found = {} THEN "cpu"
        ELSE chain[CHOOSE k \in found : \A l \in found : k <= l]

-----------------------------------------------------------------------------
\* The three checks of the preflight phase, as the conditions they pass on.
ImageVariantFits(env, hw) == RequiresCuda(env) => hw.image # "cpu"

\* Mutant: CUDA is taken to be there in the GPU image only.
TorchCudaFitsGpuImage(env, hw) ==
    Runtime(env) = "torch" /\ Device(env) = "cuda" => hw.image = "gpu"

TorchCudaFits(env, hw) == Runtime(env) = "torch" /\ Device(env) = "cuda" => hw.cuda

\* Mutant: the provider's own hardware is not looked at.
OrtProviderListed(env, hw) == Runtime(env) = "onnx" => Ep(env) \in Providers

OrtProviderFits(env, hw) ==
    Runtime(env) = "onnx" =>
        /\ Ep(env) = "coreml" => hw.system = "Darwin" /\ ~hw.docker
        /\ Ep(env) \in GpuProviders => hw.cuda
        /\ Ep(env) \in Providers =>
               /\ Ep(env) \in hw.ort
               /\ Ep(env) # "cpu" => First(Ep(env), hw.ort) # "cpu"

NeedsModels(env) == EmbedOn(env) \/ SafetyOn(env)

PreflightPasses(env, hw) ==
    NeedsModels(env) =>
        ImageVariantFits(env, hw) /\ TorchCudaFits(env, hw) /\ OrtProviderFits(env, hw)

\* resolve_torch_device, when the factory makes a torch backend.
TorchDeviceRaises(env, hw) == Device(env) = "cuda" /\ ~hw.cuda

\* The post_warmup phase, given whether each model is loaded and the provider
\* the embedder calls active.
PostWarmupPasses(env, hw, loaded, active) ==
    NeedsModels(env) =>
        /\ EmbedOn(env) => "match" \in loaded
        /\ SafetyOn(env) => "safety" \in loaded
        /\ Runtime(env) = "torch" /\ RequiresCuda(env) => ~TorchDeviceRaises(env, hw)
        /\ Runtime(env) = "onnx" /\ Ep(env) \in Providers \ {"cpu"} => active # "cpu"

-----------------------------------------------------------------------------
Setting(profile, runtime, device, ep) ==
    [profile |-> profile, runtime |-> runtime, device |-> device, ep |-> ep]

\* recommend_config; the doctor prints DEVICE for torch and the provider for onnx.
Recommend(hw) ==
    LET apple == hw.system = "Darwin" /\ hw.arm
        cpuOnnx == Setting("quality", "onnx", "cpu", "cpu")
        torchCuda == Setting("quality", "torch", "cuda", "cuda")
    IN  CASE hw.image = "gpu" /\ hw.cuda -> torchCuda
          [] ~(hw.image = "gpu" /\ hw.cuda) /\ hw.arm ->
                 IF apple /\ "coreml" \in hw.ort /\ ~hw.docker
                 THEN Setting("quality", "onnx", "cpu", "coreml") ELSE cpuOnnx
          [] OTHER ->
                 IF "openvino" \in hw.ort /\ ~hw.docker
                 THEN Setting("standard", "onnx", "cpu", "openvino")
                 ELSE IF "qnn" \in hw.ort THEN Setting("quality", "onnx", "cpu", "qnn")
                 ELSE IF hw.cuda THEN torchCuda
                 ELSE Setting("quality", "torch", "cpu", "cpu")
=============================================================================
