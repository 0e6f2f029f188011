------------------------- MODULE MCWorkerLifecycle -------------------------
(***************************************************************************)
(* Deployments of WorkerLifecycle: every DEVICE and every provider alias,  *)
(* on the kinds of machine the README lists.                               *)
(***************************************************************************)
EXTENDS WorkerLifecycle

Machine(system, arm, docker, image, cuda, ort) ==
    [system |-> system, arm |-> arm, docker |-> docker, image |-> image, cuda |-> cuda,
     ort |-> ort \cup {"cpu"}]

Laptop == Machine("Linux", FALSE, TRUE, "cpu", FALSE, {})
GpuHost == Machine("Linux", FALSE, TRUE, "gpu", TRUE, {"cuda", "tensorrt"})
GpuHostCpuImage == Machine("Linux", FALSE, TRUE, "cpu", TRUE, {})
GpuImageNoDriver == Machine("Linux", FALSE, TRUE, "gpu", FALSE, {"cuda"})
NativeGpu == Machine("Linux", FALSE, FALSE, "unknown", TRUE, {"cuda"})
IntelNative == Machine("Windows", FALSE, FALSE, "unknown", FALSE, {"openvino"})
SnapdragonX64 == Machine("Windows", FALSE, FALSE, "unknown", FALSE, {"qnn"})
ArmBoard == Machine("Linux", TRUE, TRUE, "cpu", FALSE, {})
AppleNative == Machine("Darwin", TRUE, FALSE, "unknown", FALSE, {"coreml"})

Machines == {Laptop, GpuHost, GpuHostCpuImage, GpuImageNoDriver, NativeGpu, IntelNative,
             SnapdragonX64, ArmBoard, AppleNative}

OnnxSettings == {Setting("quality", "onnx", "auto", ep) : ep \in Providers \cup {"auto", "other"}}
TorchSettings ==
    {Setting("standard", "torch", device, ep) :
        device \in Devices \cup {"auto", "other"}, ep \in {"cpu", "cuda"}}
    \cup {Setting("standard", "other", "auto", "tensorrt")}

MCDeployments ==
    {[env |-> e, hw |-> h] : e \in OnnxSettings \cup TorchSettings, h \in Machines}
    \cup {[env |-> Setting("dedup-only", "torch", "cuda", "cpu"), hw |-> Laptop]}

GpuDeployments == {[env |-> Setting("quality", "onnx", "auto", "cuda"), hw |-> GpuHost]}
CpuDeployments == {[env |-> Setting("quality", "onnx", "auto", "cpu"), hw |-> Laptop]}

\* Falconsai/nsfw_image_detection: normal, nsfw.
MCModelLabels == <<"safe", "unsafe">>
=============================================================================
