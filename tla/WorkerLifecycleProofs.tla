----------------------- MODULE WorkerLifecycleProofs -----------------------
(***************************************************************************)
(* Proofs about WorkerLifecycle, for every set of deployments, every       *)
(* safety model and any number of faults.  LifecycleInv is the inductive   *)
(* invariant: what each phase knows about the models, the cache and the    *)
(* clients.                                                                *)
(***************************************************************************)
EXTENDS WorkerLifecycle, TLAPS

\* An installed provider is the first of its own chain.
LEMMA FirstIsItself ==
    ASSUME NEW ep \in Providers, NEW installed, ep \in installed
    PROVE  First(ep, installed) = ep
<1> DEFINE chain == Chain(ep)
           found == {k \in 1 .. Len(chain) : chain[k] \in installed}
<1>1. Len(chain) \in Nat /\ Len(chain) >= 1 /\ chain[1] = ep
  BY SMT DEF Chain, Providers
<1>2. 1 \in found /\ \A l \in found : 1 <= l
  BY <1>1
<1>3. \A k \in found : (\A l \in found : k <= l) => k = 1
  BY <1>1, <1>2
<1>4. (CHOOSE k \in found : \A l \in found : k <= l) = 1
  BY <1>2, <1>3
<1> QED
  BY <1>1, <1>2, <1>4 DEF First

\* What preflight lets pass, no later check of the start rejects.
LEMMA PreflightSuffices ==
    ASSUME NEW e, NEW h, NeedsModels(e), PreflightPasses(e, h)
    PROVE  /\ Runtime(e) = "torch" => ~TorchDeviceRaises(e, h)
           /\ PostWarmupPasses(e, h, Models, First(Ep(e), h.ort))
<1>1. TorchCudaFits(e, h) /\ OrtProviderFits(e, h)
  BY DEF PreflightPasses
<1>2. Runtime(e) = "torch" => ~TorchDeviceRaises(e, h)
  BY <1>1 DEF TorchCudaFits, TorchDeviceRaises
<1>3. Runtime(e) = "onnx" /\ Ep(e) \in Providers \ {"cpu"} => First(Ep(e), h.ort) # "cpu"
  BY <1>1 DEF OrtProviderFits
<1> QED
  BY <1>2, <1>3 DEF PostWarmupPasses, Models

\* The doctor's recommendation passes, branch by branch.
LEMMA RecommendationFits ==
    ASSUME NEW h \in Hardware, ~(h.image = "cpu" /\ h.cuda)
    PROVE  PreflightPasses(Recommend(h), h)
<1> DEFINE Passes(r) == PreflightPasses(r, h)
<1>1. "cpu" \in h.ort /\ h.ort \subseteq Providers /\ h.image \in {"cpu", "gpu", "unknown"}
  BY DEF Hardware
<1>2. Passes(Setting("quality", "onnx", "cpu", "cpu"))
  BY <1>1 DEF Setting, PreflightPasses, ImageVariantFits, TorchCudaFits, OrtProviderFits,
     RequiresCuda, Runtime, Ep, Device, Devices, GpuProviders, Providers
<1>3. h.cuda => Passes(Setting("quality", "torch", "cuda", "cuda"))
  BY <1>1 DEF Setting, PreflightPasses, ImageVariantFits, TorchCudaFits, OrtProviderFits,
     RequiresCuda, Runtime, Ep, Device, Devices, GpuProviders, Providers
<1>4. Passes(Setting("quality", "torch", "cpu", "cpu"))
  BY <1>1 DEF Setting, PreflightPasses, ImageVariantFits, TorchCudaFits, OrtProviderFits,
     RequiresCuda, Runtime, Ep, Device, Devices, GpuProviders, Providers
<1>5. ASSUME NEW ep \in {"openvino", "qnn", "coreml"}, NEW profile, ep \in h.ort,
             ep = "coreml" => h.system = "Darwin" /\ ~h.docker
      PROVE  Passes(Setting(profile, "onnx", "cpu", ep))
  <2>1. ep \in Providers
    BY DEF Providers
  <2>2. First(ep, h.ort) # "cpu"
    BY <1>5, <2>1, FirstIsItself
  <2> QED
    BY <1>5, <2>1, <2>2 DEF Setting, PreflightPasses, ImageVariantFits, TorchCudaFits,
       OrtProviderFits, RequiresCuda, Runtime, Ep, Device, Devices, GpuProviders
<1>6. CASE h.image = "gpu" /\ h.cuda
  BY <1>6, <1>3 DEF Recommend
<1>7. CASE ~(h.image = "gpu" /\ h.cuda) /\ h.arm
  <2>1. CASE h.system = "Darwin" /\ h.arm /\ "coreml" \in h.ort /\ ~h.docker
    BY <1>7, <2>1, <1>5 DEF Recommend
  <2>2. CASE ~(h.system = "Darwin" /\ h.arm /\ "coreml" \in h.ort /\ ~h.docker)
    BY <1>7, <2>2, <1>2 DEF Recommend
  <2> QED
    BY <2>1, <2>2
<1>8. CASE ~(h.image = "gpu" /\ h.cuda) /\ ~h.arm
  <2>1. CASE "openvino" \in h.ort /\ ~h.docker
    BY <1>8, <2>1, <1>5 DEF Recommend
  <2>2. CASE ~("openvino" \in h.ort /\ ~h.docker) /\ "qnn" \in h.ort
    BY <1>8, <2>2, <1>5 DEF Recommend
  <2>3. CASE ~("openvino" \in h.ort /\ ~h.docker) /\ ~("qnn" \in h.ort) /\ h.cuda
    BY <1>8, <2>3, <1>3 DEF Recommend
  <2>4. CASE ~("openvino" \in h.ort /\ ~h.docker) /\ ~("qnn" \in h.ort) /\ ~h.cuda
    BY <1>8, <2>4, <1>4 DEF Recommend
  <2> QED
    BY <2>1, <2>2, <2>3, <2>4
<1> QED
  BY <1>6, <1>7, <1>8

-----------------------------------------------------------------------------
After == {"postWarmup", "connect", "consume", "consumerRaised", "closing"}

\* Phases between preflight and Redis are for profiles with models, and preflight
\* has passed in them.
PhasesFit ==
    /\ pc \in Loading \cup {"preflight", "warmup", "postWarmup"} => NeedsModels(env)
    /\ PastPreflight => PreflightPasses(env, hw)

\* A model counts as ready when its load() is over; after the warmup both are.
ReadyInv ==
    /\ pc = "processor" => loaded[model] # "none"
    /\ \A m \in ready : loaded[m] # "none"
    /\ "match" \in ready /\ Runtime(env) = "onnx" => cache["match"]["processor"] = "whole"
    /\ pc \in After /\ NeedsModels(env) => ready = Models

\* Which clients are open in which phase.
ClientsInv ==
    /\ pc = "down" /\ exit # "raised" => clients = {}
    /\ pc = "closing" => clients \subseteq {"http"}
    /\ pc \notin {"down", "consume", "consumerRaised", "closing"} => clients = {}

Uniform(m) == \E what \in {"absent", "whole"} : \A f \in Files : cache[m][f] = what
GraphOnly == cache[model]["graph"] = "whole" /\ \A f \in ConfigFiles : cache[model][f] # "torn"

\* Without faults a model's cache is complete or empty, except in the phases that
\* write it: first the graph, then one file after another.
CacheInv ==
    faults = 0 =>
        /\ \A m \in Models :
             Uniform(m) \/ (m = model /\ pc \in {"writeGraph", "configs", "writeConfig"})
        /\ pc = "writeGraph" => \A f \in ConfigFiles : cache[model][f] = "absent"
        /\ pc = "configs" => GraphOnly
        /\ pc = "writeConfig" =>
             /\ cache[model]["graph"] = "whole"
             /\ \A f, g \in ConfigFiles :
                  cache[model][f] = "torn" /\ cache[model][g] = "torn" => f = g

LifecycleInv == LifecycleTypeOK /\ PhasesFit /\ ReadyInv /\ ClientsInv /\ CacheInv

-----------------------------------------------------------------------------
LEMMA FirstIsProvider == ASSUME NEW ep, NEW installed PROVE First(ep, installed) \in Providers
<1> DEFINE chain == Chain(ep)
           found == {k \in 1 .. Len(chain) : chain[k] \in installed}
<1>1. chain \in Seq(Providers)
  <2>1. CASE ep = "cpu"
    BY <2>1 DEF Chain, Providers
  <2>2. CASE ep = "tensorrt"
    BY <2>2 DEF Chain, Providers
  <2>3. CASE ep \in Providers \ {"cpu", "tensorrt"}
    BY <2>3 DEF Chain, Providers
  <2>4. CASE ep \notin Providers
    <3>1. Chain(ep) = <<"tensorrt", "cuda", "openvino", "coreml", "qnn", "cpu">>
      <4>1. ep # "cpu" /\ ep # "tensorrt" /\ ep \notin Providers \ {"cpu", "tensorrt"}
        BY <2>4 DEF Providers
      <4> QED
        BY <4>1, Zenon DEF Chain
    <3> QED
      BY <3>1 DEF Providers
  <2> QED
    BY <2>1, <2>2, <2>3, <2>4
<1>2. \A k \in found : chain[k] \in Providers
  BY <1>1
<1>3. found # {} => \E j \in found : \A l \in found : j <= l
  <2>1. Len(chain) \in {1, 2, 3, 6}
    <3>1. CASE ep \in Providers
      BY <3>1 DEF Chain, Providers
    <3>2. CASE ep \notin Providers
      <4>1. ep # "cpu" /\ ep # "tensorrt" /\ ep \notin Providers \ {"cpu", "tensorrt"}
        BY <3>2 DEF Providers
      <4>2. chain = <<"tensorrt", "cuda", "openvino", "coreml", "qnn", "cpu">>
        BY <4>1, Zenon DEF Chain
      <4> QED
        BY <4>2
    <3> QED
      BY <3>1, <3>2
  <2>2. found \subseteq {1, 2, 3, 4, 5, 6}
    BY <2>1
  <2> HIDE DEF found
  <2>3. CASE 1 \in found
    BY <2>2, <2>3
  <2>4. CASE 1 \notin found /\ 2 \in found
    BY <2>2, <2>4
  <2>5. CASE {1, 2} \cap found = {} /\ 3 \in found
    BY <2>2, <2>5
  <2>6. CASE {1, 2, 3} \cap found = {} /\ 4 \in found
    BY <2>2, <2>6
  <2>7. CASE {1, 2, 3, 4} \cap found = {} /\ 5 \in found
    BY <2>2, <2>7
  <2>8. CASE {1, 2, 3, 4, 5} \cap found = {} /\ 6 \in found
    BY <2>2, <2>8
  <2> QED
    BY <2>2, <2>3, <2>4, <2>5, <2>6, <2>7, <2>8
<1>4. CASE found = {}
  BY <1>4 DEF First, Providers
<1>5. CASE found # {}
  BY <1>5, <1>2, <1>3 DEF First
<1> QED
  BY <1>4, <1>5

-----------------------------------------------------------------------------
LEMMA FaultCounts ==
    ASSUME LifecycleTypeOK, Fault
    PROVE  faults' \in 1 .. MaxFaults
BY LifecycleAssumption DEF LifecycleTypeOK, Fault

\* Writing one file of one model changes that file of that model.
LEMMA WriteEffect ==
    ASSUME LifecycleTypeOK, NEW file \in Files, NEW what \in {"absent", "torn", "whole"},
           Write(file, what)
    PROVE  /\ cache' \in [Models -> [Files -> {"absent", "torn", "whole"}]]
           /\ \A m \in Models, f \in Files :
                cache'[m][f] = IF m = model /\ f = file THEN what ELSE cache[m][f]
<1> DEFINE row == [cache[model] EXCEPT ![file] = what]
<1>1. model \in Models /\ cache \in [Models -> [Files -> {"absent", "torn", "whole"}]]
  BY DEF LifecycleTypeOK
<1>2. row \in [Files -> {"absent", "torn", "whole"}]
  BY <1>1
<1>3. \A f \in Files : row[f] = IF f = file THEN what ELSE cache[model][f]
  BY <1>1
<1>4. cache' = [cache EXCEPT ![model] = row]
  BY DEF Write
<1> HIDE DEF row
<1> QED
  BY <1>1, <1>2, <1>3, <1>4

LEMMA TypeInit == Init => LifecycleTypeOK
<1> SUFFICES ASSUME Init PROVE LifecycleTypeOK
  OBVIOUS
<1>1. cache \in [Models -> [Files -> {"absent", "torn", "whole"}]]
  BY DEF Init
<1>2. loaded \in [Models -> Providers \cup {"none"}]
  BY DEF Init, NothingLoaded
<1>3. faults \in 0 .. MaxFaults
  BY LifecycleAssumption DEF Init
<1> QED
  BY <1>1, <1>2, <1>3 DEF Init, LifecycleTypeOK, Phases, Models, Exits

LEMMA GoneTypes ==
    ASSUME LifecycleTypeOK, NEW how \in Exits, NEW left, left \subseteq clients, Gone(how, left)
    PROVE  /\ pc' \in Phases /\ exit' \in Exits /\ clients' \subseteq {"redis", "http"}
           /\ loaded' \in [Models -> Providers \cup {"none"}] /\ ready' \subseteq Models
           /\ labels' \in {<<>>, ModelLabels} /\ stop' \in BOOLEAN
BY DEF Gone, LifecycleTypeOK, NothingLoaded, Phases

LEMMA TypeStep == LifecycleTypeOK /\ [Next]_vars => LifecycleTypeOK'
<1> SUFFICES ASSUME LifecycleTypeOK, [Next]_vars PROVE LifecycleTypeOK'
  OBVIOUS
<1>1. CASE UNCHANGED vars
  BY <1>1 DEF LifecycleTypeOK, vars
<1>2. CASE Start \/ LoadNext \/ WarmupDone
  BY <1>2 DEF Start, LoadNext, WarmupDone, LifecycleTypeOK, Phases, Loading, Models
<1>3. CASE Preflight
  <2>1. CASE Gone("failed", {})
    BY <1>3, <2>1, GoneTypes DEF Preflight, LifecycleTypeOK, Exits
  <2>2. CASE pc' = "warmup" /\ UNCHANGED <<clients, loaded, ready, labels, stop, exit>>
    BY <1>3, <2>2 DEF Preflight, LifecycleTypeOK, Phases
  <2> QED
    BY <1>3, <2>1, <2>2 DEF Preflight
<1>4. CASE Unloadable
  BY <1>4, GoneTypes DEF Unloadable, LifecycleTypeOK, Exits
<1>5. CASE Resolve \/ GraphWritten
  <2>1. UNCHANGED cache \/ Write("graph", "torn") \/ Write("graph", "whole")
    BY <1>5 DEF Resolve, GraphWritten
  <2>2. cache' \in [Models -> [Files -> {"absent", "torn", "whole"}]]
    BY <2>1, WriteEffect DEF Files, LifecycleTypeOK
  <2> QED
    BY <1>5, <2>2 DEF Resolve, GraphWritten, Loads, LifecycleTypeOK, Phases, Loading
<1>6. CASE CopyConfig \/ ConfigWritten \/ ConfigsDone
  <2>1. UNCHANGED cache \/ \E f \in Files, what \in {"torn", "whole"} : Write(f, what)
    BY <1>6 DEF CopyConfig, ConfigWritten, ConfigsDone, Files
  <2>2. cache' \in [Models -> [Files -> {"absent", "torn", "whole"}]]
    BY <2>1, WriteEffect DEF LifecycleTypeOK
  <2> QED
    BY <1>6, <2>2 DEF CopyConfig, ConfigWritten, ConfigsDone, Loads, LifecycleTypeOK, Phases, Loading
<1>7. CASE OpenSession
  <2>1. Device(env) \in Providers
    BY DEF Device, Devices, Providers
  <2>2. First(Ep(env), hw.ort) \in Providers /\ "cpu" \in Providers
    BY FirstIsProvider DEF Providers
  <2>3. \E d \in Providers : loaded' = [loaded EXCEPT ![model] = d]
    BY <1>7, <2>1, <2>2 DEF OpenSession
  <2> QED
    BY <1>7, <2>3 DEF OpenSession, LifecycleTypeOK, Phases, Loading
<1>8. CASE LoadDone
  BY <1>8 DEF LoadDone, LifecycleTypeOK, Phases
<1>9. CASE PostWarmup
  <2>1. CASE Gone("failed", {})
    BY <1>9, <2>1, GoneTypes DEF PostWarmup, LifecycleTypeOK, Exits
  <2>2. CASE pc' = "connect" /\ UNCHANGED <<clients, loaded, ready, labels, stop, exit>>
    BY <1>9, <2>2 DEF PostWarmup, LifecycleTypeOK, Phases
  <2> QED
    BY <1>9, <2>1, <2>2 DEF PostWarmup
<1>10. CASE Connect \/ OpenHttp \/ StopConsumer \/ Signal \/ Resume
  BY <1>10 DEF Connect, OpenHttp, StopConsumer, Signal, Resume, LifecycleTypeOK, Phases
<1>11. CASE Unwind \/ CloseHttp
  BY <1>11, GoneTypes DEF Unwind, CloseHttp, LifecycleTypeOK, Exits
<1>12. CASE LoadFails \/ PingFails \/ Kill
  <2>1. Fault /\ \E how \in Exits : Gone(how, {})
    BY <1>12 DEF LoadFails, PingFails, Kill, Exits
  <2>2. faults' \in 0 .. MaxFaults
    BY <2>1, FaultCounts
  <2> QED
    BY <1>12, <2>1, <2>2, GoneTypes DEF LoadFails, PingFails, Kill, LifecycleTypeOK
<1>13. CASE ConfigsFail \/ ConsumerRaises
  <2>1. faults' \in 0 .. MaxFaults
    BY <1>13, FaultCounts DEF ConfigsFail, ConsumerRaises
  <2> QED
    BY <1>13, <2>1 DEF ConfigsFail, ConsumerRaises, LifecycleTypeOK, Phases, Loading
<1> QED
  BY <1>1, <1>2, <1>3, <1>4, <1>5, <1>6, <1>7, <1>8, <1>9, <1>10, <1>11, <1>12, <1>13
     DEF Next, Proceed, Mishap, Warmup, Load

-----------------------------------------------------------------------------
InLoading == Loading \cup {"warmup"}
AtRedis == {"connect", "consume", "consumerRaised", "closing"}

\* The order of the phases, whatever else a step does.
LEMMA PhaseOrder ==
    ASSUME LifecycleTypeOK, [Next]_vars
    PROVE  /\ deploy' = deploy
           /\ \/ pc' = pc \/ pc' = "down"
              \/ pc = "down" /\ pc' = "preflight" /\ NeedsModels(env)
              \/ pc = "down" /\ pc' = "connect" /\ ~NeedsModels(env)
              \/ pc = "preflight" /\ pc' = "warmup" /\ PreflightPasses(env, hw)
              \/ pc \in InLoading /\ pc' \in InLoading \cup {"postWarmup"}
              \/ pc = "postWarmup" /\ pc' = "connect"
              \/ pc \in AtRedis /\ pc' \in AtRedis \ {"connect"}
<1>1. CASE UNCHANGED vars
  BY <1>1 DEF vars
<1>2. CASE Start \/ Preflight \/ PostWarmup
  BY <1>2 DEF Start, Preflight, PostWarmup, Gone
<1>3. CASE LoadNext \/ WarmupDone \/ Unloadable
  BY <1>3 DEF LoadNext, WarmupDone, Unloadable, Gone, InLoading, Loading
<1>4. CASE Load
  BY <1>4 DEF Load, Resolve, GraphWritten, CopyConfig, ConfigWritten, ConfigsDone, OpenSession,
     LoadDone, Loads, InLoading, Loading
<1>5. CASE Connect \/ Unwind \/ StopConsumer \/ CloseHttp \/ OpenHttp \/ Signal \/ Resume
  BY <1>5 DEF Connect, Unwind, StopConsumer, CloseHttp, OpenHttp, Signal, Resume, Gone, AtRedis
<1>6. CASE Mishap
  BY <1>6 DEF Mishap, ConfigsFail, LoadFails, PingFails, ConsumerRaises, Kill, Gone, InLoading,
     Loading, AtRedis
<1> QED
  BY <1>1, <1>2, <1>3, <1>4, <1>5, <1>6 DEF Next, Proceed, Warmup

LEMMA PhasesStep == LifecycleInv /\ [Next]_vars => PhasesFit'
<1> SUFFICES ASSUME LifecycleInv, [Next]_vars PROVE PhasesFit'
  OBVIOUS
<1>1. LifecycleTypeOK /\ PhasesFit
  BY DEF LifecycleInv
<1>2. deploy' = deploy
  BY <1>1, PhaseOrder
<1>3. env' = env /\ hw' = hw
  BY <1>2 DEF env, hw
<1>4. pc' \in Loading \cup {"preflight", "warmup", "postWarmup"} => NeedsModels(env)
  BY <1>1, PhaseOrder DEF PhasesFit, InLoading, AtRedis, Loading
<1>5. pc' \notin {"down", "preflight"} /\ NeedsModels(env) => PreflightPasses(env, hw)
  BY <1>1, PhaseOrder DEF PhasesFit, PastPreflight, InLoading, AtRedis, Loading
<1> QED
  BY <1>3, <1>4, <1>5 DEF PhasesFit, PastPreflight

\* After the warmup every model the profile needs is ready.
LEMMA NothingToLoad ==
    ASSUME ToLoad = {}, NeedsModels(env), ready \subseteq Models
    PROVE  ready = Models
BY DEF ToLoad, NeedsModels, EmbedOn, SafetyOn, Models

\* The steps that leave the models alone leave ReadyInv alone.
LEMMA ReadyKept ==
    ASSUME LifecycleInv, [Next]_vars, UNCHANGED <<model, cache, loaded, ready>>,
           pc' # "processor" \/ pc = "processor", pc' \in After /\ NeedsModels(env) => ready = Models
    PROVE  ReadyInv'
<1>1. deploy' = deploy
  BY PhaseOrder DEF LifecycleInv
<1> QED
  BY <1>1 DEF LifecycleInv, ReadyInv, env

LEMMA ReadyStep == LifecycleInv /\ [Next]_vars => ReadyInv'
<1> SUFFICES ASSUME LifecycleInv, [Next]_vars PROVE ReadyInv'
  OBVIOUS
<1>1. LifecycleTypeOK /\ PhasesFit /\ ReadyInv
  BY DEF LifecycleInv
<1>2. deploy' = deploy
  BY <1>1, PhaseOrder
<1>3. env' = env
  BY <1>2 DEF env
<1>4. ASSUME NEW how, NEW left, Gone(how, left) PROVE ReadyInv'
  BY <1>4 DEF Gone, ReadyInv, After
<1>5. CASE UNCHANGED vars \/ OpenHttp \/ StopConsumer \/ Signal \/ Resume \/ Connect \/ ConsumerRaises
  <2>1. UNCHANGED <<model, cache, loaded, ready>>
    BY <1>5 DEF vars, OpenHttp, StopConsumer, Signal, Resume, Connect, ConsumerRaises
  <2>2. pc' # "processor" \/ pc = "processor"
    BY <1>5 DEF vars, OpenHttp, StopConsumer, Signal, Resume, Connect, ConsumerRaises
  <2>3. pc' \in After => pc \in After
    BY <1>5 DEF vars, OpenHttp, StopConsumer, Signal, Resume, Connect, ConsumerRaises, After
  <2> QED
    BY <1>1, <2>1, <2>2, <2>3, ReadyKept DEF ReadyInv
<1>6. CASE Start
  <2>1. UNCHANGED <<cache, loaded, ready>> /\ pc' \in {"preflight", "connect"}
    BY <1>6 DEF Start
  <2>2. pc' \in After => ~NeedsModels(env)
    BY <1>6 DEF Start, After
  <2> QED
    BY <2>1, <2>2, <1>1, <1>3 DEF ReadyInv
<1>7. CASE Preflight \/ PostWarmup
  <2>1. CASE Gone("failed", {})
    BY <2>1, <1>4
  <2>2. CASE ~Gone("failed", {})
    <3>1. UNCHANGED <<model, cache, loaded, ready>> /\ pc' # "processor"
      BY <1>7, <2>2 DEF Preflight, PostWarmup
    <3>2. pc' \in After => pc \in After
      BY <1>7, <2>2 DEF Preflight, PostWarmup, After
    <3> QED
      BY <3>1, <3>2, <1>1, ReadyKept DEF ReadyInv
  <2> QED
    BY <2>1, <2>2
<1>8. CASE LoadNext
  <2>1. UNCHANGED <<cache, loaded, ready>> /\ pc' \in {"resolve", "session"}
    BY <1>8 DEF LoadNext
  <2> QED
    BY <2>1, <1>1, <1>3 DEF ReadyInv, After
<1>9. CASE WarmupDone
  <2>1. ready \subseteq Models /\ ToLoad = {}
    BY <1>9, <1>1 DEF WarmupDone, LifecycleTypeOK
  <2>2. NeedsModels(env) => ready = Models
    BY <2>1, NothingToLoad
  <2> QED
    BY <1>9, <2>2, ReadyKept DEF WarmupDone
<1>10. CASE Resolve \/ GraphWritten \/ CopyConfig \/ ConfigWritten \/ ConfigsDone
  <2>1. UNCHANGED <<model, loaded, ready>> /\ pc' \notin After /\ pc' # "processor"
    BY <1>10 DEF Resolve, GraphWritten, CopyConfig, ConfigWritten, ConfigsDone, Loads, After
  <2>2. cache["match"]["processor"] = "whole" => cache'["match"]["processor"] = "whole"
    <3>1. CASE UNCHANGED cache
      BY <3>1
    <3>2. CASE \E what \in {"torn", "whole"} : Write("graph", what)
      <4>1. PICK what \in {"torn", "whole"} : Write("graph", what)
        BY <3>2
      <4> QED
        BY <4>1, <1>1, WriteEffect DEF Files, ConfigFiles, Models
    <3>3. CASE \E f \in ConfigFiles, what \in {"torn", "whole"} :
                  cache[model][f] # "whole" /\ Write(f, what)
      <4>1. PICK f \in ConfigFiles, what \in {"torn", "whole"} :
                   cache[model][f] # "whole" /\ Write(f, what)
        BY <3>3
      <4> QED
        BY <4>1, <1>1, WriteEffect DEF Files, ConfigFiles, Models
    <3> QED
      BY <1>10, <3>1, <3>2, <3>3 DEF Resolve, GraphWritten, CopyConfig, ConfigWritten, ConfigsDone
  <2> QED
    BY <2>1, <2>2, <1>1, <1>3 DEF ReadyInv
<1>11. CASE OpenSession
  <2>1. First(Ep(env), hw.ort) \in Providers /\ Device(env) \in Providers /\ "cpu" \in Providers
    BY FirstIsProvider DEF Device, Devices, Providers
  <2>2. \E d \in Providers : loaded' = [loaded EXCEPT ![model] = d]
    BY <1>11, <2>1 DEF OpenSession
  <2>3. model \in Models /\ loaded \in [Models -> Providers \cup {"none"}] /\ ready \subseteq Models
    BY <1>1 DEF LifecycleTypeOK
  <2>4. loaded'[model] # "none" /\ \A m \in Models : loaded[m] # "none" => loaded'[m] # "none"
    BY <2>2, <2>3 DEF Providers
  <2>5. UNCHANGED <<model, cache, ready>> /\ pc' = "processor"
    BY <1>11 DEF OpenSession
  <2> QED
    BY <2>3, <2>4, <2>5, <1>1, <1>3 DEF ReadyInv, After
<1>12. CASE LoadDone
  <2>1. /\ pc = "processor" /\ pc' = "warmup" /\ ready' = ready \cup {model}
        /\ UNCHANGED <<cache, loaded>> /\ ProcessorReadable
    BY <1>12 DEF LoadDone
  <2>2. model = "match" /\ Runtime(env) = "onnx" => cache["match"]["processor"] = "whole"
    BY <2>1 DEF ProcessorReadable
  <2> QED
    BY <2>1, <2>2, <1>1, <1>3 DEF ReadyInv, After
<1>13. CASE Unloadable \/ Unwind \/ CloseHttp \/ LoadFails \/ PingFails \/ Kill
  BY <1>13, <1>4 DEF Unloadable, Unwind, CloseHttp, LoadFails, PingFails, Kill
<1>14. CASE ConfigsFail
  BY <1>14, ReadyKept DEF ConfigsFail, After
<1> QED
  BY <1>5, <1>6, <1>7, <1>8, <1>9, <1>10, <1>11, <1>12, <1>13, <1>14
     DEF Next, Proceed, Mishap, Warmup, Load

LEMMA ClientsStep == LifecycleInv /\ [Next]_vars => ClientsInv'
<1> SUFFICES ASSUME LifecycleInv, [Next]_vars PROVE ClientsInv'
  OBVIOUS
<1>1. ClientsInv /\ clients \subseteq {"redis", "http"}
  BY DEF LifecycleInv, LifecycleTypeOK
<1>2. ASSUME NEW how, Gone(how, {}) PROVE ClientsInv'
  BY <1>2 DEF Gone, ClientsInv
<1>3. CASE UNCHANGED vars \/ Start \/ Connect \/ OpenHttp \/ ConsumerRaises \/ Signal \/ Resume
  BY <1>1, <1>3 DEF vars, Start, Connect, OpenHttp, ConsumerRaises, Signal, Resume, ClientsInv
<1>4. CASE Preflight \/ PostWarmup
  <2>1. CASE Gone("failed", {})
    BY <2>1, <1>2
  <2>2. CASE ~Gone("failed", {})
    BY <1>1, <1>4, <2>2 DEF Preflight, PostWarmup, ClientsInv
  <2> QED
    BY <2>1, <2>2
<1>5. CASE Unloadable \/ LoadFails \/ PingFails \/ Kill
  BY <1>5, <1>2 DEF Unloadable, LoadFails, PingFails, Kill
<1>6. CASE LoadNext \/ WarmupDone \/ ConfigsFail \/ Load
  <2>1. pc \in InLoading /\ pc' \in InLoading \cup {"postWarmup"} /\ clients' = clients
    BY <1>6 DEF LoadNext, WarmupDone, ConfigsFail, Load, Resolve, GraphWritten, CopyConfig,
       ConfigWritten, ConfigsDone, OpenSession, LoadDone, Loads, InLoading, Loading
  <2> QED
    BY <1>1, <2>1 DEF ClientsInv, InLoading, Loading
<1>7. CASE Unwind
  BY <1>7 DEF Unwind, Gone, ClientsInv
<1>8. CASE StopConsumer \/ CloseHttp
  BY <1>1, <1>8 DEF StopConsumer, CloseHttp, Gone, ClientsInv
<1> QED
  BY <1>3, <1>4, <1>5, <1>6, <1>7, <1>8 DEF Next, Proceed, Mishap, Warmup

Written == {"writeGraph", "configs", "writeConfig"}

\* A step outside the phases that write the cache keeps every model's files as
\* they are, and with them CacheInv.
LEMMA CacheKept ==
    ASSUME CacheInv, UNCHANGED <<cache, faults>>, pc' \notin Written,
           pc \notin Written
    PROVE  CacheInv'
BY DEF CacheInv, Uniform, Written

LEMMA CacheStep == LifecycleInv /\ [Next]_vars => CacheInv'
<1> SUFFICES ASSUME LifecycleInv, [Next]_vars, faults' = 0 PROVE CacheInv'
  BY DEF CacheInv
<1>1. LifecycleTypeOK /\ CacheInv /\ model \in Models /\ faults \in Nat
  BY LifecycleAssumption DEF LifecycleInv, LifecycleTypeOK
<1>2. ~Fault
  BY <1>1 DEF Fault
<1>3. cache \in [Models -> [Files -> {"absent", "torn", "whole"}]]
  BY <1>1 DEF LifecycleTypeOK
<1>4. CASE UNCHANGED vars \/ Signal
  BY <1>1, <1>4 DEF vars, Signal, CacheInv, Uniform, GraphOnly
<1>5. CASE \/ Start \/ Preflight \/ LoadNext \/ WarmupDone \/ OpenSession \/ LoadDone
           \/ Unloadable \/ PostWarmup
  <2>1. UNCHANGED <<cache, faults>>
    BY <1>5 DEF Start, Preflight, LoadNext, WarmupDone, OpenSession, LoadDone,
       Unloadable, PostWarmup
  <2>2. pc \notin Written /\ pc' \notin Written
    BY <1>5 DEF Start, Preflight, LoadNext, WarmupDone, OpenSession, LoadDone,
       Unloadable, PostWarmup, Gone, Written
  <2> QED
    BY <1>1, <2>1, <2>2, CacheKept
<1>6. CASE Connect \/ OpenHttp \/ Unwind \/ StopConsumer \/ CloseHttp \/ Resume
  <2>1. UNCHANGED <<cache, faults>>
    BY <1>6 DEF Connect, OpenHttp, Unwind, StopConsumer, CloseHttp, Resume
  <2>2. pc \notin Written /\ pc' \notin Written
    BY <1>6 DEF Connect, OpenHttp, Unwind, StopConsumer, CloseHttp, Resume, Gone, Written
  <2> QED
    BY <1>1, <2>1, <2>2, CacheKept
<1>7. CASE Mishap
  BY <1>2, <1>7 DEF Mishap, ConfigsFail, LoadFails, PingFails, ConsumerRaises, Kill
\* In the loading, the other model's files stay as they are.
<1>8. ASSUME UNCHANGED <<model, faults>>, pc \in Loading, pc' \in Loading,
             \A m \in Models \ {model} : \A f \in Files : cache'[m][f] = cache[m][f]
      PROVE  faults = 0 /\ \A m \in Models \ {model} : Uniform(m)'
  <2>1. faults = 0
    BY <1>8
  <2>2. \A m \in Models \ {model} : Uniform(m)
    BY <1>1, <2>1 DEF CacheInv
  <2> QED
    BY <1>8, <2>1, <2>2 DEF Uniform
<1>9. CASE Resolve
  <2>1. CASE Loads("session") /\ UNCHANGED cache
    BY <1>1, <1>9, <2>1, CacheKept DEF Resolve, Loads, Written
  <2>2. CASE pc = "resolve" /\ cache[model]["graph"] = "absent" /\ Loads("writeGraph") /\ Write("graph", "torn")
    <3>1. \A m \in Models, f \in Files :
            cache'[m][f] = IF m = model /\ f = "graph" THEN "torn" ELSE cache[m][f]
      BY <1>1, <2>2, WriteEffect DEF Files
    <3>2. Uniform(model) /\ faults = 0
      BY <1>1, <2>2 DEF CacheInv, Loads
    <3>3. \A f \in ConfigFiles : cache'[model][f] = "absent"
      BY <1>1, <3>1, <3>2, <2>2 DEF Uniform, Files, ConfigFiles
    <3>4. \A m \in Models \ {model} : Uniform(m)'
      BY <3>1, <2>2, <1>8 DEF Loads, Loading
    <3> QED
      BY <2>2, <3>3, <3>4 DEF CacheInv, Loads
  <2> QED
    BY <1>9, <2>1, <2>2 DEF Resolve
<1>10. CASE GraphWritten
  <2>1. pc = "writeGraph" /\ pc' = "configs" /\ UNCHANGED <<model, faults>>
    BY <1>10 DEF GraphWritten, Loads
  <2>2. \A m \in Models, f \in Files :
          cache'[m][f] = IF m = model /\ f = "graph" THEN "whole" ELSE cache[m][f]
    BY <1>1, <1>10, WriteEffect DEF GraphWritten, Files
  <2>3. \A f \in ConfigFiles : cache[model][f] = "absent"
    BY <1>1, <2>1 DEF CacheInv
  <2>4. GraphOnly'
    BY <1>1, <2>1, <2>2, <2>3 DEF GraphOnly, Files, ConfigFiles
  <2>5. \A m \in Models \ {model} : Uniform(m)'
    BY <2>1, <2>2, <1>8 DEF Loading
  <2> QED
    BY <2>1, <2>4, <2>5 DEF CacheInv
<1>11. CASE CopyConfig
  <2>1. pc = "configs" /\ pc' = "writeConfig" /\ UNCHANGED <<model, faults>>
    BY <1>11 DEF CopyConfig, Loads
  <2>2. PICK g \in ConfigFiles : Write(g, "torn")
    BY <1>11 DEF CopyConfig
  <2>3. \A m \in Models, f \in Files :
          cache'[m][f] = IF m = model /\ f = g THEN "torn" ELSE cache[m][f]
    BY <1>1, <2>2, WriteEffect DEF Files
  <2>4. GraphOnly
    BY <1>1, <2>1 DEF CacheInv
  <2>5. cache'[model]["graph"] = "whole"
    BY <1>1, <2>3, <2>4 DEF GraphOnly, Files, ConfigFiles
  <2>6. \A f \in ConfigFiles : cache'[model][f] = "torn" => f = g
    BY <1>1, <2>3, <2>4 DEF GraphOnly, Files
  <2>7. \A m \in Models \ {model} : Uniform(m)'
    BY <2>1, <2>3, <1>8 DEF Loading
  <2> QED
    BY <2>1, <2>5, <2>6, <2>7 DEF CacheInv
<1>12. CASE ConfigWritten
  <2>1. pc = "writeConfig" /\ pc' = "configs" /\ UNCHANGED <<model, faults>>
    BY <1>12 DEF ConfigWritten, Loads
  <2>2. PICK g \in ConfigFiles : cache[model][g] = "torn" /\ Write(g, "whole")
    BY <1>12 DEF ConfigWritten
  <2>3. \A m \in Models, f \in Files :
          cache'[m][f] = IF m = model /\ f = g THEN "whole" ELSE cache[m][f]
    BY <1>1, <2>2, WriteEffect DEF Files
  <2>4. /\ cache[model]["graph"] = "whole"
        /\ \A f \in ConfigFiles : cache[model][f] = "torn" => f = g
    BY <1>1, <2>1, <2>2 DEF CacheInv
  <2>5. GraphOnly'
    BY <1>1, <2>1, <2>3, <2>4 DEF GraphOnly, Files, ConfigFiles
  <2>6. \A m \in Models \ {model} : Uniform(m)'
    BY <2>1, <2>3, <1>8 DEF Loading
  <2> QED
    BY <2>1, <2>5, <2>6 DEF CacheInv
<1>13. CASE ConfigsDone
  <2>1. pc = "configs" /\ pc' = "session" /\ UNCHANGED <<model, cache, faults>>
    BY <1>13 DEF ConfigsDone, Loads
  <2>2. \A f \in ConfigFiles : cache[model][f] = "whole"
    BY <1>1, <1>3, <1>13, <2>1 DEF ConfigsDone, CacheInv, GraphOnly, Files
  <2>3. \A f \in Files : cache[model][f] = "whole"
    BY <1>1, <2>1, <2>2 DEF CacheInv, GraphOnly, Files
  <2>4. Uniform(model)'
    BY <2>1, <2>3 DEF Uniform
  <2>5. \A m \in Models \ {model} : Uniform(m)'
    BY <2>1, <1>8 DEF Loading
  <2> QED
    BY <2>1, <2>4, <2>5 DEF CacheInv
<1> QED
  BY <1>4, <1>5, <1>6, <1>7, <1>9, <1>10, <1>11, <1>12, <1>13
     DEF Next, Proceed, Warmup, Load

-----------------------------------------------------------------------------
LEMMA LifecycleInductive == Spec => []LifecycleInv
<1>1. Init => LifecycleInv
  <2> SUFFICES ASSUME Init PROVE LifecycleInv
    OBVIOUS
  <2>1. PhasesFit /\ ReadyInv /\ ClientsInv
    BY DEF Init, PhasesFit, PastPreflight, ReadyInv, ClientsInv, Loading, After
  <2>2. \A m \in Models, f \in Files : cache[m][f] = "absent"
    BY DEF Init
  <2>3. CacheInv
    BY <2>2 DEF Init, CacheInv, Uniform
  <2> QED
    BY <2>1, <2>3, TypeInit DEF LifecycleInv
<1>2. LifecycleInv /\ [Next]_vars => LifecycleInv'
  BY TypeStep, PhasesStep, ReadyStep, ClientsStep, CacheStep DEF LifecycleInv
<1> QED
  BY <1>1, <1>2, PTL DEF Spec

\* The state of a worker keeps its type through every start, fault and stop.
THEOREM LifecycleTypeCorrect == Spec => []LifecycleTypeOK
<1>1. LifecycleInv => LifecycleTypeOK
  BY DEF LifecycleInv
<1> QED
  BY <1>1, LifecycleInductive, PTL

\* A worker that takes jobs has passed preflight and loaded every model of its
\* profile to the end (main.py:70-92).
THEOREM NoJobBeforeReady == Spec => []ConsumingMeansReady
<1>1. LifecycleInv => ConsumingMeansReady
  <2> SUFFICES ASSUME LifecycleInv, pc = "consume", NeedsModels(env)
               PROVE  /\ PreflightPasses(env, hw)
                      /\ ready = Models /\ \A m \in Models : loaded[m] # "none"
                      /\ Runtime(env) = "onnx" => cache["match"]["processor"] = "whole"
    BY DEF ConsumingMeansReady
  <2>1. PhasesFit /\ ReadyInv
    BY DEF LifecycleInv
  <2>2. PreflightPasses(env, hw) /\ ready = Models
    BY <2>1 DEF PhasesFit, PastPreflight, ReadyInv, After
  <2> QED
    BY <2>1, <2>2 DEF ReadyInv, Models
<1> QED
  BY <1>1, LifecycleInductive, PTL

\* Whatever environment and hardware: what preflight lets pass, the later device
\* and provider checks do not reject (runtime_validation.py, factory.py:26-35).
THEOREM HardwareIsCheckedOnce == Spec => []MismatchFoundEarly
<1>1. LifecycleInv => MismatchFoundEarly
  <2> SUFFICES ASSUME LifecycleInv, PastPreflight
               PROVE  /\ Runtime(env) = "torch" => ~TorchDeviceRaises(env, hw)
                      /\ PostWarmupPasses(env, hw, Models, First(Ep(env), hw.ort))
    BY DEF MismatchFoundEarly
  <2>1. NeedsModels(env) /\ PreflightPasses(env, hw)
    BY DEF LifecycleInv, PhasesFit, PastPreflight
  <2> QED
    BY <2>1, PreflightSuffices
<1> QED
  BY <1>1, LifecycleInductive, PTL

\* On every machine the doctor's recommendation passes preflight, save for the
\* CPU image on a CUDA host (runtime_validation.py recommend_config).
THEOREM RecommendationAccepted == Spec => []RecommendedIsAccepted
<1>1. LifecycleInv => RecommendedIsAccepted
  <2> SUFFICES ASSUME LifecycleInv, ~(hw.image = "cpu" /\ hw.cuda)
               PROVE  PreflightPasses(Recommend(hw), hw)
    BY DEF RecommendedIsAccepted
  <2>1. hw \in Hardware
    BY LifecycleAssumption DEF LifecycleInv, LifecycleTypeOK, hw
  <2> QED
    BY <2>1, RecommendationFits
<1> QED
  BY <1>1, LifecycleInductive, PTL

\* Without a fault the volume holds each model's files complete or not at all
\* (artifacts.py).
THEOREM CacheIsWholeWithoutFaults == Spec => []IncompleteOnlyByFault
<1>1. LifecycleInv => IncompleteOnlyByFault
  BY DEF LifecycleInv, CacheInv, IncompleteOnlyByFault, Uniform
<1> QED
  BY <1>1, LifecycleInductive, PTL

\* Only the exception of a consumer skips the cleanup of main (main.py:141-152).
THEOREM ClientsAreClosed == Spec => []ClosedUnlessRaised
<1>1. LifecycleInv => ClosedUnlessRaised
  BY DEF LifecycleInv, ClientsInv, ClosedUnlessRaised
<1> QED
  BY <1>1, LifecycleInductive, PTL

-----------------------------------------------------------------------------
\* Where the two findings about the loaded models come from.

\* A session has read its graph; without a fault the safety model, once ready, has
\* its labels.  A model runs on the torch device, or where ONNX Runtime may put it.
MemoryInv ==
    /\ pc = "processor" /\ Runtime(env) = "onnx" => cache[model]["graph"] = "whole"
    /\ faults = 0 /\ "safety" \in ready => labels = ModelLabels
    /\ Runtime(env) = "torch" => \A m \in Models : loaded[m] \in {"none", Device(env)}

LEMMA MemoryStep == LifecycleInv /\ MemoryInv /\ [Next]_vars => MemoryInv'
<1> SUFFICES ASSUME LifecycleInv, MemoryInv, [Next]_vars PROVE MemoryInv'
  OBVIOUS
<1>1. LifecycleTypeOK /\ CacheInv /\ model \in Models /\ faults \in Nat
  BY LifecycleAssumption DEF LifecycleInv, LifecycleTypeOK
<1>2. env' = env
  BY <1>1, PhaseOrder DEF env
<1>3. Fault => faults' # 0
  BY <1>1 DEF Fault
<1>4. ASSUME NEW how, NEW left, Gone(how, left) PROVE MemoryInv'
  <2>1. pc' = "down" /\ ready' = {} /\ \A m \in Models : loaded'[m] = "none"
    BY <1>4 DEF Gone, NothingLoaded
  <2> QED
    BY <2>1 DEF MemoryInv
<1>5. ASSUME UNCHANGED <<loaded, ready, labels>>, faults' = 0 => faults = 0,
             pc' # "processor" \/ (pc = "processor" /\ UNCHANGED <<model, cache>>)
      PROVE  MemoryInv'
  BY <1>2, <1>5 DEF MemoryInv
<1>6. CASE UNCHANGED vars \/ OpenHttp \/ StopConsumer \/ Signal \/ Resume \/ Connect \/ Start
           \/ LoadNext \/ WarmupDone
  <2>1. /\ UNCHANGED <<loaded, ready, labels, faults>>
        /\ pc' # "processor" \/ (pc = "processor" /\ UNCHANGED <<model, cache>>)
    BY <1>6 DEF vars, OpenHttp, StopConsumer, Signal, Resume, Connect, Start, LoadNext, WarmupDone
  <2> QED
    BY <1>5, <2>1
<1>7. CASE Resolve \/ GraphWritten \/ CopyConfig \/ ConfigWritten \/ ConfigsDone
  <2>1. UNCHANGED <<loaded, ready, labels, faults>> /\ pc' # "processor"
    BY <1>7 DEF Resolve, GraphWritten, CopyConfig, ConfigWritten, ConfigsDone, Loads
  <2> QED
    BY <1>5, <2>1
<1>8. CASE Preflight \/ PostWarmup
  <2>1. CASE Gone("failed", {})
    BY <2>1, <1>4
  <2>2. CASE ~Gone("failed", {})
    <3>1. UNCHANGED <<loaded, ready, labels, faults>> /\ pc' # "processor"
      BY <1>8, <2>2 DEF Preflight, PostWarmup
    <3> QED
      BY <1>5, <3>1
  <2> QED
    BY <2>1, <2>2
<1>9. CASE OpenSession
  <2>1. /\ UNCHANGED <<model, cache, ready, labels, faults>>
        /\ Runtime(env) = "torch" => loaded' = [loaded EXCEPT ![model] = Device(env)]
        /\ Runtime(env) = "onnx" => cache[model]["graph"] = "whole"
    BY <1>9 DEF OpenSession, Runtime
  <2>2. loaded \in [Models -> Providers \cup {"none"}]
    BY <1>1 DEF LifecycleTypeOK
  <2>3. Runtime(env) = "torch" => \A m \in Models : loaded'[m] \in {"none", Device(env)}
    BY <2>1, <2>2 DEF MemoryInv
  <2> QED
    BY <1>2, <2>1, <2>3 DEF MemoryInv
<1>10. CASE LoadDone
  <2>1. /\ pc = "processor" /\ pc' = "warmup" /\ ready' = ready \cup {model}
        /\ UNCHANGED <<cache, loaded, faults>>
        /\ labels' = IF model = "safety" /\ (Runtime(env) = "torch" \/ cache[model]["config"] = "whole")
                     THEN ModelLabels ELSE labels
    BY <1>10 DEF LoadDone
  <2>2. ASSUME faults = 0, model = "safety", Runtime(env) = "onnx"
        PROVE  cache[model]["config"] = "whole"
    <3>1. Uniform(model)
      BY <1>1, <2>1, <2>2 DEF CacheInv
    <3>2. cache[model]["graph"] = "whole"
      BY <2>1, <2>2 DEF MemoryInv
    <3> QED
      BY <3>1, <3>2 DEF Uniform, Files, ConfigFiles
  <2>3. faults = 0 /\ model = "safety" => labels' = ModelLabels
    BY <2>1, <2>2 DEF Runtime
  <2>4. faults = 0 /\ model # "safety" /\ "safety" \in ready => labels' = ModelLabels
    BY <2>1 DEF MemoryInv
  <2>5. faults' = 0 /\ "safety" \in ready' => labels' = ModelLabels
    BY <2>1, <2>3, <2>4
  <2> QED
    BY <1>2, <2>1, <2>5 DEF MemoryInv
<1>11. CASE Unloadable \/ Unwind \/ CloseHttp \/ LoadFails \/ PingFails \/ Kill
  BY <1>11, <1>4 DEF Unloadable, Unwind, CloseHttp, LoadFails, PingFails, Kill
<1>12. CASE ConfigsFail \/ ConsumerRaises
  <2>1. UNCHANGED <<loaded, ready, labels>> /\ faults' # 0 /\ pc' # "processor"
    BY <1>3, <1>12 DEF ConfigsFail, ConsumerRaises
  <2> QED
    BY <1>5, <2>1
<1> QED
  BY <1>6, <1>7, <1>8, <1>9, <1>10, <1>11, <1>12 DEF Next, Proceed, Mishap, Warmup, Load

LEMMA MemoryHolds == Spec => [](LifecycleInv /\ MemoryInv)
<1>1. Init => MemoryInv
  <2> SUFFICES ASSUME Init PROVE MemoryInv
    OBVIOUS
  <2>1. pc = "down" /\ ready = {} /\ \A m \in Models : loaded[m] = "none"
    BY DEF Init, NothingLoaded
  <2> QED
    BY <2>1 DEF MemoryInv
<1>2. LifecycleInv /\ MemoryInv /\ [Next]_vars => MemoryInv'
  BY MemoryStep
<1> QED
  BY <1>1, <1>2, LifecycleInductive, PTL DEF Spec

\* An image that is certainly of a safe class scores nothing, given the labels.
LEMMA SafeScoresNothing ==
    ASSUME NEW names \in Seq(LabelKinds), NEW sure \in DOMAIN names, names[sure] = "safe"
    PROVE  NsfwScore([i \in DOMAIN names |-> IF i = sure THEN 1 ELSE 0], names) = 0
<1> DEFINE p == [i \in DOMAIN names |-> IF i = sure THEN 1 ELSE 0]
           Leads(i) == \A j \in DOMAIN p : p[j] < p[i] \/ (p[j] = p[i] /\ i <= j)
<1>1. DOMAIN p = DOMAIN names /\ p[sure] = 1 /\ \A i \in DOMAIN p : i # sure => p[i] = 0
  OBVIOUS
<1>2. UnsafeProbs(p, names) = {0}
  BY <1>1 DEF UnsafeProbs, LabelOf
<1>3. Max({0}) = 0
  BY DEF Max
<1> HIDE DEF p
<1>4. NsfwScore(p, names) =
        IF Max({0}) = 0 /\ LabelOf(names, BestClass(p)) # "safe" THEN p[BestClass(p)] ELSE Max({0})
  BY <1>2, Zenon DEF NsfwScore
<1>5. \A i \in DOMAIN p : Leads(i) => i = sure
  <2> SUFFICES ASSUME NEW i \in DOMAIN p, Leads(i), i # sure PROVE FALSE
    OBVIOUS
  <2>1. p[i] = 0 /\ p[sure] = 1 /\ sure \in DOMAIN p
    BY <1>1
  <2>2. p[sure] < p[i] \/ p[sure] = p[i]
    BY <2>1
  <2> QED
    BY <2>1, <2>2
<1>6. Leads(sure)
  <2> SUFFICES ASSUME NEW j \in DOMAIN p
               PROVE  p[j] < p[sure] \/ (p[j] = p[sure] /\ sure <= j)
    OBVIOUS
  <2>1. CASE j = sure
    <3>1. sure \in Nat
      OBVIOUS
    <3> QED
      BY <2>1, <3>1
  <2>2. CASE j # sure
    <3>1. p[j] = 0 /\ p[sure] = 1
      BY <1>1, <2>2
    <3> QED
      BY <3>1
  <2> QED
    BY <2>1, <2>2
<1>7. BestClass(p) = CHOOSE i \in DOMAIN p : Leads(i)
  BY DEF BestClass
<1>8. BestClass(p) \in DOMAIN p /\ Leads(BestClass(p))
  <2> HIDE DEF Leads
  <2> QED
    BY <1>1, <1>6, <1>7
<1>9. BestClass(p) = sure
  BY <1>5, <1>8
<1>10. LabelOf(names, BestClass(p)) = "safe"
  BY <1>9 DEF LabelOf
<1> QED
  BY <1>3, <1>4, <1>10 DEF p

\* Only a fault, a failed copy of the configuration files, makes a worker score
\* without its labels (artifacts.py:126, result.py:17).
THEOREM LabelsAreLostByFaultOnly == Spec => [](faults = 0 => ScoreIsOfUnsafeContent)
<1>1. LifecycleInv /\ MemoryInv => (faults = 0 => ScoreIsOfUnsafeContent)
  <2> SUFFICES ASSUME LifecycleInv, MemoryInv, faults = 0, pc = "consume", NeedsModels(env),
                      NEW sure \in DOMAIN ModelLabels, ModelLabels[sure] = "safe"
               PROVE  NsfwScore([i \in DOMAIN ModelLabels |-> IF i = sure THEN 1 ELSE 0], labels) = 0
    BY DEF ScoreIsOfUnsafeContent
  <2>1. ready = Models
    BY DEF LifecycleInv, ReadyInv, After
  <2>2. labels = ModelLabels
    BY <2>1 DEF MemoryInv, Models
  <2>3. ModelLabels \in Seq(LabelKinds)
    BY LifecycleAssumption
  <2> QED
    BY <2>2, <2>3, SafeScoresNothing
<1> QED
  BY <1>1, MemoryHolds, PTL

\* The CPU stands in for a GPU under ONNX Runtime only: the torch backends run on
\* the device the settings name, or the worker does not start (factory.py:26-35).
THEOREM TorchNeverFallsBack == Spec => [](Runtime(env) = "torch" => NoSilentFallback)
<1>1. LifecycleInv /\ MemoryInv => (Runtime(env) = "torch" => NoSilentFallback)
  <2> SUFFICES ASSUME LifecycleInv, MemoryInv, Runtime(env) = "torch", RequiresCuda(env),
                      NEW m \in Models
               PROVE  loaded[m] # "cpu"
    BY DEF NoSilentFallback
  <2>1. Device(env) = "cuda"
    BY DEF RequiresCuda
  <2> QED
    BY <2>1 DEF MemoryInv
<1> QED
  BY <1>1, MemoryHolds, PTL

-----------------------------------------------------------------------------
\* Damage is final.
Problem(m) ==
    \/ cache[m]["graph"] = "torn" \/ cache[m]["processor"] = "torn"
    \/ m = "match" /\ cache[m]["tokenizer"] = "torn"
    \/ m = "safety" /\ cache[m]["config"] = "torn"
    \/ m = "match" /\ cache[m]["graph"] = "whole" /\ cache[m]["processor"] = "absent"

\* A process that is down has no models, and no file comes before its graph.
VolumeInv ==
    /\ pc = "down" => ready = {}
    /\ \A m \in Models : cache[m]["graph"] = "absent" => \A f \in Files : cache[m][f] = "absent"
    /\ pc \in Written => cache[model]["graph"] # "absent"

\* A problem in the files of a model that nobody is writing: no step solves it.
Stuck ==
    /\ NeedsModels(env) /\ Runtime(env) = "onnx"
    /\ \E m \in Models : /\ Problem(m) /\ cache[m]["graph"] # "absent"
                         /\ ~(model = m /\ pc \in Written) /\ m \notin ready

\* The steps that write a file do it in the phases of Written, for the model of the
\* phase, and never before the graph is there.
LEMMA WritingSteps ==
    ASSUME LifecycleTypeOK, Resolve \/ GraphWritten \/ CopyConfig \/ ConfigWritten \/ ConfigsDone
    PROVE  \/ UNCHANGED cache /\ (pc' \in Written => pc \in Written)
           \/ /\ pc \in Written \/ cache[model]["graph"] = "absent"
              /\ pc' \in Written
              /\ \/ \E what \in {"torn", "whole"} : Write("graph", what)
                 \/ pc \in Written /\ \E f \in ConfigFiles, what \in {"torn", "whole"} : Write(f, what)
BY DEF Resolve, GraphWritten, CopyConfig, ConfigWritten, ConfigsDone, Loads, Written

LEMMA WritingKeepsTheRest ==
    ASSUME LifecycleTypeOK, Resolve \/ GraphWritten \/ CopyConfig \/ ConfigWritten \/ ConfigsDone
    PROVE  /\ UNCHANGED <<model, ready>> /\ pc \in Loading /\ pc' \in Loading
           /\ \A m \in Models \ {model} : \A f \in Files : cache'[m][f] = cache[m][f]
<1>1. UNCHANGED <<model, ready>> /\ pc \in Loading /\ pc' \in Loading
  BY DEF Resolve, GraphWritten, CopyConfig, ConfigWritten, ConfigsDone, Loads, Loading
<1>2. CASE UNCHANGED cache
  BY <1>1, <1>2
<1>3. CASE \E f \in Files, what \in {"torn", "whole"} : Write(f, what)
  <2>1. PICK f \in Files, what \in {"torn", "whole"} : Write(f, what)
    BY <1>3
  <2> QED
    BY <1>1, <2>1, WriteEffect
<1> QED
  BY <1>2, <1>3, WritingSteps DEF Files, ConfigFiles

LEMMA VolumeStep == LifecycleInv /\ VolumeInv /\ [Next]_vars => VolumeInv'
<1> SUFFICES ASSUME LifecycleInv, VolumeInv, [Next]_vars PROVE VolumeInv'
  OBVIOUS
<1>1. LifecycleTypeOK /\ model \in Models
  BY DEF LifecycleInv, LifecycleTypeOK
<1>2. ASSUME UNCHANGED cache, pc' = "down" => ready' = {},
             pc' \in Written => pc \in Written /\ UNCHANGED model
      PROVE  VolumeInv'
  BY <1>2 DEF VolumeInv
<1>3. CASE UNCHANGED vars \/ Start \/ Signal \/ Resume \/ OpenHttp
  <2>1. UNCHANGED <<cache, ready>>
    BY <1>3 DEF vars, Start, Signal, Resume, OpenHttp
  <2>2. pc' = "down" => pc = "down"
    BY <1>3 DEF vars, Start, Signal, Resume, OpenHttp
  <2>3. pc' \in Written => pc \in Written /\ UNCHANGED model
    BY <1>3 DEF vars, Start, Signal, Resume, OpenHttp, Written
  <2> QED
    BY <1>2, <2>1, <2>2, <2>3 DEF VolumeInv
<1>4. CASE \/ Preflight \/ LoadNext \/ WarmupDone \/ OpenSession \/ LoadDone \/ Unloadable
           \/ PostWarmup \/ Connect \/ Unwind \/ StopConsumer \/ CloseHttp \/ Mishap
  <2>1. UNCHANGED cache
    BY <1>4 DEF Preflight, LoadNext, WarmupDone, OpenSession, LoadDone, Unloadable, PostWarmup,
       Connect, Unwind, StopConsumer, CloseHttp, Mishap, ConfigsFail, LoadFails, PingFails,
       ConsumerRaises, Kill
  <2>2. (pc' = "down" => ready' = {}) /\ pc' \notin Written
    BY <1>4 DEF Preflight, LoadNext, WarmupDone, OpenSession, LoadDone, Unloadable, PostWarmup,
       Connect, Unwind, StopConsumer, CloseHttp, Mishap, ConfigsFail, LoadFails, PingFails,
       ConsumerRaises, Kill, Gone, Written
  <2> QED
    BY <1>2, <2>1, <2>2
<1>5. CASE Resolve \/ GraphWritten \/ CopyConfig \/ ConfigWritten \/ ConfigsDone
  <2>1. UNCHANGED model /\ pc' # "down"
        /\ \A m \in Models \ {model} : \A f \in Files : cache'[m][f] = cache[m][f]
    BY <1>1, <1>5, WritingKeepsTheRest DEF Loading
  <2>2. CASE UNCHANGED cache /\ (pc' \in Written => pc \in Written)
    BY <1>2, <2>1, <2>2
  <2>3. CASE \E f \in Files, what \in {"torn", "whole"} :
                 Write(f, what) /\ (f = "graph" \/ cache[model]["graph"] # "absent")
    <3>1. PICK f \in Files, what \in {"torn", "whole"} :
                 Write(f, what) /\ (f = "graph" \/ cache[model]["graph"] # "absent")
      BY <2>3
    <3>2. cache'[model]["graph"] # "absent"
      BY <1>1, <3>1, WriteEffect DEF Files
    <3>3. "graph" \in Files
      BY DEF Files
    <3> QED
      BY <1>1, <2>1, <3>2, <3>3 DEF VolumeInv
  <2> QED
    BY <1>1, <1>5, <2>2, <2>3, WritingSteps DEF VolumeInv, Files, ConfigFiles
<1> QED
  BY <1>3, <1>4, <1>5 DEF Next, Proceed, Warmup, Load

\* load() does not come to its end with a file of the model torn or missing.
LEMMA ProblemStopsLoading ==
    ASSUME MemoryInv, LoadDone, Runtime(env) = "onnx"
    PROVE  ~Problem(model)
<1>1. cache[model]["graph"] = "whole" /\ ProcessorReadable /\ SecondReadable
  BY DEF LoadDone, MemoryInv
<1>2. \/ cache[model]["processor"] = "whole"
      \/ cache[model]["processor"] = "absent" /\ model = "safety"
  BY <1>1 DEF ProcessorReadable
<1>3. cache[model][SecondFile] # "torn"
  BY <1>1 DEF SecondReadable
<1> QED
  BY <1>1, <1>2, <1>3 DEF Problem, SecondFile

LEMMA StuckStays == LifecycleInv /\ MemoryInv /\ Stuck /\ [Next]_vars => Stuck'
<1> SUFFICES ASSUME LifecycleInv, MemoryInv, Stuck, [Next]_vars PROVE Stuck'
  OBVIOUS
<1>1. LifecycleTypeOK
  BY DEF LifecycleInv
<1>2. env' = env /\ NeedsModels(env) /\ Runtime(env) = "onnx"
  BY <1>1, PhaseOrder DEF env, Stuck
<1>3. PICK m \in Models : /\ Problem(m) /\ cache[m]["graph"] # "absent"
                          /\ ~(model = m /\ pc \in Written) /\ m \notin ready
  BY DEF Stuck
<1>4. ASSUME \A f \in Files : cache'[m][f] = cache[m][f], m \notin ready',
             ~(model' = m /\ pc' \in Written)
      PROVE  Stuck'
  <2>1. Problem(m)'
    BY <1>3, <1>4 DEF Problem, Files, ConfigFiles
  <2>2. cache'[m]["graph"] # "absent"
    BY <1>3, <1>4 DEF Files
  <2> QED
    BY <1>2, <1>4, <2>1, <2>2 DEF Stuck
<1>5. CASE UNCHANGED vars \/ Signal \/ Resume \/ OpenHttp
  BY <1>3, <1>4, <1>5 DEF vars, Signal, Resume, OpenHttp
<1>6. CASE \/ Start \/ Preflight \/ LoadNext \/ WarmupDone \/ OpenSession \/ Unloadable
           \/ PostWarmup \/ Connect \/ Unwind \/ StopConsumer \/ CloseHttp \/ Mishap
  <2>1. UNCHANGED cache /\ ready' \subseteq ready /\ pc' \notin Written
    BY <1>6 DEF Start, Preflight, LoadNext, WarmupDone, OpenSession, Unloadable, PostWarmup,
       Connect, Unwind, StopConsumer, CloseHttp, Mishap, ConfigsFail, LoadFails, PingFails,
       ConsumerRaises, Kill, Gone, Written
  <2> QED
    BY <1>3, <1>4, <2>1
<1>7. CASE LoadDone
  <2>1. UNCHANGED cache /\ ready' = ready \cup {model} /\ pc' \notin Written
    BY <1>7 DEF LoadDone, Written
  <2>2. model # m
    BY <1>2, <1>3, <1>7, ProblemStopsLoading
  <2> QED
    BY <1>3, <1>4, <2>1, <2>2
<1>8. CASE Resolve \/ GraphWritten \/ CopyConfig \/ ConfigWritten \/ ConfigsDone
  <2>1. UNCHANGED <<model, ready>>
        /\ \A n \in Models \ {model} : \A f \in Files : cache'[n][f] = cache[n][f]
    BY <1>1, <1>8, WritingKeepsTheRest
  <2>2. CASE UNCHANGED cache /\ (pc' \in Written => pc \in Written)
    BY <1>3, <1>4, <2>1, <2>2
  <2>3. CASE pc \in Written \/ cache[model]["graph"] = "absent"
    <3>1. model # m
      BY <1>3, <2>3
    <3> QED
      BY <1>3, <1>4, <2>1, <3>1
  <2> QED
    BY <1>1, <1>8, <2>2, <2>3, WritingSteps
<1> QED
  BY <1>5, <1>6, <1>7, <1>8 DEF Next, Proceed, Warmup, Load

\* Whatever faults, restarts and stops follow: a process that went down with a
\* damaged cache has left one no later ONNX worker consumes with (artifacts.py:93-98).
THEOREM NoRestartMends == Spec => DamageIsFinal
<1> DEFINE Broken == pc = "down" /\ Damaged /\ NeedsModels(env) /\ Runtime(env) = "onnx"
<1>1. Init => VolumeInv
  <2> SUFFICES ASSUME Init PROVE VolumeInv
    OBVIOUS
  <2>1. ready = {} /\ pc \notin Written /\ \A m \in Models, f \in Files : cache[m][f] = "absent"
    BY DEF Init, Written
  <2> QED
    BY <2>1 DEF VolumeInv
<1>2. LifecycleInv /\ VolumeInv /\ [Next]_vars => VolumeInv'
  BY VolumeStep
<1>3. ASSUME VolumeInv, Broken PROVE Stuck
  <2>1. \E m \in Models : Problem(m)
    BY <1>3 DEF Damaged, Problem, Models
  <2>2. \A m \in Models : Problem(m) => cache[m]["graph"] # "absent"
    BY <1>3 DEF VolumeInv, Problem, Files, ConfigFiles
  <2>3. ready = {} /\ pc \notin Written
    BY <1>3 DEF VolumeInv, Written
  <2> QED
    BY <1>3, <2>1, <2>2, <2>3 DEF Stuck
<1>4. LifecycleInv /\ MemoryInv /\ Stuck /\ [Next]_vars => Stuck'
  BY StuckStays
<1>5. ASSUME LifecycleInv, Stuck PROVE pc # "consume"
  BY <1>5 DEF LifecycleInv, ReadyInv, After, Stuck
<1> QED
  BY <1>1, <1>2, <1>3, <1>4, <1>5, MemoryHolds, PTL DEF Spec, DamageIsFinal
=============================================================================
