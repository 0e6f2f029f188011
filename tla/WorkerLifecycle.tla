-------------------------- MODULE WorkerLifecycle --------------------------
(***************************************************************************)
(* A worker process from start to exit, app/main.py: the preflight checks, *)
(* the warmup that loads the models (app/models/registry.py), the checks   *)
(* after it, the first contact with Redis, the consumer, and the cleanup.  *)
(* With ONNX, loading goes through the artifact cache of                   *)
(* app/models/artifacts.py on a volume that outlives the process: files    *)
(* are written in place, so a process that dies leaves what it wrote.      *)
(*                                                                         *)
(* The consumer itself is StreamConsumer; here it serves or raises.        *)
(***************************************************************************)
EXTENDS RuntimeConfig, SafetyScoring, FiniteSets

CONSTANTS
    Deployments,  \* the environments and hardware to start on
    ModelLabels,  \* id2label of the safety model, from its config.json
    MaxFaults     \* bound: kills, failed downloads and Redis errors together

Models == {"match", "safety"}

\* What resolve_onnx_artifacts puts into a model's cache directory.
ConfigFiles == {"processor", "tokenizer", "config"}
Files == ConfigFiles \cup {"graph"}

ASSUME LifecycleAssumption ==
    /\ Deployments \subseteq [env : Env, hw : Hardware]
    /\ ModelLabels \in Seq(LabelKinds)
    /\ MaxFaults \in Nat

VARIABLES
    deploy,  \* the environment and the hardware, fixed
    pc,      \* what the process is doing, "down" when there is none
    model,   \* the model being loaded
    cache,   \* of each model's files on the volume: "absent", "torn", "whole"
    loaded,  \* the models whose is_loaded holds, with the provider or device
             \* they really run on
    ready,   \* the models whose load() came to its end
    labels,  \* the _id2label of the safety model
    clients, \* connections the process has open
    stop,    \* stop_event is set
    wanted,  \* the restart policy starts the worker again when it is down
    exit,    \* how the last process ended
    faults   \* history: faults so far

vars == <<deploy, pc, model, cache, loaded, ready, labels, clients, stop, wanted, exit, faults>>

env == deploy.env
hw == deploy.hw

Loading == {"resolve", "writeGraph", "configs", "writeConfig", "session", "processor"}
Phases == {"down", "preflight", "warmup", "postWarmup", "connect", "consume",
           "consumerRaised", "closing"} \cup Loading
Exits == {"none", "ok", "failed", "raised", "killed"}

LifecycleTypeOK ==
    /\ deploy \in Deployments
    /\ pc \in Phases
    /\ model \in Models
    /\ cache \in [Models -> [Files -> {"absent", "torn", "whole"}]]
    /\ loaded \in [Models -> Providers \cup {"none"}]
    /\ ready \subseteq Models
    /\ labels \in {<<>>, ModelLabels}
    /\ clients \subseteq {"redis", "http"}
    /\ stop \in BOOLEAN /\ wanted \in BOOLEAN
    /\ exit \in Exits
    /\ faults \in 0 .. MaxFaults

NothingLoaded == [m \in Models |-> "none"]

Init ==
    /\ deploy \in Deployments
    /\ pc = "down" /\ model = "match"
    /\ cache = [m \in Models |-> [f \in Files |-> "absent"]]
    /\ loaded = NothingLoaded /\ ready = {} /\ labels = <<>>
    /\ clients = {} /\ stop = FALSE /\ wanted = TRUE
    /\ exit = "none" /\ faults = 0

\* One of the things that may go wrong does.
Fault == faults < MaxFaults /\ faults' = faults + 1

\* The process is gone, with the memory it had.
Gone(how, left) ==
    /\ pc' = "down"
    /\ exit' = how
    /\ clients' = left
    /\ loaded' = NothingLoaded /\ ready' = {} /\ labels' = <<>> /\ stop' = FALSE

-----------------------------------------------------------------------------
\* The container starts: main reads the settings and registers the handlers.
\* A profile without models goes straight to Redis.
Start ==
    /\ pc = "down" /\ wanted
    /\ pc' = IF NeedsModels(env) THEN "preflight" ELSE "connect"
    /\ model' = "match"
    /\ clients' = {}
    /\ UNCHANGED <<deploy, cache, loaded, ready, labels, stop, wanted, exit, faults>>

Preflight ==
    /\ pc = "preflight"
    /\ \/ /\ PreflightPasses(env, hw)
          /\ pc' = "warmup"
          /\ UNCHANGED <<clients, loaded, ready, labels, stop, exit>>
       \/ ~PreflightPasses(env, hw) /\ Gone("failed", {})
    /\ UNCHANGED <<deploy, model, cache, wanted, faults>>

\* What _warm has still to load.
ToLoad == {m \in Models : (m = "match" /\ EmbedOn(env)) \/ (m = "safety" /\ SafetyOn(env))} \ ready

\* _warm takes up the next model, the embedder first: the factory makes its
\* backend, or raises for want of the torch device.
LoadNext ==
    /\ pc = "warmup" /\ ToLoad # {}
    /\ ~(Runtime(env) = "torch" /\ TorchDeviceRaises(env, hw))
    /\ model' = IF "match" \in ToLoad THEN "match" ELSE "safety"
    /\ pc' = IF Runtime(env) = "onnx" THEN "resolve" ELSE "session"
    /\ UNCHANGED <<deploy, cache, loaded, ready, labels, clients, stop, wanted, exit, faults>>

WarmupDone ==
    /\ pc = "warmup" /\ ToLoad = {}
    /\ pc' = "postWarmup"
    /\ UNCHANGED <<deploy, model, cache, loaded, ready, labels, clients, stop, wanted, exit, faults>>

Write(file, what) == cache' = [cache EXCEPT ![model] = [@ EXCEPT ![file] = what]]
Loads(next) ==
    /\ pc' = next
    /\ UNCHANGED <<deploy, model, loaded, ready, labels, clients, stop, wanted, exit, faults>>

\* resolve_onnx_artifacts: a graph file that is there is used as it is, and
\* nothing else is looked at.  Otherwise write_bytes creates it and fills it.
Resolve ==
    /\ pc = "resolve"
    /\ \/ cache[model]["graph"] # "absent" /\ Loads("session") /\ UNCHANGED cache
       \/ cache[model]["graph"] = "absent" /\ Loads("writeGraph") /\ Write("graph", "torn")

GraphWritten == pc = "writeGraph" /\ Loads("configs") /\ Write("graph", "whole")

\* The repository's other files are copied, in any order; one that exists is left.
CopyConfig ==
    /\ pc = "configs"
    /\ \E f \in ConfigFiles :
         /\ cache[model][f] = "absent"
         /\ Write(f, "torn")
    /\ Loads("writeConfig")

ConfigWritten ==
    /\ pc = "writeConfig"
    /\ \E f \in ConfigFiles : cache[model][f] = "torn" /\ Write(f, "whole")
    /\ Loads("configs")

ConfigsDone ==
    /\ pc = "configs"
    /\ \A f \in ConfigFiles : cache[model][f] # "absent"
    /\ Loads("session")
    /\ UNCHANGED cache

\* Downloading or copying a configuration file raises: the worker warns and goes on.
\* A file it was writing stays as it is.
ConfigsFail ==
    /\ pc \in {"configs", "writeConfig"}
    /\ Fault
    /\ pc' = "session"
    /\ UNCHANGED <<deploy, model, cache, loaded, ready, labels, clients, stop, wanted, exit>>

\* InferenceSession reads the graph; the torch backends take model and processor
\* from the hub's own cache, which renames complete files into place.  ONNX
\* Runtime runs on the first provider it was given or, when that one does not
\* initialise, on one further down, in the end the CPU.
OpenSession ==
    /\ pc = "session"
    /\ \/ /\ Runtime(env) = "torch"
          /\ loaded' = [loaded EXCEPT ![model] = Device(env)]
       \/ /\ Runtime(env) = "onnx"
          /\ cache[model]["graph"] = "whole"
          /\ \E provider \in {First(Ep(env), hw.ort), "cpu"} :
               loaded' = [loaded EXCEPT ![model] = provider]
    /\ pc' = "processor"
    /\ UNCHANGED <<deploy, model, cache, ready, labels, clients, stop, wanted, exit, faults>>

\* Mutant: it is enough that the file exists.
ProcessorThere ==
    Runtime(env) = "torch" \/ cache[model]["processor"] # "absent" \/ model = "safety"

\* The file the image processor comes from: always the cache directory for the
\* embedder, for the classifier only when the file is there.
ProcessorReadable ==
    \/ Runtime(env) = "torch"
    \/ cache[model]["processor"] = "whole"
    \/ cache[model]["processor"] = "absent" /\ model = "safety"

\* The embedder's tokenizer, the classifier's config.json.
SecondFile == IF model = "match" THEN "tokenizer" ELSE "config"

\* Mutant: neither may be missing.
SecondNeeded == Runtime(env) = "torch" \/ cache[model][SecondFile] = "whole"

\* Without a tokenizer file the hub is asked; without config.json nothing is read.
SecondReadable == Runtime(env) = "torch" \/ cache[model][SecondFile] # "torn"

\* The rest of load(): the processor, then the tokenizer and the prompts, or the labels.
LoadDone ==
    /\ pc = "processor"
    /\ ProcessorReadable /\ SecondReadable
    /\ ready' = ready \cup {model}
    /\ labels' = IF model = "safety" /\ (Runtime(env) = "torch" \/ cache[model]["config"] = "whole")
                 THEN ModelLabels ELSE labels
    /\ pc' = "warmup"
    /\ UNCHANGED <<deploy, model, cache, loaded, clients, stop, wanted, exit, faults>>

\* Mutant: the exception is logged and the start goes on.
UnloadableLogged ==
    /\ pc = "processor" /\ ~(ProcessorReadable /\ SecondReadable)
    /\ pc' = "postWarmup"
    /\ loaded' = [m \in Models |-> "cpu"]
    /\ UNCHANGED <<deploy, model, cache, ready, labels, clients, stop, wanted, exit, faults>>

\* The factory raises for want of the torch device, or loading raises for what is in
\* the cache: the same the next time.
Unloadable ==
    /\ \/ pc = "warmup" /\ ToLoad # {} /\ Runtime(env) = "torch" /\ TorchDeviceRaises(env, hw)
       \/ pc = "session" /\ Runtime(env) = "onnx" /\ cache[model]["graph"] = "torn"
       \/ pc = "processor" /\ ~(ProcessorReadable /\ SecondReadable)
    /\ Gone("failed", {})
    /\ UNCHANGED <<deploy, model, cache, wanted, faults>>

\* The hub does not answer, or the disk is full: load() raises.
LoadFails ==
    /\ pc \in {"resolve", "writeGraph", "session", "processor"}
    /\ Fault
    /\ Gone("failed", {})
    /\ UNCHANGED <<deploy, model, cache, wanted>>

\* The provider the embedder reports is the first it asked for.
PostWarmup ==
    /\ pc = "postWarmup"
    /\ LET passes == PostWarmupPasses(env, hw, {m \in Models : loaded[m] # "none"},
                                      First(Ep(env), hw.ort))
       IN  \/ passes /\ pc' = "connect" /\ UNCHANGED <<clients, loaded, ready, labels, stop, exit>>
           \/ ~passes /\ Gone("failed", {})
    /\ UNCHANGED <<deploy, model, cache, wanted, faults>>

-----------------------------------------------------------------------------
\* create_redis_client and PING, then the consumer and the stop task start.
Connect ==
    /\ pc = "connect"
    /\ pc' = "consume"
    /\ clients' = {"redis"}
    /\ UNCHANGED <<deploy, model, cache, loaded, ready, labels, stop, wanted, exit, faults>>

\* PING fails: the client is closed before the process gives up.
PingFails ==
    /\ pc = "connect"
    /\ Fault
    /\ Gone("failed", {})
    /\ UNCHANGED <<deploy, model, cache, wanted>>

\* The first download of a process opens the HTTP client all jobs share.
OpenHttp ==
    /\ pc = "consume" /\ ~stop
    /\ "http" \notin clients
    /\ clients' = clients \cup {"http"}
    /\ UNCHANGED <<deploy, pc, model, cache, loaded, ready, labels, stop, wanted, exit, faults>>

\* ensure_consumer_group raises: asyncio.wait returns, and so does "await
\* consumer_task" in the finally block, with the exception.
ConsumerRaises ==
    /\ pc = "consume" /\ clients = {"redis"}
    /\ Fault
    /\ pc' = "consumerRaised"
    /\ UNCHANGED <<deploy, model, cache, loaded, ready, labels, clients, stop, wanted, exit>>

Unwind ==
    /\ pc = "consumerRaised"
    /\ Gone("raised", clients)
    /\ UNCHANGED <<deploy, model, cache, wanted, faults>>

\* Mutant: the stop waits for the jobs to be over.
StopWhenIdle ==
    /\ pc = "consume" /\ stop
    /\ "http" \notin clients
    /\ pc' = "closing"
    /\ clients' = clients \ {"redis"}
    /\ UNCHANGED <<deploy, model, cache, loaded, ready, labels, stop, wanted, exit, faults>>

\* The stop task is done: the consumer is cancelled, and Redis closed.
StopConsumer ==
    /\ pc = "consume" /\ stop
    /\ pc' = "closing"
    /\ clients' = clients \ {"redis"}
    /\ UNCHANGED <<deploy, model, cache, loaded, ready, labels, stop, wanted, exit, faults>>

\* Mutant: only the Redis client is closed.
CloseHttpForgotten ==
    /\ pc = "closing"
    /\ Gone("ok", clients)
    /\ UNCHANGED <<deploy, model, cache, wanted, faults>>

CloseHttp ==
    /\ pc = "closing"
    /\ Gone("ok", clients \ {"http"})
    /\ UNCHANGED <<deploy, model, cache, wanted, faults>>

\* Mutant: no handler is registered, the signal ends the process.
SignalKills ==
    /\ pc # "down"
    /\ Gone("killed", {})
    /\ wanted' = FALSE
    /\ UNCHANGED <<deploy, model, cache, faults>>

\* SIGTERM or SIGINT: the handler sets stop_event; nothing before the consumer
\* looks at it.  The operator does not want the container restarted.
Signal ==
    /\ pc # "down"
    /\ stop' = TRUE
    /\ wanted' = FALSE
    /\ UNCHANGED <<deploy, pc, model, cache, loaded, ready, labels, clients, exit, faults>>

\* The operator starts a stopped container again.
Resume ==
    /\ pc = "down" /\ ~wanted
    /\ wanted' = TRUE
    /\ UNCHANGED <<deploy, pc, model, cache, loaded, ready, labels, clients, stop, exit, faults>>

\* SIGKILL: out of memory, or a stop that took longer than the grace period.
Kill ==
    /\ pc # "down"
    /\ Fault
    /\ Gone("killed", {})
    /\ UNCHANGED <<deploy, model, cache, wanted>>

Load ==
    Resolve \/ GraphWritten \/ CopyConfig \/ ConfigWritten \/ ConfigsDone \/ OpenSession \/ LoadDone
Warmup == LoadNext \/ WarmupDone \/ Load \/ Unloadable
Proceed == Start \/ Preflight \/ Warmup \/ PostWarmup \/ Connect \/ Unwind \/ StopConsumer \/ CloseHttp
Mishap == ConfigsFail \/ LoadFails \/ PingFails \/ ConsumerRaises \/ Kill

Next == Proceed \/ OpenHttp \/ Mishap \/ Signal \/ Resume

Spec == Init /\ [][Next]_vars

\* The process goes on and the restart policy starts it again.  Mishaps, signals
\* and operators owe nothing.
FairSpec == Spec /\ WF_vars(Proceed)

-----------------------------------------------------------------------------
PastPreflight == pc \notin {"down", "preflight"} /\ NeedsModels(env)

\* A worker takes jobs only with every model of its profile loaded to the end,
\* so no job finds a half-made singleton and none loads a model lazily in a
\* thread, where two would load it twice (main.py:70-92, registry.py:52-67).
ConsumingMeansReady ==
    pc = "consume" /\ NeedsModels(env) =>
        /\ PreflightPasses(env, hw)
        /\ ready = Models /\ \A m \in Models : loaded[m] # "none"
        /\ Runtime(env) = "onnx" => cache["match"]["processor"] = "whole"

\* What preflight lets pass, the device and provider checks later in the start
\* do not reject: hardware that does not fit is found before gigabytes of
\* models are fetched (runtime_validation.py:179-251 against factory.py:26-35
\* and runtime_validation.py:273-296).
MismatchFoundEarly ==
    PastPreflight =>
        /\ Runtime(env) = "torch" => ~TorchDeviceRaises(env, hw)
        /\ PostWarmupPasses(env, hw, Models, First(Ep(env), hw.ort))

\* The doctor's recommendation for this hardware passes preflight on it, save
\* for a CPU image on a host with CUDA, where it is the GPU compose file the
\* doctor wants (runtime_validation.py:84-170).
RecommendedIsAccepted ==
    PreflightPasses(Recommend(hw), hw) \/ (hw.image = "cpu" /\ hw.cuda)

\* The volume keeps a torn or incomplete cache only after a fault: an undisturbed
\* start leaves each model it resolved complete, or nothing of it
\* (artifacts.py:85-131).
IncompleteOnlyByFault ==
    pc = "down" /\ faults = 0 =>
        \A m \in Models : \E what \in {"absent", "whole"} : \A f \in Files : cache[m][f] = what

\* A process that was not killed leaves no client open, whatever phase it ends
\* in, except when the consumer raised: main.py:141-152 then skips both closes.
ClosedUnlessRaised == pc = "down" /\ exit # "raised" => clients = {}

\* A file load() reads is torn, or the embedder's graph stands without its
\* processor file.  Nothing mends either: resolve_onnx_artifacts does not look
\* past a graph that is there.
Damaged ==
    \/ \E m \in Models : cache[m]["graph"] = "torn" \/ cache[m]["processor"] = "torn"
    \/ cache["match"]["tokenizer"] = "torn" \/ cache["safety"]["config"] = "torn"
    \/ cache["match"]["graph"] = "whole" /\ cache["match"]["processor"] = "absent"

\* A worker that should run comes to take jobs after finitely many faults, unless
\* its configuration is refused or a fault has damaged the cache.
ComesUpUnlessDamaged ==
    wanted ~> (pc = "consume" \/ ~wanted \/ ~PreflightPasses(env, hw) \/ (pc = "down" /\ Damaged))

\* The other side of it: once a process has left the cache damaged, no restart
\* with ONNX takes jobs again, because a file that exists is never written anew
\* (artifacts.py:69-70, 93-98, 122-125).
DamageIsFinal ==
    [](pc = "down" /\ Damaged /\ NeedsModels(env) /\ Runtime(env) = "onnx" => [](pc # "consume"))

\* A stop request ends the process, in whatever phase it arrives.
StopEndsTheWorker == stop ~> (pc = "down")

\* GUIDE.md:18: "The worker validates hardware at startup and exits on mismatch (no
\* silent GPU->CPU fallback)": no model of a consuming worker that was asked to
\* use a GPU runs on the CPU.
NoSilentFallback ==
    pc = "consume" /\ NeedsModels(env) /\ RequiresCuda(env) => \A m \in Models : loaded[m] # "cpu"

\* result.py:17, "Probability confidence score that the content is unsafe": for an
\* image the model is certain of, the score is that of the model's labels.
ScoreIsOfUnsafeContent ==
    pc = "consume" /\ NeedsModels(env) =>
        \A sure \in DOMAIN ModelLabels :
            LET probs == [i \in DOMAIN ModelLabels |-> IF i = sure THEN 1 ELSE 0]
            IN  ModelLabels[sure] = "safe" => NsfwScore(probs, labels) = 0
=============================================================================
