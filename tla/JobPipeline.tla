----------------------------- MODULE JobPipeline -----------------------------
(***************************************************************************)
(* The pipeline of a worker, app/pipeline/orchestrator.py with its stages  *)
(* and the thread pool of app/models/registry.py: the consumer runs one    *)
(* call after another, and each call downloads its images, runs the        *)
(* moderation stages, then the matching stages, and merges the results by  *)
(* position.  Stages run in threads.  When one stage raises, asyncio.gather*)
(* lets its sibling run on: the next call finds it in the pool.            *)
(***************************************************************************)
EXTENDS ImageDownload, SequencesExt

CONSTANTS
    NumCalls,       \* bound: calls of run_pipeline, retries included
    UrlCount,       \* len(imageUrls) of each call's job
    Override,       \* the job's "pipeline" list, {} when it has none
    ProfileStages,  \* cfg.profile.stages
    SafetyEnabled,  \* cfg.safety_enabled
    EmbedEnabled,   \* cfg.embed_enabled
    BatchSize,      \* cfg.batch_size
    Threads         \* max(2, os.cpu_count())

Calls == 1 .. NumCalls
StageNames == {"quality", "safety", "fingerprint", "embed", "relevance"}
Tasks == {"quality", "safety", "fingerprint", "match"}

ASSUME PipelineAssumption ==
    /\ NumCalls \in Nat
    /\ UrlCount \in [Calls -> Urls]
    /\ Override \in [Calls -> SUBSET StageNames]
    /\ ProfileStages \subseteq StageNames
    /\ SafetyEnabled \in BOOLEAN
    /\ EmbedEnabled \in BOOLEAN
    /\ BatchSize \in Int
    /\ Threads \in Nat \ {0}

VARIABLES
    phase,    \* where run_pipeline is awaiting
    call,     \* the current call, 0 before the first
    decoded,  \* positions of the downloaded images of the call
    errors,   \* positions of its failed URLs
    queue,    \* work the executor has not started
    running,  \* work its threads are on
    state,    \* of each task of the call
    output,   \* what each task of the call returned
    outcome,  \* how each call ended
    report    \* the latest result of run_pipeline

poolVars == <<queue, running>>
callVars == <<phase, call, decoded, errors, state, output, outcome, report>>
vars == <<downloadVars, poolVars, callVars>>

Missing == [call |-> 0, url |-> 0]
Result == [call : Calls, url : Urls]
Row == [url : Urls, quality : Result \cup {Missing}, safety : Result \cup {Missing},
        fingerprint : Result \cup {Missing}, match : Result \cup {Missing}]
Work == [call : Calls, task : Tasks, images : Seq(Urls)]

Between == {"idle", "stopped", "exited"}

TypeOK ==
    /\ DownloadTypeOK
    /\ phase \in Between \cup {"download", "moderation", "matching"}
    /\ call \in 0 .. NumCalls
    /\ decoded \in Seq(Urls) /\ errors \in Seq(Urls)
    /\ queue \in Seq(Work)
    /\ running \subseteq Work
    /\ state \in [Tasks -> {"off", "pending", "done"}]
    /\ output \in [Tasks -> Seq(Result)]
    /\ outcome \in [Calls -> {"ahead", "running", "reported", "failed", "cancelled"}]
    /\ report \in [rows : Seq(Row), errors : Seq(Urls)]

NoTasks ==
    /\ state' = [t \in Tasks |-> "off"]
    /\ output' = [t \in Tasks |-> <<>>]

Init ==
    /\ NoDownload
    /\ phase = "idle" /\ call = 0
    /\ decoded = <<>> /\ errors = <<>>
    /\ queue = <<>> /\ running = {}
    /\ state = [t \in Tasks |-> "off"]
    /\ output = [t \in Tasks |-> <<>>]
    /\ outcome = [c \in Calls |-> "ahead"]
    /\ report = [rows |-> <<>>, errors |-> <<>>]

-----------------------------------------------------------------------------
\* resolve_stages, and the conditions under which run_pipeline makes a task.
Stages(c) == IF Override[c] # {} THEN Override[c] ELSE ProfileStages
Active(c, task) ==
    CASE task = "quality"     -> "quality" \in Stages(c)
      [] task = "safety"      -> "safety" \in Stages(c) /\ SafetyEnabled
      [] task = "fingerprint" -> "fingerprint" \in Stages(c)
      [] task = "match"       -> "embed" \in Stages(c) /\ EmbedEnabled
TaskIf(c, task) == IF Active(c, task) THEN <<task>> ELSE <<>>
Moderation(c) == TaskIf(c, "quality") \o TaskIf(c, "safety")
Matching(c) == TaskIf(c, "fingerprint") \o TaskIf(c, "match")

\* The consumer takes up the next job.
BeginCall ==
    /\ phase = "idle"
    /\ call < NumCalls
    /\ call' = call + 1
    /\ phase' = "download"
    /\ outcome' = [outcome EXCEPT ![call + 1] = "running"]
    /\ StartDownload(UrlCount[call + 1])
    /\ UNCHANGED <<decoded, errors, poolVars, state, output, report>>

Download ==
    /\ phase = "download"
    /\ DownloadStep
    /\ UNCHANGED <<poolVars, callVars>>

\* match_batch: the images in chunks of max(1, batch_size), results appended.
Batches(images) ==
    LET size == IF BatchSize > 1 THEN BatchSize ELSE 1
        last(k) == IF k * size < Len(images) THEN k * size ELSE Len(images)
    IN  FlattenSeq([k \in 1 .. (Len(images) + size - 1) \div size |->
            SubSeq(images, (k - 1) * size + 1, last(k))])

\* What a thread computes: one result per image, in the order of the images.
Computed(w) ==
    LET images == IF w.task = "match" THEN Batches(w.images) ELSE w.images
    IN  [i \in 1 .. Len(images) |-> [call |-> w.call, url |-> images[i]]]

\* The call is over for the consumer, with this outcome.
EndCall(end) ==
    /\ outcome' = [outcome EXCEPT ![call] = end]
    /\ decoded' = <<>> /\ errors' = <<>>
    /\ NoTasks

\* The loop of run_pipeline that merges stage results by position.
At(task, i) ==
    IF state[task] = "done" /\ i <= Len(output[task]) THEN output[task][i] ELSE Missing
MergedRow(i) ==
    [url |-> decoded[i], quality |-> At("quality", i), safety |-> At("safety", i),
     fingerprint |-> At("fingerprint", i), match |-> At("match", i)]
Merge ==
    /\ phase' = "idle"
    /\ report' = [rows |-> [i \in 1 .. Len(decoded) |-> MergedRow(i)], errors |-> errors]
    /\ EndCall("reported")

\* _run_stage_batch hands the tasks to the executor, in order.
Submit(next, tasks, images) ==
    /\ phase' = next
    /\ queue' = queue \o [k \in 1 .. Len(tasks) |->
            [call |-> call, task |-> tasks[k], images |-> images]]
    /\ state' = [t \in Tasks |-> IF t \in {tasks[k] : k \in 1 .. Len(tasks)}
                                 THEN "pending" ELSE state[t]]
    /\ UNCHANGED <<running, output>>

\* Mutant: a job without any image gets an empty result.
DownloadDoneEvenEmpty ==
    /\ phase = "download" /\ Downloaded
    /\ decoded' = InOrder(Decoded) /\ errors' = InOrder(Failed)
    /\ Submit("moderation", Moderation(call), InOrder(Decoded))
    /\ EndDownload
    /\ UNCHANGED <<call, outcome, report>>

\* download_all returned some image: on to the first batch that has a task.
\* When neither has, the rows carry no stage result.
DownloadDone ==
    /\ phase = "download" /\ Downloaded
    /\ Decoded # {}
    /\ decoded' = InOrder(Decoded) /\ errors' = InOrder(Failed)
    /\ \/ /\ Moderation(call) # <<>>
          /\ Submit("moderation", Moderation(call), InOrder(Decoded))
       \/ /\ Moderation(call) = <<>>
          /\ Submit("matching", Matching(call), InOrder(Decoded))
    /\ EndDownload
    /\ UNCHANGED <<call, outcome, report>>

\* download_all returned errors only: handle_job raises on the empty result.
NothingDownloaded ==
    /\ phase = "download" /\ Downloaded
    /\ Decoded = {}
    /\ phase' = "idle"
    /\ EndCall("failed")
    /\ EndDownload
    /\ UNCHANGED <<call, report, poolVars>>

Gathered == \A t \in Tasks : state[t] # "pending"

\* Mutant: matching starts as soon as one moderation task is done.
ModerationDoneEarly ==
    /\ phase = "moderation"
    /\ \E t \in Tasks : state[t] = "done"
    /\ Submit("matching", Matching(call), decoded)
    /\ UNCHANGED <<downloadVars, call, decoded, errors, outcome, report>>

ModerationDone ==
    /\ phase = "moderation" /\ Gathered
    /\ Submit("matching", Matching(call), decoded)
    /\ UNCHANGED <<downloadVars, call, decoded, errors, outcome, report>>

\* The last gather returned, or had nothing to wait for.
MatchingDone ==
    /\ phase = "matching" /\ Gathered
    /\ Merge
    /\ UNCHANGED <<downloadVars, poolVars, call>>

\* Mutant: the executor's queue is a stack.
TakeNewest ==
    /\ queue # <<>>
    /\ Cardinality(running) < Threads
    /\ running' = running \cup {queue[Len(queue)]}
    /\ queue' = SubSeq(queue, 1, Len(queue) - 1)
    /\ UNCHANGED <<downloadVars, callVars>>

\* A thread of the executor takes the oldest work item.
TakeWork ==
    /\ queue # <<>>
    /\ Cardinality(running) < Threads
    /\ running' = running \cup {Head(queue)}
    /\ queue' = Tail(queue)
    /\ UNCHANGED <<downloadVars, callVars>>

\* Mutant: a result is taken for the current call whichever call it is from.
AwaitedByName(w) == state[w.task] = "pending"

\* Whether the current gather still waits for this work: the future of an
\* earlier call has no one left to hand its result to.
Awaited(w) == w.call = call /\ state[w.task] = "pending"

\* A stage returns in its thread.
FinishWork(w) ==
    /\ w \in running
    /\ running' = running \ {w}
    /\ \/ /\ Awaited(w)
          /\ state' = [state EXCEPT ![w.task] = "done"]
          /\ output' = [output EXCEPT ![w.task] = Computed(w)]
       \/ /\ ~Awaited(w)
          /\ UNCHANGED <<state, output>>
    /\ UNCHANGED <<downloadVars, queue, phase, call, decoded, errors, outcome, report>>

\* A stage raises in its thread: the gather that awaits it raises, run_pipeline
\* and handle_job's try block with it; the sibling stays where it is.
RaiseWork(w) ==
    /\ w \in running
    /\ running' = running \ {w}
    /\ \/ Awaited(w) /\ phase' = "idle" /\ EndCall("failed")
       \/ ~Awaited(w) /\ UNCHANGED <<phase, decoded, errors, state, output, outcome>>
    /\ UNCHANGED <<downloadVars, queue, call, report>>

\* SIGTERM: the consumer task is cancelled where it awaits, and asyncio.run
\* cancels what is left; an executor future that has not started is dropped.
Stop ==
    /\ phase \notin {"stopped", "exited"}
    /\ phase' = "stopped"
    /\ queue' = <<>>
    /\ EndDownload
    /\ \/ phase # "idle" /\ EndCall("cancelled")
       \/ phase = "idle" /\ UNCHANGED <<decoded, errors, state, output, outcome>>
    /\ UNCHANGED <<running, call, report>>

\* The interpreter joins the threads of the executor before it exits.
Exit ==
    /\ phase = "stopped"
    /\ running = {}
    /\ phase' = "exited"
    /\ UNCHANGED <<downloadVars, poolVars, call, decoded, errors, state, output, outcome, report>>

LoopStep ==
    BeginCall \/ Download \/ DownloadDone \/ NothingDownloaded \/ ModerationDone \/ MatchingDone
ThreadStep == TakeWork \/ \E w \in running : FinishWork(w) \/ RaiseWork(w)

Next == LoopStep \/ ThreadStep \/ Stop \/ Exit

Spec == Init /\ [][Next]_vars

\* A GET is answered or times out, a thread's computation ends, the event loop
\* and the pool go on.  Nothing makes a stop request come.
FairSpec ==
    /\ Spec
    /\ WF_vars(LoopStep)
    /\ WF_vars(TakeWork)
    /\ \A c \in Calls, t \in Tasks :
         WF_vars(\E w \in running : w.call = c /\ w.task = t /\ (FinishWork(w) \/ RaiseWork(w)))
    /\ WF_vars(Exit)

-----------------------------------------------------------------------------
WorkInPool == running \cup {queue[k] : k \in 1 .. Len(queue)}
Abandoned == {w \in WorkInPool : ~Awaited(w)}

\* No matching stage of a call is in the pool before every moderation stage of
\* that call has returned (orchestrator.py:95-103), however many stages of
\* earlier calls are still in the threads.
MatchingAfterModeration ==
    \A w \in WorkInPool :
        w.call = call /\ w.task \in {"fingerprint", "match"} /\ phase \in {"moderation", "matching"}
        => \A t \in {"quality", "safety"} : Active(call, t) => state[t] = "done"

\* In a result, what stands in a row was computed in this call and from this
\* row's image, and every stage the call runs has filled its field
\* (orchestrator.py:105-128, the batches of onnx_siglip.py:207-239).
RowsBelongTogether ==
    [][\A c \in Calls : outcome[c] = "running" /\ outcome'[c] = "reported" =>
        \A i \in 1 .. Len(report'.rows) : LET row == report'.rows[i] IN
            \A t \in Tasks :
                row[t] = IF Active(c, t) THEN [call |-> c, url |-> row.url] ELSE Missing]_vars

Reported == {c \in Calls : outcome[c] = "reported"}
RowUrls == {report.rows[i].url : i \in 1 .. Len(report.rows)}
ErrorUrls == {report.errors[i] : i \in 1 .. Len(report.errors)}

\* The report lists the URLs of the last job that got one, and no others: each
\* once, as a row or as an error, and rows and errors in the job's order, although
\* downloads end in any order and later calls fail (download.py:154-165).
ReportListsTheUrls ==
    /\ \A urls \in {[i \in 1 .. Len(report.rows) |-> report.rows[i].url], report.errors} :
           \A i, j \in 1 .. Len(urls) : i < j => urls[i] < urls[j]
    /\ RowUrls \cap ErrorUrls = {}
    /\ \A c \in Reported : (\A b \in Reported : b <= c) =>
           RowUrls \cup ErrorUrls = 1 .. UrlCount[c]

\* A stage whose sibling raised is abandoned in the pool, but failing calls one
\* after another cannot pile up more of them than there are threads: a call only
\* fails in a stage after the pool has started everything older.
AbandonedFitThePool == Cardinality(Abandoned) <= Threads

\* A call that started its downloads ends, whatever the earlier calls have left
\* in the pool; a stopped worker exits once its threads are done.
EveryCallEnds == (phase = "download") ~> (phase \in {"idle", "exited"})

Promise == INSTANCE PipelineContract
    WITH report <- [images |-> RowUrls, errors |-> ErrorUrls]

\* run_pipeline keeps the contract the consumer relies on.
KeepsTheContract == Promise!Contract
=============================================================================
