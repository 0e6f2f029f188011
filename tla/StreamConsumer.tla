--------------------------- MODULE StreamConsumer ---------------------------
(***************************************************************************)
(* The queue consumer of the vision worker, app/queue/consumer.py: workers *)
(* that read jobs from a Redis stream, run the pipeline on each, post the  *)
(* result to the job's webhook, requeue what failed and dead-letter what   *)
(* failed too often, and acknowledge the stream message.                   *)
(*                                                                         *)
(* An action is the code between two awaits: one Redis command or one      *)
(* webhook call with what the coroutine does on its answer up to its next  *)
(* await.  A worker can die between any two actions, which is also what    *)
(* SIGTERM does: main.py cancels the consumer task at its current await,   *)
(* and no handler in consumer.py catches CancelledError.                   *)
(***************************************************************************)
EXTENDS RedisStream

CONSTANTS
    Workers,          \* consumer processes on the same stream and group
    Kind,             \* the shape of each job's payload, see Kinds
    MaxAttempts,      \* settings.max_attempts (MAX_JOB_ATTEMPTS, 3)
    InitialAttempts,  \* the "attempt" a job may be enqueued with
    SlowRestarts,     \* TRUE: a worker only comes up once every pending entry
                      \* is stale, i.e. it stayed down for five minutes
    MaxCrashes,       \* bound: crashes and SIGTERMs in a behaviour
    MaxRedisFaults    \* bound: Redis commands that raise in a behaviour

\* What json.loads and parse_job tell apart in a payload.
Kinds == {"wellFormed",          \* valid, with a webhookUrl
          "noWebhook",           \* valid, webhookUrl missing or empty
          "invalid",             \* rejected by JobPayload, no webhookUrl
          "invalidWithWebhook",  \* rejected by JobPayload, with a webhookUrl
          "nonObject",           \* JSON, but not an object
          "undecodable"}         \* not JSON

ASSUME ConsumerAssumption ==
    /\ Kind \in [Jobs -> Kinds]
    /\ MaxAttempts \in Int
    /\ InitialAttempts \subseteq Int
    /\ SlowRestarts \in BOOLEAN
    /\ MaxCrashes \in Nat
    /\ MaxRedisFaults \in Nat

VARIABLES
    pc,       \* where each worker's coroutine is suspended
    msg,      \* the entry a worker is handling, 0 for none
    batch,    \* entries a worker has received and not yet taken up
    cursor,   \* start_id of the next XAUTOCLAIM, 0 for "0-0"
    inbox,    \* webhook calls the web app accepted, in order of arrival
    unsaved,  \* history: entries whose requeue or DLQ XADD was not applied
    crashes, faults

workerVars == <<pc, msg, batch, cursor>>
envVars == <<inbox, unsaved, crashes, faults>>
vars == <<redisVars, workerVars, envVars>>

\* The steps of handle_job, from its first await to the last before the
\* acknowledgement.
Handling == {"pipeline", "callback", "requeue", "deadLetter", "failureCallback"}
Acking == {"ack", "ackFailed"}
Idle == {"down", "ensureGroup", "claim", "read", "take"}

\* A webhook call the web app accepted, with the entry it was made for.  The
\* worker got no 2xx answer to an "unseenSuccess".
Call == [src : Nat, outcome : {"success", "unseenSuccess", "failure"}]

TypeOK ==
    /\ RedisTypeOK
    /\ pc \in [Workers -> Idle \cup Handling \cup Acking]
    /\ msg \in [Workers -> 0 .. lastDelivered]
    /\ \A w \in Workers : (msg[w] = 0) <=> (pc[w] \in Idle)
    /\ batch \in [Workers -> SUBSET (1 .. lastDelivered)]
    /\ \A w \in Workers : batch[w] # {} => pc[w] \in {"take"} \cup Handling \cup Acking
    /\ cursor \in [Workers -> 0 .. lastDelivered]
    /\ inbox \in Seq(Call)
    /\ unsaved \subseteq 1 .. lastDelivered
    /\ crashes \in 0 .. MaxCrashes
    /\ faults \in 0 .. MaxRedisFaults

Init ==
    /\ RedisInit
    /\ pc = [w \in Workers |-> "down"]
    /\ msg = [w \in Workers |-> 0]
    /\ batch = [w \in Workers |-> {}]
    /\ cursor = [w \in Workers |-> 0]
    /\ inbox = <<>>
    /\ unsaved = {}
    /\ crashes = 0
    /\ faults = 0

-----------------------------------------------------------------------------
\* A Redis command either answers, or raises (connection lost, server busy, out
\* of memory) with its effect applied or not.
Answers(command) == command /\ UNCHANGED faults
Fault == faults < MaxRedisFaults /\ faults' = faults + 1
Raises(command) == Fault /\ (command \/ UNCHANGED redisVars)

Goto(w, label) == pc' = [pc EXCEPT ![w] = label]
JobOf(e) == stream[e].job
KindOf(e) == Kind[JobOf(e)]
HasWebhook(e) == KindOf(e) \in {"wellFormed", "invalidWithWebhook"}

\* Mutant: only the rest of the batch is dropped, not the message in hand.
AbandonKeepsMessage(w) ==
    /\ Goto(w, "read")
    /\ batch' = [batch EXCEPT ![w] = {}]
    /\ cursor' = [cursor EXCEPT ![w] = 0]
    /\ UNCHANGED msg

\* Where the coroutine goes when it drops the message it is on and the rest of
\* what it received: in the main loop because the loop body raised, on startup
\* because reclaim_pending_messages broke out of its loop.
AbandonToRead(w) ==
    /\ Goto(w, "read")
    /\ msg' = [msg EXCEPT ![w] = 0]
    /\ batch' = [batch EXCEPT ![w] = {}]
    /\ cursor' = [cursor EXCEPT ![w] = 0]

\* handle_job or the xack after it is over: on to the next received message.
NextMessage(w) ==
    /\ Goto(w, "take")
    /\ msg' = [msg EXCEPT ![w] = 0]
    /\ UNCHANGED <<batch, cursor>>

-----------------------------------------------------------------------------
\* The web app (outside src/) enqueues a job.
Enqueue(j) ==
    /\ \A e \in Ids : JobOf(e) # j
    /\ \E a \in InitialAttempts : XAddJob([job |-> j, attempt |-> a, src |-> 0])
    /\ UNCHANGED <<workerVars, envVars>>

\* main.py up to the creation of the consumer task.
Start(w) ==
    /\ pc[w] = "down"
    /\ SlowRestarts => pel = stale
    /\ Goto(w, "ensureGroup")
    /\ UNCHANGED <<redisVars, msg, batch, cursor, envVars>>

\* Mutant: run_consumer does not call reclaim_pending_messages.
EnsureGroupOnly(w) ==
    /\ pc[w] = "ensureGroup"
    /\ \/ Answers(XGroupCreate) /\ Goto(w, "read")
       \/ Raises(XGroupCreate) /\ Goto(w, "down")
    /\ UNCHANGED <<msg, batch, cursor, inbox, unsaved, crashes>>

\* ensure_consumer_group; an error other than BUSYGROUP leaves run_consumer and
\* ends the process.
EnsureGroup(w) ==
    /\ pc[w] = "ensureGroup"
    /\ \/ Answers(XGroupCreate) /\ Goto(w, "claim")
       \/ Raises(XGroupCreate) /\ Goto(w, "down")
    /\ UNCHANGED <<msg, batch, cursor, inbox, unsaved, crashes>>

\* One round of reclaim_pending_messages.  An empty claim ends the loop
\* whatever cursor came with it, and so does an error.
Claim(w) ==
    /\ pc[w] = "claim"
    /\ \/ /\ Answers(XAutoClaim(cursor[w]))
          /\ Claimed(cursor[w]) # {}
          /\ Goto(w, "take")
          /\ batch' = [batch EXCEPT ![w] = Claimed(cursor[w])]
          /\ \E next \in {0} \cup pel :
                /\ IsCursor(cursor[w], next)
                /\ cursor' = [cursor EXCEPT ![w] = next]
          /\ UNCHANGED msg
       \/ /\ Answers(XAutoClaim(cursor[w]))
          /\ Claimed(cursor[w]) = {}
          /\ AbandonToRead(w)
       \/ /\ Raises(XAutoClaim(cursor[w]))
          /\ AbandonToRead(w)
    /\ UNCHANGED <<inbox, unsaved, crashes>>

\* Mutant: XREADGROUP with NOACK, nothing becomes pending.
ReadNoAck(w) ==
    /\ pc[w] = "read"
    /\ group
    /\ NextUndelivered \in Ids
    /\ lastDelivered' = NextUndelivered
    /\ Goto(w, "take")
    /\ batch' = [batch EXCEPT ![w] = {NextUndelivered}]
    /\ UNCHANGED <<stream, dlq, group, pel, stale, claimed, msg, cursor, envVars>>

\* Mutant: the read starts at id "0" and gets what is already pending for
\* CONSUMER_NAME, which every worker has by default.
ReadPendingToo(w) ==
    /\ pc[w] = "read"
    /\ Goto(w, "take")
    /\ \/ /\ Answers(XReadGroup)
          /\ batch' = [batch EXCEPT ![w] = {NextUndelivered}]
       \/ /\ \E e \in pel : batch' = [batch EXCEPT ![w] = {e}]
          /\ UNCHANGED <<redisVars, faults>>
    /\ UNCHANGED <<msg, cursor, inbox, unsaved, crashes>>

\* XREADGROUP in the main loop.  An empty answer after the 5 second block, and
\* the sleep after an error, lead back to the same await.
Read(w) ==
    /\ pc[w] = "read"
    /\ \/ /\ Answers(XReadGroup)
          /\ Goto(w, "take")
          /\ batch' = [batch EXCEPT ![w] = {NextUndelivered}]
       \/ /\ Raises(XReadGroup)
          /\ UNCHANGED <<pc, batch>>
    /\ UNCHANGED <<msg, cursor, inbox, unsaved, crashes>>

\* Mutant: a rejected payload goes straight to the acknowledgement.
FirstStepDropsInvalid(e) ==
    IF KindOf(e) = "wellFormed" THEN "pipeline" ELSE "ackFailed"

\* The first await of handle_job on an entry: parse_job has accepted or rejected
\* the payload by then.  A missing webhookUrl is raised outside the try block
\* that retries, and a payload without a "get" method raises in the handler of
\* the validation error, before the DLQ.
FirstStep(e) ==
    CASE KindOf(e) = "wellFormed" -> "pipeline"
      [] KindOf(e) \in {"invalid", "invalidWithWebhook"} -> "deadLetter"
      [] KindOf(e) \in {"noWebhook", "nonObject"} -> "ackFailed"

\* The for loop over received messages, json.loads included, which stands
\* outside the inner try.
TakeMessage(w) ==
    /\ pc[w] = "take"
    /\ \/ \E e \in batch[w] :
             /\ \A f \in batch[w] : e <= f
             /\ IF KindOf(e) = "undecodable"
                THEN AbandonToRead(w)
                ELSE /\ Goto(w, FirstStep(e))
                     /\ msg' = [msg EXCEPT ![w] = e]
                     /\ batch' = [batch EXCEPT ![w] = @ \ {e}]
                     /\ UNCHANGED cursor
       \/ /\ batch[w] = {}
          /\ Goto(w, IF cursor[w] = 0 THEN "read" ELSE "claim")
          /\ UNCHANGED <<msg, batch, cursor>>
    /\ UNCHANGED <<redisVars, envVars>>

\* Mutants: the limit is off by one; the last failure is not dead-lettered.
FailedStepTooEarly(e) ==
    IF stream[e].attempt + 2 < MaxAttempts THEN "requeue" ELSE "deadLetter"
FailedStepForgets(e) ==
    IF stream[e].attempt + 1 < MaxAttempts THEN "requeue" ELSE "ackFailed"

\* The except branch of handle_job for a job that was being processed.
FailedStep(e) ==
    IF stream[e].attempt + 1 < MaxAttempts THEN "requeue" ELSE "deadLetter"

\* run_pipeline, and the check that some image survived it.
Pipeline(w) ==
    /\ pc[w] = "pipeline"
    /\ Goto(w, "callback") \/ Goto(w, FailedStep(msg[w]))
    /\ UNCHANGED <<redisVars, msg, batch, cursor, envVars>>

Post(w, outcome) == inbox' = Append(inbox, [src |-> msg[w], outcome |-> outcome])

\* Mutant: the check for failed images comes after the callback.
SendCallbackThenCheck(w) ==
    /\ pc[w] = "callback"
    /\ \/ Post(w, "success") /\ (Goto(w, "ack") \/ Goto(w, FailedStep(msg[w])))
       \/ UNCHANGED inbox /\ Goto(w, FailedStep(msg[w]))
    /\ UNCHANGED <<redisVars, msg, batch, cursor, unsaved, crashes, faults>>

\* send_callback: accepted; accepted but the answer lost, late or not 2xx;
\* not accepted.
SendCallback(w) ==
    /\ pc[w] = "callback"
    /\ \/ Post(w, "success") /\ Goto(w, "ack")
       \/ Post(w, "unseenSuccess") /\ Goto(w, FailedStep(msg[w]))
       \/ UNCHANGED inbox /\ Goto(w, FailedStep(msg[w]))
    /\ UNCHANGED <<redisVars, msg, batch, cursor, unsaved, crashes, faults>>

\* An XADD that keeps a failed job; raising without effect, it keeps nothing.
Saves(command) == Answers(command) /\ UNCHANGED unsaved
SaveRaises(e, command) ==
    /\ Fault
    /\ \/ command /\ UNCHANGED unsaved
       \/ UNCHANGED redisVars /\ unsaved' = unsaved \cup {e}

\* Mutant: the attempt counter is not incremented.
RequeueSameAttempt(w) ==
    /\ pc[w] = "requeue"
    /\ Saves(XAddJob([stream[msg[w]] EXCEPT !.src = msg[w]]))
    /\ Goto(w, "ackFailed")
    /\ UNCHANGED <<msg, batch, cursor, inbox, crashes>>

\* The backoff sleep and requeue_job.
Requeue(w) ==
    LET command == XAddJob([job |-> JobOf(msg[w]),
                            attempt |-> stream[msg[w]].attempt + 1,
                            src |-> msg[w]])
    IN
    /\ pc[w] = "requeue"
    /\ Saves(command) \/ SaveRaises(msg[w], command)
    /\ Goto(w, "ackFailed")
    /\ UNCHANGED <<msg, batch, cursor, inbox, crashes>>

\* Mutant: the failure webhook is called although the XADD raised.
DeadLetterReportsAnyway(w) ==
    LET command == XAddDlq([stream[msg[w]] EXCEPT !.src = msg[w]]) IN
    /\ pc[w] = "deadLetter"
    /\ Saves(command) \/ SaveRaises(msg[w], command)
    /\ Goto(w, IF HasWebhook(msg[w]) THEN "failureCallback" ELSE "ackFailed")
    /\ UNCHANGED <<msg, batch, cursor, inbox, crashes>>

\* send_to_dlq; if it raises, the failure webhook is not called.
DeadLetter(w) ==
    LET command == XAddDlq([stream[msg[w]] EXCEPT !.src = msg[w]]) IN
    /\ pc[w] = "deadLetter"
    /\ \/ Saves(command) /\ Goto(w, IF HasWebhook(msg[w]) THEN "failureCallback" ELSE "ackFailed")
       \/ SaveRaises(msg[w], command) /\ Goto(w, "ackFailed")
    /\ UNCHANGED <<msg, batch, cursor, inbox, crashes>>

\* send_failure_callback, whose exceptions are swallowed.
FailureCallback(w) ==
    /\ pc[w] = "failureCallback"
    /\ Post(w, "failure") \/ UNCHANGED inbox
    /\ Goto(w, "ackFailed")
    /\ UNCHANGED <<redisVars, msg, batch, cursor, unsaved, crashes, faults>>

\* Mutant: the xack stands inside the try block of handle_job.
AckInsideTry(w) ==
    /\ pc[w] = "ack"
    /\ \/ Answers(XAck(msg[w])) /\ NextMessage(w)
       \/ Raises(XAck(msg[w])) /\ Goto(w, FailedStep(msg[w])) /\ UNCHANGED <<msg, batch, cursor>>
    /\ UNCHANGED <<inbox, unsaved, crashes>>

\* xack after handle_job returned; its own failure lands in the except branch.
Ack(w) ==
    /\ pc[w] = "ack"
    /\ \/ Answers(XAck(msg[w])) /\ NextMessage(w)
       \/ Raises(XAck(msg[w])) /\ Goto(w, "ackFailed") /\ UNCHANGED <<msg, batch, cursor>>
    /\ UNCHANGED <<inbox, unsaved, crashes>>

\* Mutant: a failed message is not acknowledged.
AckFailedSkipped(w) ==
    /\ pc[w] = "ackFailed"
    /\ NextMessage(w)
    /\ UNCHANGED <<redisVars, envVars>>

\* xack in the except branch.
AckFailed(w) ==
    /\ pc[w] = "ackFailed"
    /\ \/ Answers(XAck(msg[w])) /\ NextMessage(w)
       \/ Raises(XAck(msg[w])) /\ AbandonToRead(w)
    /\ UNCHANGED <<inbox, unsaved, crashes>>

\* The process dies, or SIGTERM makes main.py cancel the consumer task.
Crash(w) ==
    /\ pc[w] # "down"
    /\ crashes < MaxCrashes
    /\ crashes' = crashes + 1
    /\ Goto(w, "down")
    /\ msg' = [msg EXCEPT ![w] = 0]
    /\ batch' = [batch EXCEPT ![w] = {}]
    /\ cursor' = [cursor EXCEPT ![w] = 0]
    /\ UNCHANGED <<redisVars, inbox, unsaved, faults>>

Age(e) == BecomeStale(e) /\ UNCHANGED <<workerVars, envVars>>

Step(w) ==
    \/ Start(w) \/ EnsureGroup(w) \/ Claim(w) \/ Read(w) \/ TakeMessage(w)
    \/ Pipeline(w) \/ SendCallback(w) \/ Requeue(w) \/ DeadLetter(w)
    \/ FailureCallback(w) \/ Ack(w) \/ AckFailed(w)

Next ==
    \/ \E j \in Jobs : Enqueue(j)
    \/ \E w \in Workers : Step(w) \/ Crash(w)
    \/ \E e \in pel : Age(e)

Spec == Init /\ [][Next]_vars

\* A live worker keeps running, a dead one is restarted (restart:
\* unless-stopped), and time passes.  Enqueuing, crashing and failing are not
\* promised to happen.
FairSpec ==
    /\ Spec
    /\ \A w \in Workers : WF_vars(Step(w))
    /\ WF_vars(\E e \in pel : Age(e))

-----------------------------------------------------------------------------
(***************************************************************************)
(* What became of an entry and of a job, read off the streams and the      *)
(* web app's inbox.                                                        *)
(***************************************************************************)
Succeeded(e) == \E i \in DOMAIN inbox :
                    inbox[i].src = e /\ inbox[i].outcome \in {"success", "unseenSuccess"}
Retried(e) == \E f \in Ids : stream[f].src = e
Buried(e) == \E i \in DOMAIN dlq : dlq[i].src = e
Answered(e) == Succeeded(e) \/ Retried(e) \/ Buried(e)

EntriesOf(j) == {e \in Ids : JobOf(e) = j}
Live(e) == e > lastDelivered \/ e \in pel
JobSettled(j) == \E e \in EntriesOf(j) : Succeeded(e) \/ Buried(e)

\* Entries a worker has received and still means to handle or acknowledge.
Held(w) == (batch[w] \cup {msg[w]}) \ {0}

\* No entry of the job went through XAUTOCLAIM.
Undisturbed(j) == EntriesOf(j) \cap claimed = {}

-----------------------------------------------------------------------------
\* A message is only acknowledged once the result of its job was accepted by
\* the web app, the job is back in the stream or it is in the dead letter
\* stream (the comment above the xack of run_consumer: "the error retry logic
\* handles requeueing separately").  This needs Redis to take the XADD and the
\* payload to be one handle_job saves; the runs say when it holds.
NoJobLost == \A e \in Acked : Answered(e)

\* The same without those provisos: the only ways to lose a job are a payload
\* that is not an object or has no webhookUrl, and an XADD that raised.
Accounted(e) ==
    \/ Answered(e)
    \/ KindOf(e) \in {"noWebhook", "nonObject"}
    \/ e \in unsaved
LostOnlyKnownWays == \A e \in Acked : Accounted(e)

\* The worker-side half of it: once handle_job is about to return or raise, the
\* outcome of the entry is on record, whatever crashed or raised on the way and
\* however often the entry was handled before.
AccountedBeforeAck ==
    \A w \in Workers : pc[w] \in Acking \cup {"failureCallback"} => Accounted(msg[w])

\* A crash cannot take a job with it: whatever a worker is handling or has in
\* its claimed batch is still in the pending entries list, unless XAUTOCLAIM
\* gave it out a second time and the other worker has acknowledged it.
InHandIsPending ==
    \A w \in Workers : \A e \in Held(w) :
        pc[w] \notin Acking \/ e # msg[w] => e \in pel \cup claimed

\* Two workers hold the same entry only when XAUTOCLAIM took it from one that
\* was too slow: the group delivers each entry once otherwise.
ExclusiveUnlessClaimed ==
    \A v, w \in Workers : v # w => Held(v) \cap Held(w) \subseteq claimed

\* A job that was never reclaimed has one line of attempts: between two of its
\* entries the attempt number grows by one per entry, in stream order.  No
\* Redis fault, crash, second worker or lost webhook answer forks it.
OneLineOfAttempts ==
    \A j \in Jobs : Undisturbed(j) =>
        \A e, f \in EntriesOf(j) : e < f =>
            stream[f].attempt - stream[e].attempt
                = Cardinality({g \in EntriesOf(j) : e < g /\ g <= f})

\* A job that was never reclaimed and whose success the worker saw accepted is
\* over: one success in the inbox, no failure, nothing dead-lettered, no later
\* attempt.
SeenSuccessIsFinal ==
    \A j \in Jobs : Undisturbed(j) =>
        \A i \in DOMAIN inbox :
            (JobOf(inbox[i].src) = j /\ inbox[i].outcome = "success") =>
                /\ \A k \in DOMAIN inbox : JobOf(inbox[k].src) = j =>
                       k = i \/ (k < i /\ inbox[k].outcome = "unseenSuccess")
                /\ \A d \in DOMAIN dlq : dlq[d].job # j
                /\ \A e \in EntriesOf(j) : e <= inbox[i].src

\* A valid job is dead-lettered only after every attempt up to the limit was
\* delivered, starting from the one it was enqueued with.
BuriedOnlyWhenExhausted ==
    \A d \in DOMAIN dlq : Kind[dlq[d].job] = "wellFormed" =>
        /\ dlq[d].attempt + 1 >= MaxAttempts
        /\ \A e \in EntriesOf(dlq[d].job) :
               stream[e].src = 0 =>
                   \A a \in stream[e].attempt .. dlq[d].attempt :
                       \E f \in EntriesOf(dlq[d].job) :
                           stream[f].attempt = a /\ f <= lastDelivered

\* A well-formed job that was enqueued is open in the stream, or settled, or the
\* XADD that was to save one of its entries raised without effect (unsaved): then
\* the xack of the except branch may have closed it for good (consumer.py:321).
JobNeverVanishes ==
    \A j \in Jobs : (Kind[j] = "wellFormed" /\ EntriesOf(j) # {}) =>
        \/ \E e \in EntriesOf(j) : Live(e) \/ e \in unsaved
        \/ JobSettled(j)

\* The web app hears of a failure only for an entry that is in the dead letter
\* stream, so an operator can find what was reported.
FailureIsOnRecord ==
    \A i \in DOMAIN inbox : inbox[i].outcome = "failure" => Buried(inbox[i].src)

\* The consumer implements the queue the web app counts on: a job leaves the
\* stream's undelivered and pending entries only when it is settled.
OpenJobs == {j \in Jobs : \E e \in EntriesOf(j) : Live(e)}
SettledJobs == {j \in Jobs : JobSettled(j)}
Queue == INSTANCE JobQueue WITH open <- OpenJobs, settled <- SettledJobs
ImplementsJobQueue == Queue!Spec

\* Every job that handle_job saves when it gives up on it is settled in the end.
EveryJobSettles ==
    \A j \in Jobs :
        (Kind[j] \in {"wellFormed", "invalid", "invalidWithWebhook"} /\ EntriesOf(j) # {})
            ~> JobSettled(j)

\* Nothing stays in the pending entries list for ever (reclaim_pending_messages:
\* "Reclaims and processes them to guarantee no lost jobs").
PendingIsRecovered ==
    \A j \in Jobs : []<>(EntriesOf(j) \cap pel = {})
=============================================================================
