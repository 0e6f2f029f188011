---------------------- MODULE StreamConsumerRefinement ----------------------
(***************************************************************************)
(* The queue consumer keeps every job it was given and implements the      *)
(* abstract queue, for any number of jobs, workers and attempts.           *)
(***************************************************************************)
EXTENDS StreamConsumerProofs, FiniteSetTheorems

-----------------------------------------------------------------------------
\* A set of stream positions that is not empty has a last one.
LEMMA LastPosition ==
    ASSUME NEW n \in Nat, NEW T \in SUBSET (1 .. n), T # {}
    PROVE  \E m \in T : \A e \in T : e <= m
  <1>. DEFINE Behind(e) == {f \in T : f > e}
              Families == {Behind(e) : e \in T}
              R == StrictSubsetOrdering(1 .. n)
  <1>1. IsWellFoundedOn(R, SUBSET (1 .. n))
    <2>1. IsFiniteSet(1 .. n)
      BY FS_Interval
    <2>. QED BY <2>1, FS_FiniteSubsetsOfFinite, FS_StrictSubsetOrderingWellFounded
  <1>2. Families \subseteq SUBSET (1 .. n) /\ Families # {}
    OBVIOUS
  <1>3. PICK least \in Families : \A F \in Families : <<F, least>> \notin R
    <2>. HIDE DEF R, Families
    <2>. QED BY <1>1, <1>2, WFMin
  <1>4. PICK m \in T : least = Behind(m)
    OBVIOUS
  <1>5. ASSUME NEW e \in T, e > m PROVE FALSE
    <2>1. Behind(e) \subseteq Behind(m) /\ e \in Behind(m) /\ e \notin Behind(e)
      <3>1. m \in Int /\ T \subseteq Int
        OBVIOUS
      <3>2. \A f \in T : f > e => f > m
        BY <1>5, <3>1
      <3>3. ~ (e > e)
        BY <1>5, <3>1
      <3>. QED BY <1>5, <3>2, <3>3
    <2>2. <<Behind(e), Behind(m)>> \in R
      BY <2>1 DEF StrictSubsetOrdering
    <2>. QED BY <1>3, <1>4, <2>2
  <1>. QED BY <1>5

\* Where entries, dead letters and webhook calls come from: a retry stands
\* behind the entry it retries and is of the same job, and only a delivered
\* entry is dead-lettered or reported.
Provenance ==
    /\ \A e \in Ids : stream[e].src \in 0 .. e - 1
    /\ \A e \in Ids : stream[e].src # 0 => JobOf(stream[e].src) = JobOf(e)
    /\ \A i \in DOMAIN dlq : dlq[i].src \in 1 .. lastDelivered
    /\ \A i \in DOMAIN inbox : inbox[i].src \in 1 .. lastDelivered

\* What a step appends to the stream, the dead letter stream and the inbox.
LEMMA WhatIsAppended ==
    ASSUME TypeOK, [Next]_vars
    PROVE  /\ \/ stream' = stream
              \/ \E j \in Jobs, a \in Int : stream' = Append(stream, [job |-> j, attempt |-> a, src |-> 0])
              \/ \E e \in 1 .. lastDelivered, a \in Int :
                    stream' = Append(stream, [job |-> JobOf(e), attempt |-> a, src |-> e])
           /\ \/ dlq' = dlq
              \/ \E x \in Entry : x.src \in 1 .. lastDelivered /\ dlq' = Append(dlq, x)
           /\ \/ inbox' = inbox
              \/ \E e \in 1 .. lastDelivered, o \in {"success", "unseenSuccess", "failure"} :
                    inbox' = Append(inbox, [src |-> e, outcome |-> o])
  <1>. DEFINE Goal == /\ \/ stream' = stream
                         \/ \E j \in Jobs, a \in Int : stream' = Append(stream, [job |-> j, attempt |-> a, src |-> 0])
                         \/ \E e \in 1 .. lastDelivered, a \in Int :
                               stream' = Append(stream, [job |-> JobOf(e), attempt |-> a, src |-> e])
                      /\ \/ dlq' = dlq
                         \/ \E x \in Entry : x.src \in 1 .. lastDelivered /\ dlq' = Append(dlq, x)
                      /\ \/ inbox' = inbox
                         \/ \E e \in 1 .. lastDelivered, o \in {"success", "unseenSuccess", "failure"} :
                               inbox' = Append(inbox, [src |-> e, outcome |-> o])
  <1>1. ASSUME NEW j \in Jobs, Enqueue(j) PROVE Goal
    BY <1>1, ConsumerAssumption DEF Enqueue, XAddJob, envVars
  <1>2. ASSUME NEW w \in Workers, Requeue(w) PROVE Goal
    <2>1. msg[w] \in 1 .. lastDelivered /\ stream[msg[w]] \in Entry
      BY <1>2, HandledEntry DEF Requeue, Idle
    <2>2. stream[msg[w]].attempt + 1 \in Int
      BY <2>1 DEF Entry
    <2>. QED BY <1>2, <2>1, <2>2 DEF Requeue, Saves, SaveRaises, Answers, XAddJob, redisVars
  <1>3. ASSUME NEW w \in Workers, DeadLetter(w) PROVE Goal
    <2>1. msg[w] \in 1 .. lastDelivered
      BY <1>3, HandledEntry DEF DeadLetter, Idle
    <2>2. PICK x : x = [stream[msg[w]] EXCEPT !.src = msg[w]]
      OBVIOUS
    <2>3. x \in Entry /\ x.src = msg[w]
      <3>1. stream[msg[w]] \in Entry
        BY <1>3, HandledEntry DEF DeadLetter, Idle
      <3>2. msg[w] \in Nat
        BY <2>1 DEF TypeOK, RedisTypeOK
      <3>. QED BY <2>2, <3>1, <3>2 DEF Entry
    <2>4. /\ stream' = stream
          /\ dlq' = dlq \/ dlq' = Append(dlq, x)
          /\ inbox' = inbox
      BY <1>3, <2>2 DEF DeadLetter, Saves, SaveRaises, Answers, XAddDlq, redisVars
    <2>. QED BY <2>1, <2>3, <2>4
  <1>4. ASSUME NEW w \in Workers, SendCallback(w) \/ FailureCallback(w) PROVE Goal
    <2>1. msg[w] \in 1 .. lastDelivered
      BY <1>4, HandledEntry DEF SendCallback, FailureCallback, Idle
    <2>. QED BY <1>4, <2>1 DEF SendCallback, FailureCallback, Post, redisVars
  <1>5. ASSUME NEW w \in Workers,
               \/ Start(w) \/ EnsureGroup(w) \/ Claim(w) \/ Read(w) \/ TakeMessage(w)
               \/ Pipeline(w) \/ Ack(w) \/ AckFailed(w) \/ Crash(w)
        PROVE  UNCHANGED <<stream, dlq, inbox>>
    BY <1>5 DEF Start, EnsureGroup, Claim, Read, TakeMessage, Pipeline, Ack, AckFailed, Crash,
                Answers, Raises, XGroupCreate, XAutoClaim, XReadGroup, XAck, redisVars, envVars
  <1>6. ASSUME (\E e \in pel : Age(e)) \/ UNCHANGED vars PROVE UNCHANGED <<stream, dlq, inbox>>
    BY <1>6 DEF Age, BecomeStale, vars, redisVars, envVars
  <1>. QED BY <1>1, <1>2, <1>3, <1>4, <1>5, <1>6 DEF Next, Step

LEMMA ProvenanceStep ==
    ASSUME TypeOK, TypeOK', Provenance, [Next]_vars
    PROVE  Provenance'
  <1>1. Grows
    BY StepGrows
  <1>2. lastDelivered <= lastDelivered' /\ lastDelivered \in 0 .. Len(stream) /\ lastDelivered' \in Nat
    BY <1>1 DEF Grows, RedisGrows, TypeOK, RedisTypeOK
  <1>3. ASSUME NEW e \in Ids'
        PROVE  /\ stream'[e].src \in 0 .. e - 1
               /\ stream'[e].src # 0 => JobOf(stream[e].src)' = JobOf(e)'
    <2>1. CASE e \in Ids
      <3>1. stream'[e] = stream[e]
        BY <1>1, <2>1 DEF Grows, RedisGrows, Extends, Ids
      <3>2. stream[e].src \in 0 .. e - 1
        BY <2>1 DEF Provenance
      <3>3. ASSUME stream[e].src # 0
            PROVE  stream'[stream[e].src] = stream[stream[e].src]
        <4>1. stream[e].src \in Ids
          BY <2>1, <3>2, <3>3 DEF Ids, TypeOK, RedisTypeOK
        <4>. QED BY <1>1, <4>1 DEF Grows, RedisGrows, Extends, Ids
      <3>. QED BY <2>1, <3>1, <3>2, <3>3 DEF Provenance, JobOf
    <2>2. CASE e \notin Ids
      <3>1. PICK x \in Entry :
               /\ stream' = Append(stream, x)
               /\ x.src \in 0 .. lastDelivered
               /\ x.src # 0 => x.job = JobOf(x.src)
        <4>1. stream' # stream
          BY <2>2 DEF Ids
        <4>2. CASE \E j \in Jobs, a \in Int :
                      stream' = Append(stream, [job |-> j, attempt |-> a, src |-> 0])
          BY <1>2, <4>2 DEF Entry
        <4>3. CASE \E f \in 1 .. lastDelivered, a \in Int :
                      stream' = Append(stream, [job |-> JobOf(f), attempt |-> a, src |-> f])
          <5>1. PICK f \in 1 .. lastDelivered, a \in Int :
                   stream' = Append(stream, [job |-> JobOf(f), attempt |-> a, src |-> f])
            BY <4>3
          <5>2. stream[f] \in Entry
            BY <5>1 DEF TypeOK, RedisTypeOK
          <5>3. [job |-> JobOf(f), attempt |-> a, src |-> f] \in Entry
            BY <5>1, <5>2 DEF Entry, JobOf
          <5>. QED BY <5>1, <5>3
        <4>. QED BY <4>1, <4>2, <4>3, WhatIsAppended
      <3>2. /\ Len(stream') = Len(stream) + 1
            /\ stream'[Len(stream) + 1] = x
            /\ \A i \in 1 .. Len(stream) : stream'[i] = stream[i]
        BY <3>1, AppendProperties DEF TypeOK, RedisTypeOK
      <3>3. e = Len(stream) + 1
        BY <2>2, <3>2 DEF Ids, TypeOK, RedisTypeOK
      <3>4. x.src # 0 => stream'[x.src] = stream[x.src]
        BY <1>2, <3>1, <3>2
      <3>. QED BY <1>2, <3>1, <3>2, <3>3, <3>4 DEF JobOf
    <2>. QED BY <2>1, <2>2
  <1>4. ASSUME NEW i \in DOMAIN dlq' PROVE dlq'[i].src \in 1 .. lastDelivered'
    <2>1. CASE dlq' = dlq
      BY <1>2, <2>1 DEF Provenance
    <2>2. ASSUME NEW x \in Entry, x.src \in 1 .. lastDelivered, dlq' = Append(dlq, x)
          PROVE  dlq'[i].src \in 1 .. lastDelivered'
      <3>1. /\ Len(dlq') = Len(dlq) + 1
            /\ dlq'[Len(dlq) + 1] = x
            /\ \A k \in 1 .. Len(dlq) : dlq'[k] = dlq[k]
        BY <2>2, AppendProperties DEF TypeOK, RedisTypeOK
      <3>2. dlq' \in Seq(Entry) /\ dlq \in Seq(Entry)
        BY DEF TypeOK, RedisTypeOK
      <3>3. i \in 1 .. Len(dlq) \/ i = Len(dlq) + 1
        BY <3>1, <3>2
      <3>. QED BY <1>2, <2>2, <3>1, <3>2, <3>3 DEF Provenance
    <2>. QED BY <2>1, <2>2, WhatIsAppended
  <1>5. ASSUME NEW i \in DOMAIN inbox' PROVE inbox'[i].src \in 1 .. lastDelivered'
    <2>1. CASE inbox' = inbox
      BY <1>2, <2>1 DEF Provenance
    <2>2. ASSUME NEW e \in 1 .. lastDelivered, NEW o \in {"success", "unseenSuccess", "failure"},
                 inbox' = Append(inbox, [src |-> e, outcome |-> o])
          PROVE  inbox'[i].src \in 1 .. lastDelivered'
      <3>1. [src |-> e, outcome |-> o] \in Call
        BY <1>2 DEF Call
      <3>2. /\ Len(inbox') = Len(inbox) + 1
            /\ inbox'[Len(inbox) + 1] = [src |-> e, outcome |-> o]
            /\ \A k \in 1 .. Len(inbox) : inbox'[k] = inbox[k]
        BY <2>2, <3>1, AppendProperties DEF TypeOK
      <3>3. inbox' \in Seq(Call) /\ inbox \in Seq(Call)
        BY DEF TypeOK
      <3>4. i \in 1 .. Len(inbox) \/ i = Len(inbox) + 1
        BY <3>2, <3>3
      <3>. QED BY <1>2, <3>2, <3>3, <3>4 DEF Provenance
    <2>. QED BY <2>1, <2>2, WhatIsAppended
  <1>. QED BY <1>3, <1>4, <1>5 DEF Provenance

LEMMA ProvenanceHolds == Spec => []Provenance
  <1>1. Init => Provenance
    BY DEF Init, RedisInit, Provenance, Ids
  <1>2. TypeOK /\ TypeOK' /\ Provenance /\ [Next]_vars => Provenance'
    BY ProvenanceStep
  <1>. QED BY <1>1, <1>2, TypeCorrect, PTL DEF Spec

-----------------------------------------------------------------------------
\* A job with entries is open, or settled, or the known ways to lose one
\* apply to it.  The last entry decides: once it is acknowledged no retry can
\* account for it, since that would stand behind it.
LEMMA LastEntryDecides ==
    ASSUME TypeOK, Provenance, LostOnlyKnownWays,
           NEW j \in Jobs, EntriesOf(j) # {}
    PROVE  \/ \E e \in EntriesOf(j) : Live(e) \/ e \in unsaved
           \/ JobSettled(j)
           \/ Kind[j] \in {"noWebhook", "nonObject"}
  <1>1. EntriesOf(j) \subseteq 1 .. Len(stream) /\ Len(stream) \in Nat
    BY DEF EntriesOf, Ids, TypeOK, RedisTypeOK
  <1>2. PICK m \in EntriesOf(j) : \A e \in EntriesOf(j) : e <= m
    BY <1>1, LastPosition
  <1>3. CASE Live(m)
    BY <1>3
  <1>4. CASE ~ Live(m)
    <2>1. m \in Acked
      BY <1>1, <1>4 DEF Live, Acked, TypeOK, RedisTypeOK
    <2>2. Accounted(m)
      BY <2>1 DEF LostOnlyKnownWays
    <2>3. ~ Retried(m)
      <3>1. SUFFICES ASSUME NEW f \in Ids, stream[f].src = m PROVE FALSE
        BY DEF Retried
      <3>2. m < f /\ m # 0
        BY <1>1, <3>1 DEF Provenance, Ids
      <3>3. JobOf(m) = JobOf(f)
        BY <3>1, <3>2 DEF Provenance
      <3>4. f \in EntriesOf(j)
        BY <3>1, <3>3 DEF EntriesOf
      <3>. QED BY <1>1, <1>2, <3>2, <3>4
    <2>4. KindOf(m) = Kind[j]
      BY DEF KindOf, EntriesOf
    <2>. QED BY <2>2, <2>3, <2>4 DEF Accounted, Answered, JobSettled
  <1>. QED BY <1>3, <1>4

\* A well-formed job that was enqueued is in the stream, or settled, or one of
\* its retries could not be written.
THEOREM JobsNeverVanish == Spec => []JobNeverVanishes
  <1>1. TypeOK /\ Provenance /\ LostOnlyKnownWays => JobNeverVanishes
    BY LastEntryDecides DEF JobNeverVanishes
  <1>2. Spec => [](LostOnlyKnownWays /\ AccountedBeforeAck)
    BY LossIsAccountedFor
  <1>. QED BY <1>1, <1>2, TypeCorrect, ProvenanceHolds, PTL

-----------------------------------------------------------------------------
\* The failure webhook is called with the entry already in the dead letter
\* stream; it stays there.
FailureRecords ==
    /\ FailureIsOnRecord
    /\ \A w \in Workers : pc[w] = "failureCallback" => Buried(msg[w])

LEMMA FailureRecordsStep ==
    ASSUME TypeOK, TypeOK', Provenance, FailureRecords, [Next]_vars
    PROVE  FailureRecords'
  <1>1. Grows
    BY StepGrows
  <1>2. \A e \in Ids : Buried(e) => Buried(e)'
    BY <1>1, RecordsStay
  <1>3. 1 .. lastDelivered \subseteq Ids
    BY DEF Ids, TypeOK, RedisTypeOK
  <1>4. ASSUME NEW i \in DOMAIN inbox', inbox'[i].outcome = "failure"
        PROVE  Buried(inbox[i].src)'
    <2>1. CASE i \in DOMAIN inbox
      <3>1. inbox'[i] = inbox[i]
        <4>1. i \in 1 .. Len(inbox)
          BY <2>1 DEF TypeOK
        <4>. QED BY <1>1, <4>1 DEF Grows, Extends
      <3>2. Buried(inbox[i].src) /\ inbox[i].src \in Ids
        BY <1>3, <1>4, <2>1, <3>1 DEF FailureRecords, FailureIsOnRecord, Provenance
      <3>. QED BY <1>2, <3>1, <3>2 DEF Buried
    <2>2. CASE i \notin DOMAIN inbox
      <3>1. PICK w \in Workers : SendCallback(w) \/ FailureCallback(w)
        BY <2>2 DEF Next, Step, vars, envVars, Enqueue, Start, EnsureGroup, Claim, Read, TakeMessage,
                    Pipeline, Requeue, DeadLetter, Ack, AckFailed, Crash, Age
      <3>2. msg[w] \in Ids /\ msg[w] \in Nat
        <4>1. msg[w] \in Ids
          BY <3>1, HandledEntry DEF SendCallback, FailureCallback, Idle
        <4>. QED BY <4>1 DEF Ids
      <3>3. PICK o \in {"success", "unseenSuccess", "failure"} :
               /\ inbox' = Append(inbox, [src |-> msg[w], outcome |-> o])
               /\ o = "failure" => FailureCallback(w)
        BY <2>2, <3>1 DEF SendCallback, FailureCallback, Post
      <3>4. inbox'[i] = [src |-> msg[w], outcome |-> o]
        <4>1. [src |-> msg[w], outcome |-> o] \in Call
          BY <3>2 DEF Call
        <4>2. /\ Len(inbox') = Len(inbox) + 1
              /\ inbox'[Len(inbox) + 1] = [src |-> msg[w], outcome |-> o]
          BY <3>3, <4>1, AppendProperties DEF TypeOK
        <4>3. i \in 1 .. Len(inbox') /\ i \notin 1 .. Len(inbox) /\ Len(inbox) \in Nat
          BY <2>2 DEF TypeOK
        <4>. QED BY <4>2, <4>3
      <3>5. FailureCallback(w)
        BY <1>4, <3>3, <3>4
      <3>6. Buried(msg[w])
        BY <3>5 DEF FailureCallback, FailureRecords
      <3>. QED BY <1>2, <3>2, <3>4, <3>6 DEF Buried
    <2>. QED BY <2>1, <2>2
  <1>5. ASSUME NEW w \in Workers, pc'[w] = "failureCallback"
        PROVE  Buried(msg[w])'
    <2>1. CASE pc[w] = "failureCallback" /\ msg'[w] = msg[w]
      <3>1. Buried(msg[w]) /\ msg[w] \in Ids
        BY <2>1, HandledEntry DEF FailureRecords, Idle
      <3>. QED BY <1>2, <2>1, <3>1 DEF Buried
    <2>2. ASSUME NEW v \in Workers, Step(v) \/ Crash(v), v # w
          PROVE  Buried(msg[w])'
      BY <1>5, <2>1, <2>2, OtherWorkersStay
    <2>3. CASE DeadLetter(w)
      <3>1. msg[w] \in Nat /\ stream[msg[w]] \in Entry /\ msg'[w] = msg[w]
        <4>1. msg[w] \in Ids /\ stream[msg[w]] \in Entry
          BY <2>3, HandledEntry DEF DeadLetter, Idle
        <4>. QED BY <2>3, <4>1 DEF DeadLetter, Ids
      <3>2. PICK x : x = [stream[msg[w]] EXCEPT !.src = msg[w]]
        OBVIOUS
      <3>3. x \in Entry /\ x.src = msg[w]
        BY <3>1, <3>2 DEF Entry
      <3>4. dlq' = Append(dlq, x)
        BY <1>5, <2>3, <3>2 DEF DeadLetter, Goto, TypeOK, Saves, Answers, XAddDlq
      <3>5. Len(dlq') = Len(dlq) + 1 /\ dlq'[Len(dlq) + 1] = x
        BY <3>3, <3>4, AppendProperties DEF TypeOK, RedisTypeOK
      <3>6. Len(dlq) + 1 \in DOMAIN dlq'
        BY <3>5 DEF TypeOK, RedisTypeOK
      <3>. QED BY <3>1, <3>3, <3>5, <3>6 DEF Buried
    <2>4. CASE \/ Start(w) \/ EnsureGroup(w) \/ Claim(w) \/ Read(w) \/ TakeMessage(w)
               \/ Pipeline(w) \/ SendCallback(w) \/ Requeue(w) \/ FailureCallback(w)
               \/ Ack(w) \/ AckFailed(w) \/ Crash(w)
      <3>1. CASE TakeMessage(w)
        <4>1. \A e \in batch[w] : KindOf(e) \in Kinds
          <5>1. ASSUME NEW e \in batch[w] PROVE stream[e] \in Entry
            BY <5>1 DEF TypeOK, RedisTypeOK
          <5>2. ASSUME NEW e \in batch[w] PROVE Kind[stream[e].job] \in Kinds
            BY <5>1, ConsumerAssumption DEF Entry
          <5>. QED BY <5>2 DEF KindOf, JobOf
        <4>2. \A e \in batch[w] : KindOf(e) # "undecodable" => FirstStep(e) # "failureCallback"
          BY <4>1 DEF FirstStep, Kinds
        <4>. QED BY <1>5, <3>1, <4>2 DEF TakeMessage, Goto, AbandonToRead, TypeOK
      <3>2. CASE Read(w)
        BY <1>5, <3>2 DEF Read, Goto, TypeOK
      <3>3. CASE Start(w) \/ EnsureGroup(w) \/ Claim(w) \/ Pipeline(w) \/ SendCallback(w)
        BY <1>5, <3>3 DEF Start, EnsureGroup, Claim, Pipeline, SendCallback, FailedStep, Goto,
                          AbandonToRead, TypeOK
      <3>4. CASE Requeue(w) \/ FailureCallback(w) \/ Ack(w) \/ AckFailed(w) \/ Crash(w)
        BY <1>5, <3>4 DEF Requeue, FailureCallback, Ack, AckFailed, Crash, Goto, NextMessage,
                          AbandonToRead, TypeOK
      <3>. QED BY <2>4, <3>1, <3>2, <3>3, <3>4
    <2>5. CASE UNCHANGED <<workerVars, envVars>>
      BY <1>5, <2>1, <2>5 DEF workerVars
    <2>. QED BY <2>2, <2>3, <2>4, <2>5, NoWorkerMoves DEF Next, Step
  <1>. QED BY <1>4, <1>5 DEF FailureRecords, FailureIsOnRecord

\* The web app is never told of a failure that is not in the dead letter stream.
THEOREM FailuresAreOnRecord == Spec => []FailureIsOnRecord
  <1>1. Init => FailureRecords
    BY DEF Init, FailureRecords, FailureIsOnRecord
  <1>2. TypeOK /\ TypeOK' /\ Provenance /\ FailureRecords /\ [Next]_vars => FailureRecords'
    BY FailureRecordsStep
  <1>3. FailureRecords => FailureIsOnRecord
    BY DEF FailureRecords
  <1>. QED BY <1>1, <1>2, <1>3, TypeCorrect, ProvenanceHolds, PTL DEF Spec

-----------------------------------------------------------------------------
(***************************************************************************)
(* The refinement.  With a Redis that takes every command, every job with  *)
(* entries is open or settled, and a step moves at most one job.           *)
(***************************************************************************)
Covered ==
    /\ \A j \in Jobs : EntriesOf(j) # {} => j \in OpenJobs \cup SettledJobs
    /\ \A j \in OpenJobs \cup SettledJobs : EntriesOf(j) # {}

LEMMA JobsAreCovered ==
    ASSUME ReliableRedis, TypeOK, Provenance, LostOnlyKnownWays, NothingUnsaved
    PROVE  Covered
  <1>1. ASSUME NEW j \in Jobs, EntriesOf(j) # {} PROVE j \in OpenJobs \cup SettledJobs
    BY <1>1, LastEntryDecides DEF ReliableRedis, NothingUnsaved, OpenJobs, SettledJobs
  <1>2. ASSUME NEW j \in OpenJobs \cup SettledJobs PROVE EntriesOf(j) # {}
    BY <1>2 DEF OpenJobs, SettledJobs, JobSettled
  <1>. QED BY <1>1, <1>2 DEF Covered

\* A step that changes one of the two sets, for one job, without taking a
\* settled job back, is a step of the abstract queue.
LEMMA OneJobMoves ==
    ASSUME Covered, Covered', NEW j \in Jobs, EntriesOf(j) # {}, EntriesOf(j)' # {},
           OpenJobs' \ {j} = OpenJobs \ {j},
           SettledJobs' \ {j} = SettledJobs \ {j},
           SettledJobs \subseteq SettledJobs',
           OpenJobs' = OpenJobs \/ SettledJobs' = SettledJobs
    PROVE  [Queue!Next]_(Queue!jobVars)
  <1>1. j \in OpenJobs \cup SettledJobs /\ j \in OpenJobs' \cup SettledJobs'
    BY DEF Covered
  <1>2. CASE OpenJobs' = OpenJobs /\ SettledJobs' = SettledJobs
    BY <1>2 DEF Queue!jobVars
  <1>3. CASE OpenJobs' = OpenJobs /\ SettledJobs' # SettledJobs
    <2>1. Queue!Settle(j)
      BY <1>1, <1>3 DEF Queue!Settle
    <2>. QED BY <2>1 DEF Queue!Next
  <1>4. CASE SettledJobs' = SettledJobs /\ OpenJobs' # OpenJobs /\ j \in OpenJobs
    <2>1. Queue!Close(j)
      BY <1>1, <1>4 DEF Queue!Close
    <2>. QED BY <2>1 DEF Queue!Next
  <1>5. CASE SettledJobs' = SettledJobs /\ OpenJobs' # OpenJobs /\ j \notin OpenJobs
    <2>1. Queue!Reopen(j)
      BY <1>1, <1>5 DEF Queue!Reopen
    <2>. QED BY <2>1 DEF Queue!Next
  <1>. QED BY <1>2, <1>3, <1>4, <1>5

\* What the two sets depend on.
LEMMA JobsUnmoved ==
    /\ UNCHANGED stream => \A j : EntriesOf(j)' = EntriesOf(j)
    /\ UNCHANGED <<stream, pel, lastDelivered>> => OpenJobs' = OpenJobs
    /\ UNCHANGED <<stream, dlq, inbox>> => SettledJobs' = SettledJobs
  <1>1. UNCHANGED stream => \A j : EntriesOf(j)' = EntriesOf(j)
    BY DEF EntriesOf, Ids, JobOf
  <1>2. UNCHANGED <<pel, lastDelivered>> => \A e : Live(e)' = Live(e)
    BY DEF Live
  <1>3. UNCHANGED <<stream, pel, lastDelivered>> => OpenJobs' = OpenJobs
    BY <1>1, <1>2 DEF OpenJobs
  <1>4. UNCHANGED <<dlq, inbox>> => \A e : Succeeded(e)' = Succeeded(e) /\ Buried(e)' = Buried(e)
    BY DEF Succeeded, Buried
  <1>5. UNCHANGED <<stream, dlq, inbox>> => SettledJobs' = SettledJobs
    BY <1>1, <1>4 DEF SettledJobs, JobSettled
  <1>. QED BY <1>1, <1>3, <1>5

\* A new entry opens its job and settles none.
LEMMA NewEntryOpens ==
    ASSUME TypeOK, Provenance, NEW x \in Entry, XAddJob(x), UNCHANGED inbox
    PROVE  /\ EntriesOf(x.job)' # {}
           /\ OpenJobs' = OpenJobs \cup {x.job}
           /\ SettledJobs' = SettledJobs
  <1>. PICK N : N = Len(stream) + 1
    OBVIOUS
  <1>1. /\ Len(stream') = N
        /\ stream'[N] = x
        /\ \A e \in 1 .. Len(stream) : stream'[e] = stream[e]
        /\ Len(stream) \in Nat
    BY AppendProperties DEF XAddJob, TypeOK, RedisTypeOK
  <1>2. UNCHANGED <<dlq, pel, lastDelivered>> /\ lastDelivered \in 0 .. Len(stream)
    BY DEF XAddJob, TypeOK, RedisTypeOK
  <1>3. Ids' = Ids \cup {N} /\ N \notin Ids
    BY <1>1 DEF Ids
  <1>4. JobOf(N)' = x.job /\ \A e \in Ids : JobOf(e)' = JobOf(e)
    BY <1>1 DEF JobOf, Ids
  <1>5. \A k : EntriesOf(k)' = IF k = x.job THEN EntriesOf(k) \cup {N} ELSE EntriesOf(k)
    BY <1>3, <1>4 DEF EntriesOf
  <1>6. Live(N)' /\ \A e : Live(e)' = Live(e)
    BY <1>1, <1>2 DEF Live
  <1>7. ~ Succeeded(N) /\ ~ Buried(N)
    BY <1>1, <1>2 DEF Provenance, Succeeded, Buried
  <1>8. \A e : Succeeded(e)' = Succeeded(e) /\ Buried(e)' = Buried(e)
    BY <1>2 DEF Succeeded, Buried
  <1>9. OpenJobs' = OpenJobs \cup {x.job}
    BY <1>5, <1>6 DEF OpenJobs, Entry
  <1>10. SettledJobs' = SettledJobs
    BY <1>5, <1>7, <1>8 DEF SettledJobs, JobSettled
  <1>. QED BY <1>5, <1>9, <1>10

\* A record of the outcome of entry m settles the job of m, or changes nothing.
LEMMA RecordSettles ==
    ASSUME NEW m \in Ids, UNCHANGED stream,
           \A e \in Ids : Succeeded(e) => Succeeded(e)',
           \A e \in Ids : Buried(e) => Buried(e)',
           \A e \in Ids \ {m} : Succeeded(e)' => Succeeded(e),
           \A e \in Ids \ {m} : Buried(e)' => Buried(e)
    PROVE  /\ SettledJobs \subseteq SettledJobs'
           /\ SettledJobs' \ {JobOf(m)} = SettledJobs \ {JobOf(m)}
  <1>1. \A k : EntriesOf(k)' = EntriesOf(k) /\ EntriesOf(k) \subseteq Ids
    BY JobsUnmoved DEF EntriesOf
  <1>2. \A k : JobSettled(k) => JobSettled(k)'
    BY <1>1 DEF JobSettled
  <1>3. \A k : k # JobOf(m) => m \notin EntriesOf(k)
    BY DEF EntriesOf
  <1>4. \A k : k # JobOf(m) /\ JobSettled(k)' => JobSettled(k)
    BY <1>1, <1>3 DEF JobSettled
  <1>. QED BY <1>2, <1>4 DEF SettledJobs

LEMMA QueueStep ==
    ASSUME TypeOK, TypeOK', Provenance, Covered, Covered', [Next]_vars
    PROVE  [Queue!Next]_(Queue!jobVars)
  <1>. DEFINE Goal == [Queue!Next]_(Queue!jobVars)
  <1>1. Grows
    BY StepGrows
  <1>2. ASSUME UNCHANGED <<stream, dlq, inbox, pel, lastDelivered>> PROVE Goal
    BY <1>2, JobsUnmoved DEF Queue!jobVars
  <1>3. ASSUME NEW j \in Jobs, Enqueue(j) PROVE Goal
    <2>1. PICK x \in Entry : x.job = j /\ XAddJob(x)
      BY <1>3, ConsumerAssumption DEF Enqueue, Entry
    <2>2. OpenJobs' = OpenJobs \cup {j} /\ SettledJobs' = SettledJobs
      BY <1>3, <2>1, NewEntryOpens DEF Enqueue, envVars
    <2>3. EntriesOf(j) = {}
      BY <1>3 DEF Enqueue, EntriesOf
    <2>4. j \notin OpenJobs \cup SettledJobs
      BY <2>3 DEF Covered
    <2>5. Queue!Submit(j)
      BY <2>2, <2>4 DEF Queue!Submit
    <2>. QED BY <2>5 DEF Queue!Next
  <1>4. ASSUME NEW w \in Workers, pc[w] \notin Idle
        PROVE  /\ msg[w] \in Ids
               /\ JobOf(msg[w]) \in Jobs
               /\ EntriesOf(JobOf(msg[w])) # {}
    <2>1. msg[w] \in Ids /\ stream[msg[w]] \in Entry
      BY <1>4, HandledEntry
    <2>. QED BY <2>1 DEF Entry, JobOf, EntriesOf
  <1>5. ASSUME NEW w \in Workers, Requeue(w) PROVE Goal
    <2>1. CASE UNCHANGED redisVars
      BY <1>2, <1>5, <2>1 DEF Requeue, redisVars
    <2>2. CASE ~ UNCHANGED redisVars
      <3>1. pc[w] \notin Idle /\ UNCHANGED inbox
        BY <1>5 DEF Requeue, Idle
      <3>2. stream[msg[w]] \in Entry /\ msg[w] \in Nat
        <4>1. msg[w] \in Ids /\ stream[msg[w]] \in Entry
          BY <3>1, HandledEntry
        <4>. QED BY <4>1 DEF Ids
      <3>3. PICK x \in Entry : x.job = JobOf(msg[w]) /\ XAddJob(x)
        <4>. DEFINE entry == [job |-> JobOf(msg[w]),
                              attempt |-> stream[msg[w]].attempt + 1,
                              src |-> msg[w]]
        <4>1. entry \in Entry /\ entry.job = JobOf(msg[w])
          BY <3>2 DEF Entry, JobOf
        <4>2. XAddJob(entry)
          BY <1>5, <2>2 DEF Requeue, Saves, SaveRaises, Answers
        <4>. QED BY <4>1, <4>2
      <3>4. /\ OpenJobs' = OpenJobs \cup {JobOf(msg[w])}
            /\ SettledJobs' = SettledJobs
            /\ EntriesOf(x.job)' # {}
        BY <3>1, <3>3, NewEntryOpens
      <3>5. PICK j \in Jobs : j = JobOf(msg[w])
        BY <1>4, <3>1
      <3>6. EntriesOf(j) # {} /\ EntriesOf(j)' # {}
        <4>1. EntriesOf(j) # {}
          BY <1>4, <3>1, <3>5
        <4>2. EntriesOf(j)' # {}
          BY <3>4, <3>5 DEF Covered
        <4>. QED BY <4>1, <4>2
      <3>. QED BY <3>4, <3>5, <3>6, OneJobMoves
    <2>. QED BY <2>1, <2>2
  <1>6. ASSUME NEW w \in Workers, SendCallback(w) \/ FailureCallback(w) \/ DeadLetter(w) PROVE Goal
    <2>1. pc[w] \notin Idle /\ UNCHANGED <<stream, pel, lastDelivered>>
      BY <1>6 DEF SendCallback, FailureCallback, DeadLetter, Idle, Saves, SaveRaises, Answers,
                  XAddDlq, redisVars
    <2>2. PICK m \in Ids : m = msg[w]
      BY <1>4, <2>1
    <2>3. \A e \in Ids \ {m} : Succeeded(e)' => Succeeded(e)
      <3>1. CASE UNCHANGED inbox
        BY <3>1 DEF Succeeded
      <3>2. CASE ~ UNCHANGED inbox
        <4>1. PICK o \in {"success", "unseenSuccess", "failure"} :
                 inbox' = Append(inbox, [src |-> m, outcome |-> o])
          BY <1>6, <2>2, <3>2 DEF SendCallback, FailureCallback, DeadLetter, Post
        <4>2. [src |-> m, outcome |-> o] \in Call
          BY <2>2 DEF Call, Ids
        <4>3. /\ Len(inbox') = Len(inbox) + 1
              /\ inbox'[Len(inbox) + 1].src = m
              /\ \A i \in 1 .. Len(inbox) : inbox'[i] = inbox[i]
          BY <4>1, <4>2, AppendProperties DEF TypeOK
        <4>4. DOMAIN inbox = 1 .. Len(inbox) /\ DOMAIN inbox' = 1 .. Len(inbox') /\ Len(inbox) \in Nat
          BY DEF TypeOK
        <4>. QED BY <4>3, <4>4 DEF Succeeded
      <3>. QED BY <3>1, <3>2
    <2>4. \A e \in Ids \ {m} : Buried(e)' => Buried(e)
      <3>1. CASE UNCHANGED dlq
        BY <3>1 DEF Buried
      <3>2. CASE ~ UNCHANGED dlq
        <4>1. PICK x : x = [stream[m] EXCEPT !.src = m]
          OBVIOUS
        <4>2. x \in Entry /\ x.src = m
          <5>1. stream[m] \in Entry /\ m \in Nat
            BY DEF Ids, TypeOK, RedisTypeOK
          <5>. QED BY <4>1, <5>1 DEF Entry
        <4>3. dlq' = Append(dlq, x)
          BY <1>6, <2>2, <3>2, <4>1 DEF SendCallback, FailureCallback, DeadLetter, Saves, SaveRaises,
                                        Answers, XAddDlq, redisVars
        <4>4. /\ Len(dlq') = Len(dlq) + 1
              /\ dlq'[Len(dlq) + 1].src = m
              /\ \A i \in 1 .. Len(dlq) : dlq'[i] = dlq[i]
          BY <4>2, <4>3, AppendProperties DEF TypeOK, RedisTypeOK
        <4>5. DOMAIN dlq = 1 .. Len(dlq) /\ DOMAIN dlq' = 1 .. Len(dlq') /\ Len(dlq) \in Nat
          BY DEF TypeOK, RedisTypeOK
        <4>. QED BY <4>4, <4>5 DEF Buried
      <3>. QED BY <3>1, <3>2
    <2>5. \A e \in Ids : (Succeeded(e) => Succeeded(e)') /\ (Buried(e) => Buried(e)')
      BY <1>1, RecordsStay
    <2>6. PICK j \in Jobs : j = JobOf(m) /\ EntriesOf(j) # {} /\ EntriesOf(j)' # {}
      <3>1. JobOf(m) \in Jobs /\ EntriesOf(JobOf(m)) # {}
        BY <1>4, <2>1, <2>2
      <3>2. \A k : EntriesOf(k)' = EntriesOf(k)
        BY <2>1, JobsUnmoved
      <3>. QED BY <3>1, <3>2
    <2>7. SettledJobs \subseteq SettledJobs' /\ SettledJobs' \ {j} = SettledJobs \ {j}
      BY <2>1, <2>3, <2>4, <2>5, <2>6, RecordSettles
    <2>8. OpenJobs' = OpenJobs
      BY <2>1, JobsUnmoved
    <2>. QED BY <2>6, <2>7, <2>8, OneJobMoves
  <1>7. ASSUME NEW w \in Workers, Ack(w) \/ AckFailed(w) PROVE Goal
    <2>1. CASE UNCHANGED redisVars
      BY <1>2, <1>7, <2>1 DEF Ack, AckFailed, redisVars
    <2>2. CASE ~ UNCHANGED redisVars
      <3>1. pc[w] \notin Idle /\ XAck(msg[w]) /\ UNCHANGED <<stream, dlq, inbox, lastDelivered>>
        BY <1>7, <2>2 DEF Ack, AckFailed, Answers, Raises, XAck, Idle
      <3>2. PICK m \in Ids : m = msg[w]
        BY <1>4, <3>1
      <3>3. SettledJobs' = SettledJobs /\ \A k : EntriesOf(k)' = EntriesOf(k)
        BY <3>1, JobsUnmoved
      <3>4. \A e : e # m => Live(e)' = Live(e)
        BY <3>1, <3>2 DEF XAck, Live
      <3>5. \A k : k # JobOf(m) => m \notin EntriesOf(k)
        BY DEF EntriesOf
      <3>6. PICK j \in Jobs : j = JobOf(m) /\ EntriesOf(j) # {} /\ EntriesOf(j)' # {}
        <4>1. JobOf(m) \in Jobs /\ EntriesOf(JobOf(m)) # {}
          BY <1>4, <3>1, <3>2
        <4>. QED BY <3>3, <4>1
      <3>7. OpenJobs' \ {j} = OpenJobs \ {j}
        BY <3>3, <3>4, <3>5, <3>6 DEF OpenJobs
      <3>. QED BY <3>3, <3>6, <3>7, OneJobMoves
    <2>. QED BY <2>1, <2>2
  <1>8. ASSUME NEW w \in Workers, Read(w) PROVE Goal
    <2>1. UNCHANGED <<stream, dlq, inbox>>
      BY <1>8 DEF Read, Answers, Raises, XReadGroup, redisVars
    <2>2. CASE UNCHANGED <<pel, lastDelivered>>
      BY <1>2, <2>1, <2>2
    <2>3. CASE ~ UNCHANGED <<pel, lastDelivered>>
      <3>1. pel' = pel \cup {lastDelivered + 1} /\ lastDelivered' = lastDelivered + 1
        BY <1>8, <2>3 DEF Read, Answers, Raises, XReadGroup, NextUndelivered, redisVars
      <3>2. \A e \in Ids : Live(e)' = Live(e)
        BY <3>1 DEF Live, Ids, TypeOK, RedisTypeOK
      <3>3. \A k : EntriesOf(k)' = EntriesOf(k) /\ EntriesOf(k) \subseteq Ids
        BY <2>1, JobsUnmoved DEF EntriesOf
      <3>4. OpenJobs' = OpenJobs
        BY <3>2, <3>3 DEF OpenJobs
      <3>5. SettledJobs' = SettledJobs
        BY <2>1, JobsUnmoved
      <3>. QED BY <3>4, <3>5 DEF Queue!jobVars
    <2>. QED BY <2>2, <2>3
  <1>9. ASSUME NEW w \in Workers, \/ Start(w) \/ EnsureGroup(w) \/ Claim(w) \/ TakeMessage(w)
                                  \/ Pipeline(w) \/ Crash(w)
        PROVE  UNCHANGED <<stream, dlq, inbox, pel, lastDelivered>>
    <2>1. CASE EnsureGroup(w)
      BY <2>1 DEF EnsureGroup, Answers, Raises, XGroupCreate, redisVars, TypeOK, RedisTypeOK
    <2>. QED BY <1>9, <2>1 DEF Start, Claim, TakeMessage, Pipeline, Crash, Answers, Raises, XAutoClaim,
                               redisVars, envVars
  <1>10. ASSUME (\E e \in pel : Age(e)) \/ UNCHANGED vars
         PROVE  UNCHANGED <<stream, dlq, inbox, pel, lastDelivered>>
    BY <1>10 DEF Age, BecomeStale, vars, redisVars, envVars
  <1>. QED BY <1>2, <1>3, <1>5, <1>6, <1>7, <1>8, <1>9, <1>10 DEF Next, Step

\* With a Redis that takes every command, and payloads that handle_job saves
\* when it gives up on them, the consumer implements the abstract queue: a job
\* leaves the stream only when it is settled, whatever crashes, is reclaimed or
\* retried, and for any number of workers.
THEOREM ImplementsTheQueue == ReliableRedis => (Spec => ImplementsJobQueue)
  <1>. SUFFICES ASSUME ReliableRedis PROVE Spec => ImplementsJobQueue
    OBVIOUS
  <1>1. Init => Queue!Init
    BY DEF Init, RedisInit, Queue!Init, OpenJobs, SettledJobs, JobSettled, EntriesOf, Ids
  <1>2. TypeOK /\ Provenance /\ LostOnlyKnownWays /\ NothingUnsaved => Covered
    BY JobsAreCovered
  <1>3. TypeOK /\ TypeOK' /\ Provenance /\ Covered /\ Covered' /\ [Next]_vars
            => [Queue!Next]_(Queue!jobVars)
    BY QueueStep
  <1>4. Spec => [](LostOnlyKnownWays /\ AccountedBeforeAck)
    BY LossIsAccountedFor
  <1>5. Spec => []NothingUnsaved
    BY NothingIsUnsaved
  <1>. QED BY <1>1, <1>2, <1>3, <1>4, <1>5, TypeCorrect, ProvenanceHolds, PTL
           DEF Spec, ImplementsJobQueue, Queue!Spec
=============================================================================
