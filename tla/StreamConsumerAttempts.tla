----------------------- MODULE StreamConsumerAttempts -----------------------
(***************************************************************************)
(* The attempts of a job: a job that XAUTOCLAIM never touched has one line *)
(* of attempts which a seen success or a dead letter ends, and no valid    *)
(* job is dead-lettered before its attempts are used up, for any number of *)
(* jobs, workers, crashes and Redis faults.                                *)
(***************************************************************************)
EXTENDS StreamConsumerRefinement

\* An entry that may still be answered: not delivered, waiting in a batch, or
\* in the hands of a worker that has not recorded an outcome for it.
Deciding == {"pipeline", "callback", "requeue", "deadLetter"}
DecidedBy(w, e) == msg[w] = e /\ pc[w] \in Deciding
InPlay(e) == e > lastDelivered \/ \E w \in Workers : e \in batch[w] \/ DecidedBy(w, e)

\* A step brings no entry into play but one it appends to the stream or claims.
LEMMA PlayNarrows ==
    ASSUME TypeOK, TypeOK', [Next]_vars, NEW e \in Ids, e \notin claimed', InPlay(e)'
    PROVE  InPlay(e)
  <1>1. RedisGrows /\ lastDelivered \in Nat /\ lastDelivered' \in Nat /\ e \in Nat
    BY StepGrows DEF Grows, TypeOK, RedisTypeOK, Ids
  <1>2. CASE e > lastDelivered'
    BY <1>1, <1>2 DEF InPlay, RedisGrows
  <1>3. ASSUME NEW w \in Workers, (e \in batch[w])' \/ DecidedBy(w, e)'
        PROVE  InPlay(e)
    <2>1. CASE UNCHANGED workerVars
      BY <1>3, <2>1 DEF InPlay, DecidedBy, workerVars
    <2>2. ASSUME NEW v \in Workers \ {w}, Step(v) \/ Crash(v) PROVE InPlay(e)
      BY <1>3, <2>2, OtherWorkersStay DEF InPlay, DecidedBy
    <2>3. CASE Claim(w)
      BY <1>3, <2>3
         DEF Claim, Goto, AbandonToRead, Answers, XAutoClaim, DecidedBy, Deciding, TypeOK
    <2>4. CASE Read(w)
      <3>1. pc'[w] \notin Deciding
        BY <2>4 DEF Read, Goto, Deciding, TypeOK
      <3>2. e \in batch[w] \/ e = lastDelivered + 1
        BY <1>3, <2>4, <3>1 DEF Read, DecidedBy, NextUndelivered, TypeOK
      <3>. QED BY <1>1, <3>2 DEF InPlay
    <2>5. CASE TakeMessage(w)
      <3>1. e \in batch[w] \/ DecidedBy(w, e)
        BY <1>3, <2>5 DEF TakeMessage, Goto, AbandonToRead, DecidedBy, Deciding, TypeOK
      <3>. QED BY <3>1 DEF InPlay
    <2>6. CASE Pipeline(w) \/ SendCallback(w) \/ Requeue(w) \/ DeadLetter(w) \/ FailureCallback(w)
      <3>1. batch'[w] = batch[w] /\ msg'[w] = msg[w]
        BY <2>6 DEF Pipeline, SendCallback, Requeue, DeadLetter, FailureCallback
      <3>2. pc'[w] \in Deciding => pc[w] \in Deciding
        BY <2>6 DEF Pipeline, SendCallback, Requeue, DeadLetter, FailureCallback, Goto, Deciding, TypeOK
      <3>. QED BY <1>3, <3>1, <3>2 DEF InPlay, DecidedBy
    <2>7. CASE Start(w) \/ EnsureGroup(w) \/ Ack(w) \/ AckFailed(w) \/ Crash(w)
      <3>1. batch'[w] \subseteq batch[w] /\ pc'[w] \notin Deciding
        BY <2>7 DEF Start, EnsureGroup, Ack, AckFailed, Crash, Goto, NextMessage, AbandonToRead,
                    Deciding, TypeOK
      <3>. QED BY <1>3, <3>1 DEF InPlay, DecidedBy
    <2>. QED BY <2>1, <2>2, <2>3, <2>4, <2>5, <2>6, <2>7, NoWorkerMoves DEF Next, Step
  <1>. QED BY <1>2, <1>3 DEF InPlay

\* Once the outcome of an unclaimed entry is on record the entry is out of play:
\* nobody else holds it and it does not wait in the worker's own batch.
LEMMA PlayEnds ==
    ASSUME TypeOK, TypeOK', Ownership, NEW w \in Workers, Step(w), [Next]_vars,
           pc[w] \in Deciding, msg'[w] = msg[w], batch'[w] = batch[w],
           pc'[w] \notin Deciding, msg[w] \notin claimed
    PROVE  ~ InPlay(msg[w])'
  <1>1. msg[w] \in 1 .. lastDelivered /\ msg[w] \in Held(w)
    BY HandledEntry DEF Deciding, Idle, Held
  <1>2. ~ (msg[w] > lastDelivered')
    BY <1>1, StepGrows DEF Grows, RedisGrows, TypeOK, RedisTypeOK
  <1>3. PICK e : e = msg[w]
    OBVIOUS
  <1>4. ASSUME NEW v \in Workers PROVE ~ (e \in batch'[v] \/ (msg'[v] = e /\ pc'[v] \in Deciding))
    <2>1. CASE v = w
      BY <1>3, <2>1 DEF Ownership
    <2>2. CASE v # w
      <3>1. pc'[v] = pc[v] /\ msg'[v] = msg[v] /\ batch'[v] = batch[v]
        BY <2>2, OtherWorkersStay
      <3>2. e \notin Held(v)
        BY <1>1, <1>3, <2>2 DEF Ownership, ExclusiveUnlessClaimed
      <3>3. e # 0
        BY <1>1, <1>3 DEF TypeOK, RedisTypeOK
      <3>. QED BY <3>1, <3>2, <3>3 DEF Held
    <2>. QED BY <2>1, <2>2
  <1>. QED BY <1>2, <1>3, <1>4 DEF InPlay, DecidedBy

-----------------------------------------------------------------------------
\* The entry the worker's next XADD to the job stream would add.
NextAttempt(w) == [job |-> JobOf(msg[w]), attempt |-> stream[msg[w]].attempt + 1, src |-> msg[w]]
DeadCopy(w) == [job |-> JobOf(msg[w]), attempt |-> stream[msg[w]].attempt, src |-> msg[w]]
Report(w, o) == [src |-> msg[w], outcome |-> o]

\* Which action appends to the stream, the dead letter stream and the inbox.
LEMMA WhoAppends ==
    ASSUME TypeOK, [Next]_vars
    PROVE  /\ \/ stream' = stream
              \/ \E j \in Jobs, a \in Int :
                    /\ EntriesOf(j) = {}
                    /\ stream' = Append(stream, [job |-> j, attempt |-> a, src |-> 0])
              \/ \E w \in Workers : Requeue(w) /\ stream' = Append(stream, NextAttempt(w))
           /\ \/ dlq' = dlq
              \/ \E w \in Workers : DeadLetter(w) /\ dlq' = Append(dlq, DeadCopy(w)) /\ stream' = stream
           /\ \/ inbox' = inbox
              \/ \E w \in Workers : SendCallback(w) /\ pc'[w] = "ack"
                                    /\ inbox' = Append(inbox, Report(w, "success")) /\ stream' = stream
              \/ \E w \in Workers : SendCallback(w) /\ inbox' = Append(inbox, Report(w, "unseenSuccess"))
              \/ \E w \in Workers : FailureCallback(w) /\ inbox' = Append(inbox, Report(w, "failure"))
  <1>. USE DEF NextAttempt, Report
  <1>. DEFINE Added == \/ stream' = stream
                       \/ \E j \in Jobs, a \in Int :
                             /\ EntriesOf(j) = {}
                             /\ stream' = Append(stream, [job |-> j, attempt |-> a, src |-> 0])
                       \/ \E w \in Workers : Requeue(w) /\ stream' = Append(stream, NextAttempt(w))
              Buries == \/ dlq' = dlq
                        \/ \E w \in Workers :
                              DeadLetter(w) /\ dlq' = Append(dlq, DeadCopy(w)) /\ stream' = stream
              Posted == \/ inbox' = inbox
                        \/ \E w \in Workers : SendCallback(w) /\ pc'[w] = "ack"
                              /\ inbox' = Append(inbox, Report(w, "success")) /\ stream' = stream
                        \/ \E w \in Workers : SendCallback(w) /\ inbox' = Append(inbox, Report(w, "unseenSuccess"))
                        \/ \E w \in Workers : FailureCallback(w) /\ inbox' = Append(inbox, Report(w, "failure"))
  <1>1. ASSUME NEW j \in Jobs, Enqueue(j) PROVE Added /\ Buries /\ Posted
    <2>1. EntriesOf(j) = {}
      BY <1>1 DEF Enqueue, EntriesOf
    <2>2. PICK a \in InitialAttempts : XAddJob([job |-> j, attempt |-> a, src |-> 0])
      BY <1>1 DEF Enqueue
    <2>3. a \in Int
      BY ConsumerAssumption
    <2>4. stream' = Append(stream, [job |-> j, attempt |-> a, src |-> 0]) /\ dlq' = dlq
      BY <2>2 DEF XAddJob
    <2>5. inbox' = inbox
      BY <1>1 DEF Enqueue, envVars
    <2>. QED BY <2>1, <2>3, <2>4, <2>5
  <1>2. ASSUME NEW w \in Workers, Requeue(w) PROVE Added /\ Buries /\ Posted
    BY <1>2 DEF Requeue, Saves, SaveRaises, Answers, XAddJob, redisVars
  <1>3. ASSUME NEW w \in Workers, DeadLetter(w) PROVE Added /\ Buries /\ Posted
    <2>1. stream[msg[w]] \in Entry
      BY <1>3, HandledEntry DEF DeadLetter, Idle
    <2>2. PICK x : x = [stream[msg[w]] EXCEPT !.src = msg[w]]
      OBVIOUS
    <2>3. x = DeadCopy(w)
      BY <2>1, <2>2 DEF Entry, DeadCopy, JobOf
    <2>4. stream' = stream /\ (dlq' = dlq \/ dlq' = Append(dlq, x)) /\ inbox' = inbox
      BY <1>3, <2>2 DEF DeadLetter, Saves, SaveRaises, Answers, XAddDlq, redisVars
    <2>. QED BY <1>3, <2>3, <2>4
  <1>4. ASSUME NEW w \in Workers, SendCallback(w) PROVE Added /\ Buries /\ Posted
    <2>1. stream' = stream /\ dlq' = dlq
      BY <1>4 DEF SendCallback, redisVars
    <2>2. \/ Post(w, "success") /\ pc'[w] = "ack"
          \/ Post(w, "unseenSuccess") \/ inbox' = inbox
      BY <1>4 DEF SendCallback, Goto, TypeOK
    <2>. QED BY <1>4, <2>1, <2>2 DEF Post
  <1>5. ASSUME NEW w \in Workers, FailureCallback(w) PROVE Added /\ Buries /\ Posted
    BY <1>5 DEF FailureCallback, Post, redisVars
  <1>6. ASSUME NEW w \in Workers,
               \/ Start(w) \/ EnsureGroup(w) \/ Claim(w) \/ Read(w) \/ TakeMessage(w)
               \/ Pipeline(w) \/ Ack(w) \/ AckFailed(w) \/ Crash(w)
        PROVE  UNCHANGED <<stream, dlq, inbox>>
    BY <1>6 DEF Start, EnsureGroup, Claim, Read, TakeMessage, Pipeline, Ack, AckFailed, Crash,
                Answers, Raises, XGroupCreate, XAutoClaim, XReadGroup, XAck, redisVars, envVars
  <1>7. ASSUME (\E e \in pel : Age(e)) \/ UNCHANGED vars PROVE UNCHANGED <<stream, dlq, inbox>>
    BY <1>7 DEF Age, BecomeStale, vars, redisVars, envVars
  <1>. QED BY <1>1, <1>2, <1>3, <1>4, <1>5, <1>6, <1>7 DEF Next, Step

\* The entries of each job after an append, and after a step without one.
LEMMA EntriesAfterAppend ==
    ASSUME TypeOK, NEW x \in Entry, stream' = Append(stream, x)
    PROVE  /\ stream'[Len(stream) + 1] = x
           /\ Len(stream) + 1 \notin Ids
           /\ \A e \in Ids : stream'[e] = stream[e] /\ e < Len(stream) + 1
           /\ \A j : EntriesOf(j)' = EntriesOf(j) \cup (IF x.job = j THEN {Len(stream) + 1} ELSE {})
  <1>1. /\ Len(stream') = Len(stream) + 1
        /\ stream'[Len(stream) + 1] = x
        /\ \A i \in 1 .. Len(stream) : stream'[i] = stream[i]
    BY AppendProperties DEF TypeOK, RedisTypeOK
  <1>2. Len(stream) \in Nat
    BY DEF TypeOK, RedisTypeOK
  <1>3. Ids' = Ids \cup {Len(stream) + 1} /\ Len(stream) + 1 \notin Ids
    BY <1>1, <1>2 DEF Ids
  <1>4. \A e \in Ids : stream'[e] = stream[e] /\ e < Len(stream) + 1
    BY <1>1, <1>2 DEF Ids
  <1>. QED BY <1>1, <1>3, <1>4 DEF EntriesOf, JobOf

LEMMA EntriesStay ==
    ASSUME TypeOK, [Next]_vars
    PROVE  /\ \A e \in Ids : e \in Ids' /\ stream'[e] = stream[e] /\ JobOf(e)' = JobOf(e)
           /\ \A j : EntriesOf(j) \subseteq EntriesOf(j)'
           /\ \A j : Undisturbed(j)' => Undisturbed(j)
           /\ stream' = stream => \A j : EntriesOf(j)' = EntriesOf(j)
  <1>1. RedisGrows
    BY StepGrows DEF Grows
  <1>2. \A e \in Ids : e \in Ids' /\ stream'[e] = stream[e]
    BY <1>1 DEF RedisGrows, Extends, Ids, TypeOK, RedisTypeOK
  <1>3. \A e \in Ids : JobOf(e)' = JobOf(e)
    BY <1>2 DEF JobOf
  <1>4. \A j : EntriesOf(j) \subseteq EntriesOf(j)'
    BY <1>2, <1>3 DEF EntriesOf
  <1>5. \A j : Undisturbed(j)' => Undisturbed(j)
    BY <1>1, <1>4 DEF Undisturbed, RedisGrows
  <1>6. stream' = stream => \A j : EntriesOf(j)' = EntriesOf(j)
    BY DEF EntriesOf, Ids, JobOf
  <1>. QED BY <1>2, <1>3, <1>4, <1>5, <1>6

LEMMA AppendedRecord ==
    ASSUME NEW S, NEW s \in Seq(S), NEW x \in S
    PROVE  /\ \A i \in DOMAIN Append(s, x) :
                  \/ i \in DOMAIN s /\ Append(s, x)[i] = s[i] /\ i < Len(s) + 1
                  \/ i = Len(s) + 1 /\ Append(s, x)[i] = x
           /\ Len(s) + 1 \in DOMAIN Append(s, x)
  <1>. DEFINE t == Append(s, x)
  <1>1. /\ t \in Seq(S) /\ Len(t) = Len(s) + 1 /\ t[Len(s) + 1] = x
        /\ \A i \in 1 .. Len(s) : t[i] = s[i]
    BY AppendProperties
  <1>2. DOMAIN t = 1 .. Len(t) /\ DOMAIN s = 1 .. Len(s) /\ Len(s) \in Nat
    BY <1>1
  <1>. HIDE DEF t
  <1>3. /\ \A i \in DOMAIN t : \/ i \in DOMAIN s /\ t[i] = s[i] /\ i < Len(s) + 1
                               \/ i = Len(s) + 1 /\ t[i] = x
        /\ Len(s) + 1 \in DOMAIN t
    BY <1>1, <1>2
  <1>. QED BY <1>3 DEF t

-----------------------------------------------------------------------------
\* A dead letter is the copy of the entry it was written for.
DeadLettersFit ==
    \A d \in DOMAIN dlq : /\ dlq[d].job = JobOf(dlq[d].src)
                          /\ dlq[d].attempt = stream[dlq[d].src].attempt

LEMMA DeadLettersFitStep ==
    ASSUME TypeOK, TypeOK', Provenance, DeadLettersFit, [Next]_vars
    PROVE  DeadLettersFit'
  <1>1. 1 .. lastDelivered \subseteq Ids
    BY DEF Ids, TypeOK, RedisTypeOK
  <1>2. ASSUME NEW d \in DOMAIN dlq, dlq'[d] = dlq[d]
        PROVE  dlq'[d].job = JobOf(dlq[d].src)' /\ dlq'[d].attempt = stream'[dlq'[d].src].attempt
    <2>1. dlq[d].src \in Ids
      BY <1>1 DEF Provenance
    <2>. QED BY <1>2, <2>1, EntriesStay DEF DeadLettersFit, JobOf
  <1>3. CASE dlq' = dlq
    BY <1>2, <1>3 DEF DeadLettersFit
  <1>4. ASSUME NEW w \in Workers, DeadLetter(w), dlq' = Append(dlq, DeadCopy(w)), stream' = stream
        PROVE  DeadLettersFit'
    <2>1. PICK x : x = DeadCopy(w)
      OBVIOUS
    <2>2. x \in Entry /\ x.src = msg[w] /\ x.job = JobOf(msg[w]) /\ x.attempt = stream[msg[w]].attempt
      <3>1. stream[msg[w]] \in Entry /\ msg[w] \in Nat
        BY <1>4, HandledEntry DEF DeadLetter, Idle, Ids
      <3>. QED BY <2>1, <3>1 DEF DeadCopy, Entry, JobOf
    <2>3. dlq \in Seq(Entry)
      BY DEF TypeOK, RedisTypeOK
    <2>4. ASSUME NEW d \in DOMAIN dlq'
          PROVE  dlq'[d].job = JobOf(dlq[d].src)' /\ dlq'[d].attempt = stream'[dlq'[d].src].attempt
      <3>1. \/ d \in DOMAIN dlq /\ dlq'[d] = dlq[d]
            \/ dlq'[d] = x
        BY <1>4, <2>1, <2>2, <2>3, AppendedRecord
      <3>2. CASE dlq'[d] = x
        BY <1>4, <2>2, <3>2 DEF JobOf
      <3>. QED BY <1>2, <3>1, <3>2
    <2>. QED BY <2>4 DEF DeadLettersFit
  <1>. QED BY <1>3, <1>4, WhoAppends

-----------------------------------------------------------------------------
\* A job is decided once it has a dead letter or a success its worker saw.
HasDeadLetter(j) == \E d \in DOMAIN dlq : dlq[d].job = j
IsSeenSuccess(i) == inbox[i].outcome = "success"
HasSeenSuccess(j) == \E i \in DOMAIN inbox : JobOf(inbox[i].src) = j /\ IsSeenSuccess(i)
Decided(j) == HasDeadLetter(j) \/ HasSeenSuccess(j)

\* Of a job that was never reclaimed only the last entry can be in play, and
\* none once the job is decided.
OnlyLastInPlay(j) == \A e, f \in EntriesOf(j) : InPlay(e) => f <= e
OutOfPlay(j) == \A e \in EntriesOf(j) : ~ InPlay(e)
PlayInv == \A j \in Jobs : Undisturbed(j) =>
               /\ OnlyLastInPlay(j)
               /\ Decided(j) => OutOfPlay(j)

LEMMA DecidedHasEntries ==
    ASSUME TypeOK, Provenance, DeadLettersFit, NEW j \in Jobs, Decided(j)
    PROVE  EntriesOf(j) # {}
  <1>1. 1 .. lastDelivered \subseteq Ids
    BY DEF Ids, TypeOK, RedisTypeOK
  <1>. QED BY <1>1 DEF Decided, HasDeadLetter, HasSeenSuccess, Provenance, DeadLettersFit, EntriesOf

\* The worker that requeues, dead-letters or reports an entry has it in play.
LEMMA HandlerInPlay ==
    ASSUME TypeOK, NEW w \in Workers, pc[w] \in Deciding
    PROVE  InPlay(msg[w]) /\ msg[w] \in EntriesOf(JobOf(msg[w])) /\ msg[w] \in Ids
                /\ JobOf(msg[w]) \in Jobs
  <1>1. msg[w] \in Ids /\ stream[msg[w]] \in Entry
    BY HandledEntry DEF Deciding, Idle
  <1>. QED BY <1>1 DEF InPlay, DecidedBy, EntriesOf, JobOf, Entry

\* It takes it out of play by recording its outcome.
LEMMA OutcomeEndsPlay ==
    ASSUME TypeOK, TypeOK', Ownership, [Next]_vars, NEW w \in Workers,
           \/ Requeue(w) \/ DeadLetter(w)
           \/ SendCallback(w) /\ pc'[w] = "ack",
           Undisturbed(JobOf(msg[w]))
    PROVE  /\ ~ InPlay(msg[w])'
           /\ pc[w] \in Deciding
  <1>1. /\ pc[w] \in Deciding /\ pc'[w] \notin Deciding
        /\ msg'[w] = msg[w] /\ batch'[w] = batch[w] /\ Step(w)
    BY DEF Requeue, DeadLetter, SendCallback, Deciding, Goto, TypeOK, Step
  <1>2. msg[w] \notin claimed
    BY <1>1, HandlerInPlay DEF Undisturbed
  <1>. QED BY <1>1, <1>2, PlayEnds

\* What a step adds to the entries of a job that stays unclaimed: nothing, its
\* first entry, or a retry of the entry in play.
LEMMA NewEntry ==
    ASSUME TypeOK, TypeOK', Ownership, [Next]_vars, NEW j \in Jobs, Undisturbed(j)'
    PROVE  \/ EntriesOf(j)' = EntriesOf(j)
           \/ EntriesOf(j) = {} /\ EntriesOf(j)' = {Len(stream) + 1}
           \/ \E m \in EntriesOf(j) :
                /\ EntriesOf(j)' = EntriesOf(j) \cup {Len(stream) + 1}
                /\ stream'[Len(stream) + 1].attempt = stream[m].attempt + 1
                /\ InPlay(m)
                /\ ~ InPlay(m)'
  <1>1. Undisturbed(j)
    BY EntriesStay
  <1>2. CASE stream' = stream
    BY <1>2, EntriesStay
  <1>3. ASSUME NEW k \in Jobs, NEW a \in Int, EntriesOf(k) = {},
               stream' = Append(stream, [job |-> k, attempt |-> a, src |-> 0])
        PROVE  EntriesOf(j)' = EntriesOf(j) \/ (EntriesOf(j) = {} /\ EntriesOf(j)' = {Len(stream) + 1})
    <2>1. PICK x : x = [job |-> k, attempt |-> a, src |-> 0]
      OBVIOUS
    <2>2. x \in Entry /\ x.job = k /\ stream' = Append(stream, x)
      BY <1>3, <2>1 DEF Entry
    <2>3. EntriesOf(j)' = EntriesOf(j) \cup (IF k = j THEN {Len(stream) + 1} ELSE {})
      BY <2>2, EntriesAfterAppend
    <2>. QED BY <1>3, <2>3
  <1>4. ASSUME NEW w \in Workers, Requeue(w), stream' = Append(stream, NextAttempt(w))
        PROVE  \/ EntriesOf(j)' = EntriesOf(j)
               \/ \E m \in EntriesOf(j) :
                    /\ EntriesOf(j)' = EntriesOf(j) \cup {Len(stream) + 1}
                    /\ stream'[Len(stream) + 1].attempt = stream[m].attempt + 1
                    /\ InPlay(m)
                    /\ ~ InPlay(m)'
    <2>1. PICK x : x = NextAttempt(w)
      OBVIOUS
    <2>2. pc[w] \in Deciding
      BY <1>4 DEF Requeue, Deciding
    <2>3. x \in Entry /\ x.job = JobOf(msg[w]) /\ x.attempt = stream[msg[w]].attempt + 1
      <3>1. stream[msg[w]] \in Entry /\ msg[w] \in Nat
        BY <2>2, HandledEntry DEF Deciding, Idle, Ids
      <3>. QED BY <2>1, <3>1 DEF NextAttempt, Entry, JobOf
    <2>4. /\ stream'[Len(stream) + 1] = x
          /\ EntriesOf(j)' = EntriesOf(j) \cup (IF x.job = j THEN {Len(stream) + 1} ELSE {})
      BY <1>4, <2>1, <2>3, EntriesAfterAppend
    <2>5. CASE JobOf(msg[w]) # j
      BY <2>3, <2>4, <2>5
    <2>6. CASE JobOf(msg[w]) = j
      <3>1. InPlay(msg[w]) /\ msg[w] \in EntriesOf(j)
        BY <2>2, <2>6, HandlerInPlay
      <3>2. ~ InPlay(msg[w])'
        BY <1>1, <1>4, <2>6, OutcomeEndsPlay
      <3>3. PICK m : m = msg[w]
        OBVIOUS
      <3>4. msg'[w] = msg[w]
        BY <1>4 DEF Requeue
      <3>5. ~ InPlay(m)'
        BY <3>2, <3>3, <3>4 DEF InPlay, DecidedBy
      <3>. QED BY <2>3, <2>4, <2>6, <3>1, <3>3, <3>5
    <2>. QED BY <2>5, <2>6
  <1>. QED BY <1>2, <1>3, <1>4, WhoAppends

\* Which step decides a job: one that takes the entry in play out of it and
\* leaves the stream alone.
LEMMA DecidingStep ==
    ASSUME TypeOK, TypeOK', Ownership, Provenance, DeadLettersFit, [Next]_vars,
           NEW j \in Jobs, Undisturbed(j)', Decided(j)', ~ Decided(j)
    PROVE  /\ stream' = stream
           /\ \E m \in EntriesOf(j) : InPlay(m) /\ ~ InPlay(m)'
  <1>1. Undisturbed(j) /\ 1 .. lastDelivered \subseteq Ids
    BY EntriesStay DEF Ids, TypeOK, RedisTypeOK
  <1>2. ASSUME NEW w \in Workers,
               DeadLetter(w) \/ (SendCallback(w) /\ pc'[w] = "ack"), JobOf(msg[w]) = j
        PROVE  \E m \in EntriesOf(j) : InPlay(m) /\ ~ InPlay(m)'
    <2>1. ~ InPlay(msg[w])' /\ pc[w] \in Deciding
      BY <1>1, <1>2, OutcomeEndsPlay
    <2>2. InPlay(msg[w]) /\ msg[w] \in EntriesOf(j)
      BY <1>2, <2>1, HandlerInPlay
    <2>3. PICK m : m = msg[w]
      OBVIOUS
    <2>4. msg'[w] = msg[w]
      BY <1>2 DEF DeadLetter, SendCallback
    <2>5. ~ InPlay(m)'
      BY <2>1, <2>3, <2>4 DEF InPlay, DecidedBy
    <2>. QED BY <2>2, <2>3, <2>5
  <1>3. CASE HasDeadLetter(j)'
    <2>1. PICK d \in DOMAIN dlq' : dlq'[d].job = j
      BY <1>3 DEF HasDeadLetter
    <2>2. dlq' # dlq
      BY <2>1 DEF Decided, HasDeadLetter
    <2>3. PICK w \in Workers : DeadLetter(w) /\ dlq' = Append(dlq, DeadCopy(w)) /\ stream' = stream
      BY <2>2, WhoAppends
    <2>4. PICK x : x = DeadCopy(w)
      OBVIOUS
    <2>5. x \in Entry /\ x.job = JobOf(msg[w])
      <3>1. stream[msg[w]] \in Entry /\ msg[w] \in Nat
        BY <2>3, HandledEntry DEF DeadLetter, Idle, Ids
      <3>. QED BY <2>4, <3>1 DEF DeadCopy, Entry, JobOf
    <2>6. (dlq'[d] = dlq[d] /\ d \in DOMAIN dlq) \/ dlq'[d] = x
      BY <2>3, <2>4, <2>5, AppendedRecord DEF TypeOK, RedisTypeOK
    <2>7. JobOf(msg[w]) = j
      BY <2>1, <2>5, <2>6 DEF Decided, HasDeadLetter
    <2>. QED BY <1>2, <2>3, <2>7
  <1>4. CASE HasSeenSuccess(j)'
    <2>1. PICK i \in DOMAIN inbox' : JobOf(inbox[i].src)' = j /\ IsSeenSuccess(i)'
      BY <1>4 DEF HasSeenSuccess
    <2>2. ASSUME i \in DOMAIN inbox, inbox'[i] = inbox[i] PROVE FALSE
      <3>1. inbox[i].src \in Ids
        BY <1>1, <2>2 DEF Provenance
      <3>2. JobOf(inbox[i].src) = j
        BY <2>1, <2>2, <3>1, EntriesStay DEF JobOf
      <3>. QED BY <2>1, <2>2, <3>2 DEF Decided, HasSeenSuccess, IsSeenSuccess
    <2>3. ASSUME NEW w \in Workers, NEW o \in {"success", "unseenSuccess", "failure"},
                 inbox' = Append(inbox, Report(w, o)), SendCallback(w) \/ FailureCallback(w)
          PROVE  o = "success" /\ inbox'[i].src = msg[w]
      <3>1. PICK x : x = Report(w, o)
        OBVIOUS
      <3>2. x \in Call /\ x.outcome = o /\ x.src = msg[w]
        <4>1. msg[w] \in Nat
          BY <2>3, HandledEntry DEF SendCallback, FailureCallback, Idle, Ids
        <4>. QED BY <3>1, <4>1 DEF Report, Call
      <3>3. (inbox'[i] = inbox[i] /\ i \in DOMAIN inbox) \/ inbox'[i] = x
        BY <2>3, <3>1, <3>2, AppendedRecord DEF TypeOK
      <3>. QED BY <2>1, <2>2, <3>2, <3>3 DEF IsSeenSuccess
    <2>4. inbox' # inbox
      BY <2>2
    <2>5. PICK w \in Workers : /\ SendCallback(w) /\ pc'[w] = "ack"
                               /\ inbox' = Append(inbox, Report(w, "success")) /\ stream' = stream
      BY <2>3, <2>4, WhoAppends
    <2>6. inbox'[i].src = msg[w]
      BY <2>3, <2>5
    <2>7. JobOf(msg[w]) = j
      BY <2>1, <2>5, <2>6 DEF JobOf
    <2>. QED BY <1>2, <2>5, <2>7
  <1>. QED BY <1>3, <1>4 DEF Decided

LEMMA PlayStep ==
    ASSUME TypeOK, TypeOK', Ownership, Provenance, DeadLettersFit, PlayInv, [Next]_vars
    PROVE  PlayInv'
  <1>. SUFFICES ASSUME NEW j \in Jobs, Undisturbed(j)'
                PROVE  /\ OnlyLastInPlay(j)'
                       /\ Decided(j)' => OutOfPlay(j)'
    BY DEF PlayInv
  <1>1. Undisturbed(j) /\ OnlyLastInPlay(j) /\ (Decided(j) => OutOfPlay(j))
    BY EntriesStay DEF PlayInv
  <1>2. ASSUME NEW e \in EntriesOf(j), InPlay(e)' PROVE InPlay(e)
    <2>1. e \in Ids /\ e \notin claimed'
      BY <1>2, EntriesStay DEF EntriesOf, Undisturbed
    <2>. QED BY <1>2, <2>1, PlayNarrows
  <1>3. \A e \in EntriesOf(j) : e \in Nat /\ e < Len(stream) + 1
    BY DEF EntriesOf, Ids, TypeOK, RedisTypeOK
  <1>4. Len(stream) + 1 \in Nat
    BY DEF TypeOK, RedisTypeOK
  <1>5. ASSUME NEW m \in EntriesOf(j), InPlay(m), ~ InPlay(m)', NEW e \in EntriesOf(j), InPlay(e)'
        PROVE  FALSE
    <2>1. m <= e /\ e <= m
      BY <1>1, <1>2, <1>5 DEF OnlyLastInPlay
    <2>2. m = e
      BY <1>3, <2>1
    <2>. QED BY <1>5, <2>2
  <1>6. OnlyLastInPlay(j)'
    <2>. SUFFICES ASSUME NEW e \in EntriesOf(j)', NEW f \in EntriesOf(j)', InPlay(e)'
                  PROVE  f <= e
      BY DEF OnlyLastInPlay
    <2>1. CASE EntriesOf(j)' = EntriesOf(j)
      BY <1>1, <1>2, <2>1 DEF OnlyLastInPlay
    <2>2. CASE EntriesOf(j)' = {Len(stream) + 1}
      BY <1>4, <2>2
    <2>3. ASSUME NEW m \in EntriesOf(j), InPlay(m), ~ InPlay(m)',
                 EntriesOf(j)' = EntriesOf(j) \cup {Len(stream) + 1}
          PROVE  f <= e
      <3>1. e = Len(stream) + 1
        BY <1>5, <2>3
      <3>. QED BY <1>3, <1>4, <2>3, <3>1
    <2>. QED BY <2>1, <2>2, <2>3, NewEntry
  <1>7. ASSUME Decided(j)', NEW e \in EntriesOf(j)', InPlay(e)' PROVE FALSE
    <2>1. CASE Decided(j)
      <3>1. EntriesOf(j) # {} /\ OutOfPlay(j)
        BY <1>1, <2>1, DecidedHasEntries
      <3>2. EntriesOf(j)' = EntriesOf(j)
        BY <3>1, NewEntry DEF OutOfPlay
      <3>. QED BY <1>2, <1>7, <3>1, <3>2 DEF OutOfPlay
    <2>2. CASE ~ Decided(j)
      <3>1. stream' = stream /\ \E m \in EntriesOf(j) : InPlay(m) /\ ~ InPlay(m)'
        BY <1>7, <2>2, DecidingStep
      <3>2. e \in EntriesOf(j)
        BY <1>7, <3>1, EntriesStay
      <3>. QED BY <1>5, <1>7, <3>1, <3>2
    <2>. QED BY <2>1, <2>2
  <1>. QED BY <1>6, <1>7 DEF OutOfPlay

LEMMA OneLineStep ==
    ASSUME TypeOK, TypeOK', Ownership, PlayInv, OneLineOfAttempts, [Next]_vars
    PROVE  OneLineOfAttempts'
  <1>. DEFINE Between(j, e, f) == {g \in EntriesOf(j) : e < g /\ g <= f}
              n == Len(stream) + 1
  <1>. SUFFICES ASSUME NEW j \in Jobs, Undisturbed(j)', NEW e \in EntriesOf(j)',
                       NEW f \in EntriesOf(j)', e < f
                PROVE  (stream[f].attempt - stream[e].attempt)' = Cardinality(Between(j, e, f)')
    BY DEF OneLineOfAttempts
  <1>1. Undisturbed(j) /\ OnlyLastInPlay(j)
    BY EntriesStay DEF PlayInv
  <1>2. n \in Nat /\ \A g \in EntriesOf(j) : g \in Nat /\ g < n /\ stream'[g] = stream[g]
    BY EntriesStay DEF EntriesOf, Ids, TypeOK, RedisTypeOK
  <1>3. \A g \in EntriesOf(j) : stream[g].attempt \in Int
    <2>1. \A g \in EntriesOf(j) : stream[g] \in Entry
      BY DEF EntriesOf, Ids, TypeOK, RedisTypeOK
    <2>. QED BY <2>1 DEF Entry
  <1>4. ASSUME NEW a \in EntriesOf(j), NEW b \in EntriesOf(j), a < b
        PROVE  stream[b].attempt - stream[a].attempt = Cardinality(Between(j, a, b))
    BY <1>1, <1>4 DEF OneLineOfAttempts
  <1>5. CASE EntriesOf(j)' = EntriesOf(j)
    <2>1. Between(j, e, f)' = Between(j, e, f)
      BY <1>5
    <2>2. stream[f].attempt - stream[e].attempt = Cardinality(Between(j, e, f))
      BY <1>4, <1>5
    <2>. QED BY <1>2, <1>5, <2>1, <2>2
  <1>6. CASE EntriesOf(j)' = {n}
    BY <1>2, <1>6
  <1>7. ASSUME NEW m \in EntriesOf(j), InPlay(m), EntriesOf(j)' = EntriesOf(j) \cup {n},
               stream'[n].attempt = stream[m].attempt + 1
        PROVE  (stream[f].attempt - stream[e].attempt)' = Cardinality(Between(j, e, f)')
    <2>1. \A g \in EntriesOf(j) : g <= m
      BY <1>1, <1>7 DEF OnlyLastInPlay
    <2>2. e \in EntriesOf(j)
      BY <1>2, <1>7
    <2>3. CASE f # n
      <3>1. f \in EntriesOf(j)
        BY <1>7, <2>3
      <3>2. Between(j, e, f)' = Between(j, e, f)
        BY <1>2, <1>7, <3>1
      <3>. QED BY <1>2, <1>4, <2>2, <3>1, <3>2
    <2>4. CASE f = n
      <3>1. Between(j, e, f)' = Between(j, e, m) \cup {n}
        <4>1. \A g : g \in Between(j, e, f)' <=> (g \in EntriesOf(j) \cup {n} /\ e < g /\ g <= n)
          BY <1>7, <2>4
        <4>2. \A g \in EntriesOf(j) : g <= n /\ g <= m
          BY <1>2, <2>1
        <4>. QED BY <1>2, <2>2, <4>1, <4>2
      <3>2. IsFiniteSet(Between(j, e, m)) /\ n \notin Between(j, e, m)
        <4>1. IsFiniteSet(Ids)
          BY FS_Interval DEF Ids, TypeOK, RedisTypeOK
        <4>2. Between(j, e, m) \subseteq Ids
          BY DEF EntriesOf
        <4>3. n \notin EntriesOf(j)
          BY <1>2
        <4>. QED BY <4>1, <4>2, <4>3, FS_Subset
      <3>3. Cardinality(Between(j, e, f)') = Cardinality(Between(j, e, m)) + 1
        BY <3>1, <3>2, FS_AddElement
      <3>4. stream[m].attempt - stream[e].attempt = Cardinality(Between(j, e, m))
        <4>1. CASE e < m
          BY <1>4, <2>2, <4>1
        <4>2. CASE ~ (e < m)
          <5>1. e = m
            BY <1>2, <2>1, <2>2, <4>2
          <5>2. Between(j, e, m) = {}
            BY <1>2, <5>1
          <5>. QED BY <1>3, <5>1, <5>2, FS_EmptySet
        <4>. QED BY <4>1, <4>2
      <3>5. Cardinality(Between(j, e, m)) \in Nat
        BY <3>2, FS_CardinalityType
      <3>. QED BY <1>2, <1>3, <1>7, <2>2, <2>4, <3>3, <3>4, <3>5
    <2>. QED BY <2>3, <2>4
  <1>. QED BY <1>5, <1>6, <1>7, NewEntry

\* Who makes a webhook call about an unclaimed job: a worker with an entry of it
\* in play, or one that has dead-lettered it.
LEMMA NewCall ==
    ASSUME TypeOK, FailureRecords, DeadLettersFit, [Next]_vars,
           NEW i \in DOMAIN inbox', ~ (i \in DOMAIN inbox /\ inbox'[i] = inbox[i])
    PROVE  \E m \in Ids :
             /\ i = Len(inbox) + 1
             /\ inbox'[i].src = m
             /\ \/ InPlay(m) /\ inbox'[i].outcome # "failure"
                \/ HasDeadLetter(JobOf(m)) /\ inbox'[i].outcome = "failure"
             /\ inbox'[i].outcome = "success" => dlq' = dlq /\ stream' = stream
  <1>1. inbox' # inbox
    OBVIOUS
  <1>2. PICK w \in Workers, o \in {"success", "unseenSuccess", "failure"} :
           /\ inbox' = Append(inbox, Report(w, o))
           /\ \/ SendCallback(w) /\ o # "failure"
              \/ FailureCallback(w) /\ o = "failure"
    BY <1>1, WhoAppends
  <1>3. msg[w] \in Ids /\ msg[w] \in Nat
    BY <1>2, HandledEntry DEF SendCallback, FailureCallback, Idle, Ids
  <1>4. PICK x : x = Report(w, o)
    OBVIOUS
  <1>5. x \in Call /\ x.src = msg[w] /\ x.outcome = o
    BY <1>3, <1>4 DEF Report, Call
  <1>6. i = Len(inbox) + 1 /\ inbox'[i] = x
    BY <1>2, <1>4, <1>5, AppendedRecord DEF TypeOK
  <1>7. SendCallback(w) => InPlay(msg[w])
    BY HandlerInPlay DEF SendCallback, Deciding
  <1>8. FailureCallback(w) => HasDeadLetter(JobOf(msg[w]))
    <2>1. FailureCallback(w) => Buried(msg[w])
      BY DEF FailureCallback, FailureRecords
    <2>. QED BY <2>1 DEF Buried, HasDeadLetter, DeadLettersFit
  <1>9. SendCallback(w) => dlq' = dlq /\ stream' = stream
    BY DEF SendCallback, redisVars
  <1>. QED BY <1>2, <1>3, <1>5, <1>6, <1>7, <1>8, <1>9

LEMMA SeenSuccessStep ==
    ASSUME TypeOK, TypeOK', Ownership, Provenance, FailureRecords, DeadLettersFit,
           PlayInv, SeenSuccessIsFinal, [Next]_vars
    PROVE  SeenSuccessIsFinal'
  <1>. DEFINE About(i, j) == JobOf(inbox[i].src) = j
  <1>. SUFFICES ASSUME NEW j \in Jobs, Undisturbed(j)', NEW i \in DOMAIN inbox',
                       About(i, j)', inbox'[i].outcome = "success"
                PROVE  /\ \A k \in DOMAIN inbox' : About(k, j)' =>
                              k = i \/ (k < i /\ inbox'[k].outcome = "unseenSuccess")
                       /\ \A d \in DOMAIN dlq' : dlq'[d].job # j
                       /\ \A e \in EntriesOf(j)' : e <= inbox'[i].src
    BY DEF SeenSuccessIsFinal
  <1>1. Undisturbed(j) /\ OnlyLastInPlay(j) /\ (Decided(j) => OutOfPlay(j))
    BY EntriesStay DEF PlayInv
  <1>2. ASSUME NEW k \in DOMAIN inbox, inbox'[k] = inbox[k]
        PROVE  About(k, j)' <=> About(k, j)
    <2>1. inbox[k].src \in Ids
      BY DEF Provenance, Ids, TypeOK, RedisTypeOK
    <2>. QED BY <1>2, <2>1, EntriesStay DEF JobOf
  <1>3. \A m \in Ids : JobOf(m)' = j => m \in EntriesOf(j)
    BY EntriesStay DEF EntriesOf
  <1>4. HasSeenSuccess(j) => (HasSeenSuccess(j) /\ OutOfPlay(j) /\ EntriesOf(j) # {})
    BY <1>1, DecidedHasEntries DEF Decided
  <1>5. CASE i \in DOMAIN inbox /\ inbox'[i] = inbox[i]
    <2>1. About(i, j) /\ inbox[i].outcome = "success"
      BY <1>2, <1>5
    <2>2. /\ \A k \in DOMAIN inbox : About(k, j) =>
                 k = i \/ (k < i /\ inbox[k].outcome = "unseenSuccess")
          /\ \A d \in DOMAIN dlq : dlq[d].job # j
          /\ \A e \in EntriesOf(j) : e <= inbox[i].src
      BY <1>1, <1>5, <2>1 DEF SeenSuccessIsFinal
    <2>3. OutOfPlay(j) /\ EntriesOf(j) # {} /\ Decided(j)
      BY <1>1, <1>4, <1>5, <2>1 DEF HasSeenSuccess, IsSeenSuccess, Decided
    <2>4. ASSUME NEW k \in DOMAIN inbox', About(k, j)'
          PROVE  k = i \/ (k < i /\ inbox'[k].outcome = "unseenSuccess")
      <3>1. CASE k \in DOMAIN inbox /\ inbox'[k] = inbox[k]
        BY <1>2, <2>2, <2>4, <3>1
      <3>2. CASE ~ (k \in DOMAIN inbox /\ inbox'[k] = inbox[k])
        <4>1. PICK m \in Ids : inbox'[k].src = m /\ (InPlay(m) \/ HasDeadLetter(JobOf(m)))
          BY <3>2, NewCall
        <4>2. m \in EntriesOf(j) /\ JobOf(m) = j
          BY <1>3, <2>4, <4>1, EntriesStay DEF JobOf
        <4>. QED BY <2>2, <2>3, <4>1, <4>2 DEF OutOfPlay, HasDeadLetter
      <3>. QED BY <3>1, <3>2
    <2>5. ~ HasDeadLetter(j)'
      <3>. SUFFICES ASSUME HasDeadLetter(j)' PROVE FALSE
        OBVIOUS
      <3>1. PICK w \in Workers : DeadLetter(w) /\ JobOf(msg[w]) = j
        <4>1. dlq' # dlq
          BY <2>2 DEF HasDeadLetter
        <4>2. PICK w \in Workers : DeadLetter(w) /\ dlq' = Append(dlq, DeadCopy(w))
          BY <4>1, WhoAppends
        <4>3. PICK x : x = DeadCopy(w)
          OBVIOUS
        <4>4. x \in Entry /\ x.job = JobOf(msg[w])
          <5>1. stream[msg[w]] \in Entry /\ msg[w] \in Nat
            BY <4>2, HandledEntry DEF DeadLetter, Idle, Ids
          <5>. QED BY <4>3, <5>1 DEF DeadCopy, Entry, JobOf
        <4>5. \A d \in DOMAIN dlq' : dlq'[d] = x \/ (d \in DOMAIN dlq /\ dlq'[d] = dlq[d])
          BY <4>2, <4>3, <4>4, AppendedRecord DEF TypeOK, RedisTypeOK
        <4>. QED BY <2>2, <4>2, <4>4, <4>5 DEF HasDeadLetter
      <3>2. InPlay(msg[w]) /\ msg[w] \in EntriesOf(j)
        BY <3>1, HandlerInPlay DEF DeadLetter, Deciding
      <3>. QED BY <2>3, <3>2 DEF OutOfPlay
    <2>6. EntriesOf(j)' = EntriesOf(j)
      BY <2>3, NewEntry DEF OutOfPlay
    <2>. QED BY <1>5, <2>2, <2>4, <2>5, <2>6 DEF HasDeadLetter
  <1>6. CASE ~ (i \in DOMAIN inbox /\ inbox'[i] = inbox[i])
    <2>1. PICK m \in Ids : /\ i = Len(inbox) + 1
                           /\ inbox'[i].src = m /\ InPlay(m)
                           /\ dlq' = dlq /\ stream' = stream
      BY <1>6, NewCall
    <2>2. m \in EntriesOf(j)
      BY <1>3, <2>1 DEF JobOf
    <2>3. ~ Decided(j)
      BY <1>1, <2>1, <2>2 DEF OutOfPlay
    <2>4. ASSUME NEW k \in DOMAIN inbox', About(k, j)', k # i
          PROVE  k < i /\ inbox'[k].outcome = "unseenSuccess"
      <3>1. k \in DOMAIN inbox /\ inbox'[k] = inbox[k]
        BY <2>1, <2>4, NewCall
      <3>2. inbox[k] \in Call /\ k < i
        BY <2>1, <3>1 DEF TypeOK
      <3>3. JobOf(inbox[k].src) = j
        BY <1>2, <2>4, <3>1
      <3>4. inbox[k].outcome # "success"
        BY <2>3, <3>1, <3>3 DEF Decided, HasSeenSuccess, IsSeenSuccess
      <3>5. inbox[k].outcome # "failure"
        <4>. SUFFICES ASSUME inbox[k].outcome = "failure" PROVE FALSE
          OBVIOUS
        <4>1. Buried(inbox[k].src)
          BY <3>1 DEF FailureRecords, FailureIsOnRecord
        <4>. QED BY <2>3, <3>3, <4>1 DEF Buried, Decided, HasDeadLetter, DeadLettersFit
      <3>. QED BY <3>1, <3>2, <3>4, <3>5 DEF Call
    <2>5. \A d \in DOMAIN dlq' : dlq'[d].job # j
      BY <2>1, <2>3 DEF Decided, HasDeadLetter
    <2>6. \A e \in EntriesOf(j)' : e <= m
      BY <1>1, <2>1, <2>2, EntriesStay DEF OnlyLastInPlay
    <2>. QED BY <2>1, <2>4, <2>5, <2>6
  <1>. QED BY <1>5, <1>6

-----------------------------------------------------------------------------
\* Every attempt of a job from one number to another was delivered.
Delivered(j, from, to) ==
    \A a \in from .. to : \E f \in EntriesOf(j) : stream[f].attempt = a /\ f <= lastDelivered

\* Before an entry came every attempt from the one its job was enqueued with.
Chain == \A e \in Ids : \A r \in EntriesOf(JobOf(e)) :
             stream[r].src = 0 => Delivered(JobOf(e), stream[r].attempt, stream[e].attempt - 1)

\* A valid job comes to the dead letter queue when it may not be tried again.
LimitReached == \A w \in Workers :
    (pc[w] = "deadLetter" /\ KindOf(msg[w]) = "wellFormed") => stream[msg[w]].attempt + 1 >= MaxAttempts

Exhaustion == Chain /\ LimitReached /\ BuriedOnlyWhenExhausted

LEMMA DeliveredStays ==
    ASSUME TypeOK, TypeOK', [Next]_vars, NEW j, NEW a, NEW b, Delivered(j, a, b)
    PROVE  Delivered(j, a, b)'
  <1>1. lastDelivered <= lastDelivered' /\ lastDelivered \in Nat /\ lastDelivered' \in Nat
    BY StepGrows DEF Grows, RedisGrows, TypeOK, RedisTypeOK
  <1>2. ASSUME NEW f \in EntriesOf(j), f <= lastDelivered
        PROVE  f \in EntriesOf(j)' /\ stream'[f] = stream[f] /\ f <= lastDelivered'
    <2>1. f \in Nat /\ f \in Ids
      BY DEF EntriesOf, Ids
    <2>. QED BY <1>1, <1>2, <2>1, EntriesStay
  <1>. QED BY <1>2 DEF Delivered

\* The entry a worker is on adds its own attempt to those before it.
LEMMA DeliveredSoFar ==
    ASSUME TypeOK, Chain, NEW w \in Workers, pc[w] \notin Idle,
           NEW r \in EntriesOf(JobOf(msg[w])), stream[r].src = 0
    PROVE  Delivered(JobOf(msg[w]), stream[r].attempt, stream[msg[w]].attempt)
  <1>1. msg[w] \in Ids /\ msg[w] <= lastDelivered /\ stream[msg[w]] \in Entry
    BY HandledEntry DEF TypeOK, RedisTypeOK
  <1>2. r \in Ids /\ stream[r] \in Entry
    BY DEF EntriesOf, Ids, TypeOK, RedisTypeOK
  <1>3. stream[r].attempt \in Int /\ stream[msg[w]].attempt \in Int
    BY <1>1, <1>2 DEF Entry
  <1>4. Delivered(JobOf(msg[w]), stream[r].attempt, stream[msg[w]].attempt - 1)
    BY <1>1 DEF Chain
  <1>5. msg[w] \in EntriesOf(JobOf(msg[w]))
    BY <1>1 DEF EntriesOf
  <1>6. \A a \in stream[r].attempt .. stream[msg[w]].attempt :
           a \in stream[r].attempt .. (stream[msg[w]].attempt - 1) \/ a = stream[msg[w]].attempt
    BY <1>3
  <1>. QED BY <1>1, <1>4, <1>5, <1>6 DEF Delivered

LEMMA ChainStep ==
    ASSUME TypeOK, TypeOK', Chain, [Next]_vars
    PROVE  Chain'
  <1>. SUFFICES ASSUME NEW j, NEW e \in EntriesOf(j)', NEW r \in EntriesOf(j)', stream'[r].src = 0
                PROVE  Delivered(j, stream[r].attempt, stream[e].attempt - 1)'
    <2>1. \A e \in Ids' : e \in EntriesOf(JobOf(e))'
      BY DEF EntriesOf
    <2>. QED BY <2>1 DEF Chain
  <1>1. ASSUME e \in EntriesOf(j), r \in EntriesOf(j)
        PROVE  Delivered(j, stream[r].attempt, stream[e].attempt - 1)'
    <2>1. stream'[e] = stream[e] /\ stream'[r] = stream[r] /\ e \in Ids /\ JobOf(e) = j
      BY <1>1, EntriesStay DEF EntriesOf
    <2>2. Delivered(j, stream[r].attempt, stream[e].attempt - 1)
      BY <1>1, <2>1 DEF Chain
    <2>3. PICK a, b : a = stream[r].attempt /\ b = stream[e].attempt - 1
      OBVIOUS
    <2>4. Delivered(j, a, b)'
      BY <2>2, <2>3, DeliveredStays
    <2>. QED BY <2>1, <2>3, <2>4
  <1>2. CASE stream' = stream
    BY <1>1, <1>2, EntriesStay
  <1>3. ASSUME NEW k \in Jobs, NEW a \in Int, EntriesOf(k) = {},
               stream' = Append(stream, [job |-> k, attempt |-> a, src |-> 0])
        PROVE  Delivered(j, stream[r].attempt, stream[e].attempt - 1)'
    <2>1. PICK x : x = [job |-> k, attempt |-> a, src |-> 0]
      OBVIOUS
    <2>2. x \in Entry /\ x.job = k /\ x.attempt = a /\ stream' = Append(stream, x)
      BY <1>3, <2>1 DEF Entry
    <2>3. /\ stream'[Len(stream) + 1] = x
          /\ EntriesOf(j)' = EntriesOf(j) \cup (IF k = j THEN {Len(stream) + 1} ELSE {})
      BY <2>2, EntriesAfterAppend
    <2>4. CASE k = j
      <3>1. stream'[e] = x /\ stream'[r] = x
        BY <1>3, <2>3, <2>4
      <3>2. (a .. (a - 1)) = {}
        OBVIOUS
      <3>. QED BY <2>2, <3>1, <3>2 DEF Delivered
    <2>5. CASE k # j
      BY <1>1, <2>3, <2>5
    <2>. QED BY <2>4, <2>5
  <1>4. ASSUME NEW w \in Workers, Requeue(w), stream' = Append(stream, NextAttempt(w))
        PROVE  Delivered(j, stream[r].attempt, stream[e].attempt - 1)'
    <2>1. PICK x : x = NextAttempt(w)
      OBVIOUS
    <2>2. /\ pc[w] \notin Idle /\ msg[w] \in Ids /\ msg[w] # 0
          /\ stream[msg[w]] \in Entry /\ stream[msg[w]].attempt \in Int /\ msg[w] \in Nat
      <3>1. pc[w] \notin Idle
        BY <1>4 DEF Requeue, Idle
      <3>2. msg[w] \in Ids /\ stream[msg[w]] \in Entry
        BY <3>1, HandledEntry
      <3>. QED BY <3>1, <3>2 DEF Entry, Ids
    <2>3. /\ x \in Entry /\ x.job = JobOf(msg[w])
          /\ x.attempt = stream[msg[w]].attempt + 1 /\ x.src # 0
      BY <2>1, <2>2 DEF NextAttempt, Entry, JobOf
    <2>4. /\ stream'[Len(stream) + 1] = x
          /\ EntriesOf(j)' = EntriesOf(j) \cup (IF x.job = j THEN {Len(stream) + 1} ELSE {})
          /\ \A g \in Ids : stream'[g] = stream[g]
      BY <1>4, <2>1, <2>3, EntriesAfterAppend
    <2>5. r \in EntriesOf(j) /\ r \in Ids
      BY <2>3, <2>4 DEF EntriesOf
    <2>6. CASE e \in EntriesOf(j)
      BY <1>1, <2>5, <2>6
    <2>7. CASE e \notin EntriesOf(j)
      <3>1. stream'[e] = x /\ x.job = j
        BY <2>4, <2>7
      <3>2. Delivered(j, stream[r].attempt, stream[msg[w]].attempt)
        BY <2>2, <2>3, <2>4, <2>5, <3>1, DeliveredSoFar
      <3>3. PICK a, b : a = stream[r].attempt /\ b = stream[msg[w]].attempt
        OBVIOUS
      <3>4. Delivered(j, a, b)'
        BY <3>2, <3>3, DeliveredStays
      <3>5. stream'[e].attempt - 1 = b
        BY <2>2, <2>3, <3>1, <3>3
      <3>. QED BY <2>4, <2>5, <3>3, <3>4, <3>5
    <2>. QED BY <2>6, <2>7
  <1>. QED BY <1>2, <1>3, <1>4, WhoAppends

LEMMA LimitReachedStep ==
    ASSUME TypeOK, TypeOK', LimitReached, [Next]_vars
    PROVE  LimitReached'
  <1>. SUFFICES ASSUME NEW w \in Workers, pc'[w] = "deadLetter", KindOf(msg[w])' = "wellFormed"
                PROVE  (stream[msg[w]].attempt + 1 >= MaxAttempts)'
    BY DEF LimitReached
  <1>1. ASSUME pc[w] \notin Idle, msg'[w] = msg[w]
        PROVE  stream'[msg'[w]] = stream[msg[w]] /\ KindOf(msg[w]) = "wellFormed"
    <2>1. msg[w] \in Ids
      BY <1>1, HandledEntry
    <2>. QED BY <1>1, <2>1, EntriesStay DEF KindOf, JobOf
  <1>2. CASE pc[w] = "deadLetter" /\ msg'[w] = msg[w]
    BY <1>1, <1>2 DEF LimitReached, Idle
  <1>3. ASSUME NEW v \in Workers \ {w}, Step(v) \/ Crash(v)
        PROVE  (stream[msg[w]].attempt + 1 >= MaxAttempts)'
    BY <1>2, <1>3, OtherWorkersStay
  <1>4. CASE Pipeline(w) \/ SendCallback(w)
    <2>1. pc[w] \notin Idle /\ msg'[w] = msg[w] /\ FailedStep(msg[w]) = "deadLetter"
      BY <1>4 DEF Pipeline, SendCallback, Goto, TypeOK, Idle
    <2>2. stream[msg[w]].attempt \in Int
      BY <2>1, HandledEntry DEF Entry
    <2>3. ~ (stream[msg[w]].attempt + 1 < MaxAttempts)
      BY <2>1 DEF FailedStep
    <2>. QED BY <1>1, <2>1, <2>2, <2>3, ConsumerAssumption
  <1>5. CASE TakeMessage(w)
    <2>1. PICK e \in batch[w] : FirstStep(e) = "deadLetter" /\ msg'[w] = e /\ KindOf(e) # "undecodable"
      BY <1>5 DEF TakeMessage, Goto, AbandonToRead, TypeOK
    <2>2. KindOf(e) = "wellFormed"
      BY <1>5, <2>1 DEF TakeMessage, redisVars, KindOf, JobOf
    <2>. QED BY <2>1, <2>2 DEF FirstStep
  <1>6. CASE \/ Start(w) \/ EnsureGroup(w) \/ Claim(w) \/ Read(w) \/ Requeue(w) \/ DeadLetter(w)
             \/ FailureCallback(w) \/ Ack(w) \/ AckFailed(w) \/ Crash(w)
    <2>1. CASE Read(w)
      BY <2>1 DEF Read, Goto, TypeOK
    <2>2. CASE \/ Start(w) \/ EnsureGroup(w) \/ Claim(w) \/ Requeue(w) \/ DeadLetter(w)
               \/ FailureCallback(w) \/ Ack(w) \/ AckFailed(w) \/ Crash(w)
      BY <2>2 DEF Start, EnsureGroup, Claim, Requeue, DeadLetter, FailureCallback, Ack,
                  AckFailed, Crash, Goto, NextMessage, AbandonToRead, TypeOK
    <2>. QED BY <1>6, <2>1, <2>2
  <1>7. CASE UNCHANGED <<workerVars, envVars>>
    BY <1>2, <1>7 DEF workerVars
  <1>. QED BY <1>3, <1>4, <1>5, <1>6, <1>7, NoWorkerMoves DEF Next, Step

LEMMA BuriedStep ==
    ASSUME TypeOK, TypeOK', Exhaustion, Provenance, DeadLettersFit, [Next]_vars
    PROVE  BuriedOnlyWhenExhausted'
  <1>. DEFINE Exhausted(d, r) ==
                  stream[r].src = 0 => Delivered(dlq[d].job, stream[r].attempt, dlq[d].attempt)
  <1>1. BuriedOnlyWhenExhausted <=>
            \A d \in DOMAIN dlq : Kind[dlq[d].job] = "wellFormed" =>
                /\ dlq[d].attempt + 1 >= MaxAttempts
                /\ \A r \in EntriesOf(dlq[d].job) : Exhausted(d, r)
    BY DEF BuriedOnlyWhenExhausted, Delivered
  <1>2. SUFFICES ASSUME NEW d \in DOMAIN dlq', Kind[dlq'[d].job] = "wellFormed"
                 PROVE  /\ dlq'[d].attempt + 1 >= MaxAttempts
                        /\ \A r \in EntriesOf(dlq[d].job)' : Exhausted(d, r)'
    BY DEF BuriedOnlyWhenExhausted, Delivered
  <1>3. PICK j, a : j = dlq'[d].job /\ a = dlq'[d].attempt
    OBVIOUS
  <1>4. ASSUME \A r \in EntriesOf(j) : stream[r].src = 0 => Delivered(j, stream[r].attempt, a),
               EntriesOf(j) # {},
               NEW r \in EntriesOf(j)', stream'[r].src = 0
        PROVE  Delivered(j, stream[r].attempt, a)'
    <2>1. r \in EntriesOf(j)
      <3>1. ASSUME NEW x \in Entry, stream' = Append(stream, x), x.job = j => x.src # 0
            PROVE  r \in EntriesOf(j)
        BY <1>4, <3>1, EntriesAfterAppend
      <3>2. ASSUME NEW k \in Jobs, NEW b \in Int, EntriesOf(k) = {},
                   stream' = Append(stream, [job |-> k, attempt |-> b, src |-> 0])
            PROVE  r \in EntriesOf(j)
        <4>1. PICK x : x = [job |-> k, attempt |-> b, src |-> 0]
          OBVIOUS
        <4>2. x \in Entry /\ x.job # j
          BY <1>4, <3>2, <4>1 DEF Entry
        <4>. QED BY <3>1, <3>2, <4>1, <4>2
      <3>3. ASSUME NEW w \in Workers, Requeue(w), stream' = Append(stream, NextAttempt(w))
            PROVE  r \in EntriesOf(j)
        <4>1. PICK x : x = NextAttempt(w)
          OBVIOUS
        <4>2. stream[msg[w]] \in Entry /\ msg[w] \in Nat /\ msg[w] # 0
          BY <3>3, HandledEntry DEF Requeue, Idle, Ids
        <4>3. x \in Entry /\ x.src # 0
          BY <4>1, <4>2 DEF NextAttempt, Entry, JobOf
        <4>. QED BY <3>1, <3>3, <4>1, <4>3
      <3>. QED BY <1>4, <3>2, <3>3, WhoAppends, EntriesStay
    <2>2. r \in Ids /\ stream'[r] = stream[r]
      BY <2>1, EntriesStay DEF EntriesOf
    <2>3. PICK b : b = stream[r].attempt
      OBVIOUS
    <2>4. Delivered(j, b, a)'
      BY <1>4, <2>1, <2>2, <2>3, DeliveredStays
    <2>. QED BY <2>2, <2>3, <2>4
  <1>5. CASE d \in DOMAIN dlq /\ dlq'[d] = dlq[d]
    <2>1. /\ a + 1 >= MaxAttempts
          /\ \A r \in EntriesOf(j) : stream[r].src = 0 => Delivered(j, stream[r].attempt, a)
      BY <1>1, <1>2, <1>3, <1>5 DEF Exhaustion
    <2>2. dlq[d].src \in Ids
      BY <1>5 DEF Provenance, Ids, TypeOK, RedisTypeOK
    <2>3. dlq[d].src \in EntriesOf(j)
      BY <1>3, <1>5, <2>2 DEF DeadLettersFit, EntriesOf
    <2>. QED BY <1>3, <1>4, <2>1, <2>3
  <1>6. CASE ~ (d \in DOMAIN dlq /\ dlq'[d] = dlq[d])
    <2>1. PICK w \in Workers : DeadLetter(w) /\ dlq' = Append(dlq, DeadCopy(w))
      BY <1>6, WhoAppends
    <2>2. PICK x : x = DeadCopy(w)
      OBVIOUS
    <2>3. pc[w] = "deadLetter" /\ pc[w] \notin Idle
      BY <2>1 DEF DeadLetter, Idle
    <2>4. msg[w] \in Ids /\ stream[msg[w]] \in Entry /\ msg[w] \in Nat
      BY <2>3, HandledEntry DEF Ids
    <2>5. x \in Entry /\ x.job = JobOf(msg[w]) /\ x.attempt = stream[msg[w]].attempt
      BY <2>2, <2>4 DEF DeadCopy, Entry, JobOf
    <2>6. dlq'[d] = x
      BY <1>6, <2>1, <2>2, <2>5, AppendedRecord DEF TypeOK, RedisTypeOK
    <2>7. j = JobOf(msg[w]) /\ a = stream[msg[w]].attempt /\ Kind[j] = "wellFormed"
      BY <1>2, <1>3, <2>5, <2>6
    <2>8. a + 1 >= MaxAttempts
      BY <2>3, <2>7 DEF Exhaustion, LimitReached, KindOf
    <2>9. EntriesOf(j) # {}
      BY <2>4, <2>7 DEF EntriesOf
    <2>10. \A r \in EntriesOf(j) : stream[r].src = 0 => Delivered(j, stream[r].attempt, a)
      BY <2>3, <2>7, DeliveredSoFar DEF Exhaustion
    <2>. QED BY <1>3, <1>4, <2>8, <2>9, <2>10
  <1>. QED BY <1>5, <1>6

-----------------------------------------------------------------------------
\* The facts of the other modules as invariants of the specification.
Records == Ownership /\ Provenance /\ FailureRecords /\ DeadLettersFit

LEMMA RecordsHold == Spec => []Records
  <1>1. Init => Ownership /\ FailureRecords /\ DeadLettersFit
    BY DEF Init, RedisInit, Ownership, InHandIsPending, ExclusiveUnlessClaimed, Held,
           FailureRecords, FailureIsOnRecord, DeadLettersFit
  <1>2. TypeOK /\ TypeOK' /\ Ownership /\ [Next]_vars => Ownership'
    BY OwnershipStep
  <1>3. TypeOK /\ TypeOK' /\ Provenance /\ FailureRecords /\ [Next]_vars => FailureRecords'
    BY FailureRecordsStep
  <1>4. TypeOK /\ TypeOK' /\ Provenance /\ DeadLettersFit /\ [Next]_vars => DeadLettersFit'
    BY DeadLettersFitStep
  <1>5. Ownership /\ Provenance /\ FailureRecords /\ DeadLettersFit => Records
    BY DEF Records
  <1>. QED BY <1>1, <1>2, <1>3, <1>4, <1>5, TypeCorrect, ProvenanceHolds, PTL DEF Spec

LEMMA PlayHolds == Spec => []PlayInv
  <1>1. Init => PlayInv
    BY DEF Init, RedisInit, PlayInv, OnlyLastInPlay, OutOfPlay, EntriesOf, Ids
  <1>2. TypeOK /\ TypeOK' /\ Records /\ PlayInv /\ [Next]_vars => PlayInv'
    BY PlayStep DEF Records
  <1>. QED BY <1>1, <1>2, TypeCorrect, RecordsHold, PTL DEF Spec

\* A job no startup reclaim touched has one line of attempts, whatever crashes,
\* Redis faults and lost answers requeue_job met and however many workers run.
THEOREM AttemptsStayInLine == Spec => []OneLineOfAttempts
  <1>1. Init => OneLineOfAttempts
    BY DEF Init, RedisInit, OneLineOfAttempts, EntriesOf, Ids
  <1>2. TypeOK /\ TypeOK' /\ Records /\ PlayInv /\ OneLineOfAttempts /\ [Next]_vars
            => OneLineOfAttempts'
    BY OneLineStep DEF Records
  <1>. QED BY <1>1, <1>2, TypeCorrect, RecordsHold, PlayHolds, PTL DEF Spec

\* What handle_job saw accepted is never retried, dead-lettered or reported
\* again, unless a startup reclaim handed the job out a second time.
THEOREM SuccessEndsTheJob == Spec => []SeenSuccessIsFinal
  <1>1. Init => SeenSuccessIsFinal
    BY DEF Init, SeenSuccessIsFinal
  <1>2. TypeOK /\ TypeOK' /\ Records /\ PlayInv /\ SeenSuccessIsFinal /\ [Next]_vars
            => SeenSuccessIsFinal'
    BY SeenSuccessStep DEF Records
  <1>. QED BY <1>1, <1>2, TypeCorrect, RecordsHold, PlayHolds, PTL DEF Spec

\* handle_job sends a valid job to the dead letter queue only at the limit, and
\* with every attempt from the first one delivered, reclaimed or not.
THEOREM BurialsAreExhausted == Spec => []BuriedOnlyWhenExhausted
  <1>1. Init => Exhaustion
    BY DEF Init, RedisInit, Exhaustion, Chain, LimitReached, BuriedOnlyWhenExhausted, Ids
  <1>2. TypeOK /\ TypeOK' /\ Records /\ Exhaustion /\ [Next]_vars => Exhaustion'
    <2>1. ASSUME TypeOK, TypeOK', Records, Exhaustion, [Next]_vars PROVE Chain'
      BY <2>1, ChainStep DEF Exhaustion
    <2>2. ASSUME TypeOK, TypeOK', Records, Exhaustion, [Next]_vars PROVE LimitReached'
      BY <2>2, LimitReachedStep DEF Exhaustion
    <2>3. ASSUME TypeOK, TypeOK', Records, Exhaustion, [Next]_vars PROVE BuriedOnlyWhenExhausted'
      BY <2>3, BuriedStep DEF Records
    <2>. QED BY <2>1, <2>2, <2>3 DEF Exhaustion
  <1>3. Exhaustion => BuriedOnlyWhenExhausted
    BY DEF Exhaustion
  <1>. QED BY <1>1, <1>2, <1>3, TypeCorrect, RecordsHold, PTL DEF Spec
=============================================================================
