------------------------ MODULE StreamConsumerProofs ------------------------
(* Theorems about the queue consumer, for any number of jobs and workers. *)
EXTENDS StreamConsumer, SequenceTheorems, TLAPS

\* What the Redis commands keep of their own type invariant.
LEMMA RedisCommandsKeepType ==
    ASSUME RedisTypeOK
    PROVE  /\ UNCHANGED redisVars => RedisTypeOK'
           /\ XGroupCreate => RedisTypeOK'
           /\ \A entry \in Entry : XAddJob(entry) => RedisTypeOK'
           /\ \A entry \in Entry : XAddDlq(entry) => RedisTypeOK'
           /\ XReadGroup => RedisTypeOK'
           /\ \A e : XAck(e) => RedisTypeOK'
           /\ \A from : XAutoClaim(from) => RedisTypeOK'
           /\ \A e : BecomeStale(e) => RedisTypeOK'
  <1>. USE DEF RedisTypeOK
  <1>1. UNCHANGED redisVars => RedisTypeOK'
    BY DEF redisVars
  <1>2. XGroupCreate => RedisTypeOK'
    BY DEF XGroupCreate
  <1>3. ASSUME NEW entry \in Entry, XAddJob(entry) PROVE RedisTypeOK'
    <2>1. /\ stream' \in Seq(Entry)
          /\ Len(stream') = Len(stream) + 1
      BY <1>3, AppendProperties DEF XAddJob
    <2>. QED BY <1>3, <2>1 DEF XAddJob
  <1>4. ASSUME NEW entry \in Entry, XAddDlq(entry) PROVE RedisTypeOK'
    <2>1. dlq' \in Seq(Entry)
      BY <1>4, AppendProperties DEF XAddDlq
    <2>. QED BY <1>4, <2>1 DEF XAddDlq
  <1>5. XReadGroup => RedisTypeOK'
    BY DEF XReadGroup, NextUndelivered, Ids
  <1>6. ASSUME NEW e, XAck(e) PROVE RedisTypeOK'
    <2>1. pel' \subseteq pel /\ stale' \subseteq pel'
      BY <1>6 DEF XAck
    <2>. QED BY <1>6, <2>1 DEF XAck
  <1>7. ASSUME NEW from, XAutoClaim(from) PROVE RedisTypeOK'
    <2>1. Claimed(from) \subseteq pel
      BY DEF Claimed, Claimable, Following
    <2>. QED BY <1>7, <2>1 DEF XAutoClaim
  <1>8. \A e : BecomeStale(e) => RedisTypeOK'
    BY DEF BecomeStale
  <1>. QED BY <1>1, <1>2, <1>3, <1>4, <1>5, <1>6, <1>7, <1>8

\* The entry a busy worker is on was delivered.
LEMMA HandledEntry ==
    ASSUME TypeOK, NEW w \in Workers, pc[w] \notin Idle
    PROVE  /\ msg[w] \in 1 .. lastDelivered
           /\ msg[w] \in Ids
           /\ stream[msg[w]] \in Entry
           /\ KindOf(msg[w]) \in Kinds
  <1>1. msg[w] \in 1 .. lastDelivered
    BY DEF TypeOK, RedisTypeOK
  <1>2. msg[w] \in Ids
    BY <1>1 DEF TypeOK, RedisTypeOK, Ids
  <1>3. stream[msg[w]] \in Entry
    BY <1>2 DEF TypeOK, RedisTypeOK, Ids
  <1>. QED BY <1>1, <1>2, <1>3, ConsumerAssumption DEF KindOf, JobOf, Entry

\* The type invariant.
THEOREM TypeCorrect == Spec => []TypeOK
  <1>1. Init => TypeOK
    <2>. SUFFICES ASSUME Init PROVE TypeOK
      OBVIOUS
    <2>1. RedisTypeOK
      <3>1. <<>> \in Seq(Entry) /\ Len(<<>>) = 0
        OBVIOUS
      <3>2. RedisInit
        BY DEF Init
      <3>3. stream \in Seq(Entry) /\ dlq \in Seq(Entry) /\ lastDelivered \in 0 .. Len(stream)
        BY <3>1, <3>2 DEF RedisInit
      <3>. QED BY <3>2, <3>3 DEF RedisInit, RedisTypeOK
    <2>2. inbox \in Seq(Call)
      BY DEF Init
    <2>3. crashes \in 0 .. MaxCrashes /\ faults \in 0 .. MaxRedisFaults
      BY ConsumerAssumption DEF Init
    <2>. QED BY <2>1, <2>2, <2>3 DEF Init, RedisInit, TypeOK, Idle, Handling, Acking
  <1>2. TypeOK /\ [Next]_vars => TypeOK'
    <2>. SUFFICES ASSUME TypeOK, [Next]_vars PROVE TypeOK'
      OBVIOUS
    <2>. USE RedisCommandsKeepType
    <2>1. ASSUME NEW j \in Jobs, Enqueue(j) PROVE TypeOK'
      <3>1. PICK a \in InitialAttempts : XAddJob([job |-> j, attempt |-> a, src |-> 0])
        BY <2>1 DEF Enqueue
      <3>2. [job |-> j, attempt |-> a, src |-> 0] \in Entry
        BY ConsumerAssumption DEF Entry
      <3>3. RedisTypeOK' /\ lastDelivered' = lastDelivered
        BY <3>1, <3>2 DEF TypeOK, XAddJob
      <3>. QED BY <2>1, <3>3 DEF Enqueue, TypeOK, workerVars, envVars
    <2>2. ASSUME NEW w \in Workers, Start(w) PROVE TypeOK'
      <3>1. RedisTypeOK' /\ lastDelivered' = lastDelivered
        BY <2>2 DEF Start, redisVars, TypeOK
      <3>. QED BY <2>2, <3>1 DEF Start, envVars, TypeOK, Goto, AbandonToRead, NextMessage, Idle, Handling, Acking
    <2>3. ASSUME NEW w \in Workers, EnsureGroup(w) PROVE TypeOK'
      <3>1. RedisTypeOK' /\ lastDelivered' = lastDelivered
        BY <2>3 DEF EnsureGroup, Answers, Raises, XGroupCreate, redisVars, TypeOK, RedisTypeOK
      <3>2. faults' \in 0 .. MaxRedisFaults
        BY ConsumerAssumption, <2>3 DEF EnsureGroup, Answers, Raises, Fault, TypeOK
      <3>. QED BY <2>3, <3>1, <3>2 DEF EnsureGroup, TypeOK, Goto, AbandonToRead, NextMessage, Idle, Handling, Acking
    <2>4. ASSUME NEW w \in Workers, Claim(w) PROVE TypeOK'
      <3>1. RedisTypeOK' /\ lastDelivered' = lastDelivered
        BY <2>4 DEF Claim, Answers, Raises, XAutoClaim, redisVars, TypeOK
      <3>2. faults' \in 0 .. MaxRedisFaults
        BY ConsumerAssumption, <2>4 DEF Claim, Answers, Raises, Fault, TypeOK
      <3>3. Claimed(cursor[w]) \subseteq 1 .. lastDelivered
        BY DEF Claimed, Claimable, Following, TypeOK, RedisTypeOK
      <3>4. cursor' \in [Workers -> 0 .. lastDelivered]
        <4>1. {0} \cup pel \subseteq 0 .. lastDelivered
          BY DEF TypeOK, RedisTypeOK
        <4>2. \A next \in 0 .. lastDelivered :
                 [cursor EXCEPT ![w] = next] \in [Workers -> 0 .. lastDelivered]
          BY DEF TypeOK
        <4>. QED BY <2>4, <4>1, <4>2 DEF Claim, AbandonToRead, TypeOK, RedisTypeOK
      <3>5. batch' \in [Workers -> SUBSET (1 .. lastDelivered)]
        BY <2>4, <3>3 DEF Claim, AbandonToRead, TypeOK
      <3>6. CASE Goto(w, "take")
        BY <2>4, <3>1, <3>2, <3>4, <3>5, <3>6 DEF Claim, TypeOK, Goto, AbandonToRead, NextMessage, Idle, Handling, Acking
      <3>7. CASE AbandonToRead(w)
        BY <2>4, <3>1, <3>2, <3>4, <3>5, <3>7 DEF Claim, TypeOK, Goto, AbandonToRead, NextMessage, Idle, Handling, Acking
      <3>. QED BY <2>4, <3>6, <3>7 DEF Claim
    <2>5. ASSUME NEW w \in Workers, Read(w) PROVE TypeOK'
      <3>1. RedisTypeOK' /\ lastDelivered' \in {lastDelivered, lastDelivered + 1}
        BY <2>5 DEF Read, Answers, Raises, XReadGroup, NextUndelivered, redisVars, TypeOK
      <3>2. faults' \in 0 .. MaxRedisFaults
        BY ConsumerAssumption, <2>5 DEF Read, Answers, Raises, Fault, TypeOK
      <3>3. CASE /\ Answers(XReadGroup)
                 /\ Goto(w, "take")
                 /\ batch' = [batch EXCEPT ![w] = {NextUndelivered}]
        <4>1. lastDelivered' = NextUndelivered
          BY <3>3 DEF Answers, XReadGroup
        <4>2. batch' \in [Workers -> SUBSET (1 .. lastDelivered')]
          BY <3>1, <3>3, <4>1 DEF TypeOK, RedisTypeOK, NextUndelivered
        <4>3. /\ UNCHANGED <<msg, cursor, inbox, unsaved, crashes>>
              /\ pc[w] = "read"
          BY <2>5 DEF Read
        <4>4. /\ msg' \in [Workers -> 0 .. lastDelivered']
              /\ cursor' \in [Workers -> 0 .. lastDelivered']
              /\ unsaved' \subseteq 1 .. lastDelivered'
          BY <3>1, <4>3 DEF TypeOK, RedisTypeOK
        <4>. QED BY <3>1, <3>2, <3>3, <4>2, <4>3, <4>4 DEF TypeOK, Goto, AbandonToRead, NextMessage, Idle, Handling, Acking
      <3>4. CASE UNCHANGED <<pc, batch>>
        <4>1. UNCHANGED <<msg, cursor, inbox, unsaved, crashes>>
          BY <2>5 DEF Read
        <4>2. /\ batch' \in [Workers -> SUBSET (1 .. lastDelivered')]
              /\ msg' \in [Workers -> 0 .. lastDelivered']
              /\ cursor' \in [Workers -> 0 .. lastDelivered']
              /\ unsaved' \subseteq 1 .. lastDelivered'
          BY <3>1, <3>4, <4>1 DEF TypeOK, RedisTypeOK
        <4>. QED BY <3>1, <3>2, <3>4, <4>1, <4>2 DEF TypeOK
      <3>. QED BY <2>5, <3>3, <3>4 DEF Read
    <2>6. ASSUME NEW w \in Workers, TakeMessage(w) PROVE TypeOK'
      <3>1. RedisTypeOK' /\ lastDelivered' = lastDelivered
        BY <2>6 DEF TakeMessage, redisVars, TypeOK
      <3>2. CASE batch[w] = {}
        BY <2>6, <3>1, <3>2 DEF TakeMessage, envVars, TypeOK, Goto, AbandonToRead, NextMessage, Idle, Handling, Acking
      <3>3. CASE batch[w] # {}
        <4>1. PICK e \in batch[w] :
                 IF KindOf(e) = "undecodable"
                 THEN AbandonToRead(w)
                 ELSE /\ Goto(w, FirstStep(e))
                      /\ msg' = [msg EXCEPT ![w] = e]
                      /\ batch' = [batch EXCEPT ![w] = @ \ {e}]
                      /\ UNCHANGED cursor
          BY <2>6, <3>3 DEF TakeMessage
        <4>2. e \in 1 .. lastDelivered /\ KindOf(e) \in Kinds
          <5>1. e \in 1 .. lastDelivered
            BY <4>1 DEF TypeOK
          <5>2. stream[e] \in Entry
            BY <5>1 DEF TypeOK, RedisTypeOK
          <5>. QED BY <5>1, <5>2, ConsumerAssumption DEF Entry, KindOf, JobOf
        <4>3. CASE KindOf(e) = "undecodable"
          BY <2>6, <3>1, <4>1, <4>3 DEF TakeMessage, envVars, TypeOK, Goto, AbandonToRead, NextMessage, Idle, Handling, Acking
        <4>4. CASE KindOf(e) # "undecodable"
          <5>1. FirstStep(e) \in {"pipeline", "deadLetter", "ackFailed"}
            BY <4>2, <4>4 DEF FirstStep, Kinds
          <5>2. batch' \in [Workers -> SUBSET (1 .. lastDelivered)]
            BY <4>1, <4>4 DEF TypeOK
          <5>3. /\ pc' = [pc EXCEPT ![w] = FirstStep(e)]
                /\ msg' = [msg EXCEPT ![w] = e]
                /\ UNCHANGED <<cursor, inbox, unsaved, crashes, faults>>
            BY <2>6, <4>1, <4>4 DEF TakeMessage, Goto, envVars
          <5>4. \A v \in Workers \ {w} : batch'[v] = batch[v]
            BY <4>1, <4>4 DEF TypeOK
          <5>. QED BY <3>1, <4>2, <5>1, <5>2, <5>3, <5>4 DEF TypeOK, Idle, Handling, Acking
        <4>. QED BY <4>3, <4>4
      <3>. QED BY <3>2, <3>3
    <2>7. ASSUME NEW w \in Workers, Pipeline(w) PROVE TypeOK'
      <3>1. RedisTypeOK' /\ lastDelivered' = lastDelivered
        BY <2>7 DEF Pipeline, redisVars, TypeOK
      <3>. QED BY <2>7, <3>1 DEF Pipeline, FailedStep, envVars, TypeOK, Goto, AbandonToRead, NextMessage, Idle, Handling, Acking
    <2>8. ASSUME NEW w \in Workers, SendCallback(w) PROVE TypeOK'
      <3>1. RedisTypeOK' /\ lastDelivered' = lastDelivered
        BY <2>8 DEF SendCallback, redisVars, TypeOK
      <3>2. inbox' \in Seq(Call)
        <4>1. msg[w] \in Nat
          BY DEF TypeOK, RedisTypeOK
        <4>2. \A o \in {"success", "unseenSuccess"} : [src |-> msg[w], outcome |-> o] \in Call
          BY <4>1 DEF Call
        <4>3. \A c \in Call : Append(inbox, c) \in Seq(Call)
          BY AppendProperties DEF TypeOK
        <4>. QED BY <2>8, <4>2, <4>3 DEF SendCallback, Post, TypeOK
      <3>. QED BY <2>8, <3>1, <3>2 DEF SendCallback, FailedStep, TypeOK, Goto, AbandonToRead, NextMessage, Idle, Handling, Acking
    <2>9. ASSUME NEW w \in Workers, Requeue(w) PROVE TypeOK'
      <3>. DEFINE entry == [job |-> JobOf(msg[w]),
                            attempt |-> stream[msg[w]].attempt + 1,
                            src |-> msg[w]]
      <3>1. entry \in Entry /\ msg[w] \in 1 .. lastDelivered
        <4>1. msg[w] \in 1 .. lastDelivered /\ stream[msg[w]] \in Entry
          BY <2>9, HandledEntry DEF Requeue, Idle
        <4>2. msg[w] \in Nat
          BY <4>1 DEF TypeOK, RedisTypeOK
        <4>. QED BY <4>1, <4>2 DEF Entry, JobOf
      <3>2. XAddJob(entry) \/ UNCHANGED redisVars
        BY <2>9 DEF Requeue, Saves, SaveRaises, Answers
      <3>3. RedisTypeOK' /\ lastDelivered' = lastDelivered
        BY <3>1, <3>2 DEF XAddJob, redisVars, TypeOK
      <3>4. faults' \in 0 .. MaxRedisFaults
        BY ConsumerAssumption, <2>9 DEF Requeue, Saves, SaveRaises, Answers, Fault, TypeOK
      <3>5. unsaved' \subseteq unsaved \cup {msg[w]}
        BY <2>9 DEF Requeue, Saves, SaveRaises
      <3>6. unsaved' \subseteq 1 .. lastDelivered
        BY <3>1, <3>5 DEF TypeOK
      <3>. QED BY <2>9, <3>3, <3>4, <3>6 DEF Requeue, TypeOK, Goto, AbandonToRead, NextMessage, Idle, Handling, Acking
    <2>10. ASSUME NEW w \in Workers, DeadLetter(w) PROVE TypeOK'
      <3>. DEFINE entry == [stream[msg[w]] EXCEPT !.src = msg[w]]
      <3>1. entry \in Entry /\ msg[w] \in 1 .. lastDelivered
        <4>1. msg[w] \in 1 .. lastDelivered /\ stream[msg[w]] \in Entry
          BY <2>10, HandledEntry DEF DeadLetter, Idle
        <4>2. msg[w] \in Nat
          BY <4>1 DEF TypeOK, RedisTypeOK
        <4>. QED BY <4>1, <4>2 DEF Entry
      <3>2. XAddDlq(entry) \/ UNCHANGED redisVars
        BY <2>10 DEF DeadLetter, Saves, SaveRaises, Answers
      <3>3. RedisTypeOK' /\ lastDelivered' = lastDelivered
        BY <3>1, <3>2 DEF XAddDlq, redisVars, TypeOK
      <3>4. faults' \in 0 .. MaxRedisFaults /\ unsaved' \subseteq 1 .. lastDelivered
        BY ConsumerAssumption, <2>10, <3>1 DEF DeadLetter, Saves, SaveRaises, Answers, Fault, TypeOK
      <3>. QED BY <2>10, <3>3, <3>4 DEF DeadLetter, TypeOK, Goto, AbandonToRead, NextMessage, Idle, Handling, Acking
    <2>11. ASSUME NEW w \in Workers, FailureCallback(w) PROVE TypeOK'
      <3>1. RedisTypeOK' /\ lastDelivered' = lastDelivered
        BY <2>11 DEF FailureCallback, redisVars, TypeOK
      <3>2. inbox' \in Seq(Call)
        <4>1. [src |-> msg[w], outcome |-> "failure"] \in Call
          BY DEF Call, TypeOK, RedisTypeOK
        <4>2. Append(inbox, [src |-> msg[w], outcome |-> "failure"]) \in Seq(Call)
          BY <4>1, AppendProperties DEF TypeOK
        <4>. QED BY <2>11, <4>2 DEF FailureCallback, Post, TypeOK
      <3>. QED BY <2>11, <3>1, <3>2 DEF FailureCallback, TypeOK, Goto, AbandonToRead, NextMessage, Idle, Handling, Acking
    <2>12. ASSUME NEW w \in Workers, Ack(w) PROVE TypeOK'
      <3>1. RedisTypeOK' /\ lastDelivered' = lastDelivered
        BY <2>12 DEF Ack, Answers, Raises, XAck, redisVars, TypeOK
      <3>2. faults' \in 0 .. MaxRedisFaults
        BY ConsumerAssumption, <2>12 DEF Ack, Answers, Raises, Fault, TypeOK
      <3>3. CASE NextMessage(w)
        BY <2>12, <3>1, <3>2, <3>3 DEF Ack, RedisTypeOK, TypeOK, Goto, AbandonToRead, NextMessage, Idle, Handling, Acking
      <3>4. CASE Goto(w, "ackFailed") /\ UNCHANGED <<msg, batch, cursor>>
        BY <2>12, <3>1, <3>2, <3>4 DEF Ack, RedisTypeOK, TypeOK, Goto, AbandonToRead, NextMessage, Idle, Handling, Acking
      <3>. QED BY <2>12, <3>3, <3>4 DEF Ack
    <2>13. ASSUME NEW w \in Workers, AckFailed(w) PROVE TypeOK'
      <3>1. RedisTypeOK' /\ lastDelivered' = lastDelivered
        BY <2>13 DEF AckFailed, Answers, Raises, XAck, redisVars, TypeOK
      <3>2. faults' \in 0 .. MaxRedisFaults
        BY ConsumerAssumption, <2>13 DEF AckFailed, Answers, Raises, Fault, TypeOK
      <3>3. CASE NextMessage(w)
        BY <2>13, <3>1, <3>2, <3>3 DEF AckFailed, RedisTypeOK, TypeOK, Goto, AbandonToRead, NextMessage, Idle, Handling, Acking
      <3>4. CASE AbandonToRead(w)
        BY <2>13, <3>1, <3>2, <3>4 DEF AckFailed, RedisTypeOK, TypeOK, Goto, AbandonToRead, NextMessage, Idle, Handling, Acking
      <3>. QED BY <2>13, <3>3, <3>4 DEF AckFailed
    <2>14. ASSUME NEW w \in Workers, Crash(w) PROVE TypeOK'
      <3>1. RedisTypeOK' /\ lastDelivered' = lastDelivered
        BY <2>14 DEF Crash, redisVars, TypeOK
      <3>2. lastDelivered \in Nat
        BY DEF TypeOK, RedisTypeOK
      <3>3. crashes' \in 0 .. MaxCrashes
        BY <2>14, ConsumerAssumption DEF Crash, TypeOK
      <3>. QED BY <2>14, <3>1, <3>2, <3>3 DEF Crash, TypeOK, Goto, AbandonToRead, NextMessage, Idle, Handling, Acking
    <2>15. ASSUME NEW e \in pel, Age(e) PROVE TypeOK'
      BY <2>15 DEF Age, BecomeStale, TypeOK, workerVars, envVars
    <2>16. CASE UNCHANGED vars
      <3>1. RedisTypeOK' /\ lastDelivered' = lastDelivered
        BY <2>16 DEF vars, redisVars, TypeOK
      <3>. QED BY <2>16, <3>1 DEF vars, TypeOK, workerVars, envVars
    <2>. QED
      BY <2>1, <2>2, <2>3, <2>4, <2>5, <2>6, <2>7, <2>8, <2>9, <2>10, <2>11,
         <2>12, <2>13, <2>14, <2>15, <2>16 DEF Next, Step
  <1>. QED BY <1>1, <1>2, PTL DEF Spec

-----------------------------------------------------------------------------
\* What one step does to the data every other invariant is about: the streams
\* and the inbox only grow at their end, deliveries and claims only accumulate.
Extends(old, new) ==
    /\ Len(old) <= Len(new)
    /\ \A i \in 1 .. Len(old) : new[i] = old[i]

RedisGrows ==
    /\ Extends(stream, stream')
    /\ Extends(dlq, dlq')
    /\ lastDelivered <= lastDelivered'
    /\ claimed \subseteq claimed'

Grows ==
    /\ RedisGrows
    /\ Extends(inbox, inbox')
    /\ unsaved \subseteq unsaved'

LEMMA AppendExtends ==
    ASSUME NEW S, NEW s \in Seq(S), NEW x \in S
    PROVE  Extends(s, Append(s, x)) /\ Append(s, x)[Len(s) + 1] = x
  BY AppendProperties DEF Extends

LEMMA UnchangedExtends ==
    ASSUME NEW S, NEW s \in Seq(S)
    PROVE  Extends(s, s)
  BY DEF Extends

\* Every step of the system is at most one Redis command, on well-typed data.
RedisNext ==
    \/ UNCHANGED redisVars
    \/ XGroupCreate
    \/ \E entry \in Entry : XAddJob(entry) \/ XAddDlq(entry)
    \/ XReadGroup
    \/ \E e \in 1 .. lastDelivered : XAck(e) \/ BecomeStale(e)
    \/ \E from \in 0 .. lastDelivered : XAutoClaim(from)

LEMMA StepIsRedisNext ==
    ASSUME TypeOK, [Next]_vars
    PROVE  RedisNext
  <1>1. ASSUME NEW j \in Jobs, Enqueue(j) PROVE RedisNext
    <2>1. PICK a \in InitialAttempts : XAddJob([job |-> j, attempt |-> a, src |-> 0])
      BY <1>1 DEF Enqueue
    <2>2. [job |-> j, attempt |-> a, src |-> 0] \in Entry
      BY ConsumerAssumption DEF Entry
    <2>. QED BY <2>1, <2>2 DEF RedisNext
  <1>2. ASSUME NEW w \in Workers, EnsureGroup(w) PROVE RedisNext
    BY <1>2 DEF EnsureGroup, Answers, Raises, RedisNext
  <1>3. ASSUME NEW w \in Workers, Claim(w) PROVE RedisNext
    <2>1. cursor[w] \in 0 .. lastDelivered
      BY DEF TypeOK
    <2>. QED BY <1>3, <2>1 DEF Claim, Answers, Raises, RedisNext
  <1>4. ASSUME NEW w \in Workers, Read(w) PROVE RedisNext
    BY <1>4 DEF Read, Answers, Raises, RedisNext
  <1>5. ASSUME NEW w \in Workers, Requeue(w) PROVE RedisNext
    <2>. DEFINE entry == [job |-> JobOf(msg[w]),
                          attempt |-> stream[msg[w]].attempt + 1,
                          src |-> msg[w]]
    <2>1. msg[w] \in 1 .. lastDelivered /\ stream[msg[w]] \in Entry
      BY <1>5, HandledEntry DEF Requeue, Idle
    <2>2. entry \in Entry
      <3>1. msg[w] \in Nat
        BY <2>1 DEF TypeOK, RedisTypeOK
      <3>. QED BY <2>1, <3>1 DEF Entry, JobOf
    <2>3. XAddJob(entry) \/ UNCHANGED redisVars
      BY <1>5 DEF Requeue, Saves, SaveRaises, Answers
    <2>. QED BY <2>2, <2>3 DEF RedisNext
  <1>6. ASSUME NEW w \in Workers, DeadLetter(w) PROVE RedisNext
    <2>. DEFINE entry == [stream[msg[w]] EXCEPT !.src = msg[w]]
    <2>1. msg[w] \in 1 .. lastDelivered /\ stream[msg[w]] \in Entry
      BY <1>6, HandledEntry DEF DeadLetter, Idle
    <2>2. entry \in Entry
      <3>1. msg[w] \in Nat
        BY <2>1 DEF TypeOK, RedisTypeOK
      <3>. QED BY <2>1, <3>1 DEF Entry
    <2>3. XAddDlq(entry) \/ UNCHANGED redisVars
      BY <1>6 DEF DeadLetter, Saves, SaveRaises, Answers
    <2>. QED BY <2>2, <2>3 DEF RedisNext
  <1>7. ASSUME NEW w \in Workers, Ack(w) PROVE RedisNext
    <2>1. msg[w] \in 1 .. lastDelivered
      BY <1>7, HandledEntry DEF Ack, Idle
    <2>. QED BY <1>7, <2>1 DEF Ack, Answers, Raises, RedisNext
  <1>8. ASSUME NEW w \in Workers, AckFailed(w) PROVE RedisNext
    <2>1. msg[w] \in 1 .. lastDelivered
      BY <1>8, HandledEntry DEF AckFailed, Idle
    <2>. QED BY <1>8, <2>1 DEF AckFailed, Answers, Raises, RedisNext
  <1>9. ASSUME NEW w \in Workers,
               \/ Start(w) \/ TakeMessage(w) \/ Pipeline(w)
               \/ SendCallback(w) \/ FailureCallback(w) \/ Crash(w)
        PROVE  RedisNext
    BY <1>9 DEF Start, TakeMessage, Pipeline, SendCallback, FailureCallback, Crash, RedisNext
  <1>10. ASSUME NEW e \in pel, Age(e) PROVE RedisNext
    <2>1. e \in 1 .. lastDelivered
      BY DEF TypeOK, RedisTypeOK
    <2>. QED BY <1>10, <2>1 DEF Age, RedisNext
  <1>11. CASE UNCHANGED vars
    BY <1>11 DEF vars, RedisNext
  <1>. QED BY <1>1, <1>2, <1>3, <1>4, <1>5, <1>6, <1>7, <1>8, <1>9, <1>10, <1>11
           DEF Next, Step

LEMMA RedisOnlyGrows ==
    ASSUME RedisTypeOK, RedisNext
    PROVE  RedisGrows
  <1>1. Extends(stream, stream) /\ Extends(dlq, dlq)
    BY UnchangedExtends DEF RedisTypeOK
  <1>2. \A entry \in Entry : Extends(stream, Append(stream, entry)) /\ Extends(dlq, Append(dlq, entry))
    BY AppendExtends DEF RedisTypeOK
  <1>3. lastDelivered \in Nat
    BY DEF RedisTypeOK
  <1>4. CASE UNCHANGED redisVars
    BY <1>1, <1>3, <1>4 DEF redisVars, RedisGrows
  <1>5. CASE XGroupCreate
    BY <1>1, <1>3, <1>5 DEF XGroupCreate, RedisGrows, RedisTypeOK
  <1>6. ASSUME NEW entry \in Entry, XAddJob(entry) \/ XAddDlq(entry) PROVE RedisGrows
    <2>1. CASE XAddJob(entry)
      BY <1>1, <1>2, <1>3, <2>1 DEF XAddJob, RedisGrows
    <2>2. CASE XAddDlq(entry)
      BY <1>1, <1>2, <1>3, <2>2 DEF XAddDlq, RedisGrows
    <2>. QED BY <1>6, <2>1, <2>2
  <1>7. CASE XReadGroup
    BY <1>1, <1>3, <1>7 DEF XReadGroup, NextUndelivered, RedisGrows
  <1>8. ASSUME NEW e \in 1 .. lastDelivered, XAck(e) \/ BecomeStale(e) PROVE RedisGrows
    BY <1>1, <1>3, <1>8 DEF XAck, BecomeStale, RedisGrows
  <1>9. ASSUME NEW from \in 0 .. lastDelivered, XAutoClaim(from) PROVE RedisGrows
    BY <1>1, <1>3, <1>9 DEF XAutoClaim, RedisGrows
  <1>. QED BY <1>4, <1>5, <1>6, <1>7, <1>8, <1>9 DEF RedisNext

LEMMA StepGrows ==
    ASSUME TypeOK, [Next]_vars
    PROVE  Grows
  <1>1. RedisGrows
    BY StepIsRedisNext, RedisOnlyGrows DEF TypeOK
  <1>2. Extends(inbox, inbox')
    <2>1. Extends(inbox, inbox)
      BY UnchangedExtends DEF TypeOK
    <2>2. ASSUME NEW w \in Workers, SendCallback(w) \/ FailureCallback(w)
          PROVE  Extends(inbox, inbox')
      <3>1. msg[w] \in Nat
        BY DEF TypeOK, RedisTypeOK
      <3>2. \A o \in {"success", "unseenSuccess", "failure"} :
               Extends(inbox, Append(inbox, [src |-> msg[w], outcome |-> o]))
        <4>1. \A o \in {"success", "unseenSuccess", "failure"} :
                 [src |-> msg[w], outcome |-> o] \in Call
          BY <3>1 DEF Call
        <4>. QED BY <4>1, AppendExtends DEF TypeOK
      <3>. QED BY <2>1, <2>2, <3>2 DEF SendCallback, FailureCallback, Post
    <2>3. inbox' = inbox \/ \E w \in Workers : SendCallback(w) \/ FailureCallback(w)
      BY DEF Next, Step, vars, envVars, Enqueue, Start, EnsureGroup, Claim, Read, TakeMessage,
             Pipeline, Requeue, DeadLetter, Ack, AckFailed, Crash, Age
    <2>. QED BY <2>1, <2>2, <2>3
  <1>3. unsaved \subseteq unsaved'
    BY DEF Next, Step, vars, envVars, Enqueue, Start, EnsureGroup, Claim, Read, TakeMessage,
           Pipeline, SendCallback, Requeue, DeadLetter, FailureCallback, Ack, AckFailed,
           Crash, Age, Saves, SaveRaises
  <1>. QED BY <1>1, <1>2, <1>3 DEF Grows

\* What became of an entry stays on record.
LEMMA RecordsStay ==
    ASSUME TypeOK, Grows, NEW e \in Ids
    PROVE  /\ Succeeded(e) => Succeeded(e)'
           /\ Retried(e) => Retried(e)'
           /\ Buried(e) => Buried(e)'
           /\ Accounted(e) => Accounted(e)'
           /\ JobOf(e)' = JobOf(e)
           /\ KindOf(e)' = KindOf(e)
  <1>1. stream'[e] = stream[e]
    BY DEF Grows, RedisGrows, Extends, Ids
  <1>2. JobOf(e)' = JobOf(e) /\ KindOf(e)' = KindOf(e)
    BY <1>1 DEF JobOf, KindOf
  <1>3. ASSUME Succeeded(e) PROVE Succeeded(e)'
    BY <1>3 DEF Succeeded, Grows, Extends, TypeOK
  <1>4. ASSUME Retried(e) PROVE Retried(e)'
    BY <1>4 DEF Retried, Ids, Grows, RedisGrows, Extends, TypeOK, RedisTypeOK
  <1>5. ASSUME Buried(e) PROVE Buried(e)'
    BY <1>5 DEF Buried, Grows, RedisGrows, Extends, TypeOK, RedisTypeOK
  <1>. QED BY <1>2, <1>3, <1>4, <1>5 DEF Accounted, Answered, Grows

\* A worker's step is local: it leaves the other workers where they are.
LEMMA OtherWorkersStay ==
    ASSUME TypeOK, NEW w \in Workers, Step(w) \/ Crash(w), NEW v \in Workers \ {w}
    PROVE  pc'[v] = pc[v] /\ msg'[v] = msg[v] /\ batch'[v] = batch[v]
  <1>. USE DEF TypeOK, Goto, AbandonToRead, NextMessage
  <1>1. CASE Start(w) \/ EnsureGroup(w) \/ Claim(w) \/ Read(w)
    BY <1>1 DEF Start, EnsureGroup, Claim, Read
  <1>2. CASE TakeMessage(w)
    BY <1>2 DEF TakeMessage
  <1>3. CASE Pipeline(w) \/ SendCallback(w) \/ Requeue(w) \/ DeadLetter(w) \/ FailureCallback(w)
    BY <1>3 DEF Pipeline, SendCallback, Requeue, DeadLetter, FailureCallback
  <1>4. CASE Ack(w) \/ AckFailed(w) \/ Crash(w)
    BY <1>4 DEF Ack, AckFailed, Crash
  <1>. QED BY <1>1, <1>2, <1>3, <1>4 DEF Step

LEMMA NoWorkerMoves ==
    ASSUME (\E j \in Jobs : Enqueue(j)) \/ (\E e \in pel : Age(e)) \/ UNCHANGED vars
    PROVE  UNCHANGED <<workerVars, envVars>>
  BY DEF Enqueue, Age, vars

\* An entry leaves the pending list only in the step of a worker that is
\* acknowledging it.
LEMMA PendingLeavesByAck ==
    ASSUME TypeOK, [Next]_vars, NEW e, e \notin Acked, e \in Acked'
    PROVE  \E w \in Workers : pc[w] \in Acking /\ msg[w] = e /\ (Ack(w) \/ AckFailed(w))
  <1>. USE DEF Acked, TypeOK, RedisTypeOK
  <1>1. ASSUME UNCHANGED <<pel, lastDelivered>> PROVE FALSE
    BY <1>1
  <1>2. ASSUME XReadGroup PROVE FALSE
    BY <1>2 DEF XReadGroup, NextUndelivered
  <1>3. ASSUME XGroupCreate PROVE FALSE
    BY <1>3 DEF XGroupCreate
  <1>4. ASSUME NEW w \in Workers, Ack(w) \/ AckFailed(w)
        PROVE  pc[w] \in Acking /\ msg[w] = e
    <2>1. pc[w] \in Acking
      BY <1>4 DEF Ack, AckFailed, Acking
    <2>2. XAck(msg[w]) \/ UNCHANGED redisVars
      BY <1>4 DEF Ack, AckFailed, Answers, Raises
    <2>3. XAck(msg[w])
      BY <1>1, <2>2 DEF redisVars
    <2>. QED BY <2>1, <2>3 DEF XAck
  <1>5. ASSUME NEW w \in Workers, Step(w) \/ Crash(w), ~ Ack(w), ~ AckFailed(w) PROVE FALSE
    <2>1. CASE EnsureGroup(w)
      BY <1>1, <1>3, <2>1 DEF EnsureGroup, Answers, Raises, redisVars
    <2>2. CASE Read(w)
      BY <1>1, <1>2, <2>2 DEF Read, Answers, Raises, redisVars
    <2>3. CASE Claim(w)
      BY <1>1, <2>3 DEF Claim, Answers, Raises, XAutoClaim, redisVars
    <2>4. CASE Requeue(w) \/ DeadLetter(w)
      BY <1>1, <2>4 DEF Requeue, DeadLetter, Saves, SaveRaises, Answers, XAddJob, XAddDlq, redisVars
    <2>5. CASE Start(w) \/ TakeMessage(w) \/ Pipeline(w) \/ SendCallback(w)
               \/ FailureCallback(w) \/ Crash(w)
      BY <1>1, <2>5 DEF Start, TakeMessage, Pipeline, SendCallback, FailureCallback, Crash, redisVars
    <2>. QED BY <1>5, <2>1, <2>2, <2>3, <2>4, <2>5 DEF Step
  <1>6. ASSUME (\E j \in Jobs : Enqueue(j)) \/ (\E f \in pel : Age(f)) \/ UNCHANGED vars
        PROVE  FALSE
    BY <1>1, <1>6 DEF Enqueue, XAddJob, Age, BecomeStale, vars, redisVars
  <1>. QED BY <1>4, <1>5, <1>6 DEF Next, Step

-----------------------------------------------------------------------------
\* A job is only lost in the known ways: the inductive invariant adds that the
\* outcome is on record before the worker gets to an xack.
Accountability ==
    /\ LostOnlyKnownWays
    /\ AccountedBeforeAck

LEMMA AccountabilityStep ==
    ASSUME TypeOK, TypeOK', Accountability, [Next]_vars
    PROVE  Accountability'
  <1>. USE DEF Idle, Handling, Acking
  <1>1. Grows
    BY StepGrows
  <1>2. \A e \in 1 .. lastDelivered : Accounted(e) => Accounted(e)'
    BY <1>1, RecordsStay DEF TypeOK, RedisTypeOK, Ids
  \* An entry that leaves the pending list was handled by whoever acknowledged it.
  <1>3. ASSUME NEW e \in Acked' PROVE Accounted(e)'
    <2>1. e \in Acked \/ \E w \in Workers : msg[w] = e /\ pc[w] \in Acking
      BY PendingLeavesByAck
    <2>2. CASE e \in Acked
      BY <1>2, <2>2 DEF Acked, Accountability, LostOnlyKnownWays
    <2>3. ASSUME NEW w \in Workers, msg[w] = e, pc[w] \in Acking PROVE Accounted(e)'
      <3>1. e \in 1 .. lastDelivered
        BY <2>3, HandledEntry
      <3>. QED BY <1>2, <2>3, <3>1 DEF Accountability, AccountedBeforeAck
    <2>. QED BY <2>1, <2>2, <2>3
  <1>4. ASSUME NEW w \in Workers, pc'[w] \in Acking \cup {"failureCallback"}
        PROVE  Accounted(msg[w])'
    \* The entry was on record before the step, and the worker stays on it.
    <2>1. ASSUME msg'[w] = msg[w], pc[w] \in Acking \cup {"failureCallback"}
          PROVE  Accounted(msg[w])'
      <3>1. msg[w] \in 1 .. lastDelivered /\ Accounted(msg[w])
        BY <2>1, HandledEntry DEF Accountability, AccountedBeforeAck
      <3>. QED BY <1>2, <2>1, <3>1
    <2>2. CASE UNCHANGED <<workerVars, envVars>>
      BY <1>4, <2>1, <2>2 DEF workerVars
    <2>3. ASSUME NEW v \in Workers \ {w}, Step(v) \/ Crash(v) PROVE Accounted(msg[w])'
      BY <1>4, <2>1, <2>3, OtherWorkersStay
    <2>4. CASE TakeMessage(w)
      <3>. USE <2>4
      <3>1. PICK e \in batch[w] : Goto(w, FirstStep(e)) /\ msg' = [msg EXCEPT ![w] = e]
                                  /\ KindOf(e) # "undecodable"
        BY <1>4 DEF TakeMessage, Goto, AbandonToRead, TypeOK
      <3>2. e \in 1 .. lastDelivered /\ msg'[w] = e /\ pc'[w] = FirstStep(e)
        BY <3>1 DEF Goto, TypeOK
      <3>3. KindOf(e) \in Kinds
        <4>1. stream[e] \in Entry
          BY <3>2 DEF TypeOK, RedisTypeOK
        <4>. QED BY <4>1, ConsumerAssumption DEF KindOf, JobOf, Entry
      <3>4. KindOf(e) \in {"noWebhook", "nonObject"}
        BY <1>4, <3>1, <3>2, <3>3 DEF FirstStep, Kinds
      <3>. QED BY <1>2, <3>2, <3>4 DEF Accounted
    <2>5. CASE SendCallback(w)
      <3>1. msg[w] \in 1 .. lastDelivered /\ msg'[w] = msg[w]
        BY <2>5, HandledEntry DEF SendCallback
      <3>2. Post(w, "success")
        BY <1>4, <2>5 DEF SendCallback, Goto, FailedStep, TypeOK
      <3>3. [src |-> msg[w], outcome |-> "success"] \in Call
        BY <3>1 DEF Call, TypeOK, RedisTypeOK
      <3>4. /\ Len(inbox) + 1 \in DOMAIN inbox'
            /\ inbox'[Len(inbox) + 1] = [src |-> msg[w], outcome |-> "success"]
        BY <3>2, <3>3, AppendProperties DEF Post, TypeOK
      <3>5. Succeeded(msg[w])'
        BY <3>1, <3>4 DEF Succeeded
      <3>. QED BY <3>5 DEF Accounted, Answered
    <2>6. CASE Requeue(w)
      <3>. DEFINE entry == [job |-> JobOf(msg[w]),
                            attempt |-> stream[msg[w]].attempt + 1,
                            src |-> msg[w]]
      <3>1. msg[w] \in 1 .. lastDelivered /\ msg'[w] = msg[w] /\ stream[msg[w]] \in Entry
        BY <2>6, HandledEntry DEF Requeue
      <3>2. XAddJob(entry) \/ unsaved' = unsaved \cup {msg[w]}
        BY <2>6 DEF Requeue, Saves, SaveRaises, Answers
      <3>3. ASSUME XAddJob(entry) PROVE Retried(msg[w])'
        <4>1. entry \in Entry
          <5>1. msg[w] \in Nat
            BY <3>1 DEF TypeOK, RedisTypeOK
          <5>. QED BY <3>1, <5>1 DEF Entry, JobOf
        <4>2. Len(stream) + 1 \in Ids' /\ stream'[Len(stream) + 1] = entry
          BY <3>3, <4>1, AppendProperties DEF XAddJob, Ids, TypeOK, RedisTypeOK
        <4>. QED BY <3>1, <4>2 DEF Retried
      <3>. QED BY <3>1, <3>2, <3>3 DEF Accounted, Answered
    <2>7. CASE DeadLetter(w)
      <3>. DEFINE entry == [stream[msg[w]] EXCEPT !.src = msg[w]]
      <3>1. msg[w] \in 1 .. lastDelivered /\ msg'[w] = msg[w] /\ stream[msg[w]] \in Entry
        BY <2>7, HandledEntry DEF DeadLetter
      <3>2. XAddDlq(entry) \/ unsaved' = unsaved \cup {msg[w]}
        BY <2>7 DEF DeadLetter, Saves, SaveRaises, Answers
      <3>3. ASSUME XAddDlq(entry) PROVE Buried(msg[w])'
        <4>1. entry \in Entry /\ entry.src = msg[w]
          <5>1. msg[w] \in Nat
            BY <3>1 DEF TypeOK, RedisTypeOK
          <5>. QED BY <3>1, <5>1 DEF Entry
        <4>2. Len(dlq) + 1 \in DOMAIN dlq' /\ dlq'[Len(dlq) + 1] = entry
          BY <3>3, <4>1, AppendProperties DEF XAddDlq, TypeOK, RedisTypeOK
        <4>. QED BY <3>1, <4>1, <4>2 DEF Buried
      <3>. QED BY <3>1, <3>2, <3>3 DEF Accounted, Answered
    <2>8. CASE FailureCallback(w) \/ Ack(w) \/ AckFailed(w)
      <3>1. pc[w] \in Acking \cup {"failureCallback"} /\ msg'[w] = msg[w]
        BY <1>4, <2>8 DEF FailureCallback, Ack, AckFailed, Goto, NextMessage, AbandonToRead, TypeOK
      <3>. QED BY <2>1, <3>1
    <2>9. CASE Start(w) \/ EnsureGroup(w) \/ Claim(w) \/ Read(w) \/ Pipeline(w) \/ Crash(w)
      <3>1. pc'[w] \notin Acking \cup {"failureCallback"}
        BY <2>9 DEF Start, EnsureGroup, Claim, Read, Pipeline, Crash, FailedStep,
                    Goto, AbandonToRead, TypeOK
      <3>. QED BY <1>4, <3>1
    <2>. QED BY <2>2, <2>3, <2>4, <2>5, <2>6, <2>7, <2>8, <2>9, NoWorkerMoves DEF Next, Step
  <1>. QED BY <1>3, <1>4 DEF Accountability, LostOnlyKnownWays, AccountedBeforeAck

\* The only ways a job is lost, for any number of crashes, Redis faults, workers
\* and attempts: a message is never acknowledged before its outcome is on record.
THEOREM LossIsAccountedFor == Spec => [](LostOnlyKnownWays /\ AccountedBeforeAck)
  <1>1. Init => Accountability
    BY DEF Init, RedisInit, Accountability, LostOnlyKnownWays, AccountedBeforeAck, Acked, Acking
  <1>2. TypeOK /\ TypeOK' /\ Accountability /\ [Next]_vars => Accountability'
    BY AccountabilityStep
  <1>3. Accountability => LostOnlyKnownWays /\ AccountedBeforeAck
    BY DEF Accountability
  <1>. QED BY <1>1, <1>2, <1>3, TypeCorrect, PTL DEF Spec

\* The worker's half of it on its own: the outcome of an entry is on record when
\* handle_job comes to acknowledge it.
THEOREM RecordedBeforeAck == Spec => []AccountedBeforeAck
  BY LossIsAccountedFor, PTL

\* A Redis that takes every command, and payloads that handle_job saves when it
\* gives up on them.
ReliableRedis ==
    /\ MaxRedisFaults = 0
    /\ \A j \in Jobs : Kind[j] \notin {"noWebhook", "nonObject"}

NothingUnsaved == unsaved = {}

LEMMA NothingIsUnsaved == ReliableRedis => (Spec => []NothingUnsaved)
  <1>. SUFFICES ASSUME ReliableRedis PROVE Spec => []NothingUnsaved
    OBVIOUS
  <1>1. Init => NothingUnsaved
    BY DEF Init, NothingUnsaved
  <1>2. TypeOK /\ NothingUnsaved /\ [Next]_vars => NothingUnsaved'
    <2>. SUFFICES ASSUME TypeOK, NothingUnsaved, [Next]_vars PROVE NothingUnsaved'
      OBVIOUS
    <2>1. ~ Fault
      BY DEF Fault, TypeOK, ReliableRedis
    <2>. QED BY <2>1
             DEF NothingUnsaved, Next, Step, vars, envVars, Enqueue, Start, EnsureGroup, Claim,
                 Read, TakeMessage, Pipeline, SendCallback, Requeue, DeadLetter, FailureCallback,
                 Ack, AckFailed, Crash, Age, Saves, SaveRaises
  <1>. QED BY <1>1, <1>2, TypeCorrect, PTL DEF Spec

\* Under these two assumptions no job is lost at all: what is acknowledged was
\* accepted by the web app, put back in the stream or dead-lettered.
THEOREM NothingLostOnReliableRedis == ReliableRedis => (Spec => []NoJobLost)
  <1>. SUFFICES ASSUME ReliableRedis PROVE Spec => []NoJobLost
    OBVIOUS
  <1>1. Spec => []NothingUnsaved
    BY NothingIsUnsaved
  <1>2. TypeOK /\ LostOnlyKnownWays /\ NothingUnsaved => NoJobLost
    <2>. SUFFICES ASSUME TypeOK, LostOnlyKnownWays, NothingUnsaved, NEW e \in Acked
                  PROVE  Answered(e)
      BY DEF NoJobLost
    <2>1. stream[e] \in Entry
      BY DEF Acked, TypeOK, RedisTypeOK
    <2>2. KindOf(e) \notin {"noWebhook", "nonObject"}
      BY <2>1 DEF ReliableRedis, KindOf, JobOf, Entry
    <2>. QED BY <2>2 DEF LostOnlyKnownWays, Accounted, NothingUnsaved
  <1>3. Spec => [](LostOnlyKnownWays /\ AccountedBeforeAck)
    BY LossIsAccountedFor
  <1>. QED BY <1>1, <1>2, <1>3, TypeCorrect, PTL

-----------------------------------------------------------------------------
\* Who holds an entry: nobody else, and it is pending, unless it was reclaimed.
Ownership ==
    /\ InHandIsPending
    /\ ExclusiveUnlessClaimed
    /\ \A w \in Workers : msg[w] \notin batch[w]

\* A worker's hands only fill with the next undelivered entry or with entries
\* XAUTOCLAIM gave out.
LEMMA HandsFill ==
    ASSUME TypeOK, NEW w \in Workers, Step(w) \/ Crash(w)
    PROVE  \/ Held(w)' \subseteq Held(w)
           \/ Held(w)' \subseteq claimed'
           \/ XReadGroup /\ Held(w)' = {NextUndelivered}
  <1>. USE DEF Goto, AbandonToRead, NextMessage
  <1>1. CASE Start(w) \/ EnsureGroup(w) \/ Pipeline(w) \/ SendCallback(w)
             \/ Requeue(w) \/ DeadLetter(w) \/ FailureCallback(w)
    BY <1>1 DEF Held, Start, EnsureGroup, Pipeline, SendCallback, Requeue, DeadLetter, FailureCallback
  <1>2. CASE Ack(w) \/ AckFailed(w) \/ Crash(w) \/ TakeMessage(w)
    BY <1>2 DEF Held, Ack, AckFailed, Crash, TakeMessage, TypeOK
  <1>3. CASE Claim(w)
    <2>1. msg'[w] = 0
      BY <1>3 DEF Claim, TypeOK, Idle
    <2>2. batch'[w] = {} \/ batch'[w] \subseteq claimed'
      BY <1>3 DEF Claim, Answers, XAutoClaim, TypeOK
    <2>. QED BY <2>1, <2>2 DEF Held
  <1>4. CASE Read(w)
    <2>1. msg'[w] = msg[w] /\ msg[w] = 0
      BY <1>4 DEF Read, TypeOK, Idle
    <2>2. CASE batch' = batch
      BY <2>1, <2>2 DEF Held
    <2>3. CASE XReadGroup /\ batch' = [batch EXCEPT ![w] = {NextUndelivered}]
      BY <2>1, <2>3 DEF Held, TypeOK, NextUndelivered, RedisTypeOK
    <2>. QED BY <1>4, <2>2, <2>3 DEF Read, Answers
  <1>. QED BY <1>1, <1>2, <1>3, <1>4 DEF Step

LEMMA OwnershipStep ==
    ASSUME TypeOK, TypeOK', Ownership, [Next]_vars
    PROVE  Ownership'
  <1>. USE DEF Ownership
  <1>1. RedisGrows
    BY StepGrows DEF Grows
  <1>2. \A w \in Workers : Held(w) \subseteq 1 .. lastDelivered
    BY DEF Held, TypeOK
  <1>3. ASSUME UNCHANGED workerVars PROVE \A w \in Workers : Held(w)' = Held(w)
    BY <1>3 DEF Held, workerVars
  <1>4. ASSUME NEW v \in Workers, Step(v) \/ Crash(v), NEW w \in Workers \ {v}
        PROVE  Held(w)' = Held(w) /\ pc'[w] = pc[w] /\ msg'[w] = msg[w] /\ batch'[w] = batch[w]
    BY <1>4, OtherWorkersStay DEF Held
  \* A worker is not on an entry that still waits in its batch.
  <1>5. ASSUME NEW w \in Workers PROVE msg'[w] \notin batch'[w]
    <2>1. CASE UNCHANGED workerVars
      BY <2>1 DEF workerVars
    <2>2. ASSUME NEW v \in Workers \ {w}, Step(v) \/ Crash(v) PROVE msg'[w] \notin batch'[w]
      BY <1>4, <2>2
    <2>3. ASSUME msg'[w] = 0 PROVE msg'[w] \notin batch'[w]
      BY <2>3 DEF TypeOK
    <2>4. CASE TakeMessage(w)
      BY <2>3, <2>4 DEF TakeMessage, AbandonToRead, TypeOK
    <2>5. CASE Step(w) \/ Crash(w)
      <3>1. CASE UNCHANGED <<msg, batch>>
        BY <3>1
      <3>2. CASE Claim(w) \/ Read(w) \/ Ack(w) \/ AckFailed(w) \/ Crash(w)
        BY <2>3, <3>1, <3>2
           DEF Claim, Read, Ack, AckFailed, Crash, NextMessage, AbandonToRead, TypeOK, Idle
      <3>. QED BY <2>4, <2>5, <3>1, <3>2
               DEF Step, Start, EnsureGroup, Pipeline, SendCallback, Requeue, DeadLetter,
                   FailureCallback
    <2>. QED BY <2>1, <2>2, <2>5, NoWorkerMoves DEF Next
  \* An entry that a worker keeps in hand, and has not come to acknowledge.
  <1>6. ASSUME NEW w \in Workers, NEW e \in Held(w), e \in Held(w)',
               pc'[w] \notin Acking \/ e # msg'[w]
        PROVE  e \in pel' \cup claimed'
    <2>1. pc[w] \notin Acking \/ e # msg[w]
      <3>. SUFFICES ASSUME pc[w] \in Acking, e = msg[w] PROVE FALSE
        OBVIOUS
      <3>1. CASE UNCHANGED workerVars
        BY <1>6, <3>1 DEF workerVars
      <3>2. ASSUME NEW v \in Workers \ {w}, Step(v) \/ Crash(v) PROVE FALSE
        BY <1>4, <1>6, <3>2
      <3>3. CASE Ack(w) \/ AckFailed(w)
        BY <1>6, <3>3
           DEF Held, Ack, AckFailed, Goto, NextMessage, AbandonToRead, TypeOK, Acking
      <3>4. CASE Crash(w)
        BY <1>6, <3>4 DEF Held, Crash, TypeOK
      <3>5. ASSUME Step(w), ~ Ack(w), ~ AckFailed(w) PROVE FALSE
        BY <3>5 DEF Step, Start, EnsureGroup, Claim, Read, TakeMessage, Pipeline, SendCallback,
                    Requeue, DeadLetter, FailureCallback, Acking
      <3>. QED BY <3>1, <3>2, <3>3, <3>4, <3>5, NoWorkerMoves DEF Next
    <2>2. e \in pel \cup claimed
      BY <2>1 DEF InHandIsPending
    <2>3. CASE e \in claimed
      BY <1>1, <2>3 DEF RedisGrows
    <2>4. CASE e \in pel
      <3>. SUFFICES ASSUME e \notin pel' PROVE e \in claimed
        BY <1>1 DEF RedisGrows
      <3>1. e \notin Acked /\ e \in Acked'
        BY <1>1, <2>4 DEF Acked, RedisGrows, TypeOK, RedisTypeOK
      <3>2. PICK v \in Workers : pc[v] \in Acking /\ msg[v] = e
        BY <3>1, PendingLeavesByAck
      <3>3. v # w
        BY <2>1, <3>2
      <3>4. e \in Held(v)
        BY <1>2, <3>2 DEF Held
      <3>. QED BY <3>3, <3>4 DEF ExclusiveUnlessClaimed
    <2>. QED BY <2>2, <2>3, <2>4
  <1>7. ASSUME NEW w \in Workers, NEW e \in Held(w)',
               pc'[w] \notin Acking \/ e # msg'[w]
        PROVE  e \in pel' \cup claimed'
    <2>1. CASE e \in Held(w)
      BY <1>6, <1>7, <2>1
    <2>2. CASE e \notin Held(w)
      <3>1. Step(w) \/ Crash(w)
        BY <1>3, <1>4, <2>2, NoWorkerMoves DEF Next
      <3>2. CASE XReadGroup /\ Held(w)' = {NextUndelivered}
        BY <1>7, <3>2 DEF XReadGroup
      <3>. QED BY <1>7, <2>2, <3>1, <3>2, HandsFill
    <2>. QED BY <2>1, <2>2
  <1>8. ASSUME NEW v \in Workers, NEW w \in Workers, v # w, NEW e \in Held(v)' \cap Held(w)'
        PROVE  e \in claimed'
    <2>1. ASSUME NEW x \in Workers, NEW y \in Workers, x # y, Step(x) \/ Crash(x),
                 e \in Held(x)', e \in Held(y)'
          PROVE  e \in claimed'
      <3>1. e \in Held(y) /\ e \in 1 .. lastDelivered
        BY <1>2, <1>4, <2>1
      <3>2. CASE e \in Held(x)
        BY <1>1, <2>1, <3>1, <3>2 DEF ExclusiveUnlessClaimed, RedisGrows
      <3>3. e # NextUndelivered
        BY <3>1 DEF NextUndelivered, TypeOK, RedisTypeOK
      <3>. QED BY <2>1, <3>2, <3>3, HandsFill
    <2>2. CASE UNCHANGED workerVars
      BY <1>1, <1>3, <1>8, <2>2 DEF ExclusiveUnlessClaimed, RedisGrows
    <2>3. ASSUME NEW x \in Workers, Step(x) \/ Crash(x) PROVE e \in claimed'
      <3>1. CASE x \in {v, w}
        BY <1>8, <2>1, <2>3, <3>1
      <3>2. CASE x \notin {v, w}
        BY <1>1, <1>4, <1>8, <2>3, <3>2 DEF ExclusiveUnlessClaimed, RedisGrows
      <3>. QED BY <3>1, <3>2
    <2>. QED BY <2>2, <2>3, NoWorkerMoves DEF Next
  <1>. QED BY <1>5, <1>7, <1>8 DEF InHandIsPending, ExclusiveUnlessClaimed

\* A crash never takes a job with it, and no two workers handle the same entry
\* unless XAUTOCLAIM took it from one that was too slow.
THEOREM OwnershipHolds == Spec => [](InHandIsPending /\ ExclusiveUnlessClaimed)
  <1>1. Init => Ownership
    BY DEF Init, Ownership, InHandIsPending, ExclusiveUnlessClaimed, Held
  <1>2. TypeOK /\ TypeOK' /\ Ownership /\ [Next]_vars => Ownership'
    BY OwnershipStep
  <1>3. Ownership => InHandIsPending /\ ExclusiveUnlessClaimed
    BY DEF Ownership
  <1>. QED BY <1>1, <1>2, <1>3, TypeCorrect, PTL DEF Spec

\* The half of it a crash depends on: what a worker holds is still pending.
THEOREM CrashKeepsTheJob == Spec => []InHandIsPending
  BY OwnershipHolds, PTL
=============================================================================
