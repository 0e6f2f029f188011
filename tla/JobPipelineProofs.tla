------------------------- MODULE JobPipelineProofs -------------------------
(***************************************************************************)
(* Proofs about JobPipeline, for any number of calls, URLs, threads and    *)
(* any stage lists.  Two inductive invariants: DownloadInv of the fetches, *)
(* and PoolInv of the thread pool: what each phase knows of the work the   *)
(* current call has in it, and in which order.                             *)
(***************************************************************************)
EXTENDS JobPipeline, SequenceTheorems, FiniteSetTheorems, TLAPS

-----------------------------------------------------------------------------
\* The fetches: what the steps of ImageDownload preserve.

\* OutcomesAreEarned, of one fetch with this state and these answers.
Earned(where, got) ==
    LET n == Len(got) IN
    /\ n <= MaxRetries + 1
    /\ \A k \in 1 .. n - 1 : got[k] \in Transient
    /\ where = "decoded" => n > 0 /\ got[n] = "image"
    /\ where = "failed" =>
           n > 0 /\ got[n] # "image" /\ (got[n] \in Transient => n = MaxRetries + 1)
    /\ where = "sleeping" => n \in 1 .. MaxRetries /\ got[n] \in Transient
    /\ where = "getting" => n <= MaxRetries

LEMMA EarnedEach == OutcomesAreEarned <=> \A u \in Urls : Earned(fetch[u], answers[u])
BY DEF OutcomesAreEarned, Earned

LEMMA EarnedAgain ==
    ASSUME \A u \in Urls : Earned(fetch'[u], answers'[u])
    PROVE  OutcomesAreEarned'
BY DEF OutcomesAreEarned, Earned

Holders == {u \in Urls : fetch[u] \in InSlot}

\* No GET was answered before the fetch had its first slot, and one that goes on
\* has only had answers to retry on.
AnswersSoFar ==
    \A u \in Urls :
        /\ fetch[u] \in {"waiting", "none"} => answers[u] = <<>>
        /\ fetch[u] \in InSlot => \A k \in 1 .. Len(answers[u]) : answers[u][k] \in Transient

DownloadInv ==
    DownloadTypeOK /\ SlotsConserved /\ OutcomesAreEarned /\ AnswersSoFar

LEMMA HoldersFinite == IsFiniteSet(Urls) /\ IsFiniteSet(Holders) /\ Cardinality(Holders) \in Nat
<1>1. IsFiniteSet(Urls)
  BY DownloadAssumption, FS_Interval DEF Urls
<1> QED
  BY <1>1, FS_Subset, FS_CardinalityType DEF Holders

\* No one holds a slot and all permits are there.
LEMMA NothingHeld ==
    ASSUME Holders' = {}, permits' = Limit
    PROVE  SlotsConserved'
BY FS_EmptySet, DownloadAssumption DEF SlotsConserved, Holders

LEMMA StartPreserves ==
    ASSUME NEW n \in Urls, StartDownload(n)
    PROVE  DownloadInv'
<1>1. DownloadTypeOK'
  BY DownloadAssumption DEF StartDownload, DownloadTypeOK, Over
<1>2. Holders' = {}
  BY DEF StartDownload, Holders, InSlot
<1>3. SlotsConserved'
  BY <1>2, NothingHeld DEF StartDownload
<1>4. OutcomesAreEarned'
  BY DEF StartDownload, OutcomesAreEarned, MaxRetries
<1>5. AnswersSoFar'
  BY DEF StartDownload, AnswersSoFar
<1> QED
  BY <1>1, <1>3, <1>4, <1>5 DEF DownloadInv

LEMMA EndPreserves == EndDownload => DownloadInv'
<1> SUFFICES ASSUME EndDownload PROVE DownloadInv'
  OBVIOUS
<1>1. DownloadTypeOK'
  BY DownloadAssumption DEF EndDownload, DownloadTypeOK, Over
<1>2. Holders' = {}
  BY DEF EndDownload, Holders, InSlot
<1>3. SlotsConserved'
  BY <1>2, NothingHeld DEF EndDownload
<1>4. OutcomesAreEarned'
  BY DEF EndDownload, OutcomesAreEarned, MaxRetries
<1>5. AnswersSoFar'
  BY DEF EndDownload, AnswersSoFar
<1> QED
  BY <1>1, <1>3, <1>4, <1>5 DEF DownloadInv

LEMMA NoDownloadHolds == NoDownload => DownloadInv
<1> SUFFICES ASSUME NoDownload PROVE DownloadInv
  OBVIOUS
<1>1. DownloadTypeOK
  BY DownloadAssumption DEF NoDownload, DownloadTypeOK, Over
<1>2. Holders = {}
  BY DEF NoDownload, Holders, InSlot
<1>3. SlotsConserved
  <2>1. permits = Limit
    BY DEF NoDownload
  <2> QED
    BY <1>2, <2>1, FS_EmptySet, DownloadAssumption DEF SlotsConserved, Holders
<1>4. OutcomesAreEarned
  BY DEF NoDownload, OutcomesAreEarned, MaxRetries
<1>5. AnswersSoFar
  BY DEF NoDownload, AnswersSoFar
<1> QED
  BY <1>1, <1>3, <1>4, <1>5 DEF DownloadInv

LEMMA AcquirePreserves ==
    ASSUME DownloadInv, NEW u \in Urls, Acquire(u)
    PROVE  DownloadInv'
<1>1. DownloadTypeOK /\ SlotsConserved /\ OutcomesAreEarned /\ AnswersSoFar
  BY DEF DownloadInv
<1>2. DownloadTypeOK'
  BY <1>1, DownloadAssumption DEF Acquire, DownloadTypeOK, InSlot
<1>3. u \notin Holders /\ Holders' = Holders \cup {u}
  BY <1>1 DEF Acquire, DownloadTypeOK, Holders, InSlot
<1>4. Cardinality(Holders') = Cardinality(Holders) + 1
  BY <1>3, HoldersFinite, FS_AddElement
<1>5. SlotsConserved'
  BY <1>1, <1>4, HoldersFinite, DownloadAssumption
     DEF Acquire, DownloadTypeOK, SlotsConserved, Holders
<1>6. OutcomesAreEarned'
  <2>1. answers' = answers /\ answers[u] = <<>> /\ fetch'[u] = "getting"
    BY <1>1 DEF Acquire, AnswersSoFar, DownloadTypeOK
  <2>2. \A v \in Urls : v # u => fetch'[v] = fetch[v]
    BY <1>1 DEF Acquire, DownloadTypeOK
  <2> QED
    BY <1>1, <2>1, <2>2 DEF OutcomesAreEarned, MaxRetries
<1>7. AnswersSoFar'
  BY <1>1 DEF Acquire, AnswersSoFar, DownloadTypeOK
<1> QED
  BY <1>2, <1>5, <1>6, <1>7 DEF DownloadInv

LEMMA WakePreserves ==
    ASSUME DownloadInv, NEW u \in Urls, Wake(u)
    PROVE  DownloadInv'
<1>1. DownloadTypeOK /\ SlotsConserved /\ OutcomesAreEarned /\ AnswersSoFar
  BY DEF DownloadInv
<1>2. DownloadTypeOK'
  BY <1>1, DownloadAssumption DEF Wake, DownloadTypeOK, InSlot
<1>3. Holders' = Holders
  BY <1>1 DEF Wake, DownloadTypeOK, Holders, InSlot
<1>4. SlotsConserved'
  BY <1>1, <1>3 DEF Wake, SlotsConserved, Holders
<1>5. OutcomesAreEarned'
  <2>1. answers' = answers /\ fetch[u] = "sleeping" /\ fetch'[u] = "getting"
    BY <1>1 DEF Wake, DownloadTypeOK
  <2>2. \A v \in Urls : v # u => fetch'[v] = fetch[v]
    BY <1>1 DEF Wake, DownloadTypeOK
  <2> QED
    BY <1>1, <2>1, <2>2 DEF OutcomesAreEarned, MaxRetries
<1>6. AnswersSoFar'
  BY <1>1 DEF Wake, AnswersSoFar, DownloadTypeOK, InSlot
<1> QED
  BY <1>2, <1>4, <1>5, <1>6 DEF DownloadInv

\* An answer is appended, and either the slot is kept for another try or left.
LEMMA ReceivePreserves ==
    ASSUME DownloadInv, NEW u \in Urls, NEW a \in Answers, Receive(u, a)
    PROVE  DownloadInv'
<1>1. DownloadTypeOK /\ SlotsConserved /\ OutcomesAreEarned /\ AnswersSoFar
  BY DEF DownloadInv
<1>2. /\ fetch[u] = "getting" /\ answers[u] \in Seq(AnswerKinds) /\ a \in AnswerKinds
      /\ Len(answers[u]) \in 0 .. MaxRetries
  <2>1. fetch[u] = "getting" /\ answers[u] \in Seq(AnswerKinds) /\ a \in AnswerKinds
    BY <1>1, DownloadAssumption DEF Receive, DownloadTypeOK
  <2>2. Earned("getting", answers[u])
    BY <1>1, <2>1, EarnedEach
  <2>3. Len(answers[u]) \in Nat /\ Len(answers[u]) <= MaxRetries
    BY <2>1, <2>2 DEF Earned
  <2>4. \A n \in Nat : n <= MaxRetries => n \in 0 .. MaxRetries
    BY DEF MaxRetries
  <2> QED
    BY <2>1, <2>3, <2>4, Zenon
<1> DEFINE n == Len(answers[u])
           more == Append(answers[u], a)
<1>3. /\ more \in Seq(AnswerKinds) /\ Len(more) = n + 1 /\ more[n + 1] = a
      /\ \A k \in 1 .. n : more[k] = answers[u][k]
  BY <1>2
<1>4. answers' = [answers EXCEPT ![u] = more]
  BY DEF Receive
<1>5. answers'[u] = more /\ \A v \in Urls : v # u => answers'[v] = answers[v]
  BY <1>1, <1>4 DEF DownloadTypeOK
<1>6. answers' \in [Urls -> Seq(AnswerKinds)]
  BY <1>1, <1>3, <1>4 DEF DownloadTypeOK
<1>7. \A k \in 1 .. n : more[k] \in Transient
  BY <1>1, <1>2, <1>3 DEF AnswersSoFar, InSlot
<1> HIDE DEF more
<1>8. CASE Retries(a, n) /\ Sleep(u)
  <2>1. fetch' = [fetch EXCEPT ![u] = "sleeping"] /\ permits' = permits
    BY <1>8 DEF Sleep
  <2>2. DownloadTypeOK'
    BY <1>1, <1>6, <2>1 DEF DownloadTypeOK, InSlot
  <2>3. Holders' = Holders
    BY <1>1, <1>2, <2>1 DEF DownloadTypeOK, Holders, InSlot
  <2>4. SlotsConserved'
    BY <1>1, <2>1, <2>3 DEF SlotsConserved, Holders
  <2>5. n # MaxRetries /\ a \in Transient
    BY <1>8 DEF Retries
  <2>6. fetch'[u] = "sleeping" /\ \A v \in Urls : v # u => fetch'[v] = fetch[v]
    BY <1>1, <2>1 DEF DownloadTypeOK
  <2>7. OutcomesAreEarned'
    <3>1. Earned("sleeping", more)
      BY <1>2, <1>3, <1>7, <2>5 DEF Earned, MaxRetries
    <3>2. \A v \in Urls : Earned(fetch'[v], answers'[v])
      BY <1>1, <1>5, <2>6, <3>1, EarnedEach
    <3> QED
      BY <3>2, EarnedAgain
    <2>8. \A k \in 1 .. Len(more) : more[k] \in Transient
    BY <1>2, <1>3, <1>7, <2>5
  <2>9. AnswersSoFar'
    BY <1>1, <1>5, <2>6, <2>8 DEF AnswersSoFar
  <2> QED
    BY <2>2, <2>4, <2>7, <2>9 DEF DownloadInv
<1>9. ASSUME NEW ending, ending = IF a = "image" THEN "decoded" ELSE "failed",
             ~Retries(a, n), Leave(u, ending)
      PROVE  DownloadInv'
  <2>1. fetch' = [fetch EXCEPT ![u] = ending] /\ permits' = permits + 1 /\ ending \in {"decoded", "failed"}
    BY <1>9 DEF Leave
  <2>2. u \in Holders /\ Holders' = Holders \ {u}
    BY <1>1, <1>2, <2>1 DEF DownloadTypeOK, Holders, InSlot
  <2>3. Cardinality(Holders') = Cardinality(Holders) - 1 /\ Cardinality(Holders') \in Nat
    BY <2>2, HoldersFinite, FS_RemoveElement, FS_CardinalityType
  <2>4. SlotsConserved'
    BY <1>1, <2>1, <2>3, HoldersFinite, DownloadAssumption DEF DownloadTypeOK, SlotsConserved, Holders
  <2>5. permits' \in 0 .. Limit
    BY <1>1, <2>1, <2>3, <2>4, HoldersFinite, DownloadAssumption DEF DownloadTypeOK, SlotsConserved, Holders
  <2>6. DownloadTypeOK'
    BY <1>1, <1>6, <2>1, <2>5 DEF DownloadTypeOK, Over
  <2>7. a \in Transient => n = MaxRetries
    BY <1>9 DEF Retries
  <2>8. fetch'[u] = ending /\ \A v \in Urls : v # u => fetch'[v] = fetch[v]
    BY <1>1, <2>1 DEF DownloadTypeOK
  <2>9. OutcomesAreEarned'
    <3>1. Earned(ending, more)
      BY <1>2, <1>3, <1>7, <1>9, <2>7 DEF Earned, MaxRetries
    <3>2. \A v \in Urls : Earned(fetch'[v], answers'[v])
      BY <1>1, <1>5, <2>8, <3>1, EarnedEach
    <3> QED
      BY <3>2, EarnedAgain
    <2>10. AnswersSoFar'
    BY <1>1, <1>5, <2>1, <2>8 DEF AnswersSoFar, InSlot
  <2> QED
    BY <2>4, <2>6, <2>9, <2>10 DEF DownloadInv
<1> QED
  BY <1>8, <1>9 DEF Receive

LEMMA DownloadStepPreserves == DownloadInv /\ DownloadStep => DownloadInv'
BY AcquirePreserves, WakePreserves, ReceivePreserves DEF DownloadStep

LEMMA DownloadKept ==
    ASSUME DownloadInv, UNCHANGED downloadVars
    PROVE  DownloadInv'
BY DEF DownloadInv, downloadVars, DownloadTypeOK, SlotsConserved, OutcomesAreEarned,
       AnswersSoFar

-----------------------------------------------------------------------------
\* The thread pool.

\* What download_all can return as its list of images.
Lists == {InOrder(S) : S \in SUBSET Urls} \cup {<<>>}
PoolWork == [call : Calls, task : Tasks, images : Lists]
Awaiting == {"moderation", "matching"}

PoolTypes ==
    /\ phase \in Between \cup Awaiting \cup {"download"}
    /\ call \in 0 .. NumCalls
    /\ decoded \in Lists
    /\ queue \in Seq(PoolWork)
    /\ running \subseteq PoolWork
    /\ state \in [Tasks -> {"off", "pending", "done"}]

\* Which tasks each phase has behind it.
StageInv ==
    /\ phase \notin Between => call \in Calls
    /\ phase \notin Awaiting => \A t \in Tasks : state[t] = "off"
    /\ phase = "moderation" =>
         /\ \A t \in {"quality", "safety"} : Active(call, t) => state[t] # "off"
         /\ \A t \in {"fingerprint", "match"} : state[t] = "off"
    /\ phase = "matching" =>
         \A t \in {"quality", "safety"} :
             state[t] # "pending" /\ (Active(call, t) => state[t] = "done")

\* What the current call has in the pool is awaited.
OwnInv ==
    /\ \A w \in WorkInPool : w.call <= call
    /\ phase = "download" => \A w \in WorkInPool : w.call # call
    /\ phase \in Awaiting => \A w \in WorkInPool : w.call = call => state[w.task] = "pending"

\* The pool is first in, first out: what earlier calls have left in the queue
\* stands before the current call's work.
QueueInv ==
    phase \in Awaiting =>
        /\ \A k, l \in 1 .. Len(queue) : k < l /\ queue[k].call = call => queue[l].call = call
        /\ (\E w \in running : w.call = call) => \A k \in 1 .. Len(queue) : queue[k].call = call

SameTask(v, w) == v.call = w.call /\ v.task = w.task

\* A task of a call is in the pool once.
UniqueInv ==
    /\ \A v, w \in running : SameTask(v, w) => v = w
    /\ \A w \in running, k \in 1 .. Len(queue) : ~SameTask(w, queue[k])
    /\ \A k, l \in 1 .. Len(queue) : SameTask(queue[k], queue[l]) => k = l

BoundInv ==
    /\ IsFiniteSet(running) /\ Cardinality(running) <= Threads
    /\ IsFiniteSet(Abandoned) /\ Cardinality(Abandoned) <= Threads

PoolInv == PoolTypes /\ StageInv /\ OwnInv /\ QueueInv /\ UniqueInv /\ BoundInv

-----------------------------------------------------------------------------
LEMMA PoolElements ==
    ASSUME PoolTypes
    PROVE  /\ call \in Nat
           /\ \A w \in WorkInPool : w.call \in Calls /\ w.call \in Nat /\ w.task \in Tasks
<1>1. \A k \in 1 .. Len(queue) : queue[k] \in PoolWork
  BY DEF PoolTypes
<1>2. WorkInPool \subseteq PoolWork
  BY <1>1 DEF PoolTypes, WorkInPool
<1>3. \A w \in PoolWork : w.call \in Calls /\ w.task \in Tasks
  BY DEF PoolWork
<1>4. Calls \subseteq Nat
  BY PipelineAssumption DEF Calls
<1>5. call \in Nat
  BY PipelineAssumption DEF PoolTypes
<1> QED
  BY <1>2, <1>3, <1>4, <1>5

\* Abandoning no more than before keeps the bound.
LEMMA BoundKept ==
    ASSUME PoolInv, running' \subseteq running, Abandoned' \subseteq Abandoned
    PROVE  BoundInv'
<1>1. BoundInv
  BY DEF PoolInv
<1>2. /\ IsFiniteSet(Abandoned') /\ Cardinality(Abandoned') <= Cardinality(Abandoned)
      /\ IsFiniteSet(running') /\ Cardinality(running') <= Cardinality(running)
  BY <1>1, FS_Subset DEF BoundInv
<1>3. /\ Cardinality(Abandoned') \in Nat /\ Cardinality(Abandoned) \in Nat
      /\ Cardinality(running') \in Nat /\ Cardinality(running) \in Nat
  BY <1>1, <1>2, FS_CardinalityType DEF BoundInv
<1> QED
  BY <1>1, <1>2, <1>3, PipelineAssumption DEF BoundInv

LEMMA PoolInit == Init => PoolInv
<1> SUFFICES ASSUME Init PROVE PoolInv
  OBVIOUS
<1>1. running = {} /\ queue = <<>> /\ Abandoned = {}
  BY DEF Init, Abandoned, WorkInPool
<1>2. BoundInv
  BY <1>1, FS_EmptySet, PipelineAssumption DEF BoundInv
<1>3. PoolTypes
  BY PipelineAssumption DEF Init, PoolTypes, Lists, Between
<1>4. StageInv /\ OwnInv /\ QueueInv /\ UniqueInv
  BY <1>1 DEF Init, StageInv, OwnInv, QueueInv, UniqueInv, WorkInPool, Between, Awaiting
<1> QED
  BY <1>2, <1>3, <1>4 DEF PoolInv

LEMMA PoolKept ==
    ASSUME PoolInv, UNCHANGED <<phase, call, decoded, queue, running, state>>
    PROVE  PoolInv'
<1>1. Abandoned' = Abandoned
  BY DEF Abandoned, WorkInPool, Awaited
<1>2. BoundInv'
  BY <1>1, BoundKept
<1> QED
  BY <1>2 DEF PoolInv, PoolTypes, StageInv, OwnInv, QueueInv, UniqueInv, WorkInPool

\* The call ends, or the process does, while nothing in the pool is awaited.
LEMMA RestPreserves ==
    ASSUME PoolInv, phase' \in Between, UNCHANGED <<call, queue, running>>, decoded' \in Lists,
           state' = [t \in Tasks |-> "off"], \A w \in WorkInPool : ~Awaited(w)
    PROVE  PoolInv'
<1>1. WorkInPool' = WorkInPool /\ Abandoned = WorkInPool
  BY DEF WorkInPool, Abandoned
<1>2. BoundInv'
  BY <1>1, BoundKept DEF Abandoned
<1>3. PoolTypes'
  BY DEF PoolInv, PoolTypes
<1>4. StageInv' /\ OwnInv' /\ QueueInv' /\ UniqueInv'
  BY <1>1 DEF PoolInv, StageInv, OwnInv, QueueInv, UniqueInv, Between, Awaiting
<1> QED
  BY <1>2, <1>3, <1>4 DEF PoolInv

LEMMA NobodyAwaited ==
    ASSUME PoolInv, phase \notin Awaiting \/ Gathered
    PROVE  \A w \in WorkInPool : ~Awaited(w)
<1>1. \A w \in WorkInPool : w.task \in Tasks
  BY PoolElements DEF PoolInv
<1> QED
  BY <1>1 DEF PoolInv, StageInv, Awaited, Gathered

LEMMA BeginPreserves == PoolInv /\ BeginCall => PoolInv'
<1> SUFFICES ASSUME PoolInv, BeginCall PROVE PoolInv'
  OBVIOUS
<1>1. /\ phase = "idle" /\ phase' = "download" /\ call' = call + 1 /\ call < NumCalls
      /\ UNCHANGED <<decoded, queue, running, state>>
  BY DEF BeginCall, poolVars
<1>2. PoolTypes'
  BY <1>1, PipelineAssumption DEF PoolInv, PoolTypes
<1>3. WorkInPool' = WorkInPool /\ \A w \in WorkInPool : w.call \in Nat /\ w.call <= call
  BY <1>1, PoolElements DEF PoolInv, OwnInv, WorkInPool
<1>4. StageInv'
  BY <1>1, PipelineAssumption DEF PoolInv, PoolTypes, StageInv, Calls, Between, Awaiting
<1>5. OwnInv'
  BY <1>1, <1>3, PipelineAssumption DEF PoolInv, PoolTypes, OwnInv, Awaiting
<1>6. Abandoned = WorkInPool
  BY <1>1, NobodyAwaited DEF Abandoned, Awaiting
<1>7. BoundInv'
  BY <1>1, <1>3, <1>6, BoundKept DEF Abandoned
<1>8. QueueInv' /\ UniqueInv'
  BY <1>1 DEF PoolInv, QueueInv, UniqueInv, Awaiting
<1> QED
  BY <1>2, <1>4, <1>5, <1>7, <1>8 DEF PoolInv

AtMostOne(A, a) == A \in {<<>>, <<a>>}

\* s is A, which is at most an a, and B after it.
ListsBoth(s, A, a, B, b) ==
    /\ s \in Seq(Tasks)
    /\ \A k \in 1 .. Len(s) : s[k] \in {a, b}
    /\ \A k, l \in 1 .. Len(s) : s[k] = s[l] => k = l
    /\ A = <<a>> => \E k \in 1 .. Len(s) : s[k] = a
    /\ B = <<b>> => \E k \in 1 .. Len(s) : s[k] = b
    /\ \A k \in 1 .. Len(s) : (s[k] = a => A = <<a>>) /\ (s[k] = b => B = <<b>>)

LEMMA AtMostTwo ==
    ASSUME NEW a \in Tasks, NEW b \in Tasks, a # b,
           NEW A, AtMostOne(A, a), NEW B, AtMostOne(B, b)
    PROVE  ListsBoth(A \o B, A, a, B, b)
<1> DEFINE s == A \o B
<1>1. A \in Seq(Tasks) /\ B \in Seq(Tasks)
  <2>1. <<>> \in Seq(Tasks) /\ <<a>> \in Seq(Tasks) /\ <<b>> \in Seq(Tasks)
    OBVIOUS
  <2> QED
    BY <2>1, Zenon DEF AtMostOne
<1>2. /\ s \in Seq(Tasks) /\ Len(s) = Len(A) + Len(B)
      /\ \A k \in 1 .. Len(A) : s[k] = A[k]
      /\ \A k \in 1 .. Len(B) : s[Len(A) + k] = B[k]
  BY <1>1, ConcatProperties
<1> HIDE DEF s
<1>3. ASSUME A = <<>>, B = <<>> PROVE ListsBoth(s, A, a, B, b)
  BY <1>2, <1>3 DEF ListsBoth
<1>4. ASSUME A = <<a>>, B = <<>> PROVE ListsBoth(s, A, a, B, b)
  <2>1. Len(s) = 1 /\ s[1] = a
    BY <1>2, <1>4
  <2> QED
    BY <1>2, <1>4, <2>1 DEF ListsBoth
<1>5. ASSUME A = <<>>, B = <<b>> PROVE ListsBoth(s, A, a, B, b)
  <2>1. Len(s) = 1 /\ s[1] = b
    BY <1>2, <1>5
  <2> QED
    BY <1>2, <1>5, <2>1 DEF ListsBoth
<1>6. ASSUME A = <<a>>, B = <<b>> PROVE ListsBoth(s, A, a, B, b)
  <2>1. Len(s) = 2 /\ s[1] = a /\ s[2] = b
    BY <1>2, <1>6
  <2>2. \A k \in 1 .. Len(s) : k = 1 \/ k = 2
    BY <2>1
  <2>3. \E k \in 1 .. Len(s) : s[k] = a
    BY <2>1
  <2>4. \E k \in 1 .. Len(s) : s[k] = b
    BY <2>1
  <2>5. \A k \in 1 .. Len(s) : (s[k] = a => A = <<a>>) /\ (s[k] = b => B = <<b>>)
    BY <1>6
  <2>6. \A k \in 1 .. Len(s) : s[k] \in {a, b}
    BY <2>1, <2>2
  <2>7. \A k, l \in 1 .. Len(s) : s[k] = s[l] => k = l
    BY <2>1, <2>2
  <2> QED
    BY <1>2, <2>3, <2>4, <2>5, <2>6, <2>7 DEF ListsBoth
<1> QED
  BY <1>3, <1>4, <1>5, <1>6, Zenon DEF AtMostOne, s

\* Moderation and Matching list the tasks the call runs.
LEMMA TaskLists ==
    ASSUME NEW c
    PROVE  /\ Moderation(c) \in Seq(Tasks) /\ Matching(c) \in Seq(Tasks)
           /\ \A k \in 1 .. Len(Moderation(c)) : Moderation(c)[k] \in {"quality", "safety"}
           /\ \A k \in 1 .. Len(Matching(c)) : Matching(c)[k] \in {"fingerprint", "match"}
           /\ \A t \in {"quality", "safety"} :
                Active(c, t) => \E k \in 1 .. Len(Moderation(c)) : Moderation(c)[k] = t
           /\ \A k, l \in 1 .. Len(Moderation(c)) : Moderation(c)[k] = Moderation(c)[l] => k = l
           /\ \A k, l \in 1 .. Len(Matching(c)) : Matching(c)[k] = Matching(c)[l] => k = l
<1>1. \A t : TaskIf(c, t) \in {<<>>, <<t>>} /\ (Active(c, t) => TaskIf(c, t) = <<t>>)
  BY DEF TaskIf
<1>2. \A t \in {"quality", "safety", "fingerprint", "match"} : t \in Tasks
  BY DEF Tasks
<1>3. \A t : AtMostOne(TaskIf(c, t), t)
  BY <1>1 DEF AtMostOne
<1>4. /\ Moderation(c) \in Seq(Tasks)
      /\ \A k \in 1 .. Len(Moderation(c)) : Moderation(c)[k] \in {"quality", "safety"}
      /\ \A k, l \in 1 .. Len(Moderation(c)) : Moderation(c)[k] = Moderation(c)[l] => k = l
      /\ TaskIf(c, "quality") = <<"quality">> =>
           \E k \in 1 .. Len(Moderation(c)) : Moderation(c)[k] = "quality"
      /\ TaskIf(c, "safety") = <<"safety">> =>
           \E k \in 1 .. Len(Moderation(c)) : Moderation(c)[k] = "safety"
  <2>1. "quality" # "safety" /\ "quality" \in Tasks /\ "safety" \in Tasks
    BY <1>2
  <2>2. ListsBoth(Moderation(c), TaskIf(c, "quality"), "quality", TaskIf(c, "safety"), "safety")
    BY <1>3, <2>1, AtMostTwo DEF Moderation
  <2> QED
    BY <2>2, Zenon DEF ListsBoth
<1>5. /\ Matching(c) \in Seq(Tasks)
      /\ \A k \in 1 .. Len(Matching(c)) : Matching(c)[k] \in {"fingerprint", "match"}
      /\ \A k, l \in 1 .. Len(Matching(c)) : Matching(c)[k] = Matching(c)[l] => k = l
  <2>1. "fingerprint" # "match" /\ "fingerprint" \in Tasks /\ "match" \in Tasks
    BY <1>2
  <2>2. ListsBoth(Matching(c), TaskIf(c, "fingerprint"), "fingerprint", TaskIf(c, "match"), "match")
    BY <1>3, <2>1, AtMostTwo DEF Matching
  <2> QED
    BY <2>2, Zenon DEF ListsBoth
<1> QED
  BY <1>1, <1>4, <1>5

LEMMA SubmitEffect ==
    ASSUME PoolTypes, call \in Calls, NEW next, NEW tasks \in Seq(Tasks), NEW images \in Lists,
           Submit(next, tasks, images)
    PROVE  /\ queue' \in Seq(PoolWork) /\ Len(queue') = Len(queue) + Len(tasks)
           /\ \A k \in 1 .. Len(queue) : queue'[k] = queue[k]
           /\ \A k \in 1 .. Len(queue') : k > Len(queue) =>
                queue'[k] = [call |-> call, task |-> tasks[k - Len(queue)], images |-> images]
           /\ state' \in [Tasks -> {"off", "pending", "done"}]
           /\ \A k \in 1 .. Len(tasks) : state'[tasks[k]] = "pending"
           /\ \A t \in Tasks : (\A k \in 1 .. Len(tasks) : tasks[k] # t) => state'[t] = state[t]
<1> DEFINE new == [k \in 1 .. Len(tasks) |->
                     [call |-> call, task |-> tasks[k], images |-> images]]
<1>1. Len(tasks) \in Nat /\ \A k \in 1 .. Len(tasks) : tasks[k] \in Tasks
  OBVIOUS
<1>2. \A k \in 1 .. Len(tasks) : new[k] \in PoolWork
  BY <1>1 DEF PoolWork
<1>3. new \in Seq(PoolWork) /\ Len(new) = Len(tasks)
  BY <1>1, <1>2
<1>4. queue \in Seq(PoolWork) /\ queue' = queue \o new
  BY DEF PoolTypes, Submit
<1> HIDE DEF new
<1>5. /\ queue' \in Seq(PoolWork) /\ Len(queue') = Len(queue) + Len(tasks)
      /\ \A k \in 1 .. Len(queue) : queue'[k] = queue[k]
      /\ \A k \in 1 .. Len(queue') : k > Len(queue) => queue'[k] = new[k - Len(queue)]
  <2>1. /\ queue' \in Seq(PoolWork) /\ Len(queue') = Len(queue) + Len(new)
        /\ \A k \in 1 .. Len(queue) : queue'[k] = queue[k]
        /\ \A k \in 1 .. Len(new) : queue'[Len(queue) + k] = new[k]
        /\ Len(queue) \in Nat
    <3>1. /\ Len(queue) \in Nat /\ Len(new) \in Nat
          /\ queue' \in Seq(PoolWork) /\ Len(queue') = Len(queue) + Len(new)
      BY <1>3, <1>4, ConcatProperties, LenProperties
    <3>2. \A i \in 1 .. Len(queue) + Len(new) :
            queue'[i] = IF i <= Len(queue) THEN queue[i] ELSE new[i - Len(queue)]
      BY <1>3, <1>4, ConcatProperties
    <3>3. \A k \in 1 .. Len(queue) : queue'[k] = queue[k]
      BY <3>1, <3>2
    <3>4. ASSUME NEW k \in 1 .. Len(new) PROVE queue'[Len(queue) + k] = new[k]
      <4>1. Len(queue) + k \in 1 .. Len(queue) + Len(new) /\ ~(Len(queue) + k <= Len(queue))
        BY <3>1
      <4>2. Len(queue) + k - Len(queue) = k
        BY <3>1
      <4> QED
        BY <3>2, <4>1, <4>2
    <3> QED
      BY <3>1, <3>3, <3>4
  <2>2. ASSUME NEW k \in 1 .. Len(queue'), k > Len(queue) PROVE queue'[k] = new[k - Len(queue)]
    <3>1. k - Len(queue) \in 1 .. Len(new) /\ Len(queue) + (k - Len(queue)) = k
      BY <1>1, <1>3, <2>1, <2>2
    <3> QED
      BY <2>1, <3>1
  <2> QED
    BY <1>3, <2>1, <2>2
<1>6. \A k \in 1 .. Len(queue') : k > Len(queue) =>
        queue'[k] = [call |-> call, task |-> tasks[k - Len(queue)], images |-> images]
  <2> SUFFICES ASSUME NEW k \in 1 .. Len(queue'), k > Len(queue)
               PROVE  queue'[k] = [call |-> call, task |-> tasks[k - Len(queue)], images |-> images]
    OBVIOUS
  <2>1. Len(queue) \in Nat
    BY <1>4
  <2>2. k - Len(queue) \in 1 .. Len(tasks)
    BY <1>1, <1>5, <2>1
  <2> QED
    BY <1>5, <2>2 DEF new
<1>7. /\ state' \in [Tasks -> {"off", "pending", "done"}]
      /\ \A k \in 1 .. Len(tasks) : state'[tasks[k]] = "pending"
      /\ \A t \in Tasks : (\A k \in 1 .. Len(tasks) : tasks[k] # t) => state'[t] = state[t]
  BY <1>1 DEF PoolTypes, Submit
<1> QED
  BY <1>5, <1>6, <1>7

LEMMA SubmitStates ==
    ASSUME PoolTypes, call \in Calls, NEW next, NEW tasks \in Seq(Tasks),
           Submit(next, tasks, decoded'), decoded' \in Lists
    PROVE  /\ \A k \in 1 .. Len(tasks) : state'[tasks[k]] = "pending"
           /\ \A t \in Tasks : (\A k \in 1 .. Len(tasks) : tasks[k] # t) => state'[t] = state[t]
<1>1. PICK images \in Lists : images = decoded'
  OBVIOUS
<1>2. Submit(next, tasks, images)
  BY <1>1
<1> QED
  BY <1>2, SubmitEffect

\* A batch of tasks goes to the pool while nothing of its call is there.
LEMMA SubmitPreserves ==
    ASSUME PoolInv, call \in Calls, NEW next \in Awaiting, NEW tasks \in Seq(Tasks),
           Submit(next, tasks, decoded'), decoded' \in Lists, call' = call,
           \A w \in WorkInPool : w.call # call,
           \A k, l \in 1 .. Len(tasks) : tasks[k] = tasks[l] => k = l, StageInv'
    PROVE  PoolInv'
<1>1. PoolTypes /\ OwnInv /\ QueueInv /\ UniqueInv /\ BoundInv
  BY DEF PoolInv
<1>2. phase' = next /\ running' = running
  BY DEF Submit
<1>13. PICK images \in Lists : images = decoded'
  OBVIOUS
<1>14. Submit(next, tasks, images)
  BY <1>13
<1> DEFINE n == Len(queue)
<1>3. /\ queue' \in Seq(PoolWork) /\ Len(queue') = n + Len(tasks)
      /\ n \in Nat /\ Len(tasks) \in Nat
      /\ \A k \in 1 .. n : queue'[k] = queue[k]
      /\ state' \in [Tasks -> {"off", "pending", "done"}]
      /\ \A k \in 1 .. Len(tasks) : state'[tasks[k]] = "pending"
  <2>1. n \in Nat /\ Len(tasks) \in Nat
    BY <1>1, LenProperties DEF PoolTypes
  <2> QED
    BY <1>1, <1>14, <2>1, SubmitEffect
<1>4. \A k \in 1 .. Len(queue') : k > n =>
        queue'[k].call = call /\ queue'[k].task = tasks[k - n] /\ k - n \in 1 .. Len(tasks)
  <2>1. \A k \in 1 .. Len(queue') : k > n =>
          queue'[k] = [call |-> call, task |-> tasks[k - n], images |-> images]
    BY <1>1, <1>14, SubmitEffect
  <2>2. \A k \in 1 .. Len(queue') : k > n => k - n \in 1 .. Len(tasks)
    BY <1>3
  <2> SUFFICES ASSUME NEW k \in 1 .. Len(queue'), k > n
               PROVE  queue'[k].call = call /\ queue'[k].task = tasks[k - n] /\ k - n \in 1 .. Len(tasks)
    OBVIOUS
  <2>3. queue'[k] = [call |-> call, task |-> tasks[k - n], images |-> images]
    BY <2>1
  <2> QED
    BY <2>2, <2>3
<1>5. PoolTypes'
  BY <1>1, <1>2, <1>3 DEF PoolTypes
<1>6. \A k \in 1 .. n : queue[k].call # call
  BY DEF WorkInPool
<1>7. \A w \in WorkInPool' :
        w \in WorkInPool \/ (w.call = call /\ state'[w.task] = "pending")
  <2> SUFFICES ASSUME NEW w \in WorkInPool', w \notin WorkInPool
               PROVE  w.call = call /\ state'[w.task] = "pending"
    OBVIOUS
  <2>1. PICK k \in 1 .. Len(queue') : w = queue'[k]
    BY <1>2 DEF WorkInPool
  <2>2. k > n
    BY <1>3, <2>1 DEF WorkInPool
  <2> QED
    BY <1>3, <1>4, <2>1, <2>2
<1>15. /\ \A w \in running, k \in 1 .. n : ~SameTask(w, queue[k])
       /\ \A k, l \in 1 .. n : SameTask(queue[k], queue[l]) => k = l
  BY <1>1 DEF UniqueInv
<1> HIDE DEF n
<1>8. OwnInv'
  BY <1>1, <1>2, <1>7, PoolElements DEF OwnInv, Awaiting
<1>9. QueueInv'
  <2>1. ASSUME NEW k \in 1 .. Len(queue'), NEW l \in 1 .. Len(queue'), k < l, queue'[k].call = call
        PROVE  queue'[l].call = call
    <3>1. k > n
      BY <1>3, <1>6, <2>1
    <3> QED
      BY <1>3, <1>4, <2>1, <3>1
  <2>2. ~\E w \in running' : w.call = call
    BY <1>2 DEF WorkInPool
  <2> QED
    BY <2>1, <2>2 DEF QueueInv
<1>10. UniqueInv'
  <2>1. ASSUME NEW w \in running, NEW k \in 1 .. Len(queue') PROVE ~SameTask(w, queue'[k])
    <3>1. CASE k \in 1 .. n
      BY <1>3, <1>15, <3>1
    <3>2. CASE k > n
      BY <1>4, <3>2 DEF SameTask, WorkInPool
    <3> QED
      BY <1>3, <3>1, <3>2
  <2>2. ASSUME NEW k \in 1 .. Len(queue'), NEW l \in 1 .. Len(queue'), SameTask(queue'[k], queue'[l])
        PROVE  k = l
    <3>1. CASE k \in 1 .. n /\ l \in 1 .. n
      BY <1>3, <1>15, <2>2, <3>1
    <3>2. CASE k > n /\ l > n
      <4>1. k - n = l - n
        BY <1>4, <2>2, <3>2 DEF SameTask
      <4> QED
        BY <1>3, <4>1
    <3>3. CASE (k \in 1 .. n /\ l > n) \/ (k > n /\ l \in 1 .. n)
      BY <1>3, <1>4, <1>6, <2>2, <3>3 DEF SameTask
    <3> QED
      BY <1>3, <3>1, <3>2, <3>3
  <2> QED
    BY <1>1, <1>2, <2>1, <2>2 DEF UniqueInv
<1>11. Abandoned' \subseteq Abandoned
  BY <1>7 DEF Abandoned, Awaited
<1>12. BoundInv'
  BY <1>2, <1>11, BoundKept
<1> QED
  BY <1>5, <1>8, <1>9, <1>10, <1>12 DEF PoolInv

LEMMA DownloadDonePreserves == PoolInv /\ DownloadDone => PoolInv'
<1> SUFFICES ASSUME PoolInv, DownloadDone PROVE PoolInv'
  OBVIOUS
<1>1. PoolTypes /\ StageInv /\ OwnInv
  BY DEF PoolInv
<1>2. phase = "download" /\ call' = call /\ decoded' = InOrder(Decoded)
  BY DEF DownloadDone
<1>3. decoded' \in Lists
  BY <1>2 DEF Lists, Decoded
<1>4. call \in Calls /\ \A t \in Tasks : state[t] = "off"
  BY <1>1, <1>2 DEF StageInv, Between, Awaiting
<1>5. \A w \in WorkInPool : w.call # call
  BY <1>1, <1>2 DEF OwnInv
<1>6. {"quality", "safety", "fingerprint", "match"} = Tasks
  BY DEF Tasks
<1>7. CASE Moderation(call) # <<>> /\ Submit("moderation", Moderation(call), InOrder(Decoded))
  <2>1. Submit("moderation", Moderation(call), decoded')
    BY <1>2, <1>7
  <2>2. \A k \in 1 .. Len(Moderation(call)) : state'[Moderation(call)[k]] = "pending"
    BY <1>1, <1>3, <1>4, <2>1, TaskLists, SubmitStates
  <2>3. \A t \in {"quality", "safety"} : Active(call, t) => state'[t] = "pending"
    BY <2>2, TaskLists
  <2>4. \A t \in {"fingerprint", "match"} : state'[t] = "off"
    BY <1>1, <1>3, <1>4, <1>6, <2>1, TaskLists, SubmitStates
  <2>5. phase' = "moderation"
    BY <1>7 DEF Submit
  <2>6. StageInv'
    BY <1>2, <1>4, <2>3, <2>4, <2>5 DEF StageInv, Awaiting, Active, Stages
  <2> QED
    BY <1>2, <1>3, <1>4, <1>5, <2>1, <2>6, TaskLists, SubmitPreserves DEF Awaiting
<1>8. CASE Moderation(call) = <<>> /\ Submit("matching", Matching(call), InOrder(Decoded))
  <2>1. Submit("matching", Matching(call), decoded')
    BY <1>2, <1>8
  <2>2. \A t \in {"quality", "safety"} : state'[t] = "off"
    BY <1>1, <1>3, <1>4, <1>6, <2>1, TaskLists, SubmitStates
  <2>3. \A t \in {"quality", "safety"} : ~Active(call, t)
    <3>1. Len(Moderation(call)) = 0
      BY <1>8
    <3> QED
      BY <3>1, TaskLists
  <2>4. phase' = "matching"
    BY <1>8 DEF Submit
  <2>5. StageInv'
    BY <1>2, <1>4, <2>2, <2>3, <2>4 DEF StageInv, Awaiting, Active, Stages
  <2> QED
    BY <1>2, <1>3, <1>4, <1>5, <2>1, <2>5, TaskLists, SubmitPreserves DEF Awaiting
<1> QED
  BY <1>7, <1>8 DEF DownloadDone

LEMMA ModerationDonePreserves == PoolInv /\ ModerationDone => PoolInv'
<1> SUFFICES ASSUME PoolInv, ModerationDone PROVE PoolInv'
  OBVIOUS
<1>1. PoolTypes /\ StageInv /\ OwnInv
  BY DEF PoolInv
<1>2. phase = "moderation" /\ UNCHANGED <<call, decoded>> /\ Gathered
      /\ Submit("matching", Matching(call), decoded)
  BY DEF ModerationDone
<1>3. decoded' \in Lists /\ call \in Calls
  BY <1>1, <1>2 DEF PoolTypes, StageInv, Between
<1>4. \A w \in WorkInPool : w.call # call
  BY <1>1, <1>2, PoolElements DEF OwnInv, Gathered, Awaiting
<1>5. {"quality", "safety", "fingerprint", "match"} = Tasks
  BY DEF Tasks
<1>6. Submit("matching", Matching(call), decoded')
  BY <1>2
<1>7. \A t \in {"quality", "safety"} : state'[t] = state[t]
  BY <1>1, <1>2, <1>3, <1>5, TaskLists, SubmitStates
<1>8. \A t \in {"quality", "safety"} :
        state[t] # "pending" /\ (Active(call, t) => state[t] = "done")
  BY <1>1, <1>2, <1>5 DEF PoolTypes, StageInv, Gathered
<1>9. phase' = "matching"
  BY <1>2 DEF Submit
<1>10. StageInv'
  BY <1>2, <1>3, <1>7, <1>8, <1>9 DEF StageInv, Awaiting, Active, Stages
<1> QED
  BY <1>2, <1>3, <1>4, <1>6, <1>10, TaskLists, SubmitPreserves DEF Awaiting

LEMMA CallEndPreserves == PoolInv /\ (NothingDownloaded \/ MatchingDone \/ Exit) => PoolInv'
<1> SUFFICES ASSUME PoolInv, NothingDownloaded \/ MatchingDone \/ Exit PROVE PoolInv'
  OBVIOUS
<1>1. PoolTypes /\ StageInv
  BY DEF PoolInv
<1>2. CASE NothingDownloaded
  <2>1. phase \notin Awaiting /\ phase' \in Between /\ UNCHANGED <<call, queue, running>>
        /\ decoded' = <<>> /\ state' = [t \in Tasks |-> "off"]
    BY <1>2 DEF NothingDownloaded, EndCall, NoTasks, poolVars, Awaiting, Between
  <2> QED
    BY <2>1, NobodyAwaited, RestPreserves DEF Lists
<1>3. CASE MatchingDone
  <2>1. Gathered /\ phase' \in Between /\ UNCHANGED <<call, queue, running>>
        /\ decoded' = <<>> /\ state' = [t \in Tasks |-> "off"]
    BY <1>3 DEF MatchingDone, Merge, EndCall, NoTasks, poolVars, Between
  <2> QED
    BY <2>1, NobodyAwaited, RestPreserves DEF Lists
<1>4. CASE Exit
  <2>1. phase \notin Awaiting /\ phase' \in Between /\ UNCHANGED <<call, queue, running, decoded, state>>
    BY <1>4 DEF Exit, poolVars, Awaiting, Between
  <2>2. state' = [t \in Tasks |-> "off"] /\ decoded' \in Lists
    BY <1>1, <2>1 DEF PoolTypes, StageInv
  <2> QED
    BY <2>1, <2>2, NobodyAwaited, RestPreserves
<1> QED
  BY <1>2, <1>3, <1>4

LEMMA TakePreserves == PoolInv /\ TakeWork => PoolInv'
<1> SUFFICES ASSUME PoolInv, TakeWork PROVE PoolInv'
  OBVIOUS
<1>1. PoolTypes /\ StageInv /\ OwnInv /\ QueueInv /\ UniqueInv /\ BoundInv
  BY DEF PoolInv
<1>2. /\ queue # <<>> /\ queue \in Seq(PoolWork)
      /\ running' = running \cup {Head(queue)} /\ queue' = Tail(queue)
      /\ Cardinality(running) < Threads /\ UNCHANGED <<phase, call, decoded, state>>
  BY <1>1 DEF TakeWork, PoolTypes, callVars
<1> DEFINE h == queue[1]
           n == Len(queue)
<1>3. /\ n \in Nat /\ n >= 1 /\ 1 \in 1 .. n /\ Head(queue) = h /\ h \in PoolWork
      /\ queue' \in Seq(PoolWork) /\ Len(queue') = n - 1
      /\ \A k \in 1 .. n - 1 : queue'[k] = queue[k + 1] /\ k + 1 \in 1 .. n
  BY <1>2
<1>4. running' = running \cup {h}
  BY <1>2, <1>3
<1>5. WorkInPool' = WorkInPool
  <2>1. \A w \in WorkInPool' : w \in WorkInPool
    BY <1>3, <1>4 DEF WorkInPool
  <2>2. ASSUME NEW k \in 1 .. n PROVE queue[k] \in WorkInPool'
    <3>1. CASE k = 1
      BY <1>4, <3>1 DEF WorkInPool
    <3>2. CASE k # 1
      <4>1. k - 1 \in 1 .. n - 1 /\ (k - 1) + 1 = k
        BY <1>3, <3>2
      <4>2. queue'[k - 1] = queue[k] /\ k - 1 \in 1 .. Len(queue')
        BY <1>3, <4>1
      <4> QED
        BY <4>2 DEF WorkInPool
    <3> QED
      BY <3>1, <3>2
  <2>3. \A w \in running : w \in WorkInPool'
    BY <1>4 DEF WorkInPool
  <2> QED
    BY <2>1, <2>2, <2>3 DEF WorkInPool
<1>6. PoolTypes' /\ StageInv' /\ OwnInv'
  BY <1>1, <1>2, <1>3, <1>4, <1>5 DEF PoolTypes, StageInv, OwnInv, Active, Stages
<1>7. /\ \A w \in running, k \in 1 .. n : ~SameTask(w, queue[k])
      /\ \A k, l \in 1 .. n : SameTask(queue[k], queue[l]) => k = l
      /\ \A v, w \in running : SameTask(v, w) => v = w
  BY <1>1 DEF UniqueInv
<1>8. UniqueInv'
  <2>1. ASSUME NEW v \in running', NEW w \in running', SameTask(v, w) PROVE v = w
    <3>1. CASE v \in running /\ w \in running
      BY <1>7, <2>1, <3>1
    <3>2. CASE v = h /\ w \in running
      BY <1>3, <1>7, <2>1, <3>2 DEF SameTask
    <3>3. CASE v \in running /\ w = h
      BY <1>3, <1>7, <2>1, <3>3
    <3>4. CASE v = h /\ w = h
      BY <3>4
    <3> QED
      BY <1>4, <3>1, <3>2, <3>3, <3>4
  <2>2. ASSUME NEW w \in running', NEW k \in 1 .. Len(queue') PROVE ~SameTask(w, queue'[k])
    <3>1. queue'[k] = queue[k + 1] /\ k + 1 \in 1 .. n /\ k + 1 # 1
      BY <1>3
    <3>2. CASE w \in running
      BY <1>7, <3>1, <3>2
    <3>3. CASE w = h
      BY <1>3, <1>7, <3>1, <3>3
    <3> QED
      BY <1>4, <3>2, <3>3
  <2>3. ASSUME NEW k \in 1 .. Len(queue'), NEW l \in 1 .. Len(queue'), SameTask(queue'[k], queue'[l])
        PROVE  k = l
    <3>1. /\ queue'[k] = queue[k + 1] /\ k + 1 \in 1 .. n
          /\ queue'[l] = queue[l + 1] /\ l + 1 \in 1 .. n
      BY <1>3
    <3>2. k + 1 = l + 1
      BY <1>7, <2>3, <3>1
    <3> QED
      BY <1>3, <3>2
  <2> QED
    BY <2>1, <2>2, <2>3 DEF UniqueInv
<1>9. QueueInv'
  <2> SUFFICES ASSUME phase \in Awaiting PROVE QueueInv'
    BY <1>2 DEF QueueInv
  <2>1. /\ \A k, l \in 1 .. n : k < l /\ queue[k].call = call => queue[l].call = call
        /\ (\E w \in running : w.call = call) => \A k \in 1 .. n : queue[k].call = call
    BY <1>1 DEF QueueInv
  <2>2. ASSUME NEW k \in 1 .. Len(queue'), NEW l \in 1 .. Len(queue'), k < l, queue'[k].call = call
        PROVE  queue'[l].call = call
    <3>1. /\ queue'[k] = queue[k + 1] /\ k + 1 \in 1 .. n
          /\ queue'[l] = queue[l + 1] /\ l + 1 \in 1 .. n /\ k + 1 < l + 1
      BY <1>3, <2>2
    <3> QED
      BY <2>1, <2>2, <3>1
  <2>3. ASSUME NEW w \in running', w.call = call, NEW k \in 1 .. Len(queue')
        PROVE  queue'[k].call = call
    <3>1. queue'[k] = queue[k + 1] /\ k + 1 \in 1 .. n /\ 1 < k + 1
      BY <1>3
    <3>2. CASE w \in running
      BY <2>1, <2>3, <3>1, <3>2
    <3>3. CASE w = h
      BY <1>3, <2>1, <2>3, <3>1, <3>3
    <3> QED
      BY <1>4, <3>2, <3>3
  <2> QED
    BY <1>2, <2>2, <2>3 DEF QueueInv
<1>10. BoundInv'
  <2>1. Abandoned' = Abandoned
    BY <1>2, <1>5 DEF Abandoned, Awaited
  <2>2. h \notin running
    BY <1>3, <1>7 DEF SameTask
  <2>3. IsFiniteSet(running') /\ Cardinality(running') = Cardinality(running) + 1
    BY <1>1, <1>4, <2>2, FS_AddElement DEF BoundInv
  <2>4. Cardinality(running) \in Nat
    BY <1>1, FS_CardinalityType DEF BoundInv
  <2>5. Cardinality(running') <= Threads
    BY <1>2, <2>3, <2>4, PipelineAssumption
  <2> QED
    BY <1>1, <2>1, <2>3, <2>5 DEF BoundInv
<1> QED
  BY <1>6, <1>8, <1>9, <1>10 DEF PoolInv

\* Work that leaves its thread leaves the pool: no other copy of it is there.
LEMMA WorkLeaves ==
    ASSUME PoolInv, NEW w \in running, running' = running \ {w}, queue' = queue
    PROVE  /\ WorkInPool' \subseteq WorkInPool
           /\ \A v \in WorkInPool' : ~SameTask(v, w)
           /\ UniqueInv'
<1>1. UniqueInv
  BY DEF PoolInv
<1>2. \A v \in WorkInPool' : ~SameTask(v, w)
  BY <1>1 DEF UniqueInv, WorkInPool, SameTask
<1> QED
  BY <1>1, <1>2 DEF UniqueInv, WorkInPool

LEMMA FinishPreserves == ASSUME PoolInv, NEW w \in running, FinishWork(w) PROVE PoolInv'
<1>1. PoolTypes /\ StageInv /\ OwnInv /\ QueueInv /\ UniqueInv /\ BoundInv
  BY DEF PoolInv
<1>2. running' = running \ {w} /\ UNCHANGED <<queue, phase, call, decoded>>
  BY DEF FinishWork
<1>3. w \in WorkInPool /\ w.task \in Tasks
  BY <1>1, PoolElements DEF WorkInPool
<1>4. /\ WorkInPool' \subseteq WorkInPool /\ UniqueInv'
      /\ \A v \in WorkInPool' : ~SameTask(v, w)
  BY <1>2, WorkLeaves
<1>5. QueueInv'
  BY <1>1, <1>2 DEF QueueInv
<1>6. CASE ~Awaited(w)
  <2>1. state' = state
    BY <1>6 DEF FinishWork
  <2>2. Abandoned' \subseteq Abandoned
    BY <1>2, <1>4, <2>1 DEF Abandoned, Awaited
  <2>3. BoundInv'
    BY <1>2, <2>2, BoundKept
  <2>4. PoolTypes' /\ StageInv' /\ OwnInv'
    BY <1>1, <1>2, <1>4, <2>1 DEF PoolTypes, StageInv, OwnInv, Active, Stages
  <2> QED
    BY <1>4, <1>5, <2>3, <2>4 DEF PoolInv
<1>7. CASE Awaited(w)
  <2>1. state' = [state EXCEPT ![w.task] = "done"] /\ w.call = call /\ state[w.task] = "pending"
    BY <1>7 DEF FinishWork, Awaited
  <2>2. state \in [Tasks -> {"off", "pending", "done"}]
    BY <1>1 DEF PoolTypes
  <2>3. state' \in [Tasks -> {"off", "pending", "done"}]
    BY <2>1, <2>2
  <2>4. state'[w.task] = "done" /\ \A t \in Tasks : t # w.task => state'[t] = state[t]
    BY <1>3, <2>1, <2>2
  <2>5. \A v \in WorkInPool' : v.call = call => v.task # w.task
    BY <1>4, <2>1 DEF SameTask
  <2>6. \A v \in WorkInPool' : v.task \in Tasks
    BY <1>1, <1>4, PoolElements
  <2>7. PoolTypes'
    BY <1>1, <1>2, <2>3 DEF PoolTypes
  <2>8. phase \in Awaiting
    BY <1>1, <1>3, <2>1 DEF StageInv
  <2>9. StageInv'
    <3>1. {"quality", "safety", "fingerprint", "match"} = Tasks
      BY DEF Tasks
    <3> QED
      BY <1>1, <1>2, <2>1, <2>4, <2>8, <3>1 DEF StageInv, Active, Stages
  <2>10. OwnInv'
    BY <1>1, <1>2, <1>4, <2>4, <2>5, <2>6 DEF OwnInv
  <2>11. Abandoned' \subseteq Abandoned
    BY <1>2, <1>4, <2>4, <2>5, <2>6 DEF Abandoned, Awaited
  <2>12. BoundInv'
    BY <1>2, <2>11, BoundKept
  <2> QED
    BY <1>4, <1>5, <2>7, <2>9, <2>10, <2>12 DEF PoolInv
<1> QED
  BY <1>6, <1>7

\* When awaited work raises, the pool has started everything older: the queue
\* holds the other task of the batch at most.
LEMMA SiblingOnly ==
    ASSUME PoolInv, NEW w \in running, Awaited(w)
    PROVE  Len(queue) \in {0, 1}
<1>1. PoolTypes /\ StageInv /\ OwnInv /\ QueueInv /\ UniqueInv
  BY DEF PoolInv
<1>2. w \in WorkInPool /\ w.task \in Tasks /\ w.call = call /\ state[w.task] = "pending"
  BY <1>1, PoolElements DEF WorkInPool, Awaited
<1>3. phase \in Awaiting
  BY <1>1, <1>2 DEF StageInv
<1>4. \A k \in 1 .. Len(queue) : queue[k] \in WorkInPool /\ queue[k].call = call
  BY <1>1, <1>2, <1>3 DEF QueueInv, WorkInPool
<1>5. \A k \in 1 .. Len(queue) : /\ queue[k].task \in Tasks /\ state[queue[k].task] = "pending"
                                /\ queue[k].task # w.task
  BY <1>1, <1>2, <1>3, <1>4, PoolElements DEF OwnInv, UniqueInv, SameTask
<1>6. \A t, u, v \in Tasks : /\ state[t] = "pending" /\ state[u] = "pending" /\ state[v] = "pending"
                            /\ t # v /\ u # v => t = u
  BY <1>1, <1>3 DEF StageInv, Awaiting, Tasks
<1>7. \A k, l \in 1 .. Len(queue) : queue[k].task = queue[l].task
  BY <1>2, <1>5, <1>6
<1>8. \A k, l \in 1 .. Len(queue) : k = l
  BY <1>1, <1>4, <1>7 DEF UniqueInv, SameTask
<1>9. Len(queue) \in Nat
  BY <1>1 DEF PoolTypes
<1> QED
  BY <1>8, <1>9

LEMMA RaisePreserves == ASSUME PoolInv, NEW w \in running, RaiseWork(w) PROVE PoolInv'
<1>1. PoolTypes /\ StageInv /\ OwnInv /\ QueueInv /\ UniqueInv /\ BoundInv
  BY DEF PoolInv
<1>2. running' = running \ {w} /\ UNCHANGED <<queue, call>>
  BY DEF RaiseWork
<1>3. /\ WorkInPool' \subseteq WorkInPool /\ UniqueInv'
      /\ \A v \in WorkInPool' : ~SameTask(v, w)
  BY <1>2, WorkLeaves
<1>4. CASE ~Awaited(w)
  <2>1. UNCHANGED <<phase, decoded, state>>
    BY <1>4 DEF RaiseWork
  <2>2. Abandoned' \subseteq Abandoned
    BY <1>2, <1>3, <2>1 DEF Abandoned, Awaited
  <2>3. BoundInv'
    BY <1>2, <2>2, BoundKept
  <2>4. PoolTypes' /\ StageInv' /\ OwnInv' /\ QueueInv'
    BY <1>1, <1>2, <1>3, <2>1 DEF PoolTypes, StageInv, OwnInv, QueueInv, Active, Stages
  <2> QED
    BY <1>3, <2>3, <2>4 DEF PoolInv
<1>5. CASE Awaited(w)
  <2>1. phase' = "idle" /\ decoded' = <<>> /\ state' = [t \in Tasks |-> "off"]
    BY <1>5 DEF RaiseWork, EndCall, NoTasks
  <2>2. PoolTypes' /\ StageInv' /\ OwnInv' /\ QueueInv'
    BY <1>1, <1>2, <1>3, <2>1
       DEF PoolTypes, StageInv, OwnInv, QueueInv, Between, Awaiting, Lists
  <2>3. /\ IsFiniteSet(running') /\ Cardinality(running') = Cardinality(running) - 1
        /\ Cardinality(running') \in Nat /\ Cardinality(running) \in Nat
    BY <1>1, <1>2, FS_RemoveElement, FS_CardinalityType DEF BoundInv
  <2>4. Abandoned' \subseteq running' \cup {queue[1]}
    BY <1>2, <1>5, SiblingOnly DEF Abandoned, WorkInPool
  <2>5. IsFiniteSet(running' \cup {queue[1]}) /\ Cardinality(running' \cup {queue[1]}) <= Threads
    <3>1. \A S, x : IsFiniteSet(S) /\ Cardinality(S) \in Nat =>
            IsFiniteSet(S \cup {x}) /\ Cardinality(S \cup {x}) <= Cardinality(S) + 1
      <4> SUFFICES ASSUME NEW S, NEW x, IsFiniteSet(S), Cardinality(S) \in Nat
                   PROVE  IsFiniteSet(S \cup {x}) /\ Cardinality(S \cup {x}) <= Cardinality(S) + 1
        OBVIOUS
      <4>1. /\ IsFiniteSet(S \cup {x})
            /\ Cardinality(S \cup {x}) = Cardinality(S) \/ Cardinality(S \cup {x}) = Cardinality(S) + 1
        BY FS_AddElement
      <4> QED
        BY <4>1
    <3>2. /\ IsFiniteSet(running' \cup {queue[1]})
          /\ Cardinality(running' \cup {queue[1]}) <= Cardinality(running') + 1
      BY <2>3, <3>1
    <3>3. Cardinality(running' \cup {queue[1]}) \in Nat
      BY <3>2, FS_CardinalityType
    <3> QED
      BY <1>1, <2>3, <3>2, <3>3, PipelineAssumption DEF BoundInv
  <2>6. IsFiniteSet(Abandoned') /\ Cardinality(Abandoned') <= Cardinality(running' \cup {queue[1]})
    BY <2>4, <2>5, FS_Subset
  <2>7. Cardinality(Abandoned') \in Nat /\ Cardinality(running' \cup {queue[1]}) \in Nat
    BY <2>5, <2>6, FS_CardinalityType
  <2>8. BoundInv'
    BY <1>1, <2>3, <2>5, <2>6, <2>7, PipelineAssumption DEF BoundInv
  <2> QED
    BY <1>3, <2>2, <2>8 DEF PoolInv
<1> QED
  BY <1>4, <1>5

LEMMA StopPreserves == PoolInv /\ Stop => PoolInv'
<1> SUFFICES ASSUME PoolInv, Stop PROVE PoolInv'
  OBVIOUS
<1>1. PoolTypes /\ StageInv /\ OwnInv /\ UniqueInv /\ BoundInv
  BY DEF PoolInv
<1>2. phase' = "stopped" /\ queue' = <<>> /\ UNCHANGED <<running, call>>
  BY DEF Stop
<1>3. decoded' \in Lists /\ state' = [t \in Tasks |-> "off"]
  <2>1. CASE phase # "idle"
    BY <2>1 DEF Stop, EndCall, NoTasks, Lists
  <2>2. CASE phase = "idle"
    BY <1>1, <2>2 DEF Stop, PoolTypes, StageInv, Awaiting
  <2> QED
    BY <2>1, <2>2
<1>4. WorkInPool' = running
  BY <1>2 DEF WorkInPool
<1>5. PoolTypes' /\ StageInv' /\ QueueInv' /\ UniqueInv'
  BY <1>1, <1>2, <1>3 DEF PoolTypes, StageInv, QueueInv, UniqueInv, Between, Awaiting
<1>6. OwnInv'
  BY <1>1, <1>2, <1>4 DEF OwnInv, WorkInPool, Awaiting
<1>7. Abandoned' \subseteq running
  BY <1>4 DEF Abandoned
<1>8. IsFiniteSet(Abandoned') /\ Cardinality(Abandoned') <= Cardinality(running)
  BY <1>1, <1>7, FS_Subset DEF BoundInv
<1>9. Cardinality(Abandoned') \in Nat /\ Cardinality(running) \in Nat
  BY <1>1, <1>8, FS_CardinalityType DEF BoundInv
<1>10. BoundInv'
  BY <1>1, <1>2, <1>8, <1>9, PipelineAssumption DEF BoundInv
<1> QED
  BY <1>5, <1>6, <1>10 DEF PoolInv

-----------------------------------------------------------------------------
LEMMA PoolStep == PoolInv /\ [Next]_vars => PoolInv'
<1> SUFFICES ASSUME PoolInv, [Next]_vars PROVE PoolInv'
  OBVIOUS
<1>1. CASE UNCHANGED vars \/ Download
  BY <1>1, PoolKept DEF vars, callVars, poolVars, Download
<1>2. CASE LoopStep /\ ~Download
  BY <1>2, BeginPreserves, DownloadDonePreserves, ModerationDonePreserves, CallEndPreserves
     DEF LoopStep
<1>3. CASE ThreadStep
  BY <1>3, TakePreserves, FinishPreserves, RaisePreserves DEF ThreadStep
<1>4. CASE Stop \/ Exit
  BY <1>4, StopPreserves, CallEndPreserves
<1> QED
  BY <1>1, <1>2, <1>3, <1>4 DEF Next

LEMMA FetchStep == PoolInv /\ DownloadInv /\ [Next]_vars => DownloadInv'
<1> SUFFICES ASSUME PoolInv, DownloadInv, [Next]_vars PROVE DownloadInv'
  OBVIOUS
<1>1. CASE BeginCall
  <2>1. call + 1 \in Calls
    BY <1>1, PipelineAssumption DEF BeginCall, PoolInv, PoolTypes, Calls
  <2>2. UrlCount[call + 1] \in Urls
    BY <2>1, PipelineAssumption
  <2> QED
    BY <1>1, <2>2, StartPreserves DEF BeginCall
<1>2. CASE Download
  BY <1>2, DownloadStepPreserves DEF Download
<1>3. CASE DownloadDone \/ NothingDownloaded \/ Stop
  BY <1>3, EndPreserves DEF DownloadDone, NothingDownloaded, Stop
<1>4. CASE UNCHANGED vars \/ ModerationDone \/ MatchingDone \/ ThreadStep \/ Exit
  <2>1. UNCHANGED downloadVars
    BY <1>4 DEF vars, ModerationDone, MatchingDone, ThreadStep, TakeWork, FinishWork, RaiseWork, Exit
  <2> QED
    BY <2>1, DownloadKept
<1> QED
  BY <1>1, <1>2, <1>3, <1>4 DEF Next, LoopStep

LEMMA PipelineInductive == Spec => [](PoolInv /\ DownloadInv)
<1>1. Init => PoolInv /\ DownloadInv
  BY PoolInit, NoDownloadHolds DEF Init
<1> QED
  BY <1>1, PoolStep, FetchStep, PTL DEF Spec

\* No path of a fetch leaks a semaphore slot or returns one twice
\* (download.py:143-152).
THEOREM SlotsAreConserved == Spec => []SlotsConserved
<1>1. DownloadInv => SlotsConserved
  BY DEF DownloadInv
<1> QED
  BY <1>1, PipelineInductive, PTL

\* A fetch reports what its GETs came back with, after as many tries as
\* download_bytes allows (download.py:76-111).
THEOREM FetchesReportTruly == Spec => []OutcomesAreEarned
<1>1. DownloadInv => OutcomesAreEarned
  BY DEF DownloadInv
<1> QED
  BY <1>1, PipelineInductive, PTL

\* Matching of a call is in the pool only when its moderation has returned
\* (orchestrator.py:95-103).
THEOREM ModerationComesFirst == Spec => []MatchingAfterModeration
<1>1. PoolInv => MatchingAfterModeration
  <2> SUFFICES ASSUME PoolInv, NEW w \in WorkInPool, w.call = call,
                      w.task \in {"fingerprint", "match"}, phase \in Awaiting,
                      NEW t \in {"quality", "safety"}, Active(call, t)
               PROVE  state[t] = "done"
    BY DEF MatchingAfterModeration, Awaiting
  <2> QED
    BY DEF PoolInv, OwnInv, StageInv, Awaiting
<1> QED
  BY <1>1, PipelineInductive, PTL

\* However many calls fail in a stage, no more stages than threads are left
\* behind in the pool (orchestrator.py:48-55, registry.py:35).
THEOREM AbandonedWorkIsBounded == Spec => []AbandonedFitThePool
<1>1. PoolInv => AbandonedFitThePool
  BY DEF PoolInv, BoundInv, AbandonedFitThePool
<1> QED
  BY <1>1, PipelineInductive, PTL
=============================================================================
