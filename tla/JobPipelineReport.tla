------------------------- MODULE JobPipelineReport -------------------------
(***************************************************************************)
(* What a call of run_pipeline reports, for any number of calls, URLs,     *)
(* threads and any stage lists: the loops that collect and merge results,  *)
(* and the invariant ReportInv, which follows the images of the current    *)
(* call from its fetches through the pool to the rows.                     *)
(***************************************************************************)
EXTENDS JobPipelineProofs, InductionLemmas

Increasing(s) == \A i, j \in 1 .. Len(s) : i < j => s[i] < s[j]
Elements(s) == {s[i] : i \in 1 .. Len(s)}

\* s lists S in order.
ListsUp(s, S) == s \in Seq(Urls) /\ Increasing(s) /\ Elements(s) = S

LEMMA ListsUpEmpty == ListsUp(<<>>, {})
BY DEF ListsUp, Increasing, Elements

LEMMA ListsUpAppend ==
    ASSUME NEW S, NEW s, ListsUp(s, S), NEW n \in Urls, \A m \in S : m < n
    PROVE  ListsUp(Append(s, n), S \cup {n})
<1>1. s \in Seq(Urls) /\ Len(s) \in Nat
  BY DEF ListsUp
<1> DEFINE t == Append(s, n)
<1>2. /\ t \in Seq(Urls) /\ Len(t) = Len(s) + 1 /\ t[Len(s) + 1] = n
      /\ \A i \in 1 .. Len(s) : t[i] = s[i]
  BY <1>1
<1> HIDE DEF t
<1>3. 1 .. Len(t) = 1 .. Len(s) \cup {Len(s) + 1}
  BY <1>1, <1>2
<1>4. \A i \in 1 .. Len(s) : s[i] \in S
  BY DEF ListsUp, Elements
<1>5. Elements(t) = S \cup {n}
  BY <1>2, <1>3 DEF ListsUp, Elements
<1>6. Increasing(t)
  <2> SUFFICES ASSUME NEW i \in 1 .. Len(t), NEW j \in 1 .. Len(t), i < j PROVE t[i] < t[j]
    BY DEF Increasing
  <2>1. i \in 1 .. Len(s)
    BY <1>1, <1>2
  <2>2. CASE j \in 1 .. Len(s)
    BY <1>2, <2>1, <2>2 DEF ListsUp, Increasing
  <2>3. CASE j = Len(s) + 1
    BY <1>2, <1>4, <2>1, <2>3
  <2> QED
    BY <1>3, <2>2, <2>3
<1> QED
  BY <1>2, <1>5, <1>6 DEF ListsUp, t

\* The loop over the gathered results lists the positions it keeps in order.
LEMMA InOrderLists ==
    ASSUME NEW S \in SUBSET Urls
    PROVE  ListsUp(InOrder(S), S)
<1> DEFINE Value(f, n) == IF n = 0 THEN <<>>
                          ELSE IF n \in S THEN Append(f[n - 1], n) ELSE f[n - 1]
           Is(f) == f = [n \in 0 .. MaxUrls |-> Value(f, n)]
           collected[n \in 0 .. MaxUrls] ==
               IF n = 0 THEN <<>>
               ELSE IF n \in S THEN Append(collected[n - 1], n) ELSE collected[n - 1]
           body == [n \in 1 .. MaxUrls |->
                      [s \in Seq(Urls) |-> IF n \in S THEN Append(s, n) ELSE s]]
<1>1. MaxUrls \in Nat /\ \A m \in S : m \in 1 .. MaxUrls /\ m \in Int
  BY DownloadAssumption DEF Urls
<1>2. InOrder(S) = collected[MaxUrls]
  BY DEF InOrder
<1>3. \E f : Is(f)
  <2>1. IsLoop(MaxUrls, Seq(Urls), <<>>, body)
    <3>1. \A n \in 1 .. MaxUrls, s \in Seq(Urls) : Append(s, n) \in Seq(Urls)
      BY DEF Urls
    <3> QED
      BY <1>1, <3>1 DEF IsLoop
  <2>2. \A n \in 1 .. MaxUrls, s \in Seq(Urls) :
          body[n][s] = IF n \in S THEN Append(s, n) ELSE s
    OBVIOUS
  <2> HIDE DEF body
  <2>3. PICK f : IsRun(MaxUrls, Seq(Urls), <<>>, body, f)
    BY <2>1, LoopRuns
  <2>4. f \in [0 .. MaxUrls -> Seq(Urls)] /\ f[0] = <<>>
    BY <2>3 DEF IsRun
  <2>5. \A n \in 1 .. MaxUrls : f[n] = IF n \in S THEN Append(f[n - 1], n) ELSE f[n - 1]
    <3>1. \A n \in 1 .. MaxUrls : f[n - 1] \in Seq(Urls) /\ f[n] = body[n][f[n - 1]]
      <4>1. \A n \in 1 .. MaxUrls : n - 1 \in 0 .. MaxUrls
        BY <1>1
      <4> QED
        BY <2>3, <4>1 DEF IsRun
    <3> QED
      BY <2>2, <3>1
  <2>6. Is(f)
    <3>1. \A n \in 0 .. MaxUrls : n = 0 \/ n \in 1 .. MaxUrls
      BY <1>1
    <3>2. \A n \in 1 .. MaxUrls : n # 0
      OBVIOUS
    <3>3. \A n \in 0 .. MaxUrls : f[n] = Value(f, n)
      BY <2>4, <2>5, <3>1, <3>2
    <3> HIDE DEF Value
    <3> QED
      BY <2>4, <3>3
  <2> QED
    BY <2>6
<1>4. Is(collected)
  <2>1. Is(CHOOSE f : Is(f))
    BY <1>3, Zenon
  <2> QED
    BY <2>1
<1>5. /\ collected[0] = <<>>
      /\ \A n \in 1 .. MaxUrls : collected[n] =
           IF n \in S THEN Append(collected[n - 1], n) ELSE collected[n - 1]
  <2> HIDE DEF collected
  <2>1. \A n \in 0 .. MaxUrls : collected[n] = Value(collected, n)
    <3> HIDE DEF Value
    <3> QED
      BY <1>4
  <2>2. 0 \in 0 .. MaxUrls /\ \A n \in 1 .. MaxUrls : n \in 0 .. MaxUrls /\ n # 0
    BY <1>1
  <2> QED
    BY <2>1, <2>2
<1> HIDE DEF collected
<1> DEFINE UpTo(n) == {m \in S : m <= n}
           Good == {n \in 0 .. MaxUrls : ListsUp(collected[n], UpTo(n))}
<1>6. UpTo(0) = {} /\ UpTo(MaxUrls) = S
  BY <1>1
<1>7. ASSUME NEW n \in 1 .. MaxUrls
      PROVE  IF n \in S THEN UpTo(n) = UpTo(n - 1) \cup {n} ELSE UpTo(n) = UpTo(n - 1)
  <2>1. \A m \in S : m <= n <=> m <= n - 1 \/ m = n
    BY <1>1
  <2> QED
    BY <2>1
<1>8. \A n \in 1 .. MaxUrls : \A m \in UpTo(n - 1) : m < n
  BY <1>1
<1> HIDE DEF UpTo
<1>9. 0 \in Good
  <2>1. ListsUp(collected[0], UpTo(0))
    BY <1>5, <1>6, ListsUpEmpty
  <2>2. 0 \in 0 .. MaxUrls
    BY <1>1
  <2> QED
    BY <2>1, <2>2
<1>10. ASSUME NEW n \in 1 .. MaxUrls, n - 1 \in Good PROVE n \in Good
  <2>1. ListsUp(collected[n - 1], UpTo(n - 1))
    BY <1>10
  <2>2. CASE n \in S
    <3>1. ListsUp(Append(collected[n - 1], n), UpTo(n - 1) \cup {n})
      BY <1>8, <2>1, ListsUpAppend DEF Urls
    <3>2. UpTo(n) = UpTo(n - 1) \cup {n} /\ collected[n] = Append(collected[n - 1], n)
      BY <1>5, <1>7, <2>2
    <3>3. n \in 0 .. MaxUrls
      BY <1>1
    <3> QED
      BY <3>1, <3>2, <3>3
  <2>3. CASE n \notin S
    BY <1>1, <1>5, <1>7, <2>1, <2>3
  <2> QED
    BY <2>2, <2>3
<1>11. \A n \in 0 .. MaxUrls : n \in Good
  <2> HIDE DEF Good
  <2> QED
    BY <1>1, <1>9, <1>10, RangeInduction
<1> QED
  BY <1>1, <1>2, <1>6, <1>11

-----------------------------------------------------------------------------
\* Whatever joins the sequences one by one is what FlattenSeq returns.
LEMMA FlattenJoins ==
    ASSUME NEW X, NEW seqs \in Seq(Seq(X)), Len(seqs) # 0, NEW joined,
           joined = [k \in 1 .. Len(seqs) |->
                       IF k = 1 THEN seqs[k] ELSE joined[k - 1] \o seqs[k]]
    PROVE  FlattenSeq(seqs) = joined[Len(seqs)]
<1> DEFINE n == Len(seqs)
           Value(f, k) == IF k = 1 THEN seqs[k] ELSE f[k - 1] \o seqs[k]
           Is(f) == f = [k \in 1 .. n |-> Value(f, k)]
           flatten[k \in 1 .. n] == IF k = 1 THEN seqs[k] ELSE flatten[k - 1] \o seqs[k]
<1>1. n \in Nat /\ n # 0
  BY LenProperties
<1>2. FlattenSeq(seqs) = flatten[n]
  BY <1>1 DEF FlattenSeq
<1>3. Is(joined)
  OBVIOUS
<1>4. Is(flatten)
  <2>1. \E f : Is(f)
    <3> HIDE DEF Is
    <3> QED
      BY <1>3
  <2>2. Is(CHOOSE f : Is(f))
    BY <2>1, Zenon
  <2> QED
    BY <2>2
<1> HIDE DEF flatten
<1>5. /\ \A k \in 1 .. n : joined[k] = Value(joined, k)
      /\ \A k \in 1 .. n : flatten[k] = Value(flatten, k)
  <2> HIDE DEF Value
  <2> QED
    BY <1>3, <1>4
<1>6. /\ joined[1] = seqs[1] /\ flatten[1] = seqs[1]
      /\ \A k \in 2 .. n : joined[k] = joined[k - 1] \o seqs[k]
      /\ \A k \in 2 .. n : flatten[k] = flatten[k - 1] \o seqs[k]
  <2>1. 1 \in 1 .. n /\ \A k \in 2 .. n : k \in 1 .. n /\ k # 1
    BY <1>1
  <2> QED
    BY <1>5, <2>1
<1> DEFINE Good == {k \in 0 .. n : k > 0 => flatten[k] = joined[k]}
<1>7. 0 \in Good
  BY <1>1
<1>8. ASSUME NEW k \in 1 .. n, k - 1 \in Good PROVE k \in Good
  <2>1. CASE k = 1
    BY <1>6, <2>1
  <2>2. CASE k # 1
    <3>1. k \in 2 .. n /\ k - 1 > 0
      BY <2>2
    <3>2. flatten[k - 1] = joined[k - 1]
      BY <1>8, <3>1
    <3>3. flatten[k] = joined[k]
      BY <1>6, <3>1, <3>2
    <3> QED
      BY <3>1, <3>3
  <2> QED
    BY <2>1, <2>2
<1>9. \A k \in 0 .. n : k \in Good
  <2> HIDE DEF Good
  <2> QED
    BY <1>1, <1>7, <1>8, RangeInduction
<1>10. n \in 0 .. n /\ n > 0
  BY <1>1
<1>11. flatten[n] = joined[n]
  BY <1>9, <1>10
<1> QED
  BY <1>2, <1>11

\* The chunks of match_batch put together are the images again.
LEMMA BatchesAreTheImages ==
    ASSUME NEW images \in Seq(Urls)
    PROVE  Batches(images) = images
<1> DEFINE size == IF BatchSize > 1 THEN BatchSize ELSE 1
           n == Len(images)
           last(k) == IF k * size < n THEN k * size ELSE n
           count == (n + size - 1) \div size
           chunks == [k \in 1 .. count |-> SubSeq(images, (k - 1) * size + 1, last(k))]
           joined == [k \in 1 .. count |-> SubSeq(images, 1, last(k))]
<1>1. Batches(images) = FlattenSeq(chunks)
  BY DEF Batches
<1>2. size \in Nat \ {0} /\ n \in Nat /\ images \in Seq(Urls)
  BY PipelineAssumption, LenProperties
<1>3. /\ count \in Nat /\ count * size < n + size /\ n <= count * size
      /\ count = 0 => n = 0
  <2> HIDE DEF size, n
  <2>1. n + size - 1 \in Nat
    BY <1>2
  <2>2. ASSUME NEW a \in Nat, NEW s \in Nat \ {0}
        PROVE  a \div s \in Nat /\ (a \div s) * s <= a /\ a < (a \div s) * s + s
    OBVIOUS
  <2>3. count \in Nat /\ count * size <= n + size - 1 /\ n + size - 1 < count * size + size
    BY <1>2, <2>1, <2>2
  <2> QED
    BY <1>2, <2>3
<1> HIDE DEF size, n, count
<1>4. ASSUME NEW k \in 1 .. count
      PROVE  /\ last(k) \in 0 .. n
             /\ k # 1 => k - 1 \in 1 .. count /\ last(k - 1) = (k - 1) * size
                         /\ (k - 1) * size \in Nat /\ (k - 1) * size <= last(k)
             /\ k = 1 => (k - 1) * size = 0
  <2>1. ASSUME NEW a \in Nat, NEW b \in Nat, a <= b, NEW s \in Nat
        PROVE  a * s \in Nat /\ a * s <= b * s
    <3>1. a * s \in Nat
      OBVIOUS
    <3>2. a * s <= b * s
      BY <2>1
    <3> QED
      BY <3>1, <3>2
  <2>2. ASSUME NEW a \in Nat, NEW s \in Nat PROVE (a + 1) * s = a * s + s
    OBVIOUS
  <2>3. k \in Nat /\ k - 1 \in Nat /\ k <= count
    BY <1>3
  <2>4. k * size \in Nat /\ (k - 1) * size \in Nat /\ k * size <= count * size
    BY <1>2, <1>3, <2>1, <2>3
  <2>5. k * size = (k - 1) * size + size
    <3>1. ((k - 1) + 1) * size = (k - 1) * size + size
      BY <1>2, <2>2, <2>3
    <3> QED
      BY <2>3, <3>1
  <2>6. (k - 1) * size < n
    BY <1>2, <1>3, <2>4, <2>5
  <2>7. PICK p \in Nat, q \in Nat : p = k * size /\ q = (k - 1) * size
    BY <2>4
  <2>8. last(k) = (IF p < n THEN p ELSE n) /\ p = q + size /\ q < n
    BY <2>5, <2>6, <2>7
  <2>9. last(k) \in 0 .. n /\ q <= last(k) /\ last(k - 1) = q
    <3>1. last(k - 1) = IF q < n THEN q ELSE n
      BY <2>7
    <3> HIDE DEF last
    <3> QED
      BY <1>2, <2>8, <3>1
  <2>10. k # 1 => k - 1 \in 1 .. count
    BY <1>3, <2>3
  <2>11. k = 1 => (k - 1) * size = 0
    BY <1>2
  <2> HIDE DEF last
  <2> QED
    BY <2>7, <2>9, <2>10, <2>11
<1>5. count # 0 => last(count) = n
  BY <1>2, <1>3
<1> HIDE DEF last
<1>6. chunks \in Seq(Seq(Urls)) /\ Len(chunks) = count
  <2>1. \A k \in 1 .. count : SubSeq(images, (k - 1) * size + 1, last(k)) \in Seq(Urls)
    <3> SUFFICES ASSUME NEW k \in 1 .. count
                 PROVE  SubSeq(images, (k - 1) * size + 1, last(k)) \in Seq(Urls)
      OBVIOUS
    <3>1. \A a, b \in Nat : 1 <= a /\ b <= Len(images) => SubSeq(images, a, b) \in Seq(Urls)
      BY <1>2
    <3>2. (k - 1) * size + 1 \in Nat /\ 1 <= (k - 1) * size + 1 /\ last(k) \in Nat /\ last(k) <= n
      BY <1>2, <1>4
    <3> QED
      BY <3>1, <3>2 DEF n
  <2> QED
    BY <1>3, <2>1
<1>7. CASE count = 0
  <2>1. images = <<>>
    BY <1>2, <1>3, <1>7, EmptySeq DEF n
  <2>2. chunks = <<>>
    BY <1>6, <1>7, EmptySeq
  <2> QED
    BY <1>1, <2>1, <2>2 DEF FlattenSeq
<1>8. CASE count # 0
  <2>1. ASSUME NEW k \in 1 .. count
        PROVE  joined[k] = IF k = 1 THEN chunks[k] ELSE joined[k - 1] \o chunks[k]
    <3>1. CASE k = 1
      <4>1. (k - 1) * size + 1 = 1
        BY <1>4, <3>1
      <4> QED
        BY <3>1, <4>1
    <3>2. CASE k # 1
      <4>1. \A a, b \in Nat : a <= b /\ b <= Len(images) =>
              SubSeq(images, 1, a) \o SubSeq(images, a + 1, b) = SubSeq(images, 1, b)
        BY <1>2
      <4>2. /\ (k - 1) * size \in Nat /\ last(k) \in Nat /\ (k - 1) * size <= last(k)
            /\ last(k) <= Len(images) /\ k - 1 \in 1 .. count
        BY <1>2, <1>4, <3>2 DEF n
      <4>3. joined[k - 1] = SubSeq(images, 1, (k - 1) * size)
        BY <1>4, <3>2, <4>2
      <4> QED
        BY <3>2, <4>1, <4>2, <4>3
    <3> QED
      BY <3>1, <3>2
  <2>2. FlattenSeq(chunks) = joined[count]
    <3> HIDE DEF joined, chunks
    <3>1. joined = [k \in 1 .. Len(chunks) |->
                      IF k = 1 THEN chunks[k] ELSE joined[k - 1] \o chunks[k]]
      <4>1. joined = [k \in 1 .. count |-> joined[k]]
        BY DEF joined
      <4> QED
        BY <1>6, <2>1, <4>1
    <3> QED
      BY <1>6, <1>8, <3>1, FlattenJoins
  <2>3. joined[count] = images
    <3>1. joined[count] = SubSeq(images, 1, Len(images))
      BY <1>3, <1>5, <1>8 DEF n
    <3>2. SubSeq(images, 1, Len(images)) = images
      BY <1>2
    <3> QED
      BY <3>1, <3>2
  <2> QED
    BY <1>1, <2>2, <2>3
<1> QED
  BY <1>7, <1>8

-----------------------------------------------------------------------------
\* The results of the images, in their order: what a stage has to return.
ResultsOf(c, images) == [i \in 1 .. Len(images) |-> [call |-> c, url |-> images[i]]]

\* Images and errors of the current call share its URLs between them.
Shared(images, failed, all) ==
    \E D \in SUBSET Urls, F \in SUBSET Urls :
        /\ ListsUp(images, D) /\ ListsUp(failed, F)
        /\ D # {} /\ D \cap F = {} /\ D \cup F = all

ImagesInv ==
    /\ phase = "download" => \A u \in Urls : fetch[u] # "none" <=> u \in 1 .. UrlCount[call]
    /\ phase \in Awaiting => Shared(decoded, errors, 1 .. UrlCount[call])
    /\ phase \notin Awaiting => decoded = <<>> /\ errors = <<>>

WorkInv ==
    phase \in Awaiting => \A w \in WorkInPool : w.call = call => w.images = decoded

\* A task of the current call has no result or that of the call's images, and
\* it is there only if the call runs it.
OutputInv ==
    /\ output = [t \in Tasks |-> IF state[t] = "done" THEN ResultsOf(call, decoded) ELSE <<>>]
    /\ \A t \in Tasks : /\ state[t] # "off" => Active(call, t)
                        /\ phase = "matching" /\ Active(call, t) => state[t] # "off"

Ended == {"reported", "failed"}

\* Calls end one after another.
OutcomeInv ==
    /\ outcome \in [Calls -> {"ahead", "running", "reported", "failed", "cancelled"}]
    /\ phase \notin Between => outcome[call] = "running"
    /\ \A c \in Calls : /\ c > call => outcome[c] = "ahead"
                        /\ c < call \/ (c = call /\ phase = "idle") => outcome[c] \in Ended

RowsInv ==
    /\ report \in [rows : Seq(Row), errors : Seq(Urls)]
    /\ ReportListsTheUrls

ReportInv == ImagesInv /\ WorkInv /\ OutputInv /\ OutcomeInv /\ RowsInv

\* The tasks of a batch are exactly those the call runs.
LEMMA BatchesAreActive ==
    ASSUME NEW c
    PROVE  /\ \A k \in 1 .. Len(Moderation(c)) : Active(c, Moderation(c)[k])
           /\ \A k \in 1 .. Len(Matching(c)) : Active(c, Matching(c)[k])
           /\ \A t \in {"fingerprint", "match"} :
                Active(c, t) => \E k \in 1 .. Len(Matching(c)) : Matching(c)[k] = t
<1>1. \A t : AtMostOne(TaskIf(c, t), t) /\ (TaskIf(c, t) = <<t>> <=> Active(c, t))
  BY DEF TaskIf, AtMostOne
<1>2. /\ "quality" \in Tasks /\ "safety" \in Tasks /\ "quality" # "safety"
      /\ "fingerprint" \in Tasks /\ "match" \in Tasks /\ "fingerprint" # "match"
  BY DEF Tasks
<1>3. /\ ListsBoth(Moderation(c), TaskIf(c, "quality"), "quality", TaskIf(c, "safety"), "safety")
      /\ ListsBoth(Matching(c), TaskIf(c, "fingerprint"), "fingerprint", TaskIf(c, "match"), "match")
  BY <1>1, <1>2, AtMostTwo DEF Moderation, Matching
<1>4. \A k \in 1 .. Len(Moderation(c)) : Active(c, Moderation(c)[k])
  BY <1>1, <1>3 DEF ListsBoth
<1>5. \A k \in 1 .. Len(Matching(c)) : Active(c, Matching(c)[k])
  BY <1>1, <1>3 DEF ListsBoth
<1>6. \A t \in {"fingerprint", "match"} :
        Active(c, t) => \E k \in 1 .. Len(Matching(c)) : Matching(c)[k] = t
  BY <1>1, <1>3 DEF ListsBoth
<1> QED
  BY <1>4, <1>5, <1>6

\* A thread computes one result per image of its work, in their order.
LEMMA ComputedResults ==
    ASSUME NEW w, w.images \in Seq(Urls)
    PROVE  Computed(w) = ResultsOf(w.call, w.images)
BY BatchesAreTheImages DEF Computed, ResultsOf

LEMMA ReportInit == Init => ReportInv
<1> SUFFICES ASSUME Init PROVE ReportInv
  OBVIOUS
<1>1. ImagesInv /\ WorkInv
  BY DEF Init, ImagesInv, WorkInv, WorkInPool, Awaiting
<1>2. OutputInv
  BY DEF Init, OutputInv
<1>3. OutcomeInv
  BY PipelineAssumption DEF Init, OutcomeInv, Between, Calls
<1>4. RowsInv
  BY DEF Init, RowsInv, ReportListsTheUrls, Reported, RowUrls, ErrorUrls
<1> QED
  BY <1>1, <1>2, <1>3, <1>4 DEF ReportInv

\* The report stays what it was as long as no further call is reported.
LEMMA RowsStay ==
    ASSUME RowsInv, report' = report, Reported' = Reported
    PROVE  RowsInv'
BY DEF RowsInv, ReportListsTheUrls, RowUrls, ErrorUrls

LEMMA ReportedStay ==
    ASSUME OutcomeInv, NEW c \in Calls, NEW end, outcome' = [outcome EXCEPT ![c] = end],
           outcome[c] # "reported", end # "reported"
    PROVE  Reported' = Reported
BY DEF OutcomeInv, Reported

\* Nothing is reported when the current call ends otherwise.
LEMMA RowsSurvive ==
    ASSUME PoolInv, ReportInv, phase \notin Between, report' = report,
           NEW end \in {"failed", "cancelled"}, EndCall(end)
    PROVE  RowsInv'
<1>1. call \in Calls /\ outcome[call] = "running"
  BY DEF PoolInv, StageInv, ReportInv, OutcomeInv
<1>2. Reported' = Reported
  BY <1>1, ReportedStay DEF EndCall, ReportInv
<1> QED
  BY <1>2, RowsStay DEF ReportInv

\* Nothing is going on.
LEMMA RestReports ==
    ASSUME phase' \in Between, decoded' = <<>>, errors' = <<>>, OutcomeInv', RowsInv', NoTasks
    PROVE  ReportInv'
<1>1. phase' \notin Awaiting /\ phase' # "download"
  BY DEF Between, Awaiting
<1>2. ImagesInv' /\ WorkInv'
  BY <1>1 DEF ImagesInv, WorkInv
<1>3. OutputInv'
  BY <1>1 DEF NoTasks, OutputInv, Awaiting
<1> QED
  BY <1>2, <1>3 DEF ReportInv

\* The current call ends.
LEMMA OutcomeEnds ==
    ASSUME PoolInv, OutcomeInv, phase \notin Between, call' = call, NEW end \in Ended \cup {"cancelled"},
           EndCall(end), phase' = "stopped" \/ (phase' = "idle" /\ end \in Ended)
    PROVE  OutcomeInv'
<1>1. call \in Calls /\ Calls \subseteq Int
  BY PipelineAssumption DEF PoolInv, StageInv, Calls
<1>2. outcome' = [outcome EXCEPT ![call] = end]
  BY DEF EndCall
<1>3. outcome' \in [Calls -> {"ahead", "running", "reported", "failed", "cancelled"}]
  BY <1>1, <1>2 DEF OutcomeInv, Ended
<1>4. \A c \in Calls : outcome'[c] = IF c = call THEN end ELSE outcome[c]
  BY <1>1, <1>2 DEF OutcomeInv
<1>5. \A c \in Calls : c > call => outcome'[c] = "ahead"
  BY <1>1, <1>4 DEF OutcomeInv
<1>6. \A c \in Calls : c < call \/ (c = call /\ phase' = "idle") => outcome'[c] \in Ended
  BY <1>1, <1>4 DEF OutcomeInv
<1>7. phase' \in Between
  BY DEF Between
<1> QED
  BY <1>3, <1>5, <1>6, <1>7 DEF OutcomeInv

LEMMA BeginReports == PoolInv /\ ReportInv /\ BeginCall => ReportInv'
<1> SUFFICES ASSUME PoolInv, ReportInv, BeginCall PROVE ReportInv'
  OBVIOUS
<1>1. /\ phase = "idle" /\ phase' = "download" /\ call' = call + 1
      /\ UNCHANGED <<decoded, errors, state, output, report>>
      /\ outcome' = [outcome EXCEPT ![call + 1] = "running"]
      /\ StartDownload(UrlCount[call + 1])
  BY DEF BeginCall
<1>2. call \in 0 .. NumCalls /\ call + 1 \in Calls /\ Calls \subseteq Int /\ call \in Int
  BY PipelineAssumption DEF BeginCall, PoolInv, PoolTypes, Calls
<1>3. \A t \in Tasks : state[t] = "off"
  BY <1>1 DEF PoolInv, StageInv, Awaiting
<1>4. ImagesInv'
  BY <1>1 DEF StartDownload, ReportInv, ImagesInv, Awaiting
<1>5. WorkInv'
  BY <1>1 DEF WorkInv, Awaiting
<1>6. OutputInv'
  BY <1>1, <1>3 DEF ReportInv, OutputInv
<1>7. OutcomeInv'
  <2>1. OutcomeInv
    BY DEF ReportInv
  <2>2. \A c \in Calls : outcome'[c] = IF c = call' THEN "running" ELSE outcome[c]
    BY <1>1, <1>2, <2>1 DEF OutcomeInv
  <2>3. outcome' \in [Calls -> {"ahead", "running", "reported", "failed", "cancelled"}]
    BY <1>1, <1>2, <2>1 DEF OutcomeInv
  <2>4. ASSUME NEW c \in Calls, c > call' PROVE outcome'[c] = "ahead"
    BY <1>1, <1>2, <2>1, <2>2, <2>4 DEF OutcomeInv
  <2>5. ASSUME NEW c \in Calls, c < call' PROVE outcome'[c] \in Ended
    <3>1. c # call' /\ (c < call \/ (c = call /\ phase = "idle"))
      BY <1>1, <1>2, <2>5
    <3> QED
      BY <2>1, <2>2, <3>1 DEF OutcomeInv
  <2> QED
    BY <1>1, <1>2, <2>2, <2>3, <2>4, <2>5 DEF OutcomeInv
<1>8. RowsInv'
  <2>1. OutcomeInv /\ outcome[call + 1] = "ahead"
    BY <1>2 DEF ReportInv, OutcomeInv
  <2>2. Reported' = Reported
    BY <1>1, <1>2, <2>1, ReportedStay
  <2> QED
    BY <1>1, <2>2, RowsStay DEF ReportInv
<1> QED
  BY <1>4, <1>5, <1>6, <1>7, <1>8 DEF ReportInv

\* A fetch neither appears nor vanishes while the downloads go on.
LEMMA FetchesStay ==
    ASSUME DownloadTypeOK, DownloadStep
    PROVE  \A u \in Urls : fetch'[u] # "none" <=> fetch[u] # "none"
<1>1. PICK v \in Urls : Acquire(v) \/ Wake(v) \/ \E a \in Answers : Receive(v, a)
  BY DEF DownloadStep
<1>2. \E s \in InSlot \cup {"decoded", "failed"} : fetch' = [fetch EXCEPT ![v] = s]
  <2>1. CASE Acquire(v) \/ Wake(v)
    BY <2>1 DEF Acquire, Wake, InSlot
  <2>2. CASE \E a \in Answers : Receive(v, a)
    BY <2>2 DEF Receive, Sleep, Leave, InSlot
  <2> QED
    BY <1>1, <2>1, <2>2
<1>3. fetch[v] # "none"
  BY <1>1 DEF Acquire, Wake, Receive
<1> QED
  BY <1>2, <1>3 DEF DownloadTypeOK, InSlot

LEMMA DownloadReports == DownloadTypeOK /\ ReportInv /\ Download => ReportInv'
<1> SUFFICES ASSUME DownloadTypeOK, ReportInv, Download PROVE ReportInv'
  OBVIOUS
<1>1. UNCHANGED <<poolVars, callVars>> /\ DownloadStep
  BY DEF Download
<1>2. \A u \in Urls : fetch'[u] # "none" <=> fetch[u] # "none"
  BY <1>1, FetchesStay
<1>3. ImagesInv'
  BY <1>1, <1>2 DEF ReportInv, ImagesInv, callVars
<1>4. RowsInv'
  BY <1>1, RowsStay DEF ReportInv, callVars, Reported
<1>5. OutputInv' /\ OutcomeInv'
  BY <1>1 DEF ReportInv, callVars, OutputInv, Active, Stages, OutcomeInv
<1>6. WorkInv'
  BY <1>1 DEF ReportInv, callVars, poolVars, WorkInv, WorkInPool
<1> QED
  BY <1>3, <1>4, <1>5, <1>6 DEF ReportInv

\* A batch of tasks goes to the pool, with the images of the call.
LEMMA SubmitReports ==
    ASSUME PoolInv, ReportInv, call \in Calls, phase \notin Between,
           NEW next \in Awaiting, NEW tasks \in Seq(Tasks), Submit(next, tasks, decoded'),
           decoded' \in Lists, UNCHANGED <<call, outcome, report>>,
           Shared(decoded', errors', 1 .. UrlCount[call]),
           decoded' = decoded \/ \A t \in Tasks : state[t] = "off",
           \A w \in WorkInPool : w.call # call,
           \A k \in 1 .. Len(tasks) : state[tasks[k]] = "off" /\ Active(call, tasks[k]),
           next = "matching" => \A t \in Tasks : Active(call, t) =>
               state[t] # "off" \/ \E k \in 1 .. Len(tasks) : tasks[k] = t
    PROVE  ReportInv'
<1>1. /\ phase' = next /\ running' = running /\ output' = output
      /\ state' = [t \in Tasks |-> IF \E k \in 1 .. Len(tasks) : t = tasks[k]
                                   THEN "pending" ELSE state[t]]
  BY DEF Submit
<1>2. next # "download" /\ next \notin Between
  BY DEF Awaiting, Between
<1>3. ImagesInv'
  BY <1>1, <1>2 DEF ImagesInv
<1>4. WorkInv'
  <2>1. PICK images \in Lists : images = decoded'
    OBVIOUS
  <2>2. Submit(next, tasks, images)
    BY <2>1
  <2>3. PoolTypes /\ queue \in Seq(PoolWork) /\ Len(queue) \in Nat
    BY DEF PoolInv, PoolTypes
  <2>4. \A k \in 1 .. Len(queue) : queue'[k] = queue[k]
    BY <2>2, <2>3, SubmitEffect
  <2>9. \A k \in 1 .. Len(queue') : k > Len(queue) =>
          queue'[k] = [call |-> call, task |-> tasks[k - Len(queue)], images |-> images]
    BY <2>2, <2>3, SubmitEffect
  <2> SUFFICES ASSUME NEW w \in WorkInPool', w.call = call PROVE w.images = decoded'
    BY DEF WorkInv
  <2>5. w \notin running
    BY DEF WorkInPool
  <2>6. PICK k \in 1 .. Len(queue') : w = queue'[k]
    BY <1>1, <2>5 DEF WorkInPool
  <2>7. CASE k > Len(queue)
    <3>1. w = [call |-> call, task |-> tasks[k - Len(queue)], images |-> images]
      BY <2>6, <2>7, <2>9
    <3> QED
      BY <2>1, <3>1
  <2>8. CASE ~(k > Len(queue))
    <3>1. k \in 1 .. Len(queue)
      BY <2>3, <2>8
    <3>2. w = queue[k]
      BY <2>4, <2>6, <3>1
    <3> QED
      BY <3>1, <3>2 DEF WorkInPool
  <2> QED
    BY <2>7, <2>8
<1>5. OutputInv'
  <2>1. output = [t \in Tasks |-> IF state[t] = "done" THEN ResultsOf(call, decoded) ELSE <<>>]
    BY DEF ReportInv, OutputInv
  <2>2. \A t \in Tasks : state'[t] = "done" <=> state[t] = "done"
    BY <1>1
  <2>3. \A t \in Tasks : state[t] = "done" => decoded' = decoded
    OBVIOUS
  <2>4. output' = [t \in Tasks |-> IF state'[t] = "done" THEN ResultsOf(call, decoded') ELSE <<>>]
    BY <1>1, <2>1, <2>2, <2>3
  <2>5. \A t \in Tasks : state'[t] # "off" => Active(call, t)
    BY <1>1 DEF ReportInv, OutputInv
  <2>6. next = "matching" => \A t \in Tasks : Active(call, t) => state'[t] # "off"
    BY <1>1
  <2> QED
    BY <1>1, <2>4, <2>5, <2>6 DEF OutputInv, Active, Stages
<1>6. OutcomeInv'
  BY <1>1, <1>2 DEF ReportInv, OutcomeInv, Between
<1>7. RowsInv'
  BY RowsStay DEF ReportInv, Reported
<1> QED
  BY <1>3, <1>4, <1>5, <1>6, <1>7 DEF ReportInv

LEMMA DownloadDoneReports ==
    PoolInv /\ DownloadTypeOK /\ ReportInv /\ DownloadDone => ReportInv'
<1> SUFFICES ASSUME PoolInv, DownloadTypeOK, ReportInv, DownloadDone PROVE ReportInv'
  OBVIOUS
<1>1. /\ phase = "download" /\ Downloaded /\ Decoded # {}
      /\ decoded' = InOrder(Decoded) /\ errors' = InOrder(Failed)
      /\ UNCHANGED <<call, outcome, report>>
  BY DEF DownloadDone
<1>2. /\ call \in Calls /\ phase \notin Between /\ \A t \in Tasks : state[t] = "off"
      /\ \A w \in WorkInPool : w.call # call
  BY <1>1 DEF PoolInv, StageInv, OwnInv, Between, Awaiting
<1>3. decoded' \in Lists
  BY <1>1 DEF Lists, Decoded
<1>4. Shared(decoded', errors', 1 .. UrlCount[call])
  <2>1. Decoded \in SUBSET Urls /\ Failed \in SUBSET Urls /\ Decoded \cap Failed = {}
    BY DEF Decoded, Failed
  <2>2. 1 .. UrlCount[call] \subseteq Urls
    <3>1. UrlCount[call] \in 1 .. MaxUrls
      BY <1>2, PipelineAssumption DEF Urls
    <3> QED
      BY <3>1, DownloadAssumption DEF Urls
  <2>3. \A u \in Urls : fetch[u] # "none" <=> u \in 1 .. UrlCount[call]
    BY <1>1 DEF ReportInv, ImagesInv
  <2>4. \A u \in Urls : fetch[u] # "none" <=> u \in Decoded \cup Failed
    BY <1>1 DEF Downloaded, Over, Decoded, Failed
  <2>5. Decoded \cup Failed = 1 .. UrlCount[call]
    BY <2>1, <2>2, <2>3, <2>4
  <2>6. ListsUp(decoded', Decoded) /\ ListsUp(errors', Failed)
    BY <1>1, <2>1, InOrderLists
  <2> QED
    BY <1>1, <2>1, <2>5, <2>6 DEF Shared
<1>5. {"quality", "safety", "fingerprint", "match"} = Tasks
  BY DEF Tasks
<1>6. CASE Moderation(call) # <<>> /\ Submit("moderation", Moderation(call), InOrder(Decoded))
  <2>1. Moderation(call) \in Seq(Tasks)
    BY TaskLists
  <2>2. \A k \in 1 .. Len(Moderation(call)) :
          state[Moderation(call)[k]] = "off" /\ Active(call, Moderation(call)[k])
    BY <1>2, <2>1, BatchesAreActive
  <2>3. Submit("moderation", Moderation(call), decoded')
    BY <1>1, <1>6
  <2> QED
    BY <1>1, <1>2, <1>3, <1>4, <2>1, <2>2, <2>3, SubmitReports DEF Awaiting
<1>7. CASE Moderation(call) = <<>> /\ Submit("matching", Matching(call), InOrder(Decoded))
  <2>1. Matching(call) \in Seq(Tasks) /\ Len(Moderation(call)) = 0
    BY <1>7, TaskLists
  <2>2. \A k \in 1 .. Len(Matching(call)) :
          state[Matching(call)[k]] = "off" /\ Active(call, Matching(call)[k])
    BY <1>2, <2>1, BatchesAreActive
  <2>3. \A t \in {"quality", "safety"} : ~Active(call, t)
    BY <2>1, TaskLists
  <2>4. \A t \in Tasks : Active(call, t) => \E k \in 1 .. Len(Matching(call)) : Matching(call)[k] = t
    BY <1>5, <2>3, BatchesAreActive
  <2>5. Submit("matching", Matching(call), decoded')
    BY <1>1, <1>7
  <2> QED
    BY <1>1, <1>2, <1>3, <1>4, <2>1, <2>2, <2>4, <2>5, SubmitReports DEF Awaiting
<1> QED
  BY <1>6, <1>7 DEF DownloadDone

LEMMA ModerationDoneReports == PoolInv /\ ReportInv /\ ModerationDone => ReportInv'
<1> SUFFICES ASSUME PoolInv, ReportInv, ModerationDone PROVE ReportInv'
  OBVIOUS
<1>1. /\ phase = "moderation" /\ Gathered /\ Submit("matching", Matching(call), decoded)
      /\ UNCHANGED <<call, decoded, errors, outcome, report>>
  BY DEF ModerationDone
<1>2. call \in Calls /\ phase \notin Between /\ phase \in Awaiting
  BY <1>1 DEF PoolInv, StageInv, Between, Awaiting
<1>3. \A w \in WorkInPool : w.call # call
  BY <1>1, <1>2, PoolElements DEF PoolInv, OwnInv, Gathered
<1>4. decoded' \in Lists /\ Shared(decoded', errors', 1 .. UrlCount[call])
  BY <1>1, <1>2 DEF PoolInv, PoolTypes, ReportInv, ImagesInv
<1>5. \A t \in {"quality", "safety"} : Active(call, t) => state[t] # "off"
  BY <1>1 DEF PoolInv, StageInv
<1>6. \A t \in {"fingerprint", "match"} : state[t] = "off"
  BY <1>1 DEF PoolInv, StageInv
<1>7. {"quality", "safety", "fingerprint", "match"} = Tasks
  BY DEF Tasks
<1>8. Matching(call) \in Seq(Tasks)
  BY TaskLists
<1>9. \A k \in 1 .. Len(Matching(call)) :
        state[Matching(call)[k]] = "off" /\ Active(call, Matching(call)[k])
  BY <1>6, TaskLists, BatchesAreActive
<1>10. \A t \in Tasks : Active(call, t) =>
         state[t] # "off" \/ \E k \in 1 .. Len(Matching(call)) : Matching(call)[k] = t
  BY <1>5, <1>7, BatchesAreActive
<1>11. Submit("matching", Matching(call), decoded')
  BY <1>1
<1> QED
  BY <1>1, <1>2, <1>3, <1>4, <1>8, <1>9, <1>10, <1>11, SubmitReports DEF Awaiting

\* When the last batch is gathered, the call's stages have all returned.
LEMMA EveryStageReturned ==
    ASSUME PoolInv, ReportInv, phase = "matching", Gathered, NEW i \in 1 .. Len(decoded)
    PROVE  \A t \in Tasks :
             At(t, i) = IF Active(call, t) THEN [call |-> call, url |-> decoded[i]] ELSE Missing
<1> SUFFICES ASSUME NEW t \in Tasks
             PROVE  At(t, i) = IF Active(call, t) THEN [call |-> call, url |-> decoded[i]] ELSE Missing
  OBVIOUS
<1>1. state[t] \in {"off", "done"} /\ (state[t] = "done" <=> Active(call, t))
  BY DEF PoolInv, PoolTypes, Gathered, ReportInv, OutputInv
<1>2. CASE Active(call, t)
  <2>1. state[t] = "done" /\ output[t] = ResultsOf(call, decoded)
    BY <1>1, <1>2 DEF ReportInv, OutputInv
  <2>2. Len(decoded) \in Nat
    BY DEF PoolInv, PoolTypes, ReportInv, ImagesInv, Awaiting, Shared, ListsUp
  <2>3. Len(output[t]) = Len(decoded) /\ output[t][i] = [call |-> call, url |-> decoded[i]]
    BY <2>1, <2>2 DEF ResultsOf
  <2>4. i <= Len(output[t])
    BY <2>2, <2>3
  <2> QED
    BY <1>2, <2>1, <2>3, <2>4 DEF At
<1>3. CASE ~Active(call, t)
  BY <1>1, <1>3 DEF At
<1> QED
  BY <1>2, <1>3

LEMMA MergedRows ==
    ASSUME PoolInv, ReportInv, MatchingDone
    PROVE  /\ decoded \in Seq(Urls) /\ errors \in Seq(Urls) /\ call \in Calls
           /\ report'.errors = errors /\ report'.rows \in Seq(Row)
           /\ report' \in [rows : Seq(Row), errors : Seq(Urls)]
           /\ Len(report'.rows) = Len(decoded)
           /\ \A i \in 1 .. Len(decoded) :
                /\ report'.rows[i].url = decoded[i]
                /\ \A t \in Tasks : report'.rows[i][t] =
                     IF Active(call, t) THEN [call |-> call, url |-> decoded[i]] ELSE Missing
<1>1. /\ phase = "matching" /\ Gathered
      /\ report' = [rows |-> [i \in 1 .. Len(decoded) |-> MergedRow(i)], errors |-> errors]
  BY DEF MatchingDone, Merge
<1>2. call \in Calls /\ phase \in Awaiting
  BY <1>1 DEF PoolInv, StageInv, Between, Awaiting
<1>3. decoded \in Seq(Urls) /\ errors \in Seq(Urls) /\ Len(decoded) \in Nat
  BY <1>2 DEF ReportInv, ImagesInv, Shared, ListsUp
<1>4. ASSUME NEW i \in 1 .. Len(decoded)
      PROVE  /\ MergedRow(i) \in Row
             /\ MergedRow(i).url = decoded[i]
             /\ \A t \in Tasks : MergedRow(i)[t] =
                  IF Active(call, t) THEN [call |-> call, url |-> decoded[i]] ELSE Missing
  <2>1. \A t \in Tasks :
          At(t, i) = IF Active(call, t) THEN [call |-> call, url |-> decoded[i]] ELSE Missing
    BY <1>1, EveryStageReturned
  <2>2. decoded[i] \in Urls
    BY <1>3
  <2>3. \A t \in Tasks : At(t, i) \in Result \cup {Missing}
    BY <1>2, <2>1, <2>2 DEF Result
  <2>4. Tasks = {"quality", "safety", "fingerprint", "match"}
    BY DEF Tasks
  <2>5. \A t \in Tasks : MergedRow(i)[t] = At(t, i)
    BY <2>4 DEF MergedRow
  <2>6. MergedRow(i) \in Row
    BY <2>2, <2>3, <2>4 DEF MergedRow, Row
  <2>7. MergedRow(i).url = decoded[i]
    BY DEF MergedRow
  <2> QED
    BY <2>1, <2>5, <2>6, <2>7
<1>5. /\ report'.errors = errors
      /\ report'.rows = [i \in 1 .. Len(decoded) |-> MergedRow(i)]
  BY <1>1
<1>6. /\ report'.rows \in Seq(Row) /\ Len(report'.rows) = Len(decoded)
      /\ \A i \in 1 .. Len(decoded) : report'.rows[i] = MergedRow(i)
  <2>1. \A i \in 1 .. Len(decoded) : MergedRow(i) \in Row
    BY <1>4
  <2>2. \A n \in Nat : [i \in 1 .. n |-> MergedRow(i)] \in [1 .. n -> Row] =>
          /\ [i \in 1 .. n |-> MergedRow(i)] \in Seq(Row)
          /\ Len([i \in 1 .. n |-> MergedRow(i)]) = n
    OBVIOUS
  <2> QED
    BY <1>3, <1>5, <2>1, <2>2
<1>7. report' \in [rows : Seq(Row), errors : Seq(Urls)]
  BY <1>1, <1>3, <1>5, <1>6
<1> QED
  BY <1>2, <1>3, <1>4, <1>5, <1>6, <1>7

\* The URLs of a result are those of its job, each once: as a row or an error.
LEMMA ReportAccounts ==
    ASSUME PoolInv, ReportInv, MatchingDone
    PROVE  /\ RowUrls' # {} /\ RowUrls' \cap ErrorUrls' = {}
           /\ RowUrls' \cup ErrorUrls' = 1 .. UrlCount[call]
<1>1. RowUrls' = Elements(decoded) /\ ErrorUrls' = Elements(errors)
  <2>1. /\ report'.errors = errors /\ Len(report'.rows) = Len(decoded)
        /\ \A i \in 1 .. Len(decoded) : report'.rows[i].url = decoded[i]
    BY MergedRows
  <2>2. RowUrls' = {report'.rows[i].url : i \in 1 .. Len(report'.rows)}
    BY DEF RowUrls
  <2>3. ErrorUrls' = {report'.errors[i] : i \in 1 .. Len(report'.errors)}
    BY DEF ErrorUrls
  <2>4. RowUrls' = {decoded[i] : i \in 1 .. Len(decoded)}
    BY <2>1, <2>2
  <2> QED
    BY <2>1, <2>3, <2>4 DEF Elements
<1>2. Shared(decoded, errors, 1 .. UrlCount[call])
  BY DEF MatchingDone, ReportInv, ImagesInv, Awaiting
<1> QED
  BY <1>1, <1>2 DEF Shared, ListsUp

LEMMA MatchingDoneReports == PoolInv /\ ReportInv /\ MatchingDone => ReportInv'
<1> SUFFICES ASSUME PoolInv, ReportInv, MatchingDone PROVE ReportInv'
  OBVIOUS
<1>1. /\ phase = "matching" /\ phase' = "idle" /\ call' = call /\ EndCall("reported")
  BY DEF MatchingDone, Merge
<1>2. phase \notin Between /\ phase' \in Between /\ phase \in Awaiting
  BY <1>1 DEF Between, Awaiting
<1>3. OutcomeInv'
  BY <1>1, <1>2, OutcomeEnds DEF ReportInv, Ended
<1>4. Increasing(decoded) /\ Increasing(errors)
  BY <1>2 DEF ReportInv, ImagesInv, Shared, ListsUp
<1>5. RowsInv'
  <2> DEFINE urls == [i \in 1 .. Len(report'.rows) |-> report'.rows[i].url]
  <2>1. urls = [i \in 1 .. Len(decoded) |-> decoded[i]] /\ report'.errors = errors
    BY MergedRows
  <2>2. decoded \in Seq(Urls)
    BY MergedRows
  <2>3. urls = decoded
    BY <2>1, <2>2
  <2>4. Increasing(urls) /\ Increasing(report'.errors)
    BY <1>4, <2>1, <2>3
  <2>5. Reported' = Reported \cup {call} /\ call \in Calls /\ \A b \in Reported : b <= call
    <3>1. OutcomeInv /\ call \in Calls /\ Calls \subseteq Int
      BY MergedRows, PipelineAssumption DEF ReportInv, Calls
    <3>2. outcome' = [outcome EXCEPT ![call] = "reported"]
      BY <1>1 DEF EndCall
    <3>3. \A b \in Calls : b > call => outcome[b] = "ahead"
      BY <3>1 DEF OutcomeInv
    <3> QED
      BY <3>1, <3>2, <3>3 DEF OutcomeInv, Reported
  <2>6. \A c \in Reported' : (\A b \in Reported' : b <= c) => c = call
    <3>1. Reported' \subseteq Int /\ call \in Int
      BY <2>5, PipelineAssumption DEF Reported, Calls
    <3> QED
      BY <2>5, <3>1
  <2>7. RowUrls' \cap ErrorUrls' = {} /\ RowUrls' \cup ErrorUrls' = 1 .. UrlCount[call]
    BY ReportAccounts
  <2>8. ReportListsTheUrls'
    BY <2>4, <2>6, <2>7 DEF ReportListsTheUrls, Increasing
  <2> QED
    BY <2>8, MergedRows DEF RowsInv
<1> QED
  BY <1>1, <1>2, <1>3, <1>5, RestReports DEF EndCall

LEMMA NothingDownloadedReports == PoolInv /\ ReportInv /\ NothingDownloaded => ReportInv'
<1> SUFFICES ASSUME PoolInv, ReportInv, NothingDownloaded PROVE ReportInv'
  OBVIOUS
<1>1. /\ phase = "download" /\ phase' = "idle" /\ UNCHANGED <<call, report>> /\ EndCall("failed")
  BY DEF NothingDownloaded
<1>2. phase \notin Between /\ phase' \in Between
  BY <1>1 DEF Between
<1>3. OutcomeInv'
  BY <1>1, <1>2, OutcomeEnds DEF ReportInv, Ended
<1>4. RowsInv'
  BY <1>1, <1>2, RowsSurvive
<1> QED
  BY <1>1, <1>2, <1>3, <1>4, RestReports DEF EndCall

\* Work moves about in the pool, or leaves it, and nothing else happens.
LEMMA PoolReports ==
    ASSUME ReportInv, WorkInPool' \subseteq WorkInPool,
           UNCHANGED <<downloadVars, phase, call, decoded, errors, state, output, outcome, report>>
    PROVE  ReportInv'
<1>1. ImagesInv'
  BY DEF ReportInv, ImagesInv, downloadVars
<1>2. WorkInv'
  BY DEF ReportInv, WorkInv
<1>3. OutputInv'
  BY DEF ReportInv, OutputInv, Active, Stages
<1>4. OutcomeInv' /\ RowsInv'
  BY RowsStay DEF ReportInv, OutcomeInv, Reported
<1> QED
  BY <1>1, <1>2, <1>3, <1>4 DEF ReportInv

LEMMA TakeReports == PoolInv /\ ReportInv /\ TakeWork => ReportInv'
<1> SUFFICES ASSUME PoolInv, ReportInv, TakeWork PROVE ReportInv'
  OBVIOUS
<1>1. /\ running' = running \cup {Head(queue)} /\ queue' = Tail(queue)
      /\ queue # <<>> /\ queue \in Seq(PoolWork)
  BY DEF TakeWork, PoolInv, PoolTypes
<1>2. /\ 1 \in 1 .. Len(queue) /\ Head(queue) = queue[1]
      /\ \A k \in 1 .. Len(queue') : k + 1 \in 1 .. Len(queue) /\ queue'[k] = queue[k + 1]
  BY <1>1
<1>3. WorkInPool' \subseteq WorkInPool
  BY <1>1, <1>2 DEF WorkInPool
<1> QED
  BY <1>3, PoolReports DEF TakeWork, callVars

LEMMA FinishReports ==
    ASSUME PoolInv, ReportInv, NEW w \in running, FinishWork(w)
    PROVE  ReportInv'
<1>1. /\ running' = running \ {w} /\ queue' = queue
      /\ UNCHANGED <<downloadVars, phase, call, decoded, errors, outcome, report>>
  BY DEF FinishWork
<1>2. WorkInPool' \subseteq WorkInPool
  BY <1>1, WorkLeaves
<1>3. CASE ~Awaited(w)
  BY <1>1, <1>2, <1>3, PoolReports DEF FinishWork
<1>4. CASE Awaited(w)
  <2>1. /\ w.call = call /\ state[w.task] = "pending"
        /\ state' = [state EXCEPT ![w.task] = "done"]
        /\ output' = [output EXCEPT ![w.task] = Computed(w)]
    BY <1>4 DEF FinishWork, Awaited
  <2>2. w \in WorkInPool /\ w.task \in Tasks
    BY PoolElements DEF PoolInv, WorkInPool
  <2>3. phase \in Awaiting
    BY <2>1, <2>2 DEF PoolInv, StageInv
  <2>4. w.images = decoded /\ decoded \in Seq(Urls)
    BY <2>1, <2>2, <2>3 DEF ReportInv, WorkInv, ImagesInv, Shared, ListsUp
  <2>5. Computed(w) = ResultsOf(call, decoded)
    BY <2>1, <2>4, ComputedResults
  <2>6. ImagesInv' /\ WorkInv'
    BY <1>1, <1>2 DEF ReportInv, ImagesInv, WorkInv, downloadVars
  <2>7. OutputInv'
    <3>1. /\ state \in [Tasks -> {"off", "pending", "done"}]
          /\ output = [t \in Tasks |-> IF state[t] = "done" THEN ResultsOf(call, decoded) ELSE <<>>]
      BY DEF PoolInv, PoolTypes, ReportInv, OutputInv
    <3>2. \A t \in Tasks : state'[t] = IF t = w.task THEN "done" ELSE state[t]
      BY <2>1, <2>2, <3>1
    <3>3. output' = [t \in Tasks |-> IF t = w.task THEN ResultsOf(call, decoded) ELSE output[t]]
      BY <2>1, <2>5, <3>1
    <3>4. output' = [t \in Tasks |-> IF state'[t] = "done" THEN ResultsOf(call, decoded) ELSE <<>>]
      BY <1>1, <3>1, <3>2, <3>3
    <3>5. \A t \in Tasks : state'[t] # "off" <=> state[t] # "off"
      BY <2>1, <3>2
    <3>6. \A t \in Tasks : /\ state[t] # "off" => Active(call, t)
                           /\ phase = "matching" /\ Active(call, t) => state[t] # "off"
      BY DEF ReportInv, OutputInv
    <3>7. \A t \in Tasks : /\ state'[t] # "off" => Active(call, t)
                           /\ phase' = "matching" /\ Active(call, t) => state'[t] # "off"
      BY <1>1, <3>5, <3>6
    <3> QED
      BY <1>1, <3>4, <3>7 DEF OutputInv, Active, Stages
  <2>8. OutcomeInv' /\ RowsInv'
    BY <1>1, RowsStay DEF FinishWork, ReportInv, OutcomeInv, Reported
  <2> QED
    BY <2>6, <2>7, <2>8 DEF ReportInv
<1> QED
  BY <1>3, <1>4

LEMMA RaiseReports ==
    ASSUME PoolInv, ReportInv, NEW w \in running, RaiseWork(w)
    PROVE  ReportInv'
<1>1. running' = running \ {w} /\ queue' = queue /\ UNCHANGED <<downloadVars, call, report>>
  BY DEF RaiseWork
<1>2. CASE ~Awaited(w)
  <2>1. WorkInPool' \subseteq WorkInPool
    BY <1>1, WorkLeaves
  <2> QED
    BY <1>1, <1>2, <2>1, PoolReports DEF RaiseWork
<1>3. CASE Awaited(w)
  <2>1. w.task \in Tasks /\ state[w.task] = "pending" /\ phase' = "idle" /\ EndCall("failed")
    BY <1>3, PoolElements DEF RaiseWork, Awaited, PoolInv, WorkInPool
  <2>2. phase \notin Between /\ phase' \in Between
    BY <2>1 DEF PoolInv, StageInv, Awaiting, Between
  <2>3. OutcomeInv'
    BY <1>1, <2>1, <2>2, OutcomeEnds DEF ReportInv, Ended
  <2>4. RowsInv'
    BY <1>1, <2>1, <2>2, RowsSurvive
  <2> QED
    BY <2>1, <2>2, <2>3, <2>4, RestReports DEF EndCall
<1> QED
  BY <1>2, <1>3

LEMMA StopReports == PoolInv /\ ReportInv /\ Stop => ReportInv'
<1> SUFFICES ASSUME PoolInv, ReportInv, Stop PROVE ReportInv'
  OBVIOUS
<1>1. /\ phase \notin {"stopped", "exited"} /\ phase' = "stopped" /\ phase' \in Between
      /\ UNCHANGED <<call, report>>
  BY DEF Stop, Between
<1>2. CASE phase # "idle"
  <2>1. phase \notin Between /\ EndCall("cancelled")
    BY <1>1, <1>2 DEF Stop, Between
  <2>2. OutcomeInv' /\ RowsInv'
    BY <1>1, <2>1, OutcomeEnds, RowsSurvive DEF ReportInv
  <2> QED
    BY <1>1, <2>1, <2>2, RestReports DEF EndCall
<1>3. CASE phase = "idle"
  <2>1. UNCHANGED <<decoded, errors, state, output, outcome>>
    BY <1>3 DEF Stop
  <2>2. OutcomeInv' /\ RowsInv'
    BY <1>1, <1>3, <2>1, RowsStay DEF ReportInv, OutcomeInv, Reported
  <2>3. decoded = <<>> /\ errors = <<>> /\ \A t \in Tasks : state[t] = "off"
    BY <1>3 DEF ReportInv, ImagesInv, PoolInv, StageInv, Awaiting
  <2>4. state = [t \in Tasks |-> "off"] /\ output = [t \in Tasks |-> <<>>]
    BY <2>3 DEF ReportInv, OutputInv, PoolInv, PoolTypes
  <2> QED
    BY <1>1, <2>1, <2>2, <2>3, <2>4, RestReports DEF NoTasks
<1> QED
  BY <1>2, <1>3

LEMMA ExitReports == PoolInv /\ ReportInv /\ Exit => ReportInv'
<1> SUFFICES ASSUME PoolInv, ReportInv, Exit PROVE ReportInv'
  OBVIOUS
<1>1. /\ phase = "stopped" /\ phase' = "exited"
      /\ UNCHANGED <<call, decoded, errors, state, output, outcome, report>>
  BY DEF Exit
<1>2. phase' \in Between
  BY <1>1 DEF Between
<1>3. decoded = <<>> /\ errors = <<>> /\ \A t \in Tasks : state[t] = "off"
  BY <1>1 DEF ReportInv, ImagesInv, PoolInv, StageInv, Awaiting
<1>4. state = [t \in Tasks |-> "off"] /\ output = [t \in Tasks |-> <<>>]
  BY <1>3 DEF ReportInv, OutputInv, PoolInv, PoolTypes
<1>5. OutcomeInv' /\ RowsInv'
  BY <1>1, <1>2, RowsStay DEF ReportInv, OutcomeInv, Reported
<1> QED
  BY <1>1, <1>2, <1>3, <1>4, <1>5, RestReports DEF NoTasks

LEMMA ReportStep == PoolInv /\ DownloadInv /\ ReportInv /\ [Next]_vars => ReportInv'
<1> SUFFICES ASSUME PoolInv, DownloadInv, ReportInv, [Next]_vars PROVE ReportInv'
  OBVIOUS
<1>1. DownloadTypeOK
  BY DEF DownloadInv
<1>2. CASE UNCHANGED vars
  BY <1>2, PoolReports DEF vars, callVars, poolVars, WorkInPool
<1>3. CASE LoopStep
  BY <1>1, <1>3, BeginReports, DownloadReports, DownloadDoneReports, NothingDownloadedReports,
     ModerationDoneReports, MatchingDoneReports DEF LoopStep
<1>4. CASE ThreadStep
  BY <1>4, TakeReports, FinishReports, RaiseReports DEF ThreadStep
<1>5. CASE Stop \/ Exit
  BY <1>5, StopReports, ExitReports
<1> QED
  BY <1>2, <1>3, <1>4, <1>5 DEF Next

LEMMA ReportInductive == Spec => [](PoolInv /\ DownloadInv /\ ReportInv)
<1>1. Init => ReportInv
  BY ReportInit
<1> QED
  BY <1>1, PipelineInductive, ReportStep, PTL DEF Spec

-----------------------------------------------------------------------------
LEMMA ListsAreSequences == ASSUME NEW s \in Lists PROVE s \in Seq(Urls)
<1>1. CASE s = <<>>
  BY <1>1
<1>2. CASE \E S \in SUBSET Urls : s = InOrder(S)
  BY <1>2, InOrderLists DEF ListsUp
<1> QED
  BY <1>1, <1>2 DEF Lists

\* Every variable of the pipeline keeps its type: what the stages return, and
\* the rows made of it, are results of calls and URLs there are, or Missing.
THEOREM PipelineTypes == Spec => []TypeOK
<1>1. ASSUME PoolInv, DownloadInv, ReportInv PROVE TypeOK
  <2>1. /\ DownloadTypeOK /\ phase \in Between \cup {"download", "moderation", "matching"}
        /\ call \in 0 .. NumCalls /\ state \in [Tasks -> {"off", "pending", "done"}]
    BY <1>1 DEF DownloadInv, PoolInv, PoolTypes, Awaiting
  <2>2. decoded \in Seq(Urls) /\ errors \in Seq(Urls)
    <3>1. CASE phase \in Awaiting
      BY <1>1, <3>1 DEF ReportInv, ImagesInv, Shared, ListsUp
    <3>2. CASE phase \notin Awaiting
      BY <1>1, <3>2 DEF ReportInv, ImagesInv
    <3> QED
      BY <3>1, <3>2
  <2>3. queue \in Seq(Work) /\ running \subseteq Work
    <3>1. PoolWork \subseteq Work
      BY ListsAreSequences DEF PoolWork, Work
    <3> QED
      BY <1>1, <3>1 DEF PoolInv, PoolTypes
  <2>4. output \in [Tasks -> Seq(Result)]
    <3>1. \A t \in Tasks : state[t] = "done" => call \in Calls
      BY <1>1 DEF PoolInv, StageInv, Between, Awaiting
    <3>2. call \in Calls => ResultsOf(call, decoded) \in Seq(Result)
      BY <2>2 DEF ResultsOf, Result
    <3>3. <<>> \in Seq(Result)
      OBVIOUS
    <3> QED
      BY <1>1, <3>1, <3>2, <3>3 DEF ReportInv, OutputInv
  <2>5. /\ outcome \in [Calls -> {"ahead", "running", "reported", "failed", "cancelled"}]
        /\ report \in [rows : Seq(Row), errors : Seq(Urls)]
    BY <1>1 DEF ReportInv, OutcomeInv, RowsInv
  <2> QED
    BY <2>1, <2>2, <2>3, <2>4, <2>5 DEF TypeOK
<1> QED
  BY <1>1, ReportInductive, PTL

\* The report accounts for every URL of the last reported job exactly once, as a
\* row or as an error, both in the job's order, whatever order the downloads ended
\* in and however many calls failed since (download.py:154-165).
THEOREM ReportsListTheUrls == Spec => []ReportListsTheUrls
<1>1. ReportInv => ReportListsTheUrls
  BY DEF ReportInv, RowsInv
<1> QED
  BY <1>1, ReportInductive, PTL

\* Only the end of the last gather reports a call, and it is the current one.
LEMMA WhoReports ==
    ASSUME PoolInv, ReportInv, [Next]_vars, NEW c \in Calls,
           outcome[c] = "running", outcome'[c] = "reported"
    PROVE  MatchingDone /\ c = call
<1>1. outcome \in [Calls -> {"ahead", "running", "reported", "failed", "cancelled"}]
  BY DEF ReportInv, OutcomeInv
<1>2. outcome' # outcome
  OBVIOUS
<1>3. MatchingDone
  <2>1. CASE BeginCall
    BY <1>1, <2>1 DEF BeginCall
  <2>2. CASE NothingDownloaded
    BY <1>1, <2>2 DEF NothingDownloaded, EndCall
  <2>3. CASE \E w \in running : RaiseWork(w)
    BY <1>1, <1>2, <2>3 DEF RaiseWork, EndCall
  <2>4. CASE Stop
    BY <1>1, <1>2, <2>4 DEF Stop, EndCall
  <2>5. CASE UNCHANGED vars \/ Download \/ DownloadDone \/ ModerationDone \/ TakeWork \/ Exit
              \/ \E w \in running : FinishWork(w)
    BY <1>2, <2>5 DEF vars, callVars, Download, DownloadDone, ModerationDone, TakeWork, Exit, FinishWork
  <2> QED
    BY <2>1, <2>2, <2>3, <2>4, <2>5 DEF Next, LoopStep, ThreadStep
<1> QED
  BY <1>1, <1>3 DEF MatchingDone, Merge, EndCall

\* A row holds what this call's stages computed from the row's image, and the
\* field of every stage the call runs is filled (orchestrator.py:105-128).
THEOREM RowsAreTheirImages == Spec => RowsBelongTogether
<1> DEFINE Belongs(c) ==
             \A i \in 1 .. Len(report'.rows) : LET row == report'.rows[i] IN
                 \A t \in Tasks :
                     row[t] = IF Active(c, t) THEN [call |-> c, url |-> row.url] ELSE Missing
           Step == \A c \in Calls : outcome[c] = "running" /\ outcome'[c] = "reported" => Belongs(c)
<1>1. ASSUME PoolInv, ReportInv, [Next]_vars PROVE Step
  <2> SUFFICES ASSUME NEW c \in Calls, outcome[c] = "running", outcome'[c] = "reported"
               PROVE  Belongs(c)
    OBVIOUS
  <2>1. MatchingDone /\ c = call
    BY <1>1, WhoReports
  <2> QED
    BY <1>1, <2>1, MergedRows
<1>2. PoolInv /\ ReportInv /\ [Next]_vars => [Step]_vars
  BY <1>1
<1> QED
  BY <1>2, ReportInductive, PTL DEF Spec, RowsBelongTogether

-----------------------------------------------------------------------------
LEMMA ContractInit == Init => Promise!Init
<1> SUFFICES ASSUME Init PROVE Promise!Init
  OBVIOUS
<1>1. report.rows = <<>> /\ report.errors = <<>> /\ outcome = [c \in Calls |-> "ahead"]
  BY DEF Init
<1>2. RowUrls = {} /\ ErrorUrls = {}
  BY <1>1 DEF RowUrls, ErrorUrls
<1> QED
  BY <1>1, <1>2 DEF Promise!Init, Promise!Calls, Calls

LEMMA ContractStep ==
    ASSUME PoolInv, ReportInv, [Next]_vars
    PROVE  [Promise!Next]_<<outcome, [images |-> RowUrls, errors |-> ErrorUrls]>>
<1> DEFINE view == [images |-> RowUrls, errors |-> ErrorUrls]
<1>1. Promise!Calls = Calls
  BY DEF Promise!Calls, Calls
<1>2. report' = report => view' = view
  BY DEF RowUrls, ErrorUrls
<1>3. OutcomeInv
  BY DEF ReportInv
<1>4. phase \notin Between => call \in Calls /\ outcome[call] = "running"
  BY <1>3 DEF PoolInv, StageInv, OutcomeInv
<1>5. ASSUME NEW end \in {"failed", "cancelled"}, EndCall(end), phase \notin Between, report' = report
      PROVE  Promise!Next
  <2>1. Promise!Abandon(call, end)
    BY <1>2, <1>4, <1>5 DEF EndCall, Promise!Abandon
  <2> QED
    <3>1. call \in Promise!Calls
      BY <1>1, <1>4, <1>5
    <3>2. \E e \in {"failed", "cancelled"} : Promise!Abandon(call, e)
      BY <2>1
    <3> QED
      BY <3>1, <3>2 DEF Promise!Next
<1>6. CASE BeginCall
  <2>1. call + 1 \in Calls /\ call \in Nat /\ Calls \subseteq Nat /\ phase = "idle"
    BY <1>6, PipelineAssumption DEF BeginCall, PoolInv, PoolTypes, Calls
  <2>2. outcome[call + 1] = "ahead"
    BY <1>3, <2>1 DEF OutcomeInv
  <2>3. \A b \in Calls : b < call + 1 => outcome[b] \in {"reported", "failed"}
    BY <1>3, <2>1 DEF OutcomeInv, Ended
  <2>4. outcome' = [outcome EXCEPT ![call + 1] = "running"] /\ report' = report
    BY <1>6 DEF BeginCall
  <2>5. Promise!Begin(call + 1)
    BY <1>1, <1>2, <2>2, <2>3, <2>4 DEF Promise!Begin
  <2> QED
    BY <1>1, <2>1, <2>5 DEF Promise!Next
<1>7. CASE MatchingDone
  <2>1. phase \notin Between /\ outcome' = [outcome EXCEPT ![call] = "reported"]
    BY <1>7 DEF MatchingDone, Merge, EndCall, Between
  <2>2. view'.images = RowUrls' /\ view'.errors = ErrorUrls'
    OBVIOUS
  <2>3. Promise!Report(call)
    BY <1>4, <1>7, <2>1, <2>2, ReportAccounts DEF Promise!Report
  <2> QED
    BY <1>1, <1>4, <2>1, <2>3 DEF Promise!Next
<1>8. CASE NothingDownloaded
  BY <1>5, <1>8 DEF NothingDownloaded, Between
<1>9. CASE \E w \in running : RaiseWork(w)
  <2>1. PICK w \in running : RaiseWork(w)
    BY <1>9
  <2>2. CASE ~Awaited(w)
    BY <1>2, <2>1, <2>2 DEF RaiseWork
  <2>3. CASE Awaited(w)
    <3>1. w.task \in Tasks /\ state[w.task] # "off"
      BY <2>3, PoolElements DEF Awaited, PoolInv, WorkInPool
    <3>2. phase \notin Between
      BY <3>1 DEF PoolInv, StageInv, Awaiting, Between
    <3> QED
      BY <1>5, <2>1, <2>3, <3>2 DEF RaiseWork
  <2> QED
    BY <2>2, <2>3
<1>10. CASE Stop
  <2>1. CASE phase = "idle"
    BY <1>2, <1>10, <2>1 DEF Stop
  <2>2. CASE phase # "idle"
    BY <1>5, <1>10, <2>2 DEF Stop, Between
  <2> QED
    BY <2>1, <2>2
<1>11. CASE UNCHANGED vars \/ Download \/ DownloadDone \/ ModerationDone \/ TakeWork \/ Exit
             \/ \E w \in running : FinishWork(w)
  <2>1. UNCHANGED <<outcome, report>>
    BY <1>11 DEF vars, callVars, Download, DownloadDone, ModerationDone, TakeWork, Exit, FinishWork
  <2> QED
    BY <1>2, <2>1
<1> QED
  BY <1>6, <1>7, <1>8, <1>9, <1>10, <1>11 DEF Next, LoopStep, ThreadStep

\* run_pipeline implements what the consumer relies on: calls one at a time and
\* in order, each ending once, and a result that has every URL of its job
\* exactly once, as an image or as an error (orchestrator.py:58-141).
THEOREM PipelineKeepsTheContract == Spec => KeepsTheContract
<1>1. PoolInv /\ DownloadInv /\ ReportInv /\ [Next]_vars
      => [Promise!Next]_<<outcome, [images |-> RowUrls, errors |-> ErrorUrls]>>
  BY ContractStep
<1> QED
  BY <1>1, ContractInit, ReportInductive, PTL DEF Spec, KeepsTheContract, Promise!Contract
=============================================================================
