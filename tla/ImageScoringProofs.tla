------------------------- MODULE ImageScoringProofs -------------------------
(***************************************************************************)
(* Proofs about ImageScoring, for any categories, prompts, logits, labels  *)
(* and margin.  ScoringInv is inductive: what has been averaged so far is  *)
(* the first categories' own prompts, and a result is what the operators   *)
(* make of all the averages.  The rest is about those operators.           *)
(***************************************************************************)
EXTENDS ImageScoring, InductionLemmas, FunctionTheorems, SequenceTheorems

\* The averages, or the logits of the distractors.
Logits == {s \in Seq(Nat) : Len(s) >= 1}

LEMMA RangeFinite ==
    ASSUME NEW s \in Logits
    PROVE  /\ Range(s) \in SUBSET Nat /\ Range(s) # {} /\ IsFiniteSet(Range(s))
           /\ \A k \in DOMAIN s : s[k] \in Range(s) /\ s[k] \in Nat
           /\ DOMAIN s = 1 .. Len(s) /\ Len(s) \in Nat /\ Len(s) >= 1
<1>1. s \in Seq(Nat) /\ Len(s) \in Nat /\ Len(s) >= 1 /\ DOMAIN s = 1 .. Len(s)
  BY DEF Logits
<1>2. \A k \in DOMAIN s : s[k] \in Range(s) /\ s[k] \in Nat
  BY <1>1 DEF Range
<1>3. Range(s) \in SUBSET Nat /\ Range(s) # {}
  <2>1. \A x \in Range(s) : \E k \in DOMAIN s : x = s[k]
    BY DEF Range
  <2>2. 1 \in DOMAIN s
    BY <1>1
  <2> QED
    BY <1>2, <2>1, <2>2
<1>4. s \in Surjection(1 .. Len(s), Range(s))
  <2>1. s \in [1 .. Len(s) -> Range(s)]
    BY <1>1, <1>2
  <2>2. \A x \in Range(s) : \E k \in 1 .. Len(s) : s[k] = x
    BY <1>1 DEF Range
  <2> QED
    BY <2>1, <2>2, Fun_IsSurj
<1>5. IsFiniteSet(1 .. Len(s))
  BY <1>1, FS_Interval
<1>6. IsFiniteSet(Range(s))
  BY <1>4, <1>5, FS_Surjection
<1> QED
  BY <1>1, <1>2, <1>3, <1>6

LEMMA MaxOfLogits ==
    ASSUME NEW s \in Logits
    PROVE  /\ Max(Range(s)) \in Nat
           /\ \E k \in DOMAIN s : s[k] = Max(Range(s))
           /\ \A k \in DOMAIN s : s[k] \in Nat /\ s[k] <= Max(Range(s))
<1>1. /\ Range(s) \in SUBSET Nat /\ Range(s) # {} /\ IsFiniteSet(Range(s))
      /\ \A k \in DOMAIN s : s[k] \in Range(s) /\ s[k] \in Nat
  BY RangeFinite
<1>2. Range(s) \in SUBSET Int
  BY <1>1
<1>3. Max(Range(s)) \in Range(s) /\ \A x \in Range(s) : x <= Max(Range(s))
  BY <1>1, <1>2, MaxIsMember
<1>4. \A x \in Range(s) : x \in Nat /\ \E k \in DOMAIN s : s[k] = x
  BY <1>1 DEF Range
<1> QED
  BY <1>1, <1>3, <1>4

\* np.argmax returns the index of the first of the largest.
LEMMA BestPetIsBest ==
    ASSUME NEW pets \in Logits
    PROVE  /\ BestPet(pets) \in DOMAIN pets /\ pets[BestPet(pets)] = Max(Range(pets))
           /\ \A k \in DOMAIN pets : pets[k] = Max(Range(pets)) => BestPet(pets) <= k
<1> DEFINE Bests == {k \in DOMAIN pets : pets[k] = Max(Range(pets))}
<1>1. Bests # {}
  BY MaxOfLogits
<1>2. DOMAIN pets = 1 .. Len(pets) /\ Len(pets) \in Nat
  BY RangeFinite
<1>3. Bests \in SUBSET Nat
  BY <1>2
<1>4. BestPet(pets) = Min(Bests)
  BY DEF BestPet
<1>5. Min(Bests) \in Bests /\ \A k \in Bests : Min(Bests) <= k
  <2> HIDE DEF Bests
  <2> QED
    BY <1>1, <1>3, MinIsMember
<1> QED
  BY <1>4, <1>5

\* The best species does lead, and every other one is at least that far behind.
LEMMA LeadIsLeast ==
    ASSUME NEW pets \in Logits, Len(pets) >= 2
    PROVE  /\ Lead(pets) \in Nat
           /\ \A k \in DOMAIN pets : k # BestPet(pets) => Lead(pets) <= Max(Range(pets)) - pets[k]
<1> DEFINE Others == {pets[k] : k \in DOMAIN pets \ {BestPet(pets)}}
<1>1. DOMAIN pets = 1 .. Len(pets) /\ Len(pets) \in Nat /\ IsFiniteSet(Range(pets))
      /\ \A k \in DOMAIN pets : pets[k] \in Range(pets)
  BY RangeFinite
<1>2. /\ Max(Range(pets)) \in Nat
      /\ \A k \in DOMAIN pets : pets[k] \in Nat /\ pets[k] <= Max(Range(pets))
  BY MaxOfLogits
<1>3. Others \subseteq Range(pets) /\ Others \in SUBSET Int /\ \A x \in Others : x \in Nat /\ x <= Max(Range(pets))
  BY <1>1, <1>2
<1>4. IsFiniteSet(Others)
  BY <1>1, <1>3, FS_Subset
<1>5. Others # {}
  <2>1. 1 \in DOMAIN pets /\ 2 \in DOMAIN pets
    BY <1>1
  <2>2. \E k \in DOMAIN pets : k # BestPet(pets)
    BY <2>1
  <2> QED
    BY <2>2
<1>6. Max(Others) \in Others /\ \A x \in Others : x <= Max(Others)
  <2> HIDE DEF Others
  <2> QED
    BY <1>3, <1>4, <1>5, MaxIsMember
<1>7. Lead(pets) = Max(Range(pets)) - Max(Others)
  BY DEF Lead
<1>8. Max(Others) \in Nat /\ Max(Others) <= Max(Range(pets))
  BY <1>3, <1>6
<1>9. \A k \in DOMAIN pets : k # BestPet(pets) => pets[k] \in Nat /\ pets[k] <= Max(Others)
  BY <1>2, <1>6
<1> HIDE DEF Others
<1> QED
  BY <1>2, <1>7, <1>8, <1>9

-----------------------------------------------------------------------------
\* exp: positive, and one more in the exponent is twice as much.
Positive == Nat \ {0}
Doubles(f, n) ==
    f \in [0 .. n -> Positive] /\ f[0] = 1 /\ \A i \in 1 .. n : f[i] = 2 * f[i - 1]

LEMMA DoublingRuns ==
    ASSUME NEW n \in Nat
    PROVE  \E f : Doubles(f, n)
<1> DEFINE body == [i \in 1 .. n |-> [x \in Positive |-> 2 * x]]
<1>1. \A x \in Positive : 2 * x \in Positive
  BY DEF Positive
<1>2. 1 \in Positive
  BY DEF Positive
<1>3. body \in [1 .. n -> [Positive -> Positive]]
  BY <1>1
<1>4. \A i \in 1 .. n, x \in Positive : body[i][x] = 2 * x
  OBVIOUS
<1> HIDE DEF body
<1>5. PICK f : IsRun(n, Positive, 1, body, f)
  BY <1>2, <1>3, LoopRuns DEF IsLoop
<1>6. \A i \in 1 .. n : f[i - 1] \in Positive
  <2>1. \A i \in 1 .. n : i - 1 \in 0 .. n
    OBVIOUS
  <2> QED
    BY <1>5, <2>1 DEF IsRun
<1>7. Doubles(f, n)
  BY <1>4, <1>5, <1>6 DEF IsRun, Doubles
<1> QED
  BY <1>7

LEMMA DoublingAgrees ==
    ASSUME NEW n \in Nat, NEW m \in 0 .. n, NEW f, NEW g, Doubles(f, n), Doubles(g, m)
    PROVE  \A i \in 0 .. m : f[i] = g[i]
<1> DEFINE S == {i \in 0 .. m : f[i] = g[i]}
<1>1. 0 \in S
  BY DEF Doubles
<1>2. ASSUME NEW i \in 1 .. m, i - 1 \in S PROVE i \in S
  <2>1. i \in 1 .. n /\ i \in 0 .. m
    OBVIOUS
  <2>2. f[i] = 2 * f[i - 1] /\ g[i] = 2 * g[i - 1]
    BY <2>1 DEF Doubles
  <2> QED
    BY <1>2, <2>1, <2>2
<1>3. m \in Nat
  OBVIOUS
<1>4. \A i \in 0 .. m : i \in S
  <2> HIDE DEF S
  <2> QED
    BY <1>1, <1>2, <1>3, RangeInduction
<1> QED
  BY <1>4

LEMMA WeightFacts ==
    /\ Weight \in [Nat -> Positive]
    /\ \A l \in Nat : Weight[l + 1] = 2 * Weight[l]
<1> DEFINE Value(f, l) == IF l = 0 THEN 1 ELSE 2 * f[l - 1]
           Is(f) == f = [l \in Nat |-> Value(f, l)]
           Run(n) == CHOOSE f : Doubles(f, n)
           all == [n \in Nat |-> Run(n)[n]]
<1>1. \A n \in Nat : Doubles(Run(n), n)
  BY DoublingRuns
<1> HIDE DEF Run
<1>2. \A n \in Nat : all[n] \in Positive
  BY <1>1 DEF Doubles
<1>3. all[0] = 1
  BY <1>1 DEF Doubles
<1>4. ASSUME NEW n \in Nat PROVE all[n + 1] = 2 * all[n]
  <2>1. n + 1 \in Nat /\ n \in 0 .. n + 1 /\ n + 1 \in 1 .. n + 1 /\ (n + 1) - 1 = n /\ n \in 0 .. n
    OBVIOUS
  <2>2. Doubles(Run(n + 1), n + 1) /\ Doubles(Run(n), n)
    BY <1>1, <2>1
  <2>3. Run(n + 1)[n + 1] = 2 * Run(n + 1)[n]
    BY <2>1, <2>2 DEF Doubles
  <2>4. Run(n + 1)[n] = Run(n)[n]
    BY <2>1, <2>2, DoublingAgrees
  <2> QED
    BY <2>1, <2>3, <2>4
<1>5. all = [n \in Nat |-> all[n]]
  OBVIOUS
<1> HIDE DEF all
<1>6. \A n \in Nat : all[n] = Value(all, n)
  <2> SUFFICES ASSUME NEW n \in Nat, n # 0 PROVE all[n] = 2 * all[n - 1]
    BY <1>3
  <2>1. n - 1 \in Nat /\ (n - 1) + 1 = n
    OBVIOUS
  <2> QED
    BY <1>4, <2>1
<1>7. Is(all)
  BY <1>5, <1>6
<1>8. Weight = CHOOSE f : Is(f)
  BY Zenon DEF Weight
<1>9. Is(Weight)
  <2> HIDE DEF Is
  <2> QED
    BY <1>7, <1>8, Zenon
<1>10. \A l \in Nat : Weight[l] = Value(Weight, l)
  BY <1>9
<1>11. \A l \in Nat : l + 1 \in Nat /\ l + 1 # 0 /\ (l + 1) - 1 = l
  OBVIOUS
<1>12. \A l \in Nat : Weight[l + 1] = 2 * Weight[l]
  BY <1>10, <1>11
<1>13. Weight[0] = 1
  BY <1>10
<1> DEFINE S == {l \in Nat : Weight[l] \in Positive}
<1>14. 0 \in S
  BY <1>13 DEF Positive
<1>15. \A l \in Nat : l \in S => l + 1 \in S
  BY <1>12 DEF Positive
<1>16. Nat \subseteq S
  <2> HIDE DEF S
  <2> QED
    BY <1>14, <1>15, NatSetInduction
<1>17. Weight = [l \in Nat |-> Weight[l]]
  BY <1>9
<1> QED
  BY <1>12, <1>16, <1>17

-----------------------------------------------------------------------------
\* The safety score.
Probabilities == [DOMAIN Labels -> 0 .. Whole]

LEMMA ProbabilitiesAreLogits ==
    ASSUME NEW p \in Probabilities
    PROVE  p \in Logits /\ DOMAIN p = 1 .. Len(Labels) /\ \A i \in DOMAIN p : p[i] \in 0 .. Whole
<1>1. Labels \in Seq(LabelKinds) /\ Labels # <<>> /\ Whole \in Nat
  BY ScoringAssumption
<1>2. Len(Labels) \in Nat /\ Len(Labels) >= 1 /\ DOMAIN Labels = 1 .. Len(Labels)
  BY <1>1
<1>3. p \in [1 .. Len(Labels) -> 0 .. Whole]
  BY <1>2 DEF Probabilities
<1>4. p \in [1 .. Len(Labels) -> Nat]
  BY <1>1, <1>3
<1>5. p \in Seq(Nat) /\ Len(p) = Len(Labels)
  BY <1>2, <1>4
<1> QED
  BY <1>2, <1>3, <1>5 DEF Logits

\* max() of the probabilities is the probability of a class.
LEMMA BestClassIsBest ==
    ASSUME NEW p \in Probabilities
    PROVE  BestClass(p) \in DOMAIN p /\ \A j \in DOMAIN p : p[j] <= p[BestClass(p)]
<1> DEFINE First(i) == \A j \in DOMAIN p : p[j] < p[i] \/ (p[j] = p[i] /\ i <= j)
<1>1. /\ BestPet(p) \in DOMAIN p /\ p[BestPet(p)] = Max(Range(p))
      /\ \A k \in DOMAIN p : p[k] = Max(Range(p)) => BestPet(p) <= k
  BY ProbabilitiesAreLogits, BestPetIsBest
<1>2. /\ Max(Range(p)) \in Nat
      /\ \A k \in DOMAIN p : p[k] \in Nat /\ p[k] <= Max(Range(p))
  BY ProbabilitiesAreLogits, MaxOfLogits
<1>3. First(BestPet(p))
  BY <1>1, <1>2
<1>4. BestClass(p) = CHOOSE i \in DOMAIN p : First(i)
  BY DEF BestClass
<1>5. BestClass(p) \in DOMAIN p /\ First(BestClass(p))
  <2> HIDE DEF First
  <2> QED
    BY <1>1, <1>3, <1>4
<1> QED
  BY <1>2, <1>5

\* The score is a class's own probability, and no unsafe class's is larger.
LEMMA NsfwScoreIs ==
    ASSUME NEW p \in Probabilities
    PROVE  /\ NsfwScore(p, Labels) \in 0 .. Whole
           /\ \A i \in DOMAIN Labels : Labels[i] = "unsafe" => NsfwScore(p, Labels) >= p[i]
           /\ NsfwScore(p, Labels) = 0
              \/ \E i \in DOMAIN Labels : Labels[i] # "safe" /\ NsfwScore(p, Labels) = p[i]
<1> DEFINE unsafe == UnsafeProbs(p, Labels)
           best == BestClass(p)
<1>1. DOMAIN p = 1 .. Len(Labels) /\ \A i \in DOMAIN p : p[i] \in 0 .. Whole
  BY ProbabilitiesAreLogits
<1>2. Labels \in Seq(LabelKinds) /\ Whole \in Nat
  BY ScoringAssumption
<1>3. DOMAIN Labels = DOMAIN p /\ \A i \in DOMAIN p : LabelOf(Labels, i) = Labels[i]
  BY <1>1, <1>2 DEF LabelOf
<1>4. best \in DOMAIN p /\ \A j \in DOMAIN p : p[j] <= p[best]
  BY BestClassIsBest
<1>5. unsafe \in SUBSET (0 .. Whole) /\ 0 \in unsafe
  BY <1>1, <1>2 DEF UnsafeProbs
<1>6. \A x \in unsafe : x = 0 \/ \E i \in DOMAIN Labels : Labels[i] = "unsafe" /\ x = p[i]
  BY <1>3 DEF UnsafeProbs
<1>7. \A i \in DOMAIN Labels : Labels[i] = "unsafe" => p[i] \in unsafe
  BY <1>3 DEF UnsafeProbs
<1>8. Max(unsafe) \in unsafe /\ \A x \in unsafe : x <= Max(unsafe)
  <2> HIDE DEF unsafe
  <2>1. IsFiniteSet(0 .. Whole)
    BY <1>2, FS_Interval
  <2>2. IsFiniteSet(unsafe)
    BY <1>5, <2>1, FS_Subset
  <2>3. unsafe \in SUBSET Int /\ unsafe # {}
    BY <1>2, <1>5
  <2> QED
    BY <2>2, <2>3, MaxIsMember
<1>9. NsfwScore(p, Labels) =
        IF Max(unsafe) = 0 /\ LabelOf(Labels, best) # "safe" THEN p[best] ELSE Max(unsafe)
  BY DEF NsfwScore
<1> HIDE DEF unsafe, best
<1>10. CASE Max(unsafe) = 0 /\ LabelOf(Labels, best) # "safe"
  <2>1. NsfwScore(p, Labels) = p[best] /\ Labels[best] # "safe" /\ best \in DOMAIN Labels
    BY <1>3, <1>4, <1>9, <1>10
  <2>2. p[best] \in 0 .. Whole /\ \A i \in DOMAIN Labels : p[i] <= p[best] /\ p[i] \in 0 .. Whole
    BY <1>1, <1>3, <1>4
  <2> QED
    BY <1>2, <2>1, <2>2
<1>11. CASE ~(Max(unsafe) = 0 /\ LabelOf(Labels, best) # "safe")
  <2>1. NsfwScore(p, Labels) = Max(unsafe)
    BY <1>9, <1>11
  <2>2. Max(unsafe) \in 0 .. Whole
    BY <1>5, <1>8
  <2>3. \A i \in DOMAIN Labels : Labels[i] = "unsafe" => p[i] <= Max(unsafe) /\ p[i] \in 0 .. Whole
    BY <1>1, <1>3, <1>7, <1>8
  <2>4. Max(unsafe) = 0 \/ \E i \in DOMAIN Labels : Labels[i] = "unsafe" /\ Max(unsafe) = p[i]
    BY <1>6, <1>8
  <2> QED
    BY <1>2, <2>1, <2>2, <2>3, <2>4
<1> QED
  BY <1>10, <1>11

-----------------------------------------------------------------------------
\* The likelihood.
WeightsOf(s) == [k \in DOMAIN s |-> Weight[s[k]]]

LEMMA WeightsAdd ==
    ASSUME NEW s \in Seq(Nat)
    PROVE  /\ PetWeights(s) \in Nat /\ NegWeights(s) = PetWeights(s)
           /\ PetWeights(s) = SumFunctionOnSet(WeightsOf(s), DOMAIN s)
           /\ IsFiniteSet(DOMAIN s) /\ NatOn(WeightsOf(s), DOMAIN s)
           /\ \A k \in DOMAIN s : Weight[s[k]] \in Positive /\ Weight[s[k]] <= PetWeights(s)
<1>1. \A k \in DOMAIN s : s[k] \in Nat /\ Weight[s[k]] \in Positive
  <2>1. \A k \in DOMAIN s : s[k] \in Nat
    OBVIOUS
  <2> QED
    BY <2>1, WeightFacts
<1>2. DOMAIN s = 1 .. Len(s) /\ Len(s) \in Nat
  OBVIOUS
<1>3. IsFiniteSet(DOMAIN s)
  BY <1>2, FS_Interval
<1>4. NatOn(WeightsOf(s), DOMAIN s)
  BY <1>1 DEF NatOn, WeightsOf, Positive
<1>5. DOMAIN WeightsOf(s) = DOMAIN s
  BY DEF WeightsOf
<1>6. PetWeights(s) = SumFunctionOnSet(WeightsOf(s), DOMAIN s)
  BY <1>5 DEF PetWeights, WeightsOf, SumFunction
<1>7. NegWeights(s) = PetWeights(s)
  BY DEF PetWeights, NegWeights
<1>8. SumFunctionOnSet(WeightsOf(s), DOMAIN s) \in Nat
  BY <1>3, <1>4, SumType
<1>9. \A k \in DOMAIN s : WeightsOf(s)[k] <= SumFunctionOnSet(WeightsOf(s), DOMAIN s)
  BY <1>3, <1>4, SumAtLeast
<1>10. \A k \in DOMAIN s : WeightsOf(s)[k] = Weight[s[k]]
  BY DEF WeightsOf
<1> QED
  BY <1>1, <1>3, <1>4, <1>6, <1>7, <1>8, <1>9, <1>10

\* A logit that grows makes its sum of weights no smaller.
LEMMA WeightsGrow ==
    ASSUME NEW s \in Seq(Nat), NEW k \in DOMAIN s
    PROVE  /\ [s EXCEPT ![k] = @ + 1] \in Seq(Nat)
           /\ PetWeights(s) <= PetWeights([s EXCEPT ![k] = @ + 1])
<1> DEFINE t == [s EXCEPT ![k] = @ + 1]
<1>1. DOMAIN s = 1 .. Len(s) /\ Len(s) \in Nat /\ \A i \in DOMAIN s : s[i] \in Nat
  OBVIOUS
<1>2. DOMAIN t = DOMAIN s /\ t[k] = s[k] + 1 /\ \A i \in DOMAIN s : i # k => t[i] = s[i]
  OBVIOUS
<1>3. \A i \in DOMAIN s : t[i] \in Nat
  BY <1>1, <1>2
<1>4. t \in Seq(Nat)
  <2>1. t \in [1 .. Len(s) -> Nat]
    BY <1>1, <1>3
  <2> QED
    BY <1>1, <2>1
<1> HIDE DEF t
<1>5. Weight[t[k]] = 2 * Weight[s[k]] /\ Weight[s[k]] \in Positive
  BY <1>1, <1>2, WeightFacts
<1>6. \A i \in DOMAIN s : Weight[s[i]] \in Positive /\ Weight[s[i]] <= Weight[t[i]]
  <2> TAKE i \in DOMAIN s
  <2>1. s[i] \in Nat /\ Weight[s[i]] \in Positive
    BY <1>1, WeightFacts
  <2>2. CASE i = k
    BY <1>5, <2>2 DEF Positive
  <2>3. CASE i # k
    <3>1. Weight[t[i]] = Weight[s[i]]
      BY <1>2, <2>3
    <3> QED
      BY <2>1, <3>1 DEF Positive
  <2> QED
    BY <2>2, <2>3
<1>7. Below(WeightsOf(s), WeightsOf(t), DOMAIN s)
  BY <1>2, <1>6 DEF Below, WeightsOf
<1>8. /\ IsFiniteSet(DOMAIN s) /\ NatOn(WeightsOf(s), DOMAIN s) /\ NatOn(WeightsOf(t), DOMAIN s)
      /\ PetWeights(s) = SumFunctionOnSet(WeightsOf(s), DOMAIN s)
      /\ PetWeights(t) = SumFunctionOnSet(WeightsOf(t), DOMAIN s)
  BY <1>2, <1>4, WeightsAdd
<1>9. PetWeights(s) <= PetWeights(t)
  BY <1>7, <1>8, SumMonotone
<1> QED
  BY <1>4, <1>9 DEF t

\* The share of a part in a whole never shrinks when the part grows, and never
\* grows when the rest does.
LEMMA ShareGrows ==
    ASSUME NEW p \in Nat, NEW q \in Nat, NEW n \in Nat, p <= q
    PROVE  p * (q + n) <= q * (p + n)
<1>1. p * (q + n) = p * q + p * n /\ q * (p + n) = p * q + q * n
  OBVIOUS
<1>2. PICK d \in Nat : q = p + d
  <2>1. q - p \in Nat /\ q = p + (q - p)
    OBVIOUS
  <2> QED
    BY <2>1
<1>3. q * n = p * n + d * n
  BY <1>2
<1>4. p * q \in Nat /\ p * n \in Nat /\ q * n \in Nat /\ d * n \in Nat
  OBVIOUS
<1>5. \A u, v, w, x \in Nat : w = v + x => u + v <= u + w
  OBVIOUS
<1> QED
  BY <1>1, <1>3, <1>4, <1>5

LEMMA ShareShrinks ==
    ASSUME NEW p \in Nat, NEW n \in Nat, NEW m \in Nat, n <= m
    PROVE  p * (p + n) <= p * (p + m)
<1>1. PICK d \in Nat : m = n + d
  <2>1. m - n \in Nat /\ m = n + (m - n)
    OBVIOUS
  <2> QED
    BY <2>1
<1>2. p * (p + m) = p * (p + n) + p * d
  BY <1>1
<1>3. p * (p + n) \in Nat /\ p * d \in Nat
  OBVIOUS
<1> QED
  BY <1>2, <1>3

\* The average of two fractions is one.
LEMMA HalfAndHalf ==
    ASSUME NEW best \in Nat, NEW p \in Nat, NEW m \in Nat, best <= p, best <= m
    PROVE  best * (p + m) \in 0 .. 2 * m * p
<1>1. PICK a \in Nat : p = best + a
  <2>1. p - best \in Nat /\ p = best + (p - best)
    OBVIOUS
  <2> QED
    BY <2>1
<1>2. PICK b \in Nat : m = best + b
  <2>1. m - best \in Nat /\ m = best + (m - best)
    OBVIOUS
  <2> QED
    BY <2>1
<1>3. m * p = best * p + b * p /\ m * p = best * m + a * m
  BY <1>1, <1>2
<1>4. best * (p + m) = best * p + best * m /\ 2 * m * p = m * p + m * p
  OBVIOUS
<1>5. best * p \in Nat /\ best * m \in Nat /\ b * p \in Nat /\ a * m \in Nat /\ m * p \in Nat
  OBVIOUS
<1>6. \A u, v, w, x, y \in Nat : y = u + w /\ y = v + x => u + v <= y + y /\ u + v \in Nat
  OBVIOUS
<1> QED
  BY <1>3, <1>4, <1>5, <1>6

\* A likelihood lies between 0 and 1, by either formulation.
LEMMA LikelihoodIsAFraction ==
    ASSUME NEW pets \in Logits, NEW negs \in Logits
    PROVE  Likelihood(pets, negs).num \in 0 .. Likelihood(pets, negs).den
<1> DEFINE best == Weight[Max(Range(pets))]
           worst == Weight[Max(Range(negs))]
           P == PetWeights(pets)
           N == NegWeights(negs)
<1>1. P \in Nat /\ N \in Nat
  BY WeightsAdd DEF Logits
<1>2. CASE formulation = "unified_softmax"
  <2>1. Likelihood(pets, negs) = [num |-> P, den |-> P + N]
    BY <1>2 DEF Likelihood, Unified
  <2> QED
    BY <1>1, <2>1
<1>3. CASE formulation # "unified_softmax"
  <2>1. Likelihood(pets, negs) = [num |-> best * (P + (best + worst)), den |-> 2 * (best + worst) * P]
    BY <1>3 DEF Likelihood, Baseline
  <2>2. best \in Nat /\ worst \in Nat
    BY MaxOfLogits, WeightFacts DEF Positive
  <2>3. best <= P
    BY MaxOfLogits, WeightsAdd DEF Logits
  <2> HIDE DEF best, worst, P, N
  <2>4. best + worst \in Nat /\ best <= best + worst
    BY <2>2
  <2>5. best * (P + (best + worst)) \in 0 .. 2 * (best + worst) * P
    BY <1>1, <2>2, <2>3, <2>4, HalfAndHalf
  <2> QED
    BY <2>1, <2>5
<1> QED
  BY <1>2, <1>3

-----------------------------------------------------------------------------
\* The prompts of a category are finitely many and there are some.
LEMMA PromptFacts ==
    /\ Len(PromptList) \in Nat /\ DOMAIN PromptList = 1 .. Len(PromptList)
    /\ Categories = 1 .. Len(Keys) /\ Len(Keys) \in Nat /\ Len(Keys) >= 2
    /\ \A k, l \in Categories : Keys[k] = Keys[l] => k = l
    /\ \A k \in Categories : Keys[k] \in Species /\ Keys[k] # "none"
    /\ \A k \in Categories :
         /\ PromptsOf(Keys[k]) \in SUBSET DOMAIN PromptList
         /\ IsFiniteSet(PromptsOf(Keys[k])) /\ PromptsOf(Keys[k]) # {}
         /\ PromptCount(k) \in Nat \ {0} /\ PromptCount(k) = Cardinality(PromptsOf(Keys[k]))
         /\ \A l \in Levels : l % PromptCount(k) = 0
<1>1. /\ Keys \in Seq(STRING) /\ PromptList \in Seq(Species \cup {"none"}) /\ Len(Keys) >= 2
      /\ Species \cap {"", "unlisted", "none"} = {} /\ IsInjective(Keys)
      /\ \A k \in Categories : PromptCount(k) > 0 /\ \A l \in Levels : l % PromptCount(k) = 0
  BY ScoringAssumption
<1>2. /\ Len(PromptList) \in Nat /\ DOMAIN PromptList = 1 .. Len(PromptList)
      /\ Categories = 1 .. Len(Keys) /\ Len(Keys) \in Nat
  BY <1>1, LenProperties DEF Categories
<1>3. \A k \in Categories : Keys[k] \in Species /\ Keys[k] # "none"
  BY <1>1 DEF Categories, Species, Range
<1>4. \A k, l \in Categories : Keys[k] = Keys[l] => k = l
  BY <1>1 DEF Categories, IsInjective
<1>5. ASSUME NEW k \in Categories
      PROVE  /\ PromptsOf(Keys[k]) \in SUBSET DOMAIN PromptList
             /\ IsFiniteSet(PromptsOf(Keys[k])) /\ PromptsOf(Keys[k]) # {}
             /\ PromptCount(k) \in Nat \ {0} /\ PromptCount(k) = Cardinality(PromptsOf(Keys[k]))
  <2>1. PromptsOf(Keys[k]) \in SUBSET DOMAIN PromptList
    BY DEF PromptsOf
  <2>2. IsFiniteSet(DOMAIN PromptList)
    BY <1>2, FS_Interval
  <2>3. IsFiniteSet(PromptsOf(Keys[k]))
    BY <2>1, <2>2, FS_Subset
  <2>4. PromptCount(k) = Cardinality(PromptsOf(Keys[k])) /\ PromptCount(k) \in Nat
    BY <2>3, FS_CardinalityType DEF PromptCount
  <2>5. PromptCount(k) > 0
    BY <1>1
  <2>6. Cardinality({}) = 0
    BY FS_EmptySet
  <2> QED
    BY <2>1, <2>3, <2>4, <2>5, <2>6
<1> QED
  BY <1>1, <1>2, <1>3, <1>4, <1>5

-----------------------------------------------------------------------------
\* The label.
Gap(pets, k) == Max(Range(pets)) - pets[k]
Hints == Species \cup {"", "unlisted"}

LEMMA LabelIs ==
    ASSUME NEW pets \in Logits, Len(pets) = Len(Keys), NEW wish \in Hints
    PROVE  /\ Label(pets, wish) \in Species
           /\ \A k \in Categories :
                /\ Keys[k] = Label(pets, wish) /\ Label(pets, wish) # "other" =>
                       Gap(pets, k) <= Margin
                       /\ (wish # Label(pets, wish) => Gap(pets, k) = 0 /\ Lead(pets) >= Margin)
                /\ Keys[k] = wish /\ Gap(pets, k) <= Margin => Label(pets, wish) = wish
           /\ Lead(pets) > Margin => Label(pets, wish) = Keys[BestPet(pets)]
<1> DEFINE best == BestPet(pets)
           close == \E k \in Categories : Keys[k] = wish /\ pets[k] >= Max(Range(pets)) - Margin
<1>0. Margin \in Nat
  BY ScoringAssumption
<1>1. /\ Len(Keys) >= 2 /\ "other" \in Species /\ Categories = 1 .. Len(Keys)
      /\ \A k, l \in Categories : Keys[k] = Keys[l] => k = l
      /\ \A k \in Categories : Keys[k] \in Species
  BY ScoringAssumption, PromptFacts
<1>2. Categories = DOMAIN pets
  BY <1>1, RangeFinite
<1>3. /\ Max(Range(pets)) \in Nat
      /\ \A k \in Categories : pets[k] \in Nat /\ pets[k] <= Max(Range(pets))
  BY <1>2, MaxOfLogits
<1>4. best \in Categories /\ pets[best] = Max(Range(pets))
  BY <1>2, BestPetIsBest
<1>5. Lead(pets) \in Nat /\ \A k \in Categories : k # best => Lead(pets) <= Gap(pets, k)
  BY <1>1, <1>2, LeadIsLeast DEF Gap
<1>6. Label(pets, wish) = IF close THEN wish
                          ELSE IF Lead(pets) < Margin THEN "other" ELSE Keys[best]
  BY DEF Label
<1>7. \A k \in Categories : pets[k] >= Max(Range(pets)) - Margin <=> Gap(pets, k) <= Margin
  <2>1. \A x, y, z \in Nat : x >= y - z <=> y - x <= z
    OBVIOUS
  <2> QED
    BY <1>0, <1>3, <2>1 DEF Gap
<1>8. close <=> \E k \in Categories : Keys[k] = wish /\ Gap(pets, k) <= Margin
  BY <1>7
<1>9. \A k \in Categories : Gap(pets, k) \in Nat
  BY <1>3 DEF Gap
<1> HIDE DEF best, close
<1>10. ASSUME Lead(pets) > Margin PROVE Label(pets, wish) = Keys[best]
  <2>1. CASE close
    <3>1. PICK k \in Categories : Keys[k] = wish /\ Gap(pets, k) <= Margin
      BY <1>8, <2>1
    <3>2. k = best
      BY <1>0, <1>5, <1>9, <1>10, <3>1
    <3> QED
      BY <1>6, <2>1, <3>1, <3>2
  <2>2. CASE ~close
    BY <1>0, <1>5, <1>6, <1>10, <2>2
  <2> QED
    BY <2>1, <2>2
<1>11. CASE close
  BY <1>1, <1>6, <1>8, <1>11, <1>10 DEF best
<1>12. CASE ~close /\ Lead(pets) < Margin
  BY <1>1, <1>6, <1>8, <1>12, <1>10 DEF best
<1>13. CASE ~close /\ ~(Lead(pets) < Margin)
  <2>1. Label(pets, wish) = Keys[best] /\ Lead(pets) >= Margin
    BY <1>0, <1>5, <1>6, <1>13
  <2>2. Gap(pets, best) = 0 /\ 0 <= Margin
    BY <1>0, <1>3, <1>4 DEF Gap
  <2>3. \A k \in Categories : Keys[k] = Keys[best] => Gap(pets, k) = 0 /\ Gap(pets, k) <= Margin
    BY <1>1, <1>4, <2>2
  <2> QED
    BY <1>1, <1>4, <1>8, <1>13, <2>1, <2>3 DEF best
<1> QED
  BY <1>11, <1>12, <1>13

-----------------------------------------------------------------------------
\* The inductive invariant: the inputs never change, the cursor has passed exactly
\* the prompts of the categories averaged so far, and a result is that of all.
InputsInv ==
    /\ logits \in [DOMAIN PromptList -> Levels]
    /\ hint \in Hints
    /\ formulation \in Formulations
    /\ probs \in Probabilities

CursorInv ==
    /\ averages \in Seq(Nat) /\ Len(averages) <= Len(Keys)
    /\ cursor \in 0 .. Len(PromptList)
    /\ \A j \in DOMAIN PromptList :
         j <= cursor <=> \E k \in 1 .. Len(averages) : PromptList[j] = Keys[k]
    /\ \A k \in 1 .. Len(averages) :
         averages[k] * PromptCount(k) = SumFunctionOnSet(logits, PromptsOf(Keys[k]))

ResultInv ==
    Scored =>
        /\ Len(averages) = Len(Keys)
        /\ result = [label |-> Label(averages, hint),
                     likelihood |-> Likelihood(averages, Negatives),
                     nsfw |-> NsfwScore(probs, Labels)]

ScoringInv == InputsInv /\ CursorInv /\ ResultInv

\* The prompts of the next category are the ones right after the cursor.
LEMMA NextPrompts ==
    ASSUME CursorInv, Len(averages) < Len(Keys)
    PROVE  LET next == Len(averages) + 1 IN
           /\ next \in Categories
           /\ PromptsOf(Keys[next]) = cursor + 1 .. cursor + PromptCount(next)
           /\ cursor + PromptCount(next) \in 0 .. Len(PromptList)
<1> DEFINE next == Len(averages) + 1
           mine == PromptsOf(Keys[next])
<1>1. /\ Len(averages) \in Nat /\ cursor \in 0 .. Len(PromptList) /\ cursor \in Nat
      /\ \A j \in DOMAIN PromptList :
           j <= cursor <=> \E k \in 1 .. Len(averages) : PromptList[j] = Keys[k]
  BY PromptFacts DEF CursorInv
<1>2. next \in Categories /\ next \notin 1 .. Len(averages) /\ 1 .. Len(averages) \subseteq Categories
  BY <1>1, PromptFacts
<1>3. /\ mine \in SUBSET DOMAIN PromptList /\ IsFiniteSet(mine) /\ mine # {}
      /\ PromptCount(next) = Cardinality(mine)
  BY <1>2, PromptFacts
<1>4. \A j \in DOMAIN PromptList : j \in mine <=> PromptList[j] = Keys[next]
  BY DEF PromptsOf
<1>5. \A j \in mine : j > cursor
  <2> SUFFICES ASSUME NEW j \in mine, ~(j > cursor) PROVE FALSE
    OBVIOUS
  <2>1. j \in DOMAIN PromptList /\ PromptList[j] = Keys[next]
    BY <1>3, <1>4
  <2>2. j <= cursor
    BY <1>1, <2>1, PromptFacts
  <2>3. PICK k \in 1 .. Len(averages) : PromptList[j] = Keys[k]
    BY <1>1, <2>1, <2>2
  <2> QED
    BY <1>2, <2>1, <2>3, PromptFacts
<1>6. ASSUME NEW j \in mine, NEW i \in DOMAIN PromptList, i > cursor, i < j PROVE i \in mine
  <2>1. j \in DOMAIN PromptList /\ PromptList[j] = Keys[next] /\ PromptList[j] # "none"
    BY <1>2, <1>3, <1>4, PromptFacts
  <2>2. PICK k, l \in Categories : k <= l /\ PromptList[i] = Keys[k] /\ PromptList[j] = Keys[l]
    BY <1>6, <2>1, ScoringAssumption DEF PromptsInOrder
  <2>3. l = next
    BY <1>2, <2>1, <2>2, PromptFacts
  <2>4. ~(i <= cursor)
    BY <1>1, <1>6, PromptFacts
  <2>5. k \notin 1 .. Len(averages)
    BY <1>1, <2>2, <2>4
  <2>6. k = next
    BY <1>1, <2>2, <2>3, <2>5, PromptFacts
  <2> QED
    BY <1>4, <2>2, <2>6
<1> DEFINE m == Max(mine)
<1>7. m \in mine /\ \A j \in mine : j <= m
  <2>1. mine \in SUBSET Int
    BY <1>3, PromptFacts
  <2> HIDE DEF mine
  <2> QED
    BY <1>3, <2>1, MaxIsMember
<1>8. m \in 1 .. Len(PromptList) /\ m > cursor /\ DOMAIN PromptList = 1 .. Len(PromptList) /\ Len(PromptList) \in Nat
  BY <1>3, <1>5, <1>7, PromptFacts
<1> HIDE DEF mine, m, next
<1>9. mine \subseteq cursor + 1 .. m
  BY <1>1, <1>3, <1>5, <1>7, <1>8
<1>10. cursor + 1 .. m \subseteq mine
  BY <1>1, <1>6, <1>7, <1>8
<1>11. mine = cursor + 1 .. m
  BY <1>9, <1>10
<1>12. Cardinality(cursor + 1 .. m) = m - (cursor + 1) + 1
  <2>1. cursor + 1 \in Int /\ m \in Int /\ cursor + 1 <= m
    BY <1>1, <1>8
  <2> QED
    BY <2>1, FS_Interval
<1>13. cursor + PromptCount(next) = m
  BY <1>1, <1>3, <1>8, <1>11, <1>12
<1>14. mine = cursor + 1 .. cursor + PromptCount(next) /\ cursor + PromptCount(next) \in 0 .. Len(PromptList)
  BY <1>8, <1>11, <1>13
<1> QED
  BY <1>2, <1>14 DEF next, mine

\* Dividing a multiple is exact.
LEMMA DivideMultiple ==
    ASSUME NEW q \in Nat, NEW n \in Nat \ {0}
    PROVE  ((q * n) \div n) * n = q * n /\ (q * n) \div n \in Nat
<1> DEFINE x == q * n
           d == x \div n
<1>1. x \in Nat /\ n \in Nat /\ n > 0
  OBVIOUS
<1>2. d \in Int /\ x = n * d + (x % n) /\ x % n \in 0 .. n - 1
  <2> HIDE DEF x
  <2> QED
    BY <1>1
<1>3. PICK r \in 0 .. n - 1 : x = n * d + r
  BY <1>2
<1>4. n * d = d * n
  BY <1>2
<1> HIDE DEF d
<1>5. q - d \in Int /\ (q - d) * n = r
  <2>1. (q - d) * n = q * n - d * n
    BY <1>2
  <2> QED
    BY <1>1, <1>2, <1>3, <1>4, <2>1 DEF x
<1>6. ~(q - d >= 1)
  <2> SUFFICES ASSUME q - d >= 1 PROVE FALSE
    OBVIOUS
  <2>1. PICK c \in Nat : q - d = 1 + c
    <3>1. (q - d) - 1 \in Nat /\ q - d = 1 + ((q - d) - 1)
      BY <1>5
    <3> QED
      BY <3>1
  <2>2. (1 + c) * n = n + c * n /\ c * n \in Nat
    OBVIOUS
  <2> QED
    BY <1>1, <1>3, <1>5, <2>1, <2>2
<1>7. ~(q - d <= -1)
  <2> SUFFICES ASSUME q - d <= -1 PROVE FALSE
    OBVIOUS
  <2>1. PICK c \in Nat : q - d = -(1 + c)
    <3>1. -(q - d) - 1 \in Nat /\ q - d = -(1 + (-(q - d) - 1))
      BY <1>5
    <3> QED
      BY <3>1
  <2>2. (-(1 + c)) * n = -n - c * n /\ c * n \in Nat
    OBVIOUS
  <2> QED
    BY <1>1, <1>3, <1>5, <2>1, <2>2
<1>8. q = d
  BY <1>2, <1>5, <1>6, <1>7
<1> QED
  BY <1>8 DEF d, x

\* The mean of the next category is exact.
LEMMA MeanOfPrompts ==
    ASSUME NEW k \in Categories, InputsInv
    PROVE  LET sum == SumFunctionOnSet(logits, PromptsOf(Keys[k])) IN
           sum \div PromptCount(k) \in Nat /\ (sum \div PromptCount(k)) * PromptCount(k) = sum
<1> DEFINE mine == PromptsOf(Keys[k])
           n == PromptCount(k)
<1>1. /\ mine \in SUBSET DOMAIN PromptList /\ IsFiniteSet(mine) /\ n \in Nat \ {0}
      /\ \A l \in Levels : l % n = 0
  BY PromptFacts
<1>2. \A j \in mine : logits[j] \in Levels
  BY <1>1 DEF InputsInv
<1>3. Levels \subseteq Nat
  BY ScoringAssumption
<1> HIDE DEF mine, n
<1>4. NatOn(logits, mine)
  BY <1>2, <1>3 DEF NatOn
<1>5. Multiples(logits, n, mine)
  <2> SUFFICES ASSUME NEW j \in mine PROVE \E q \in Nat : logits[j] = q * n
    BY DEF Multiples
  <2>1. logits[j] \in Nat /\ logits[j] % n = 0
    BY <1>1, <1>2, <1>3
  <2>2. \A l \in Nat : l % n = 0 => l \div n \in Nat /\ l = (l \div n) * n
    BY <1>1
  <2> QED
    BY <2>1, <2>2
<1>6. PICK q \in Nat : SumFunctionOnSet(logits, mine) = q * n
  BY <1>1, <1>4, <1>5, SumOfMultiples
<1>7. ((q * n) \div n) * n = q * n /\ (q * n) \div n \in Nat
  BY <1>1, DivideMultiple
<1> QED
  BY <1>6, <1>7 DEF mine, n

LEMMA ScoringInit ==
    Init => ScoringInv
<1> SUFFICES ASSUME Init PROVE ScoringInv
  OBVIOUS
<1>1. InputsInv
  BY DEF Init, InputsInv, Hints, Probabilities
<1>2. CursorInv
  <2>1. averages = <<>> /\ cursor = 0
    BY DEF Init
  <2>2. averages \in Seq(Nat) /\ Len(averages) = 0
    BY <2>1
  <2>3. \A j \in DOMAIN PromptList : ~(j <= cursor)
    BY <2>1, PromptFacts
  <2> QED
    BY <2>1, <2>2, <2>3, PromptFacts DEF CursorInv
<1>3. ResultInv
  BY DEF Init, ResultInv, Scored
<1> QED
  BY <1>1, <1>2, <1>3 DEF ScoringInv

LEMMA AverageKeeps ==
    ASSUME ScoringInv, Average
    PROVE  ScoringInv'
<1> DEFINE next == Len(averages) + 1
           n == PromptCount(next)
           mean == SumFunctionOnSet(logits, cursor + 1 .. cursor + n) \div n
<1>1. /\ Len(averages) < Len(Keys) /\ averages' = Append(averages, mean) /\ cursor' = cursor + n
      /\ UNCHANGED <<logits, hint, formulation, probs, result>>
  BY DEF Average
<1>2. InputsInv /\ CursorInv /\ ResultInv
  BY DEF ScoringInv
<1>3. /\ next \in Categories
      /\ PromptsOf(Keys[next]) = cursor + 1 .. cursor + n
      /\ cursor + n \in 0 .. Len(PromptList)
  BY <1>1, <1>2, NextPrompts
<1>4. mean \in Nat /\ mean * n = SumFunctionOnSet(logits, PromptsOf(Keys[next]))
  BY <1>2, <1>3, MeanOfPrompts
<1> HIDE DEF mean
<1>5. /\ averages \in Seq(Nat) /\ Len(averages) \in Nat /\ cursor \in 0 .. Len(PromptList)
      /\ Len(PromptList) \in Nat /\ DOMAIN PromptList = 1 .. Len(PromptList)
      /\ n \in Nat /\ Len(Keys) \in Nat
  BY <1>2, <1>3, PromptFacts DEF CursorInv
<1>6. /\ averages' \in Seq(Nat) /\ Len(averages') = next /\ averages'[next] = mean
      /\ \A k \in 1 .. Len(averages) : averages'[k] = averages[k]
  BY <1>1, <1>4, <1>5
<1>7. 1 .. Len(averages') = 1 .. Len(averages) \cup {next}
  BY <1>5, <1>6
<1>8. InputsInv'
  BY <1>1, <1>2 DEF InputsInv
<1>9. ASSUME NEW j \in DOMAIN PromptList
      PROVE  j <= cursor' <=> \E k \in 1 .. Len(averages') : PromptList[j] = Keys[k]
  <2>1. j <= cursor <=> \E k \in 1 .. Len(averages) : PromptList[j] = Keys[k]
    BY <1>2 DEF CursorInv
  <2>2. j \in cursor + 1 .. cursor + n <=> PromptList[j] = Keys[next]
    BY <1>3 DEF PromptsOf
  <2>3. j <= cursor' <=> j <= cursor \/ j \in cursor + 1 .. cursor + n
    BY <1>1, <1>5
  <2> HIDE DEF n, next
  <2> QED
    BY <1>7, <2>1, <2>2, <2>3
<1>10. ASSUME NEW k \in 1 .. Len(averages')
       PROVE  averages'[k] * PromptCount(k) = SumFunctionOnSet(logits', PromptsOf(Keys[k]))
  <2>1. CASE k = next
    BY <1>1, <1>4, <1>6, <2>1
  <2>2. CASE k \in 1 .. Len(averages)
    <3>1. averages[k] * PromptCount(k) = SumFunctionOnSet(logits, PromptsOf(Keys[k]))
      BY <1>2, <2>2 DEF CursorInv
    <3> QED
      BY <1>1, <1>6, <2>2, <3>1
  <2> QED
    BY <1>7, <2>1, <2>2
<1>11. Len(averages') <= Len(Keys) /\ cursor' \in 0 .. Len(PromptList)
  BY <1>1, <1>3, <1>5, <1>6
<1>12. CursorInv'
  BY <1>6, <1>9, <1>10, <1>11 DEF CursorInv, PromptCount, PromptsOf
<1>13. ResultInv'
  <2>1. ~Scored
    BY <1>1, <1>2, <1>5 DEF ResultInv
  <2> QED
    BY <1>1, <2>1 DEF ResultInv, Scored
<1> QED
  BY <1>8, <1>12, <1>13 DEF ScoringInv

LEMMA ScoreKeeps ==
    ASSUME ScoringInv, Score
    PROVE  ScoringInv'
<1>1. /\ Len(averages) = Len(Keys)
      /\ result' = [label |-> Label(averages, hint),
                    likelihood |-> Likelihood(averages, Negatives),
                    nsfw |-> NsfwScore(probs, Labels)]
      /\ UNCHANGED <<logits, hint, formulation, probs, cursor, averages>>
  BY DEF Score
<1>2. InputsInv' /\ CursorInv'
  BY <1>1 DEF ScoringInv, InputsInv, CursorInv, PromptCount, PromptsOf
<1>3. Negatives' = Negatives /\ Likelihood(averages, Negatives)' = Likelihood(averages, Negatives)
  BY <1>1 DEF Negatives, Likelihood
<1>4. ResultInv'
  BY <1>1, <1>3 DEF ResultInv
<1> QED
  BY <1>2, <1>4 DEF ScoringInv

LEMMA ScoringStutters ==
    ASSUME ScoringInv, UNCHANGED vars
    PROVE  ScoringInv'
BY DEF ScoringInv, InputsInv, CursorInv, ResultInv, PromptCount, PromptsOf, Scored, Negatives, Likelihood, vars

THEOREM ScoringInductive ==
    Spec => []ScoringInv
<1>1. ScoringInv /\ [Next]_vars => ScoringInv'
  BY AverageKeeps, ScoreKeeps, ScoringStutters DEF Next
<1> QED
  BY <1>1, ScoringInit, PTL DEF Spec

-----------------------------------------------------------------------------
\* What the invariant says of a scored image: every category has its average, and
\* the prompts behind the cursor are the distractors.
LEMMA ScoredFacts ==
    ASSUME ScoringInv, Scored
    PROVE  /\ averages \in Logits /\ Len(averages) = Len(Keys) /\ DOMAIN averages = Categories
           /\ \A j \in DOMAIN PromptList : j > cursor <=> PromptList[j] = "none"
           /\ Negatives \in Logits
           /\ result = [label |-> Label(averages, hint),
                        likelihood |-> Likelihood(averages, Negatives),
                        nsfw |-> NsfwScore(probs, Labels)]
           /\ hint \in Hints /\ probs \in Probabilities
<1>1. InputsInv /\ CursorInv /\ ResultInv
  BY DEF ScoringInv
<1>2. /\ Len(averages) = Len(Keys)
      /\ result = [label |-> Label(averages, hint),
                   likelihood |-> Likelihood(averages, Negatives),
                   nsfw |-> NsfwScore(probs, Labels)]
  BY <1>1 DEF ResultInv
<1>3. averages \in Logits /\ DOMAIN averages = Categories
  <2>1. averages \in Seq(Nat) /\ Len(averages) >= 1
    BY <1>1, <1>2, PromptFacts DEF CursorInv
  <2>2. averages \in Logits
    BY <2>1 DEF Logits
  <2>3. DOMAIN averages = 1 .. Len(averages)
    BY <2>1
  <2> QED
    BY <1>2, <2>2, <2>3, PromptFacts
<1>4. \A j \in DOMAIN PromptList :
        PromptList[j] = "none" \/ \E k \in Categories : PromptList[j] = Keys[k]
  <2>1. PromptList \in Seq(Species \cup {"none"})
    BY ScoringAssumption
  <2>2. \A j \in DOMAIN PromptList : PromptList[j] \in Species \/ PromptList[j] = "none"
    BY <2>1
  <2>3. \A name \in Species : \E k \in Categories : name = Keys[k]
    BY DEF Species, Range, Categories
  <2> QED
    BY <2>2, <2>3
<1>5. cursor \in 0 .. Len(PromptList) /\ Len(PromptList) \in Nat /\ DOMAIN PromptList = 1 .. Len(PromptList)
  BY <1>1, PromptFacts DEF CursorInv
<1>6. \A j \in DOMAIN PromptList : j <= cursor <=> \E k \in Categories : PromptList[j] = Keys[k]
  BY <1>1, <1>2, PromptFacts DEF CursorInv
<1>7. \A k \in Categories : Keys[k] # "none"
  BY PromptFacts
<1>8. \A j \in DOMAIN PromptList : j > cursor <=> ~(j <= cursor)
  BY <1>5
<1>9. \A j \in DOMAIN PromptList : j > cursor <=> PromptList[j] = "none"
  BY <1>4, <1>6, <1>7, <1>8
<1>10. Negatives \in Logits
  <2>1. PICK j \in DOMAIN PromptList : PromptList[j] = "none"
    BY ScoringAssumption DEF PromptsOf
  <2>2. j > cursor /\ j \in 1 .. Len(PromptList)
    BY <1>5, <1>9, <2>1
  <2>3. logits \in [1 .. Len(PromptList) -> Nat]
    BY <1>1, <1>5, ScoringAssumption DEF InputsInv
  <2>4. logits \in Seq(Nat) /\ Len(logits) = Len(PromptList)
    BY <1>5, <2>3
  <2>5. cursor + 1 \in 1 .. Len(PromptList)
    BY <1>5, <2>2
  <2>6. Negatives \in Seq(Nat) /\ Len(Negatives) = Len(PromptList) - (cursor + 1) + 1
    BY <1>5, <2>4, <2>5, SubSeqProperties DEF Negatives
  <2>7. Len(Negatives) >= 1
    BY <1>5, <2>5, <2>6
  <2> QED
    BY <2>6, <2>7 DEF Logits
<1> QED
  BY <1>1, <1>2, <1>3, <1>9, <1>10 DEF InputsInv

\* The result of every image is a known category, a fraction and a probability.
THEOREM ScoringTypes ==
    Spec => []ScoringTypeOK
<1>1. ASSUME ScoringInv PROVE ScoringTypeOK
  <2>1. /\ logits \in [DOMAIN PromptList -> Levels]
        /\ formulation \in Formulations
        /\ probs \in [DOMAIN Labels -> 0 .. Whole]
        /\ cursor \in 0 .. Len(PromptList)
        /\ averages \in Seq(Nat) /\ Len(averages) <= Len(Keys)
    BY <1>1 DEF ScoringInv, InputsInv, CursorInv, Probabilities
  <2>2. hint \in Species \cup {"", "unlisted"}
    BY <1>1 DEF ScoringInv, InputsInv, Hints
  <2>3. ASSUME Scored
        PROVE  /\ result.label \in Species
               /\ result.likelihood.num \in 0 .. result.likelihood.den
               /\ result.nsfw \in 0 .. Whole
    <3>1. Label(averages, hint) \in Species
      BY <1>1, <2>3, ScoredFacts, LabelIs
    <3>2. Likelihood(averages, Negatives).num \in 0 .. Likelihood(averages, Negatives).den
      BY <1>1, <2>3, ScoredFacts, LikelihoodIsAFraction
    <3>3. NsfwScore(probs, Labels) \in 0 .. Whole
      BY <1>1, <2>3, ScoredFacts, NsfwScoreIs
    <3>4. /\ result.label = Label(averages, hint) /\ result.nsfw = NsfwScore(probs, Labels)
          /\ result.likelihood = Likelihood(averages, Negatives)
      BY <1>1, <2>3, ScoredFacts
    <3> QED
      BY <3>1, <3>2, <3>3, <3>4
  <2> QED
    BY <2>1, <2>2, <2>3 DEF ScoringTypeOK, Scored
<1> QED
  BY <1>1, ScoringInductive, PTL

\* Counting the prompts off gives every category its own, for any ensembles laid
\* out category after category (relevance.py:61-64, 132-142).
THEOREM PromptsStay ==
    Spec => []PromptsStayWithTheirCategory
<1>1. ASSUME ScoringInv PROVE PromptsStayWithTheirCategory
  <2> SUFFICES ASSUME Scored
               PROVE  /\ \A k \in Categories :
                           averages[k] * PromptCount(k) = SumFunctionOnSet(logits, PromptsOf(Keys[k]))
                      /\ \A j \in DOMAIN PromptList : j > cursor <=> PromptList[j] = "none"
    BY DEF PromptsStayWithTheirCategory
  <2>1. \A k \in 1 .. Len(averages) :
          averages[k] * PromptCount(k) = SumFunctionOnSet(logits, PromptsOf(Keys[k]))
    BY <1>1 DEF ScoringInv, CursorInv
  <2>2. Categories = 1 .. Len(averages)
    BY <1>1, ScoredFacts, PromptFacts
  <2> QED
    BY <1>1, <2>1, <2>2, ScoredFacts
<1> QED
  BY <1>1, ScoringInductive, PTL

\* The label is supported by the logits and the hint: a species is within the
\* margin of the best or leads by it, a close hint is obeyed, and no hint overrides
\* a lead of more than the margin (relevance.py:105-107, 167-181).
THEOREM LabelsAreDefensible ==
    Spec => []LabelIsDefensible
<1>1. ASSUME ScoringInv PROVE LabelIsDefensible
  <2> SUFFICES ASSUME Scored
               PROVE  /\ \A k \in Categories :
                           /\ Keys[k] = result.label /\ result.label # "other" =>
                                  /\ Gap(averages, k) <= Margin
                                  /\ hint # result.label =>
                                         Gap(averages, k) = 0 /\ Lead(averages) >= Margin
                           /\ Keys[k] = hint /\ Gap(averages, k) < Margin => result.label = hint
                      /\ Lead(averages) > Margin => result.label = Keys[BestPet(averages)]
    BY DEF LabelIsDefensible, Gap
  <2>1. result.label = Label(averages, hint)
    BY <1>1, ScoredFacts
  <2>2. averages \in Logits /\ Len(averages) = Len(Keys) /\ hint \in Hints
    BY <1>1, ScoredFacts
  <2>3. \A k \in Categories : Gap(averages, k) < Margin => Gap(averages, k) <= Margin
    <3>1. Categories = DOMAIN averages
      BY <2>2, RangeFinite, PromptFacts, ScoringAssumption
    <3>2. \A k \in Categories : Gap(averages, k) \in Nat
      BY <2>2, <3>1, MaxOfLogits DEF Gap
    <3>3. Margin \in Nat
      BY ScoringAssumption
    <3> QED
      BY <3>2, <3>3
  <2> QED
    BY <2>1, <2>2, <2>3, LabelIs
<1> QED
  BY <1>1, ScoringInductive, PTL

\* More of a pet never lowers the unified likelihood and more of a distractor never
\* raises it (relevance.py:148-155).
THEOREM LikelihoodsAreMonotone ==
    Spec => []LikelihoodIsMonotone
<1> DEFINE AtMost(a, b) == a.num * b.den <= b.num * a.den
<1>1. ASSUME ScoringInv PROVE LikelihoodIsMonotone
  <2> SUFFICES ASSUME Scored, formulation = "unified_softmax"
               PROVE  /\ \A k \in Categories :
                           AtMost(result.likelihood,
                                  Likelihood([averages EXCEPT ![k] = @ + 1], Negatives))
                      /\ \A j \in DOMAIN Negatives :
                           AtMost(Likelihood(averages, [Negatives EXCEPT ![j] = @ + 1]),
                                  result.likelihood)
    BY DEF LikelihoodIsMonotone
  <2>1. /\ averages \in Seq(Nat) /\ Negatives \in Seq(Nat) /\ DOMAIN averages = Categories
        /\ result.likelihood = Likelihood(averages, Negatives)
    BY <1>1, ScoredFacts DEF Logits
  <2>2. \A pets, negs : Likelihood(pets, negs) =
          [num |-> PetWeights(pets), den |-> PetWeights(pets) + NegWeights(negs)]
    BY DEF Likelihood, Unified
  <2>3. \A s \in Seq(Nat) : PetWeights(s) \in Nat /\ NegWeights(s) \in Nat /\ NegWeights(s) = PetWeights(s)
    BY WeightsAdd
  <2>4. ASSUME NEW k \in Categories
        PROVE  AtMost(result.likelihood, Likelihood([averages EXCEPT ![k] = @ + 1], Negatives))
    <3> DEFINE more == [averages EXCEPT ![k] = @ + 1]
    <3>1. more \in Seq(Nat) /\ PetWeights(averages) <= PetWeights(more)
      BY <2>1, WeightsGrow
    <3> HIDE DEF more
    <3>2. PetWeights(averages) * (PetWeights(more) + NegWeights(Negatives))
            <= PetWeights(more) * (PetWeights(averages) + NegWeights(Negatives))
      BY <2>1, <2>3, <3>1, ShareGrows
    <3>3. AtMost(result.likelihood, Likelihood(more, Negatives))
      BY <2>1, <2>2, <3>2
    <3> QED
      BY <3>3 DEF more
  <2>5. ASSUME NEW j \in DOMAIN Negatives
        PROVE  AtMost(Likelihood(averages, [Negatives EXCEPT ![j] = @ + 1]), result.likelihood)
    <3> DEFINE more == [Negatives EXCEPT ![j] = @ + 1]
    <3>1. more \in Seq(Nat) /\ PetWeights(Negatives) <= PetWeights(more)
      BY <2>1, WeightsGrow
    <3> HIDE DEF more
    <3>2. PetWeights(averages) * (PetWeights(averages) + NegWeights(Negatives))
            <= PetWeights(averages) * (PetWeights(averages) + NegWeights(more))
      BY <2>1, <2>3, <3>1, ShareShrinks
    <3>3. AtMost(Likelihood(averages, more), result.likelihood)
      BY <2>1, <2>2, <3>2
    <3> QED
      BY <3>3 DEF more
  <2> QED
    BY <2>4, <2>5
<1> QED
  BY <1>1, ScoringInductive, PTL

\* The safety score covers every unsafe class and borrows from no safe one
\* (safety_scoring.py:32-51).
THEOREM UnsafeIsSeen ==
    Spec => []UnsafeIsNeverHidden
<1>1. ASSUME ScoringInv PROVE UnsafeIsNeverHidden
  <2> SUFFICES ASSUME Scored PROVE UnsafeIsNeverHidden
    BY DEF UnsafeIsNeverHidden
  <2>1. result.nsfw = NsfwScore(probs, Labels) /\ probs \in Probabilities
    BY <1>1, ScoredFacts
  <2> QED
    BY <2>1, NsfwScoreIs DEF UnsafeIsNeverHidden
<1> QED
  BY <1>1, ScoringInductive, PTL
=============================================================================
