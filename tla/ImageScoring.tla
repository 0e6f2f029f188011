---------------------------- MODULE ImageScoring ----------------------------
(***************************************************************************)
(* How the logits of one image become its relevance, compute_relevance_    *)
(* from_logits of app/models/relevance.py, and its probabilities its NSFW  *)
(* score, SafetyScoring.  The loop over the prompt ensembles takes a step  *)
(* per category.                                                           *)
(*                                                                         *)
(* Logits are whole numbers, in units of ln 2 (times the temperature, for  *)
(* the unified formulation): exp is a power of two and a likelihood a      *)
(* fraction of two integers.  Rounding to four decimals is left out.       *)
(***************************************************************************)
EXTENDS SafetyScoring, Functions

CONSTANTS
    Keys,        \* PET_KEYS, the pet categories in order, "other" among them
    PromptList,  \* the category of each prompt as tokenised, "none" for a distractor
    Margin,      \* settings.relevance_margin_threshold
    Levels,      \* bound: the logits an image may have
    Labels,      \* id2label of the safety model
    Whole        \* bound: probabilities are parts of this number

Categories == DOMAIN Keys
Species == Range(Keys)
PromptsOf(name) == {j \in DOMAIN PromptList : PromptList[j] = name}
PromptCount(k) == Cardinality(PromptsOf(Keys[k]))
Formulations == {"unified_softmax", "baseline"}

\* PET_PROMPTS lists the prompts category after category; the distractors follow.
PromptsInOrder ==
    \A i, j \in DOMAIN PromptList : i < j =>
        \/ PromptList[j] = "none"
        \/ \E k, l \in Categories :
               k <= l /\ PromptList[i] = Keys[k] /\ PromptList[j] = Keys[l]

ASSUME ScoringAssumption ==
    /\ Keys \in Seq(STRING) /\ IsInjective(Keys) /\ Len(Keys) >= 2
    /\ "other" \in Species /\ Species \cap {"", "unlisted", "none"} = {}
    /\ PromptList \in Seq(Species \cup {"none"}) /\ PromptsInOrder
    /\ \A k \in Categories : PromptCount(k) > 0 /\ \A l \in Levels : l % PromptCount(k) = 0
    /\ PromptsOf("none") # {}
    /\ Margin \in Nat /\ Levels \subseteq Nat
    /\ Labels \in Seq(LabelKinds) /\ Labels # <<>> /\ Whole \in Nat

VARIABLES
    logits,       \* one per prompt
    hint,         \* petType of the job, "" for none
    formulation,  \* settings.relevance_formulation
    probs,        \* of the safety model's classes
    cursor,       \* current_idx
    averages,     \* averaged_pet_logits so far
    result        \* "none" until the image is scored

vars == <<logits, hint, formulation, probs, cursor, averages, result>>

Pending == [label |-> "none"]

ScoringTypeOK ==
    /\ logits \in [DOMAIN PromptList -> Levels]
    /\ hint \in Species \cup {"", "unlisted"}
    /\ formulation \in Formulations
    /\ probs \in [DOMAIN Labels -> 0 .. Whole]
    /\ cursor \in 0 .. Len(PromptList)
    /\ averages \in Seq(Nat) /\ Len(averages) <= Len(Keys)
    /\ result # Pending =>
           /\ result.label \in Species
           /\ result.likelihood.num \in 0 .. result.likelihood.den
           /\ result.nsfw \in 0 .. Whole

Init ==
    /\ logits \in [DOMAIN PromptList -> Levels]
    /\ hint \in Species \cup {"", "unlisted"}
    /\ formulation \in Formulations
    /\ probs \in {p \in [DOMAIN Labels -> 0 .. Whole] : SumFunction(p) = Whole}
    /\ cursor = 0 /\ averages = <<>>
    /\ result = Pending

\* Mutant: one prompt per category, as before the ensembles.
AveragePromptEach ==
    /\ Len(averages) < Len(Keys)
    /\ averages' = Append(averages, logits[cursor + 1])
    /\ cursor' = cursor + 1
    /\ UNCHANGED <<logits, hint, formulation, probs, result>>

\* The next category takes the mean of its prompts.
Average ==
    /\ Len(averages) < Len(Keys)
    /\ LET n == PromptCount(Len(averages) + 1) IN
       /\ averages' = Append(averages,
              SumFunctionOnSet(logits, cursor + 1 .. cursor + n) \div n)
       /\ cursor' = cursor + n
    /\ UNCHANGED <<logits, hint, formulation, probs, result>>

\* exp, and its sum over the pet categories and over the distractors.
Weight[l \in Nat] == IF l = 0 THEN 1 ELSE 2 * Weight[l - 1]
PetWeights(pets) == SumFunction([k \in DOMAIN pets |-> Weight[pets[k]]])
NegWeights(negs) == SumFunction([j \in DOMAIN negs |-> Weight[negs[j]]])

\* Mutant: the last category is cut off the slice.
UnifiedDropsLast(pets, negs) ==
    [num |-> PetWeights(pets) - Weight[pets[Len(pets)]], den |-> PetWeights(pets) + NegWeights(negs)]

\* The share of the pet categories in the softmax over everything.
Unified(pets, negs) ==
    [num |-> PetWeights(pets), den |-> PetWeights(pets) + NegWeights(negs)]

\* Mutant: the two halves are added without being halved.
BaselineUnhalved(pets, negs) ==
    LET best == Weight[Max(Range(pets))]
        margin == best + Weight[Max(Range(negs))]
    IN  [num |-> best * (PetWeights(pets) + margin), den |-> margin * PetWeights(pets)]

\* sigmoid(best pet - best distractor) and the largest softmax among the pets,
\* half and half.  The hinted category's logit is compared too, and cannot exceed
\* the best.
Baseline(pets, negs) ==
    LET best == Weight[Max(Range(pets))]
        margin == best + Weight[Max(Range(negs))]
    IN  [num |-> best * (PetWeights(pets) + margin), den |-> 2 * margin * PetWeights(pets)]

\* argmax: the first of the best.
BestPet(pets) == Min({k \in DOMAIN pets : pets[k] = Max(Range(pets))})
Lead(pets) ==
    Max(Range(pets)) - Max({pets[k] : k \in DOMAIN pets \ {BestPet(pets)}})

\* Mutant: the hint wins whatever the model says.
LabelObeysHint(pets, wish) ==
    IF wish \in Species THEN wish
    ELSE IF Lead(pets) < Margin THEN "other" ELSE Keys[BestPet(pets)]

\* The best category, "other" when it does not lead by the margin; a hint that is
\* within the margin of the best takes precedence.
Label(pets, wish) ==
    IF \E k \in Categories : Keys[k] = wish /\ pets[k] >= Max(Range(pets)) - Margin
    THEN wish
    ELSE IF Lead(pets) < Margin THEN "other" ELSE Keys[BestPet(pets)]

Negatives == SubSeq(logits, cursor + 1, Len(PromptList))

Likelihood(pets, negs) ==
    IF formulation = "unified_softmax" THEN Unified(pets, negs) ELSE Baseline(pets, negs)

Score ==
    /\ Len(averages) = Len(Keys)
    /\ result = Pending
    /\ result' = [label |-> Label(averages, hint),
                  likelihood |-> Likelihood(averages, Negatives),
                  nsfw |-> NsfwScore(probs, Labels)]
    /\ UNCHANGED <<logits, hint, formulation, probs, cursor, averages>>

Next == Average \/ Score

Spec == Init /\ [][Next]_vars

-----------------------------------------------------------------------------
Scored == result # Pending

\* Each category is the mean of its own prompts and the distractors are what is
\* left, although the prompts are counted off in one place (relevance.py:132-142)
\* and laid out in another (relevance.py:61-64, onnx_siglip.py:106).
PromptsStayWithTheirCategory ==
    Scored =>
        /\ \A k \in Categories :
             averages[k] * PromptCount(k) = SumFunctionOnSet(logits, PromptsOf(Keys[k]))
        /\ \A j \in DOMAIN PromptList : j > cursor <=> PromptList[j] = "none"

\* The label is what the logits and the hint support (relevance.py:105-107, 167-181).
\* A species the image is labelled with is never further than the margin from the
\* best one, and without a hint it leads by the margin.  A lead of more than the
\* margin is a strong signal: no hint overrides it.  A hinted species less than the
\* margin behind is the label.  One exactly the margin behind is left open: the code
\* obeys it (line 180), the docstring wants less than the margin (lines 106-107).
LabelIsDefensible ==
    Scored =>
        /\ \A k \in Categories :
             LET gap == Max(Range(averages)) - averages[k] IN
             /\ Keys[k] = result.label /\ result.label # "other" =>
                    gap <= Margin /\ (hint # result.label => gap = 0 /\ Lead(averages) >= Margin)
             /\ Keys[k] = hint /\ gap < Margin => result.label = hint
        /\ Lead(averages) > Margin => result.label = Keys[BestPet(averages)]

\* With the unified softmax, an image that looks more like some pet never gets a
\* lower likelihood, and one that looks more like a distractor never a higher one
\* (relevance.py:148-155).  The baseline, which rewards a lead of one species over
\* the others, does not promise the first.
LikelihoodIsMonotone ==
    Scored /\ formulation = "unified_softmax" =>
        LET AtMost(a, b) == a.num * b.den <= b.num * a.den IN
        /\ \A k \in Categories :
             AtMost(result.likelihood,
                    Likelihood([averages EXCEPT ![k] = @ + 1], Negatives))
        /\ \A j \in DOMAIN Negatives :
             AtMost(Likelihood(averages, [Negatives EXCEPT ![j] = @ + 1]), result.likelihood)

\* The score is at least the probability of every unsafe class, and no safe class
\* lends it its own (safety_scoring.py:32-51).
UnsafeIsNeverHidden ==
    Scored =>
        /\ \A i \in DOMAIN Labels : Labels[i] = "unsafe" => result.nsfw >= probs[i]
        /\ result.nsfw = 0 \/ \E i \in DOMAIN Labels :
               Labels[i] # "safe" /\ result.nsfw = probs[i]
=============================================================================
