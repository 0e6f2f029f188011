--------------------------- MODULE SafetyScoring ---------------------------
(***************************************************************************)
(* nsfw_score_from_probs, app/models/safety_scoring.py, and the labels it  *)
(* works on: id2label of the model's config.json.                          *)
(*                                                                         *)
(* A label is one of its three kinds: a safe name (normal, sfw, safe), a   *)
(* name with an unsafe keyword, any other name.  Probabilities are natural *)
(* numbers out of some whole; classes count from 1.                        *)
(***************************************************************************)
EXTENDS Integers, Sequences, FiniteSetsExt

LabelKinds == {"safe", "unsafe", "other"}

\* id2label.get(idx, str(idx)): a class without a label is named by its number.
LabelOf(labels, i) == IF i \in DOMAIN labels THEN labels[i] ELSE "other"

\* max() returns the first of the largest.
BestClass(probs) ==
    CHOOSE i \in DOMAIN probs :
        \A j \in DOMAIN probs : probs[j] < probs[i] \/ (probs[j] = probs[i] /\ i <= j)

UnsafeProbs(probs, labels) ==
    {probs[i] : i \in {k \in DOMAIN probs : LabelOf(labels, k) = "unsafe"}} \cup {0}

\* Mutant: the best class counts, whatever it is called.
ScoreOfBest(probs, labels) == probs[BestClass(probs)]

\* The probability of the likeliest unsafe class; when no unsafe class has any,
\* that of the best class, if its name is not known to be safe.
NsfwScore(probs, labels) ==
    LET unsafe == Max(UnsafeProbs(probs, labels))
        best == BestClass(probs)
    IN  IF unsafe = 0 /\ LabelOf(labels, best) # "safe" THEN probs[best] ELSE unsafe
=============================================================================
