--------------------------- MODULE MCImageScoring ---------------------------
(***************************************************************************)
(* A small instance of ImageScoring: three categories, one of two prompts, *)
(* and two distractors; a safety model with a label of each kind.          *)
(***************************************************************************)
EXTENDS ImageScoring

MCKeys == <<"dog", "cat", "other">>
MCPromptList == <<"dog", "dog", "cat", "other", "none", "none">>
MCLabels == <<"safe", "unsafe", "other", "unsafe">>
=============================================================================
