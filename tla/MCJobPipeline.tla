--------------------------- MODULE MCJobPipeline ---------------------------
(***************************************************************************)
(* A small instance of JobPipeline: a first job of several images with the *)
(* profile's stages, then jobs of one image with a "pipeline" of their own.*)
(***************************************************************************)
EXTENDS JobPipeline

MCUrlCount == [c \in Calls |-> IF c = 1 THEN MaxUrls ELSE 1]

MCOverride == [c \in Calls |->
    CASE c = 1 -> {}
      [] c = 2 -> {"safety", "quality", "relevance"}
      [] OTHER -> {"fingerprint", "embed", "quality"}]
=============================================================================
