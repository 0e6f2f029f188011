-------------------------- MODULE MCStreamConsumer --------------------------
(***************************************************************************)
(* Small instances of StreamConsumer for TLC: a cfg says how many jobs of  *)
(* each kind there are, as sets of model values.                           *)
(***************************************************************************)
EXTENDS StreamConsumer, TLC

CONSTANTS WellFormed, NoWebhook, Invalid, InvalidWithWebhook, NonObject, Undecodable

MCJobs == UNION {WellFormed, NoWebhook, Invalid, InvalidWithWebhook, NonObject, Undecodable}

MCKind ==
    [j \in MCJobs |->
        CASE j \in WellFormed         -> "wellFormed"
          [] j \in NoWebhook          -> "noWebhook"
          [] j \in Invalid            -> "invalid"
          [] j \in InvalidWithWebhook -> "invalidWithWebhook"
          [] j \in NonObject          -> "nonObject"
          [] j \in Undecodable        -> "undecodable"]

Symmetry == Permutations(WellFormed) \cup Permutations(Workers)
=============================================================================
