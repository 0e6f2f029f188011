------------------------------ MODULE JobQueue ------------------------------
(***************************************************************************)
(* What the queue promises the web app about its jobs, with no stream,     *)
(* worker or retry in sight: a job that was submitted stays open until it  *)
(* is settled, that is its result was accepted by the web app or it is in  *)
(* the dead letter stream.  Delivery is at least once, so a settled job    *)
(* may be opened again by a retry that was already under way.              *)
(***************************************************************************)
CONSTANT Jobs

VARIABLES
    open,     \* jobs the queue still owes work to
    settled   \* jobs with a result or a dead letter

jobVars == <<open, settled>>

Init == open = {} /\ settled = {}

Submit(j) ==
    /\ j \notin open \cup settled
    /\ open' = open \cup {j}
    /\ UNCHANGED settled

Settle(j) ==
    /\ j \in open
    /\ settled' = settled \cup {j}
    /\ UNCHANGED open

Close(j) ==
    /\ j \in open \cap settled
    /\ open' = open \ {j}
    /\ UNCHANGED settled

Reopen(j) ==
    /\ j \in settled
    /\ open' = open \cup {j}
    /\ UNCHANGED settled

Next == \E j \in Jobs : Submit(j) \/ Settle(j) \/ Close(j) \/ Reopen(j)

Spec == Init /\ [][Next]_jobVars
=============================================================================
