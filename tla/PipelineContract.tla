--------------------------- MODULE PipelineContract ---------------------------
(***************************************************************************)
(* What the consumer relies on when it awaits run_pipeline: calls run one  *)
(* at a time and in order, each ends once, and a result accounts for every *)
(* URL of its job exactly once, as an image or as an error.                *)
(***************************************************************************)
EXTENDS Integers

CONSTANTS NumCalls, UrlCount

VARIABLES
    outcome,  \* of each call
    report    \* the latest result: the URLs with an image, the URLs with an error

Calls == 1 .. NumCalls
Ends == {"reported", "failed", "cancelled"}

Init ==
    /\ outcome = [c \in Calls |-> "ahead"]
    /\ report = [images |-> {}, errors |-> {}]

Begin(c) ==
    /\ outcome[c] = "ahead"
    /\ \A b \in Calls : b < c => outcome[b] \in {"reported", "failed"}
    /\ outcome' = [outcome EXCEPT ![c] = "running"]
    /\ UNCHANGED report

Report(c) ==
    /\ outcome[c] = "running"
    /\ outcome' = [outcome EXCEPT ![c] = "reported"]
    /\ report'.images # {}
    /\ report'.images \cap report'.errors = {}
    /\ report'.images \cup report'.errors = 1 .. UrlCount[c]

Abandon(c, end) ==
    /\ outcome[c] = "running"
    /\ outcome' = [outcome EXCEPT ![c] = end]
    /\ UNCHANGED report

Next ==
    \E c \in Calls :
        Begin(c) \/ Report(c) \/ \E end \in {"failed", "cancelled"} : Abandon(c, end)

Contract == Init /\ [][Next]_<<outcome, report>>
=============================================================================
