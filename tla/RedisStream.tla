---------------------------- MODULE RedisStream ----------------------------
(***************************************************************************)
(* The Redis side of the vision worker: the job stream with its consumer   *)
(* group, and the dead letter stream.  Redis is not part of src/; each     *)
(* operator is the effect of one command on the data the worker uses, as   *)
(* app/queue/consumer.py calls it.  A command is atomic in the server; the *)
(* loss of its reply is the caller's business (module StreamConsumer).     *)
(*                                                                         *)
(* An entry id is its position in the stream, which is append-only because *)
(* no code trims or deletes it.  The group has one reader name per worker, *)
(* but no command the worker sends depends on who owns a pending entry, so *)
(* the owner is not modelled.                                              *)
(***************************************************************************)
EXTENDS Integers, Sequences, FiniteSets

CONSTANTS
    Jobs,        \* the image jobs the web app may enqueue
    ClaimCount,  \* XAUTOCLAIM ... COUNT (10 in the code)
    ScanCount    \* pending entries one XAUTOCLAIM examines (10 * COUNT)

ASSUME ClaimAssumption ==
    /\ ClaimCount \in Nat \ {0}
    /\ ScanCount \in Nat
    /\ ClaimCount <= ScanCount

VARIABLES
    stream,         \* entries [job, attempt, src]; src is history: the entry
                    \* whose handling added this one, 0 when the web app did
    dlq,            \* entries of the dead letter stream, same shape
    group,          \* has the consumer group been created?
    lastDelivered,  \* the group's last-delivered id
    pel,            \* pending entries list: delivered and not acknowledged
    stale,          \* pending for min-idle-time (5 minutes) or more
    claimed         \* history: entries handed out again by XAUTOCLAIM

redisVars == <<stream, dlq, group, lastDelivered, pel, stale, claimed>>

Entry == [job : Jobs, attempt : Int, src : Nat]
Ids == 1 .. Len(stream)
Acked == (1 .. lastDelivered) \ pel

RedisInit ==
    /\ stream = <<>>
    /\ dlq = <<>>
    /\ group = FALSE
    /\ lastDelivered = 0
    /\ pel = {}
    /\ stale = {}
    /\ claimed = {}

RedisTypeOK ==
    /\ stream \in Seq(Entry)
    /\ dlq \in Seq(Entry)
    /\ group \in BOOLEAN
    /\ lastDelivered \in 0 .. Len(stream)
    /\ group \/ lastDelivered = 0
    /\ pel \subseteq 1 .. lastDelivered
    /\ stale \subseteq pel
    /\ claimed \subseteq 1 .. lastDelivered

-----------------------------------------------------------------------------
\* Mutant: the group starts at "$", after what the stream already holds.
XGroupCreateAtEnd ==
    /\ group' = TRUE
    /\ lastDelivered' = IF group THEN lastDelivered ELSE Len(stream)
    /\ UNCHANGED <<stream, dlq, pel, stale, claimed>>

\* XGROUP CREATE stream group 0 MKSTREAM: the group starts before the first
\* entry.  On an existing group it answers BUSYGROUP and changes nothing.
XGroupCreate ==
    /\ group' = TRUE
    /\ lastDelivered' = IF group THEN lastDelivered ELSE 0
    /\ UNCHANGED <<stream, dlq, pel, stale, claimed>>

XAddJob(entry) ==
    /\ stream' = Append(stream, entry)
    /\ UNCHANGED <<dlq, group, lastDelivered, pel, stale, claimed>>

XAddDlq(entry) ==
    /\ dlq' = Append(dlq, entry)
    /\ UNCHANGED <<stream, group, lastDelivered, pel, stale, claimed>>

\* XREADGROUP ... COUNT 1 STREAMS stream >: the next entry never delivered to
\* the group, which becomes pending.
NextUndelivered == lastDelivered + 1

XReadGroup ==
    /\ group
    /\ NextUndelivered \in Ids
    /\ lastDelivered' = NextUndelivered
    /\ pel' = pel \cup {NextUndelivered}
    /\ UNCHANGED <<stream, dlq, group, stale, claimed>>

XAck(e) ==
    /\ pel' = pel \ {e}
    /\ stale' = stale \ {e}
    /\ UNCHANGED <<stream, dlq, group, lastDelivered, claimed>>

\* XAUTOCLAIM stream group consumer 300000 from COUNT ClaimCount walks the
\* pending entries upward from id "from", at most ScanCount of them, until it
\* has taken ClaimCount that are stale.
Following(from) == {e \in pel : e >= from}
UpTo(S, e) == {f \in S : f <= e}

Claimable(from) ==
    {e \in Following(from) \cap stale :
        Cardinality(UpTo(Following(from), e)) <= ScanCount}

Claimed(from) ==
    {e \in Claimable(from) :
        Cardinality(UpTo(Claimable(from), e)) <= ClaimCount}

\* The entries one call walks over: those the scan limit allows, cut after the
\* last entry taken when the count is full.
Walked(from) ==
    {e \in Following(from) :
        /\ Cardinality(UpTo(Following(from), e)) <= ScanCount
        /\ Cardinality(Claimed(from)) = ClaimCount => \E f \in Claimed(from) : e <= f}

\* The reply's first element: the pending entry to go on from, or 0 ("0-0").
IsCursor(from, next) ==
    LET rest == Following(from) \ Walked(from) IN
    IF rest = {} THEN next = 0
                 ELSE next \in rest /\ \A f \in rest : next <= f

XAutoClaim(from) ==
    /\ group
    /\ claimed' = claimed \cup Claimed(from)
    /\ stale' = stale \ Claimed(from)        \* claiming resets the idle time
    /\ UNCHANGED <<stream, dlq, group, lastDelivered, pel>>

\* Five minutes pass over a pending entry without a delivery.
BecomeStale(e) ==
    /\ e \in pel \ stale
    /\ stale' = stale \cup {e}
    /\ UNCHANGED <<stream, dlq, group, lastDelivered, pel, claimed>>
=============================================================================
