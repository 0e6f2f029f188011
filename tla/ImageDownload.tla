---------------------------- MODULE ImageDownload ----------------------------
(***************************************************************************)
(* The image downloads of one job, app/pipeline/download.py: one fetch per *)
(* URL, all of them gathered, each behind an asyncio semaphore that it     *)
(* keeps through its retries.                                              *)
(*                                                                         *)
(* A fetch is named by the position of its URL in the job.  An action is   *)
(* the code of one coroutine between two awaits: the wait for the          *)
(* semaphore, the GET, the sleep before the next GET.                      *)
(***************************************************************************)
EXTENDS Integers, Sequences, FiniteSets

CONSTANTS
    MaxUrls,  \* bound: URLs in a job
    Limit,    \* settings.max_concurrent_downloads (MAX_CONCURRENT_DOWNLOADS, 4)
    Answers   \* what a GET may come back with, see AnswerKinds

Urls == 1 .. MaxUrls

\* What download_bytes and decode_image tell apart.
AnswerKinds == {"image",        \* 2xx, and Pillow decodes the body
                "undecodable",  \* 2xx, and Pillow raises
                "busy",         \* 429, 500, 502, 503, 504
                "network",      \* httpx.RequestError: timeout, refused, too many redirects
                "refused"}      \* any other status, or any other exception

ASSUME DownloadAssumption ==
    /\ MaxUrls \in Nat
    /\ Limit \in Nat
    /\ Answers \subseteq AnswerKinds

VARIABLES
    fetch,    \* where each fetch is, "none" for a URL the job does not have
    answers,  \* history: what the GETs of each fetch came back with
    permits   \* the value of the semaphore

downloadVars == <<fetch, answers, permits>>

Transient == {"busy", "network"}
MaxRetries == 2

InSlot == {"getting", "sleeping"}
Over == {"none", "decoded", "failed"}

DownloadTypeOK ==
    /\ fetch \in [Urls -> InSlot \cup Over \cup {"waiting"}]
    /\ answers \in [Urls -> Seq(AnswerKinds)]
    /\ permits \in 0 .. Limit

NoDownload ==
    /\ fetch = [u \in Urls |-> "none"]
    /\ answers = [u \in Urls |-> <<>>]
    /\ permits = Limit

\* download_all makes a new semaphore and starts a fetch for each of n URLs.
StartDownload(n) ==
    /\ fetch' = [u \in Urls |-> IF u \in 1 .. n THEN "waiting" ELSE "none"]
    /\ answers' = [u \in Urls |-> <<>>]
    /\ permits' = Limit

\* download_all has returned, or was cancelled with every fetch it gathered.
EndDownload ==
    /\ fetch' = [u \in Urls |-> "none"]
    /\ answers' = [u \in Urls |-> <<>>]
    /\ permits' = Limit

\* Mutant: the semaphore lets a fetch in whatever its value.
AcquireUnchecked(u) ==
    /\ fetch[u] = "waiting"
    /\ \A v \in Urls : v < u => fetch[v] # "waiting"
    /\ permits' = permits - 1
    /\ fetch' = [fetch EXCEPT ![u] = "getting"]
    /\ UNCHANGED answers

\* gather starts the fetches in URL order and asyncio.Semaphore wakes its
\* waiters first in, first out.
Acquire(u) ==
    /\ fetch[u] = "waiting"
    /\ \A v \in Urls : v < u => fetch[v] # "waiting"
    /\ permits > 0
    /\ permits' = permits - 1
    /\ fetch' = [fetch EXCEPT ![u] = "getting"]
    /\ UNCHANGED answers

\* Mutant: the fetch gives its slot up while it sleeps.
SleepOutsideSlot(u) ==
    /\ fetch' = [fetch EXCEPT ![u] = "sleeping"]
    /\ permits' = permits + 1

\* asyncio.sleep inside "async with sem": the slot is kept.
Sleep(u) ==
    /\ fetch' = [fetch EXCEPT ![u] = "sleeping"]
    /\ UNCHANGED permits

\* Mutant: the slot is released on success only.
LeaveKeepsSlotOnError(u, state) ==
    /\ fetch' = [fetch EXCEPT ![u] = state]
    /\ permits' = IF state = "decoded" THEN permits + 1 ELSE permits

\* Leaving "async with sem", with an image or with the exception fetch caught.
Leave(u, state) ==
    /\ fetch' = [fetch EXCEPT ![u] = state]
    /\ permits' = permits + 1

\* Mutant: every failure is retried.
RetriesEverything(a, attempt) == a # "image" /\ attempt # MaxRetries

\* Whether download_bytes sleeps and tries again, attempt counting from 0.
Retries(a, attempt) == a \in Transient /\ attempt # MaxRetries

\* A GET comes back: the loop body of download_bytes, then decode_image.
Receive(u, a) ==
    /\ fetch[u] = "getting"
    /\ answers' = [answers EXCEPT ![u] = Append(@, a)]
    /\ \/ Retries(a, Len(answers[u])) /\ Sleep(u)
       \/ /\ ~Retries(a, Len(answers[u]))
          /\ Leave(u, IF a = "image" THEN "decoded" ELSE "failed")

\* 2**attempt seconds later.
Wake(u) ==
    /\ fetch[u] = "sleeping"
    /\ fetch' = [fetch EXCEPT ![u] = "getting"]
    /\ UNCHANGED <<answers, permits>>

DownloadStep ==
    \E u \in Urls : Acquire(u) \/ Wake(u) \/ \E a \in Answers : Receive(u, a)

Downloaded == \A u \in Urls : fetch[u] \in Over

\* Mutant: each result is put in front of those collected before it.
InReverse(S) ==
    LET collected[n \in 0 .. MaxUrls] ==
            IF n = 0 THEN <<>>
            ELSE IF n \in S THEN <<n>> \o collected[n - 1] ELSE collected[n - 1]
    IN  collected[MaxUrls]

\* The loop over the gathered results, which appends the positions of the images
\* to one list and those of the errors to another.
InOrder(S) ==
    LET collected[n \in 0 .. MaxUrls] ==
            IF n = 0 THEN <<>>
            ELSE IF n \in S THEN Append(collected[n - 1], n) ELSE collected[n - 1]
    IN  collected[MaxUrls]
Decoded == {u \in Urls : fetch[u] = "decoded"}
Failed == {u \in Urls : fetch[u] = "failed"}

-----------------------------------------------------------------------------
\* Semaphore slots are conserved through retries, sleeps, decoding errors and
\* caught exceptions: no path of fetch leaks one or returns one twice, so at
\* most Limit requests are ever open (download.py:143-152).
SlotsConserved == permits + Cardinality({u \in Urls : fetch[u] \in InSlot}) = Limit

\* A fetch reports what its GETs came back with: an image only if the last one
\* brought it, an error only after a permanent failure or MaxRetries + 1
\* transient ones, and only transient failures were ever tried again
\* (download.py:76-111).
OutcomesAreEarned ==
    \A u \in Urls :
        LET n == Len(answers[u]) IN
        /\ n <= MaxRetries + 1
        /\ \A k \in 1 .. n - 1 : answers[u][k] \in Transient
        /\ fetch[u] = "decoded" => n > 0 /\ answers[u][n] = "image"
        /\ fetch[u] = "failed" =>
               /\ n > 0 /\ answers[u][n] # "image"
               /\ answers[u][n] \in Transient => n = MaxRetries + 1
        /\ fetch[u] = "sleeping" => n \in 1 .. MaxRetries /\ answers[u][n] \in Transient
        /\ fetch[u] = "getting" => n <= MaxRetries
=============================================================================
