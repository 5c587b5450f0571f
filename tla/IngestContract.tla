--------------------------- MODULE IngestContract ---------------------------
(***************************************************************************)
(* What one ingest job promises its caller, whichever way the source comes *)
(* (README 4.4): what it stores is always the beginning of what was asked  *)
(* for, and it returns one result that agrees with what it stored.  Ingest *)
(* implements this specification.                                          *)
(***************************************************************************)
EXTENDS Naturals

CONSTANT Requests    \* [video : BOOLEAN, audio : "no", "yes" or "unless_transcript",
                     \*  transcript : BOOLEAN], and what else a job says

VARIABLES
    request,   \* what the caller asked for
    store,     \* the outputs behind its presigned URLs
    outcome    \* the result it has received

vars == <<request, store, outcome>>
----------------------------------------------------------------------------
Outputs == {"video", "audio", "transcript"}

Outcome(status, retryable, outputs) ==
    [status |-> status, retryable |-> retryable, outputs |-> outputs]

NoOutcome == Outcome("none", FALSE, {})

\* The sets of outputs a job may complete with: the captions are stored if there
\* are any, and replace the audio when the job says so.
Fulfils(outs, req) ==
    /\ "video" \in outs <=> req.video
    /\ "audio" \in outs <=>
          \/ req.audio = "yes"
          \/ req.audio = "unless_transcript" /\ "transcript" \notin outs
    /\ "transcript" \in outs => req.transcript

\* The outputs are stored in this order.
Rank == [video |-> 1, audio |-> 2, transcript |-> 3]

Before(out, outs) == {other \in outs : Rank[other] < Rank[out]}
----------------------------------------------------------------------------
Init ==
    /\ request \in Requests
    /\ store = {}
    /\ outcome = NoOutcome

\* One more output of a set that fulfils the request, or the last one again.
Store(out) ==
    /\ outcome = NoOutcome
    /\ \E outs \in SUBSET Outputs :
          /\ Fulfils(outs, request)
          /\ out \in outs
          /\ store \subseteq Before(out, outs) \cup {out}
          /\ Before(out, outs) \subseteq store
    /\ store' = store \cup {out}
    /\ UNCHANGED <<request, outcome>>

Complete ==
    /\ outcome = NoOutcome
    /\ Fulfils(store, request)
    /\ outcome' = Outcome("completed", FALSE, store)
    /\ UNCHANGED <<request, store>>

\* A failure reports no output, and is final only while nothing is stored.
Fail ==
    /\ outcome = NoOutcome
    /\ \E retryable \in BOOLEAN :
          /\ ~ retryable => store = {}
          /\ outcome' = Outcome("failed", retryable, {})
    /\ UNCHANGED <<request, store>>

Next == Complete \/ Fail \/ \E out \in Outputs : Store(out)

Spec == Init /\ [][Next]_vars
=============================================================================
