---------------------------- MODULE JobContract ----------------------------
(***************************************************************************)
(* What one call of process(raw_job) promises its caller, whatever happens *)
(* inside (README 4.2, 4.3, 5.8): each job is handed to the worker once,   *)
(* while it runs it may store a verified output and then a thumbnail under *)
(* the presigned URLs, and it returns one result that agrees with what was *)
(* stored.  Pipeline implements this specification.                        *)
(***************************************************************************)
EXTENDS Naturals, FiniteSets, JobResults

CONSTANTS
    Jobs,         \* the calls of process()
    Concurrency   \* WORKER_CONCURRENCY, jobs one worker runs at a time

VARIABLES
    phase,     \* "queued", "running" or "returned", per job
    store,     \* the objects behind output.url and thumbnail.url, per job
    outcome    \* the result the caller has received, per job

vars == <<phase, store, outcome>>
----------------------------------------------------------------------------
Running == {j \in Jobs : phase[j] = "running"}

Init ==
    /\ phase = [j \in Jobs |-> "queued"]
    /\ store = [j \in Jobs |-> Nothing]
    /\ outcome = [j \in Jobs |-> NoResult]

Begin(j) ==
    /\ phase[j] = "queued"
    /\ Cardinality(Running) < Concurrency
    /\ phase' = [phase EXCEPT ![j] = "running"]
    /\ UNCHANGED <<store, outcome>>

\* Only a verified file is stored, and never over the video a stored
\* thumbnail was taken from.
StoreOutput(j) ==
    /\ phase[j] = "running"
    /\ store[j].thumbnail = "absent"
    /\ store' = [store EXCEPT ![j].output = "good"]
    /\ UNCHANGED <<phase, outcome>>

StoreThumbnail(j) ==
    /\ phase[j] = "running"
    /\ store' = [store EXCEPT ![j].thumbnail = "good"]
    /\ UNCHANGED <<phase, outcome>>

Return(j) ==
    /\ phase[j] = "running"
    /\ \E res \in Results :
          /\ Agrees(res, store[j])
          /\ outcome' = [outcome EXCEPT ![j] = res]
    /\ phase' = [phase EXCEPT ![j] = "returned"]
    /\ UNCHANGED store

Next == \E j \in Jobs : Begin(j) \/ StoreOutput(j) \/ StoreThumbnail(j) \/ Return(j)

Spec == Init /\ [][Next]_vars
=============================================================================
