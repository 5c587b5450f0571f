-------------------------------- MODULE DevApi --------------------------------
(***************************************************************************)
(* The RunPod stand-in (postiz_uploader/devapi.py): HTTP threads submit    *)
(* jobs and answer polls, Workers pool threads run them.  A job is one     *)
(* dict; its fields are written by a pool thread and read by the HTTP      *)
(* threads without the lock, which guards the table of jobs only.          *)
(*                                                                         *)
(* A step is one access to a shared object.  Time is counted in ticks.     *)
(***************************************************************************)
EXTENDS Naturals, Sequences, FiniteSets

CONSTANTS
    Ids,         \* the jobs the callers submit
    SyncIds,     \* those submitted with /runsync, the others with /run
    Callers,     \* the clients that poll /status, one call at a time each
    Workers,     \* max_workers of the pool
    Retention,   \* RETENTION_SECONDS, in ticks
    MaxTime      \* bound: the clock stops here

ASSUME JobsAssumption == SyncIds \subseteq Ids /\ "none" \notin Ids
ASSUME NumbersAssumption == /\ Workers \in Nat \ {0}
                            /\ Retention \in Nat
                            /\ MaxTime \in Nat

VARIABLES
    now,        \* time.monotonic()
    table,      \* Jobs._jobs, the ids in it
    queue,      \* the pool's queue
    stage,      \* what the threads that own the job do with it next
    status,     \* job["status"]
    fields,     \* which of the fields below the job has
    finished,   \* job["finished"], meaningful once that field is there
    done,       \* job["done"], the event /runsync waits for
    answered,   \* the jobs whose caller has had the answer to its submission
    before,     \* the jobs that were answered when this one was submitted
    poll,       \* the status call each caller has open
    heard       \* the answer to the last status call of each caller

jobs == <<table, queue, stage, status, fields, finished, done>>
vars == <<now, jobs, answered, before, poll, heard>>
----------------------------------------------------------------------------
Terminal == {"COMPLETED", "FAILED"}

\* The fields public() copies after the status, in its order.
Later == <<"delayTime", "executionTime", "output", "error">>

\* The steps of a pool thread inside _execute().
Executing == {"taken", "running", "ran", "timed", "finished", "ended"}

\* A call that has read nothing yet.
Call(i) == [id |-> i, status |-> "none", fields |-> {}, next |-> 0]

NoCall == Call("none")

Reply(i, said) == [id |-> i, status |-> said, fields |-> {}]

Silence == Reply("none", "none")

Init ==
    /\ now = 0
    /\ table = {}
    /\ queue = << >>
    /\ stage = [i \in Ids |-> "new"]
    /\ status = [i \in Ids |-> "IN_QUEUE"]
    /\ fields = [i \in Ids |-> {}]
    /\ finished = [i \in Ids |-> 0]
    /\ done = [i \in Ids |-> FALSE]
    /\ answered = {}
    /\ before = [i \in Ids |-> {}]
    /\ poll = [c \in Callers |-> NoCall]
    /\ heard = [c \in Callers |-> Silence]

Advance(i, from, to) ==
    /\ stage[i] = from
    /\ stage' = [stage EXCEPT ![i] = to]

Gain(i, field) == fields' = [fields EXCEPT ![i] = @ \cup {field}]

\* Mutant: results are dropped as soon as they are old enough to be polled.
ExpiredEarly(i) == "finished" \in fields[i] /\ now - finished[i] >= 0

Expired(i) == "finished" \in fields[i] /\ now - finished[i] > Retention

\* What _expire() leaves in the table.
Kept == {i \in table : ~ Expired(i)}

(***************************************************************************)
(* Jobs.submit(): the table under the lock, then the pool.                 *)
(***************************************************************************)
Submit(i) ==
    /\ Advance(i, "new", "stored")
    /\ table' = Kept \cup {i}
    /\ before' = [before EXCEPT ![i] = answered]
    /\ UNCHANGED <<now, queue, status, fields, finished, done, answered, poll, heard>>

\* Mutant: the newest job is run first.
EnqueueInFront(i) ==
    /\ Advance(i, "stored", "queued")
    /\ queue' = <<i>> \o queue
    /\ answered' = IF i \in SyncIds THEN answered ELSE answered \cup {i}
    /\ UNCHANGED <<now, table, status, fields, finished, done, before, poll, heard>>

\* /run is answered with the id now.
Enqueue(i) ==
    /\ Advance(i, "stored", "queued")
    /\ queue' = Append(queue, i)
    /\ answered' = IF i \in SyncIds THEN answered ELSE answered \cup {i}
    /\ UNCHANGED <<now, table, status, fields, finished, done, before, poll, heard>>

\* /runsync is answered when the event is set.
AnswerSync(i) ==
    /\ i \in SyncIds \ answered
    /\ done[i]
    /\ answered' = answered \cup {i}
    /\ UNCHANGED <<now, jobs, before, poll, heard>>

(***************************************************************************)
(* Jobs._execute() on a pool thread.                                       *)
(***************************************************************************)
Take(i) ==
    /\ queue # << >>
    /\ i = Head(queue)
    /\ Cardinality({k \in Ids : stage[k] \in Executing}) < Workers
    /\ Advance(i, "queued", "taken")
    /\ queue' = Tail(queue)
    /\ Gain(i, "delayTime")
    /\ UNCHANGED <<now, table, status, finished, done, answered, before, poll, heard>>

StartRun(i) ==
    /\ Advance(i, "taken", "running")
    /\ status' = [status EXCEPT ![i] = "IN_PROGRESS"]
    /\ UNCHANGED <<now, table, queue, fields, finished, done, answered, before, poll, heard>>

\* Mutant: a job whose handler raised goes back to the start.
RunEndsRequeued(i) ==
    /\ Advance(i, "running", "ran")
    /\ \E field \in {"output", "error"} :
          /\ Gain(i, field)
          /\ status' = IF field = "error" THEN [status EXCEPT ![i] = "IN_QUEUE"] ELSE status
    /\ UNCHANGED <<now, table, queue, finished, done, answered, before, poll, heard>>

\* The handler returns a result, or raises.
RunEnds(i) ==
    /\ Advance(i, "running", "ran")
    /\ \E field \in {"output", "error"} : Gain(i, field)
    /\ UNCHANGED <<now, table, queue, status, finished, done, answered, before, poll, heard>>

SetExecutionTime(i) ==
    /\ Advance(i, "ran", "timed")
    /\ Gain(i, "executionTime")
    /\ UNCHANGED <<now, table, queue, status, finished, done, answered, before, poll, heard>>

\* Mutant: the time of expiry is kept in place of the time it finished.
SetFinishedToExpiry(i) ==
    /\ Advance(i, "timed", "finished")
    /\ Gain(i, "finished")
    /\ finished' = [finished EXCEPT ![i] = now + Retention]
    /\ UNCHANGED <<now, table, queue, status, done, answered, before, poll, heard>>

SetFinished(i) ==
    /\ Advance(i, "timed", "finished")
    /\ Gain(i, "finished")
    /\ finished' = [finished EXCEPT ![i] = now]
    /\ UNCHANGED <<now, table, queue, status, done, answered, before, poll, heard>>

Outcome(i) == IF "output" \in fields[i] THEN "COMPLETED" ELSE "FAILED"

SetStatus(i) ==
    /\ Advance(i, "finished", "ended")
    /\ status' = [status EXCEPT ![i] = Outcome(i)]
    /\ UNCHANGED <<now, table, queue, fields, finished, done, answered, before, poll, heard>>

\* Mutant: the event is never set when the handler raised.
SetDoneOnSuccess(i) ==
    /\ Advance(i, "ended", "over")
    /\ done' = [done EXCEPT ![i] = status[i] = "COMPLETED"]
    /\ UNCHANGED <<now, table, queue, status, fields, finished, answered, before, poll, heard>>

SetDone(i) ==
    /\ Advance(i, "ended", "over")
    /\ done' = [done EXCEPT ![i] = TRUE]
    /\ UNCHANGED <<now, table, queue, status, fields, finished, answered, before, poll, heard>>

(***************************************************************************)
(* GET /status/<id>: the lookup under the lock, then public() without it,  *)
(* one field after the other.                                              *)
(***************************************************************************)
Reads == Len(Later)

Lookup(c, i) ==
    /\ poll[c] = NoCall
    /\ i \in answered
    /\ table' = Kept
    /\ IF i \in Kept
       THEN /\ poll' = [poll EXCEPT ![c] = Call(i)]
            /\ UNCHANGED heard
       ELSE /\ heard' = [heard EXCEPT ![c] = Reply(i, "404")]
            /\ UNCHANGED poll
    /\ UNCHANGED <<now, queue, stage, status, fields, finished, done, answered, before>>

\* Mutant: the status is read after the other fields.
ReadStatusFirst(c) == poll[c].next = Reads

\* The status is the first thing read, while no other field has been.
ReadsStatus(c) == poll[c].next = 0

ReadStatus(c) ==
    /\ poll[c].id # "none"
    /\ poll[c].status = "none"
    /\ ReadsStatus(c)
    /\ poll' = [poll EXCEPT ![c].status = status[poll[c].id]]
    /\ UNCHANGED <<now, jobs, answered, before, heard>>

ReadField(c) ==
    /\ poll[c].id # "none"
    /\ ReadsStatus(c) => poll[c].status # "none"
    /\ poll[c].next < Reads
    /\ LET n == poll[c].next + 1 IN
       poll' = [poll EXCEPT ![c].next = n,
                            ![c].fields = @ \cup ({Later[n]} \cap fields[poll[c].id])]
    /\ UNCHANGED <<now, jobs, answered, before, heard>>

Answer(c) ==
    /\ poll[c].next = Reads
    /\ poll[c].status # "none"
    /\ heard' = [heard EXCEPT ![c] = [id |-> poll[c].id, status |-> poll[c].status,
                                      fields |-> poll[c].fields]]
    /\ poll' = [poll EXCEPT ![c] = NoCall]
    /\ UNCHANGED <<now, jobs, answered, before>>

(***************************************************************************)
(* Time.  A pool thread is not stopped for RETENTION_SECONDS between the   *)
(* two assignments that end a job.                                         *)
(***************************************************************************)
Tick ==
    /\ now < MaxTime
    /\ \A i \in Ids : stage[i] = "finished" => now - finished[i] < Retention
    /\ now' = now + 1
    /\ UNCHANGED <<jobs, answered, before, poll, heard>>
----------------------------------------------------------------------------
\* What the job's own threads do.
JobStep(i) ==
    \/ Enqueue(i) \/ AnswerSync(i)
    \/ Take(i) \/ StartRun(i) \/ RunEnds(i) \/ SetExecutionTime(i) \/ SetFinished(i)
    \/ SetStatus(i) \/ SetDone(i)

Poll(c) == (\E i \in Ids : Lookup(c, i)) \/ ReadStatus(c) \/ ReadField(c) \/ Answer(c)

Next ==
    \/ \E i \in Ids : Submit(i) \/ JobStep(i)
    \/ \E c \in Callers : Poll(c)
    \/ Tick

\* The threads are scheduled, and process() returns (EveryJobReturns of
\* Pipeline).  Nobody has to submit a job or to poll.
Spec == Init /\ [][Next]_vars /\ \A i \in Ids : WF_vars(JobStep(i))
----------------------------------------------------------------------------
Stages == {"new", "stored", "queued", "over"} \cup Executing

Fields == {"delayTime", "executionTime", "output", "error", "finished"}

Statuses == {"IN_QUEUE", "IN_PROGRESS"} \cup Terminal

Calls == [id : Ids \cup {"none"}, status : Statuses \cup {"none"}, fields : SUBSET Fields,
          next : 0..Reads]

Answers == [id : Ids \cup {"none"}, status : Statuses \cup {"none", "404"},
            fields : SUBSET Fields]

TypeOK ==
    /\ now \in 0..MaxTime
    /\ table \subseteq Ids
    /\ queue \in Seq(Ids)
    /\ stage \in [Ids -> Stages]
    /\ status \in [Ids -> Statuses]
    /\ fields \in [Ids -> SUBSET Fields]
    /\ finished \in [Ids -> 0..MaxTime]
    /\ done \in [Ids -> BOOLEAN]
    /\ answered \subseteq Ids
    /\ before \in [Ids -> SUBSET Ids]
    /\ poll \in [Callers -> Calls]
    /\ heard \in [Callers -> Answers]

\* An answer with a final status has both times and exactly the block that
\* status promises, although it is read field by field while the job runs.
FinalAnswerComplete ==
    \A c \in Callers : heard[c].status \in Terminal =>
        /\ {"delayTime", "executionTime"} \subseteq heard[c].fields
        /\ "output" \in heard[c].fields <=> heard[c].status = "COMPLETED"
        /\ "error" \in heard[c].fields <=> heard[c].status = "FAILED"

\* A caller that has the id of a job is told 404 only when the result has been
\* there for longer than the retention.
NotFoundMeansOld ==
    \A c \in Callers : heard[c].status = "404" =>
        LET i == heard[c].id IN
        status[i] \in Terminal /\ now - finished[i] > Retention

\* A job submitted after another one was answered is never started before it.
FirstComeFirstServed ==
    \A i \in Ids : stage[i] \in Executing \cup {"over"} =>
        \A k \in before[i] : stage[k] \in Executing \cup {"over"}

Rank(s) == IF s = "IN_QUEUE" THEN 1 ELSE IF s = "IN_PROGRESS" THEN 2
           ELSE IF s \in Terminal THEN 3 ELSE 4

\* Polled by one caller, a job never goes back.
AnswersNeverGoBack ==
    [][\A c \in Callers : heard[c].id = heard'[c].id =>
          Rank(heard[c].status) <= Rank(heard'[c].status)]_vars

\* Every submitted job ends, and a /runsync call is answered when it does.
EverySubmitAnswered ==
    \A i \in Ids : (stage[i] # "new") ~> (stage[i] = "over" /\ i \in answered)
=============================================================================
