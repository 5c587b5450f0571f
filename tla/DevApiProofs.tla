---------------------------- MODULE DevApiProofs ----------------------------
(***************************************************************************)
(* Proofs about DevApi, for every set of jobs and callers and every value  *)
(* of its constants.                                                       *)
(***************************************************************************)
EXTENDS DevApi, FiniteSetTheorems, TLAPS

LEMMA LaterFields ==
    /\ Reads = 4
    /\ Later[1] = "delayTime"
    /\ Later[2] = "executionTime"
    /\ Later[3] = "output"
    /\ Later[4] = "error"
BY DEF Reads, Later

(***************************************************************************)
(* Types.                                                                  *)
(***************************************************************************)
LEMMA TypeInitially == Init => TypeOK
BY NumbersAssumption, LaterFields
DEF Init, TypeOK, Stages, Statuses, Fields, NoCall, Call, Silence, Reply, Calls, Answers

LEMMA TypeStep == TypeOK /\ [Next]_vars => TypeOK'
<1> SUFFICES ASSUME TypeOK, [Next]_vars
             PROVE  TypeOK'
  OBVIOUS
<1> USE NumbersAssumption, LaterFields
    DEF TypeOK, Advance, Gain, Stages, Executing, Statuses, Terminal, Fields, jobs
<1>1. ASSUME NEW i \in Ids, Submit(i)
      PROVE  TypeOK'
  BY <1>1 DEF Submit, Kept
<1>2. ASSUME NEW i \in Ids, Enqueue(i)
      PROVE  TypeOK'
  BY <1>2 DEF Enqueue
<1>3. ASSUME NEW i \in Ids, AnswerSync(i)
      PROVE  TypeOK'
  BY <1>3 DEF AnswerSync
<1>4. ASSUME NEW i \in Ids, Take(i)
      PROVE  TypeOK'
  BY <1>4 DEF Take
<1>5. ASSUME NEW i \in Ids, StartRun(i)
      PROVE  TypeOK'
  BY <1>5 DEF StartRun
<1>6. ASSUME NEW i \in Ids, RunEnds(i)
      PROVE  TypeOK'
  BY <1>6 DEF RunEnds
<1>7. ASSUME NEW i \in Ids, SetExecutionTime(i)
      PROVE  TypeOK'
  BY <1>7 DEF SetExecutionTime
<1>8. ASSUME NEW i \in Ids, SetFinished(i)
      PROVE  TypeOK'
  BY <1>8 DEF SetFinished
<1>9. ASSUME NEW i \in Ids, SetStatus(i)
      PROVE  TypeOK'
  BY <1>9 DEF SetStatus, Outcome
<1>10. ASSUME NEW i \in Ids, SetDone(i)
      PROVE  TypeOK'
  BY <1>10 DEF SetDone
<1>11. ASSUME NEW c \in Callers, NEW i \in Ids, Lookup(c, i)
      PROVE  TypeOK'
  <2>1. poll' \in [Callers -> Calls]
    <3>1. Call(i) \in Calls
      BY DEF Call, Calls
    <3>2. QED
      BY <1>11, <3>1 DEF Lookup
  <2>2. heard' \in [Callers -> Answers]
    <3>1. Reply(i, "404") \in Answers
      BY DEF Reply, Answers
    <3>2. QED
      BY <1>11, <3>1 DEF Lookup
  <2>3. QED
    BY <1>11, <2>1, <2>2 DEF Lookup, Kept
<1>12. ASSUME NEW c \in Callers, ReadStatus(c)
      PROVE  TypeOK'
  <2>1. poll[c] \in Calls /\ poll[c].id \in Ids
    BY <1>12 DEF ReadStatus, Calls
  <2>2. poll' \in [Callers -> Calls]
    BY <1>12, <2>1 DEF ReadStatus, Calls
  <2>3. QED
    BY <1>12, <2>2 DEF ReadStatus
<1>13. ASSUME NEW c \in Callers, ReadField(c)
      PROVE  TypeOK'
  <2>1. poll[c] \in Calls /\ poll[c].next + 1 \in 0..Reads
    BY <1>13 DEF ReadField, Calls
  <2>2. poll' \in [Callers -> Calls]
    BY <1>13, <2>1 DEF ReadField, Calls
  <2>3. QED
    BY <1>13, <2>2 DEF ReadField
<1>14. ASSUME NEW c \in Callers, Answer(c)
      PROVE  TypeOK'
  BY <1>14 DEF Answer, NoCall, Call, Calls, Answers
<1>15. CASE Tick
  BY <1>15 DEF Tick
<1>16. CASE UNCHANGED vars
  BY <1>16 DEF vars
<1>17. QED
  BY <1>1, <1>2, <1>3, <1>4, <1>5, <1>6, <1>7, <1>8, <1>9, <1>10, <1>11, <1>12,
     <1>13, <1>14, <1>15, <1>16 DEF Next, JobStep, Poll

\* The table, the jobs, the calls and the answers of the dev API have their types.
THEOREM TypeCorrect == Spec => []TypeOK
BY TypeInitially, TypeStep, PTL DEF Spec

(***************************************************************************)
(* A job.                                                                  *)
(***************************************************************************)
\* The pool thread has written the time the job finished.
Ended == {"finished", "ended", "over"}

\* What the dict of a job holds is told by how far its threads are.
DictInv ==
    \A i \in Ids :
        /\ "delayTime" \in fields[i] <=> stage[i] \in Executing \cup {"over"}
        /\ "output" \in fields[i] \/ "error" \in fields[i]
              <=> stage[i] \in {"ran", "timed"} \cup Ended
        /\ ~ ("output" \in fields[i] /\ "error" \in fields[i])
        /\ "executionTime" \in fields[i] <=> stage[i] \in {"timed"} \cup Ended
        /\ "finished" \in fields[i] <=> stage[i] \in Ended
        /\ stage[i] \in {"new", "stored", "queued", "taken"} => status[i] = "IN_QUEUE"
        /\ stage[i] \in {"running", "ran", "timed", "finished"} => status[i] = "IN_PROGRESS"
        /\ stage[i] \in {"ended", "over"} => status[i] = Outcome(i)
        /\ done[i] => stage[i] = "over"
        /\ stage[i] = "finished" => now - finished[i] <= Retention

LEMMA DictInitially == Init => DictInv
BY DEF Init, DictInv, Executing, Ended

LEMMA DictStep == TypeOK /\ DictInv /\ [Next]_vars => DictInv'
<1> SUFFICES ASSUME TypeOK, DictInv, [Next]_vars
             PROVE  DictInv'
  OBVIOUS
<1> USE NumbersAssumption
    DEF TypeOK, DictInv, Advance, Gain, Outcome, Stages, Executing, Ended, jobs
<1>1. ASSUME NEW i \in Ids, Submit(i)
      PROVE  DictInv'
  BY <1>1 DEF Submit
<1>2. ASSUME NEW i \in Ids, Enqueue(i)
      PROVE  DictInv'
  BY <1>2 DEF Enqueue
<1>3. ASSUME NEW i \in Ids, AnswerSync(i)
      PROVE  DictInv'
  BY <1>3 DEF AnswerSync
<1>4. ASSUME NEW i \in Ids, Take(i)
      PROVE  DictInv'
  BY <1>4 DEF Take
<1>5. ASSUME NEW i \in Ids, StartRun(i)
      PROVE  DictInv'
  BY <1>5 DEF StartRun
<1>6. ASSUME NEW i \in Ids, RunEnds(i)
      PROVE  DictInv'
  BY <1>6 DEF RunEnds
<1>7. ASSUME NEW i \in Ids, SetExecutionTime(i)
      PROVE  DictInv'
  BY <1>7 DEF SetExecutionTime
<1>8. ASSUME NEW i \in Ids, SetFinished(i)
      PROVE  DictInv'
  BY <1>8 DEF SetFinished
<1>9. ASSUME NEW i \in Ids, SetStatus(i)
      PROVE  DictInv'
  BY <1>9 DEF SetStatus
<1>10. ASSUME NEW i \in Ids, SetDone(i)
      PROVE  DictInv'
  BY <1>10 DEF SetDone
<1>11. ASSUME NEW c \in Callers, Poll(c)
      PROVE  DictInv'
  BY <1>11 DEF Poll, Lookup, ReadStatus, ReadField, Answer
<1>12. CASE Tick
  BY <1>12 DEF Tick
<1>13. CASE UNCHANGED vars
  BY <1>13 DEF vars
<1>14. QED
  BY <1>1, <1>2, <1>3, <1>4, <1>5, <1>6, <1>7, <1>8, <1>9, <1>10, <1>11, <1>12,
     <1>13 DEF Next, JobStep

(***************************************************************************)
(* The answers to polls.                                                   *)
(***************************************************************************)
\* The final status of a job is there, and with it all it promises.
LEMMA TerminalMeansEnded ==
    ASSUME TypeOK, DictInv, NEW i \in Ids
    PROVE  /\ status[i] \in Terminal <=> stage[i] \in {"ended", "over"}
           /\ status[i] \in Terminal =>
                 /\ {"delayTime", "executionTime", "finished"} \subseteq fields[i]
                 /\ "output" \in fields[i] <=> status[i] = "COMPLETED"
                 /\ "error" \in fields[i] <=> status[i] = "FAILED"
BY DEF TypeOK, DictInv, Stages, Executing, Ended, Terminal, Outcome

\* A step of the program writes no field of a job that has its final status.
LEMMA TerminalStays ==
    ASSUME TypeOK, DictInv, [Next]_vars, NEW i \in Ids, status[i] \in Terminal
    PROVE  status'[i] = status[i] /\ fields'[i] = fields[i] /\ finished'[i] = finished[i]
<1>1. stage[i] \in {"ended", "over"}
  BY TerminalMeansEnded
<1>2. ASSUME NEW k \in Ids, Submit(k) \/ JobStep(k)
      PROVE  status'[i] = status[i] /\ fields'[i] = fields[i] /\ finished'[i] = finished[i]
  BY <1>1, <1>2 DEF TypeOK, Submit, JobStep, Enqueue, AnswerSync, Take, StartRun, RunEnds,
     SetExecutionTime, SetFinished, SetStatus, SetDone, Advance, Gain, jobs
<1>3. ASSUME NEW c \in Callers, Poll(c)
      PROVE  status'[i] = status[i] /\ fields'[i] = fields[i] /\ finished'[i] = finished[i]
  BY <1>3 DEF Poll, Lookup, ReadStatus, ReadField, Answer, jobs
<1>4. QED
  BY <1>2, <1>3 DEF Next, Tick, vars, jobs

\* Fields are added to a job and never taken away.
LEMMA FieldsGrow ==
    ASSUME TypeOK, [Next]_vars, NEW i \in Ids
    PROVE  fields[i] \subseteq fields'[i]
<1>1. ASSUME NEW k \in Ids, Submit(k) \/ JobStep(k)
      PROVE  fields[i] \subseteq fields'[i]
  <2>1. fields' = fields \/ \E field \in Fields : Gain(k, field)
    BY <1>1 DEF Submit, JobStep, Enqueue, AnswerSync, Take, StartRun, RunEnds,
       SetExecutionTime, SetFinished, SetStatus, SetDone, Fields, jobs
  <2>2. QED
    BY <2>1 DEF TypeOK, Gain
<1>2. ASSUME NEW c \in Callers, Poll(c)
      PROVE  fields[i] \subseteq fields'[i]
  BY <1>2 DEF Poll, Lookup, ReadStatus, ReadField, Answer, jobs
<1>3. QED
  BY <1>1, <1>2 DEF Next, Tick, vars, jobs

\* An open call has read nothing the job does not have, and when it has read a
\* final status, it has missed nothing of what it read since.
PollInv ==
    \A c \in Callers :
        LET p == poll[c] IN
        /\ p.id = "none" => p = NoCall
        /\ p.status = "none" => p.next = 0
        /\ p.id # "none" => p.fields \subseteq fields[p.id]
        /\ p.status \in Terminal =>
              /\ status[p.id] = p.status
              /\ \A n \in 1..p.next : Later[n] \in fields[p.id] => Later[n] \in p.fields

LEMMA PollInitially == Init => PollInv
BY DEF Init, PollInv, NoCall, Call, Terminal

LEMMA PollStep == TypeOK /\ DictInv /\ PollInv /\ [Next]_vars => PollInv'
<1> SUFFICES ASSUME TypeOK, DictInv, PollInv, [Next]_vars, NEW c \in Callers
             PROVE  PollInv!(c)'
  BY DEF PollInv
<1>1. poll[c] \in Calls /\ (poll[c].id # "none" => poll[c].id \in Ids)
  BY DEF TypeOK, Calls
<1>2. ASSUME poll'[c] = poll[c]
      PROVE  PollInv!(c)'
  <2>1. CASE poll[c].id = "none"
    BY <1>2, <2>1 DEF PollInv, NoCall, Call, Terminal
  <2>2. CASE poll[c].id # "none"
    <3>1. poll[c].id \in Ids
      BY <1>1, <2>2
    <3>2. fields[poll[c].id] \subseteq fields'[poll[c].id]
      BY <3>1, FieldsGrow
    <3>3. poll[c].status \in Terminal =>
             /\ status'[poll[c].id] = status[poll[c].id]
             /\ fields'[poll[c].id] = fields[poll[c].id]
      BY <3>1, TerminalStays DEF PollInv
    <3>4. QED
      BY <1>2, <2>2, <3>2, <3>3 DEF PollInv
  <2>3. QED
    BY <2>1, <2>2
<1>3. ASSUME NEW i \in Ids, Lookup(c, i)
      PROVE  PollInv!(c)'
  <2>1. poll'[c] = poll[c] \/ poll'[c] = Call(i)
    BY <1>3 DEF Lookup, TypeOK
  <2>2. CASE poll'[c] = Call(i)
    BY <2>2 DEF PollInv, NoCall, Call, Terminal
  <2>3. QED
    BY <1>2, <2>1, <2>2
<1>4. CASE ReadStatus(c)
  <2>1. poll[c].next = 0 /\ poll[c].id \in Ids
    BY <1>1, <1>4 DEF ReadStatus, ReadsStatus
  <2>2. poll'[c] = [poll[c] EXCEPT !.status = status[poll[c].id]]
    BY <1>4 DEF ReadStatus, TypeOK
  <2>3. /\ poll'[c].id = poll[c].id /\ poll[c].id # "none"
        /\ poll'[c].status = status[poll[c].id]
        /\ poll'[c].next = 0
        /\ poll'[c].fields = poll[c].fields
    BY <1>1, <1>4, <2>1, <2>2 DEF ReadStatus, Calls
  <2>4. status' = status /\ fields' = fields /\ status[poll[c].id] # "none"
    BY <1>4, <2>1 DEF ReadStatus, TypeOK, Statuses, Terminal, jobs
  <2>5. QED
    BY <2>3, <2>4 DEF PollInv
<1>5. CASE ReadField(c)
  <2> DEFINE n == poll[c].next + 1
  <2>1. n \in 1..4 /\ poll[c].id \in Ids /\ poll[c].id # "none" /\ poll[c].status # "none"
    BY <1>1, <1>5, LaterFields DEF ReadField, ReadsStatus, PollInv, Calls
  <2>2. poll'[c] = [poll[c] EXCEPT !.next = n,
                                   !.fields = @ \cup ({Later[n]} \cap fields[poll[c].id])]
    BY <1>5 DEF ReadField, TypeOK
  <2>3. /\ poll'[c].id = poll[c].id
        /\ poll'[c].status = poll[c].status
        /\ poll'[c].next = n
        /\ poll'[c].fields = poll[c].fields \cup ({Later[n]} \cap fields[poll[c].id])
    BY <1>1, <2>2 DEF Calls
  <2>4. status' = status /\ fields' = fields
    BY <1>5 DEF ReadField, jobs
  <2>5. \A m \in 1..n : m \in 1..poll[c].next \/ m = n
    BY <1>1, <2>1 DEF Calls
  <2> HIDE DEF n
  <2>6. poll'[c].fields \subseteq fields[poll[c].id]
    BY <2>1, <2>3 DEF PollInv
  <2>7. poll[c].status \in Terminal =>
           /\ status[poll[c].id] = poll[c].status
           /\ \A m \in 1..n : Later[m] \in fields[poll[c].id] => Later[m] \in poll'[c].fields
    BY <2>3, <2>5 DEF PollInv
  <2>8. QED
    BY <2>1, <2>3, <2>4, <2>6, <2>7 DEF PollInv
<1>6. CASE Answer(c)
  BY <1>6 DEF Answer, TypeOK, PollInv, NoCall, Call, Terminal
<1>7. QED
  <2>1. ASSUME NEW k \in Ids, Submit(k) \/ JobStep(k)
        PROVE  poll' = poll
    BY <2>1 DEF Submit, JobStep, Enqueue, AnswerSync, Take, StartRun, RunEnds,
       SetExecutionTime, SetFinished, SetStatus, SetDone
  <2>2. ASSUME NEW d \in Callers \ {c}, Poll(d)
        PROVE  poll'[c] = poll[c]
    BY <2>2 DEF Poll, Lookup, ReadStatus, ReadField, Answer, TypeOK
  <2>3. CASE Poll(c)
    BY <1>3, <1>4, <1>5, <1>6, <2>3 DEF Poll
  <2>4. QED
    BY <1>2, <2>1, <2>2, <2>3 DEF Next, Tick, vars

LEMMA CompleteInitially == Init => FinalAnswerComplete
BY DEF Init, FinalAnswerComplete, Silence, Reply, Terminal

LEMMA CompleteStep ==
    TypeOK /\ DictInv /\ PollInv /\ FinalAnswerComplete /\ [Next]_vars => FinalAnswerComplete'
<1> SUFFICES ASSUME TypeOK, DictInv, PollInv, FinalAnswerComplete, [Next]_vars,
                    NEW c \in Callers
             PROVE  FinalAnswerComplete!(c)'
  BY DEF FinalAnswerComplete
<1>1. CASE heard'[c] = heard[c]
  BY <1>1 DEF FinalAnswerComplete
<1>2. ASSUME NEW i \in Ids, Lookup(c, i)
      PROVE  FinalAnswerComplete!(c)'
  <2>1. heard'[c] = heard[c] \/ heard'[c] = Reply(i, "404")
    BY <1>2 DEF Lookup, TypeOK
  <2>2. QED
    BY <1>1, <2>1 DEF FinalAnswerComplete, Reply, Terminal
<1>3. CASE Answer(c)
  <2>1. heard'[c].status = poll[c].status /\ heard'[c].fields = poll[c].fields
    BY <1>3 DEF Answer, TypeOK
  <2>2. CASE poll[c].status \in Terminal
    <3>1. poll[c].id \in Ids
      BY <2>2 DEF PollInv, TypeOK, Calls, NoCall, Call, Terminal
    <3>2. status[poll[c].id] = poll[c].status /\ poll[c].fields \subseteq fields[poll[c].id]
      BY <2>2, <3>1 DEF PollInv, NoCall, Call, Terminal
    <3>3. \A n \in 1..4 : Later[n] \in fields[poll[c].id] => Later[n] \in poll[c].fields
      BY <1>3, <2>2, LaterFields DEF Answer, PollInv
    <3>4. QED
      BY <2>1, <2>2, <3>1, <3>2, <3>3, TerminalMeansEnded, LaterFields
  <2>3. QED
    BY <2>1, <2>2
<1>4. QED
  <2>1. ASSUME NEW k \in Ids, Submit(k) \/ JobStep(k)
        PROVE  heard' = heard
    BY <2>1 DEF Submit, JobStep, Enqueue, AnswerSync, Take, StartRun, RunEnds,
       SetExecutionTime, SetFinished, SetStatus, SetDone
  <2>2. ASSUME NEW d \in Callers \ {c}, Poll(d)
        PROVE  heard'[c] = heard[c]
    BY <2>2 DEF Poll, Lookup, ReadStatus, ReadField, Answer, TypeOK
  <2>3. CASE Poll(c)
    BY <1>1, <1>2, <1>3, <2>3 DEF Poll, ReadStatus, ReadField
  <2>4. QED
    BY <1>1, <2>1, <2>2, <2>3 DEF Next, Tick, vars

\* An answer with a final status is complete, although it is read field by field
\* while the job runs.
THEOREM FinalAnswersComplete == Spec => []FinalAnswerComplete
BY TypeInitially, TypeStep, DictInitially, DictStep, PollInitially, PollStep,
   CompleteInitially, CompleteStep, PTL DEF Spec

(***************************************************************************)
(* The table.                                                              *)
(***************************************************************************)
\* A job stays in the table until it has expired, and its id is known to a
\* caller only after it was put there.
TableInv ==
    /\ \A i \in answered : stage[i] \notin {"new", "stored"}
    /\ \A i \in Ids : stage[i] # "new" => i \in table \/ Expired(i)

LEMMA TableInitially == Init => TableInv
BY DEF Init, TableInv

LEMMA TableStep == TypeOK /\ DictInv /\ TableInv /\ [Next]_vars => TableInv'
<1> SUFFICES ASSUME TypeOK, DictInv, TableInv, [Next]_vars
             PROVE  TableInv'
  OBVIOUS
<1>1. ASSUME NEW i \in Ids, Expired(i)
      PROVE  Expired(i)'
  <2>1. stage[i] \in Ended /\ finished[i] \in Nat /\ now \in Nat
    BY <1>1 DEF Expired, DictInv, TypeOK
  <2>2. "finished" \in fields'[i]
    BY <1>1, FieldsGrow DEF Expired
  <2>3. finished'[i] = finished[i]
    BY <2>1 DEF TypeOK, Ended, Next, Submit, JobStep, Enqueue, AnswerSync, Take, StartRun,
       RunEnds, SetExecutionTime, SetFinished, SetStatus, SetDone, Advance, Poll, Lookup,
       ReadStatus, ReadField, Answer, Tick, jobs, vars
  <2>4. now' = now \/ now' = now + 1
    BY DEF Next, Submit, JobStep, Enqueue, AnswerSync, Take, StartRun,
       RunEnds, SetExecutionTime, SetFinished, SetStatus, SetDone, Poll, Lookup,
       ReadStatus, ReadField, Answer, Tick, jobs, vars
  <2>5. QED
    BY <1>1, <2>1, <2>2, <2>3, <2>4, NumbersAssumption DEF Expired
<1>2. ASSUME NEW i \in Ids, Submit(i)
      PROVE  TableInv'
  BY <1>1, <1>2 DEF Submit, Kept, TableInv, TypeOK, Advance
<1>3. ASSUME NEW i \in Ids, JobStep(i)
      PROVE  TableInv'
  <2>1. table' = table
    BY <1>3 DEF JobStep, Enqueue, AnswerSync, Take, StartRun, RunEnds,
       SetExecutionTime, SetFinished, SetStatus, SetDone, jobs
  <2>2. \A k \in Ids : stage'[k] = "new" <=> stage[k] = "new"
    BY <1>3 DEF JobStep, Enqueue, AnswerSync, Take, StartRun, RunEnds,
       SetExecutionTime, SetFinished, SetStatus, SetDone, Advance, TypeOK, jobs
  <2>3. \A k \in answered' : stage'[k] \notin {"new", "stored"}
    BY <1>3 DEF JobStep, Enqueue, AnswerSync, Take, StartRun, RunEnds, SetExecutionTime,
       SetFinished, SetStatus, SetDone, Advance, TypeOK, TableInv, DictInv, jobs
  <2>4. QED
    BY <1>1, <2>1, <2>2, <2>3 DEF TableInv
<1>4. ASSUME NEW c \in Callers, Poll(c)
      PROVE  TableInv'
  <2>1. stage' = stage /\ answered' = answered /\ table' \in {table, Kept}
    BY <1>4 DEF Poll, Lookup, ReadStatus, ReadField, Answer, jobs
  <2>2. QED
    BY <1>1, <2>1 DEF Kept, TableInv
<1>5. CASE Tick \/ UNCHANGED vars
  BY <1>1, <1>5 DEF Tick, TableInv, jobs, vars
<1>6. QED
  BY <1>2, <1>3, <1>4, <1>5 DEF Next

\* A caller was told that a job is gone only if its final status is old.  The
\* id of an answer is none only before the first one.
GoneInv ==
    \A c \in Callers :
        /\ heard[c].status # "none" => heard[c].id \in Ids
        /\ heard[c].status = "404" =>
              status[heard[c].id] \in Terminal /\ now - finished[heard[c].id] > Retention

LEMMA GoneInitially == Init => GoneInv
BY DEF Init, GoneInv, Silence, Reply

LEMMA GoneStep ==
    TypeOK /\ DictInv /\ PollInv /\ TableInv /\ GoneInv /\ [Next]_vars => GoneInv'
<1> SUFFICES ASSUME TypeOK, DictInv, PollInv, TableInv, GoneInv, [Next]_vars,
                    NEW c \in Callers
             PROVE  GoneInv!(c)'
  BY DEF GoneInv
<1>1. CASE heard'[c] = heard[c]
  <2>1. CASE heard[c].status = "404"
    <3> DEFINE i == heard[c].id
    <3>1. i \in Ids /\ status[i] \in Terminal /\ now - finished[i] > Retention
      BY <2>1 DEF GoneInv
    <3>2. status'[i] = status[i] /\ finished'[i] = finished[i]
      BY <3>1, TerminalStays
    <3>3. now' = now \/ now' = now + 1
      BY DEF Next, Submit, JobStep, Enqueue, AnswerSync, Take, StartRun,
         RunEnds, SetExecutionTime, SetFinished, SetStatus, SetDone, Poll, Lookup,
         ReadStatus, ReadField, Answer, Tick, jobs, vars
    <3>4. now \in Nat /\ finished[i] \in Nat
      BY <3>1 DEF TypeOK
    <3>5. now' - finished[i] > Retention
      BY <3>1, <3>3, <3>4, NumbersAssumption
    <3>6. QED
      BY <1>1, <2>1, <3>1, <3>2, <3>5
  <2>2. QED
    BY <1>1, <2>1 DEF GoneInv
<1>2. ASSUME NEW i \in Ids, Lookup(c, i)
      PROVE  GoneInv!(c)'
  <2>1. CASE i \notin Kept
    <3>1. heard'[c] = Reply(i, "404") /\ UNCHANGED <<now, status, finished>>
      BY <1>2, <2>1 DEF Lookup, TypeOK
    <3>2. Expired(i)
      BY <1>2, <2>1 DEF Lookup, Kept, TableInv
    <3>3. stage[i] \in {"ended", "over"}
      BY <3>2, NumbersAssumption DEF Expired, DictInv, Ended, TypeOK
    <3>4. QED
      BY <3>1, <3>2, <3>3, TerminalMeansEnded DEF Expired, Reply
  <2>2. QED
    BY <1>1, <1>2, <2>1 DEF Lookup
<1>3. CASE Answer(c)
  <2>1. heard'[c].id = poll[c].id /\ heard'[c].status = poll[c].status
    BY <1>3 DEF Answer, TypeOK
  <2>2. poll[c].id \in Ids /\ poll[c].status # "404"
    <3>1. poll[c].status # "none" /\ poll[c] \in Calls
      BY <1>3 DEF Answer, TypeOK
    <3>2. poll[c].id # "none"
      BY <3>1 DEF PollInv, NoCall, Call
    <3>3. QED
      BY <3>1, <3>2 DEF Calls, Statuses, Terminal
  <2>3. QED
    BY <2>1, <2>2
<1>4. QED
  <2>1. ASSUME NEW k \in Ids, Submit(k) \/ JobStep(k)
        PROVE  heard' = heard
    BY <2>1 DEF Submit, JobStep, Enqueue, AnswerSync, Take, StartRun, RunEnds,
       SetExecutionTime, SetFinished, SetStatus, SetDone
  <2>2. ASSUME NEW d \in Callers \ {c}, Poll(d)
        PROVE  heard'[c] = heard[c]
    BY <2>2 DEF Poll, Lookup, ReadStatus, ReadField, Answer, TypeOK
  <2>3. CASE Poll(c)
    BY <1>1, <1>2, <1>3, <2>3 DEF Poll, ReadStatus, ReadField
  <2>4. QED
    BY <1>1, <2>1, <2>2, <2>3 DEF Next, Tick, vars

\* A caller that has the id of a job is told 404 only when the result has been
\* there for longer than the retention.
THEOREM OnlyOldJobsExpire == Spec => []NotFoundMeansOld
<1>1. GoneInv => NotFoundMeansOld
  BY DEF GoneInv, NotFoundMeansOld
<1>2. QED
  BY <1>1, TypeInitially, TypeStep, DictInitially, DictStep, PollInitially, PollStep,
     TableInitially, TableStep, GoneInitially, GoneStep, PTL DEF Spec

(***************************************************************************)
(* The order of the jobs.                                                  *)
(***************************************************************************)
\* The pool's queue holds each job that waits, once, and behind all that wait
\* and were answered before it was submitted.
QueueInv ==
    /\ \A i \in Ids : before[i] \subseteq answered
    /\ \A i \in Ids : stage[i] = "queued" => \E n \in 1..Len(queue) : queue[n] = i
    /\ \A n \in 1..Len(queue) : stage[queue[n]] = "queued"
    /\ \A m, n \in 1..Len(queue) : queue[m] = queue[n] => m = n
    /\ \A n \in 1..Len(queue) : \A k \in before[queue[n]] :
          stage[k] = "queued" => \E m \in 1..(n - 1) : queue[m] = k

LEMMA QueueInitially == Init => QueueInv
BY DEF Init, QueueInv

LEMMA QueueStep == TypeOK /\ DictInv /\ TableInv /\ QueueInv /\ [Next]_vars => QueueInv'
<1> SUFFICES ASSUME TypeOK, DictInv, TableInv, QueueInv, [Next]_vars
             PROVE  QueueInv'
  OBVIOUS
<1>1. \A n \in 1..Len(queue) : queue[n] \in Ids
  BY DEF TypeOK
<1>2. ASSUME UNCHANGED <<queue, before>>, answered \subseteq answered',
             \A i \in Ids : stage'[i] = "queued" <=> stage[i] = "queued"
      PROVE  QueueInv'
  BY <1>1, <1>2 DEF QueueInv, TypeOK
<1>3. ASSUME NEW i \in Ids, Submit(i)
      PROVE  QueueInv'
  BY <1>1, <1>3 DEF Submit, Advance, QueueInv, TypeOK
<1>4. ASSUME NEW i \in Ids, Enqueue(i)
      PROVE  QueueInv'
  <2> DEFINE last == Len(queue) + 1
  <2>1. /\ stage[i] = "stored" /\ stage' = [stage EXCEPT ![i] = "queued"]
        /\ before' = before /\ answered \subseteq answered'
    BY <1>4 DEF Enqueue, Advance
  <2>2. /\ Len(queue') = last /\ last \in Nat /\ queue'[last] = i
        /\ \A n \in 1..Len(queue) : queue'[n] = queue[n]
    BY <1>4 DEF Enqueue, TypeOK
  <2>3. \A n \in 1..Len(queue) : queue[n] # i
    BY <2>1 DEF QueueInv
  <2>4. \A k \in Ids : i \notin before[k]
    BY <2>1 DEF QueueInv, TableInv
  <2>5. \A n \in 1..last : n \in 1..Len(queue) \/ n = last
    BY <2>2
  <2>6. \A n \in 1..Len(queue) : n \in 1..last /\ n \in 1..(last - 1)
    BY <2>2
  <2>7. last \in 1..last
    BY <2>2
  <2> HIDE DEF last
  <2>8. \A k \in Ids : before'[k] \subseteq answered'
    BY <2>1 DEF QueueInv
  <2>9. \A k \in Ids : stage'[k] = "queued" => \E n \in 1..last : queue'[n] = k
    BY <2>1, <2>2, <2>6, <2>7 DEF QueueInv, TypeOK
  <2>10. \A n \in 1..last : stage'[queue'[n]] = "queued"
    <3>1. \A n \in 1..Len(queue) : stage'[queue[n]] = "queued"
      BY <1>1, <2>1, <2>3 DEF QueueInv, TypeOK
    <3>2. stage'[i] = "queued"
      BY <2>1 DEF TypeOK
    <3>3. QED
      BY <2>2, <2>5, <3>1, <3>2
  <2>11. \A m, n \in 1..last : queue'[m] = queue'[n] => m = n
    BY <2>2, <2>3, <2>5 DEF QueueInv
  <2>12. ASSUME NEW n \in 1..last, NEW k \in before'[queue'[n]], stage'[k] = "queued"
         PROVE  \E m \in 1..(n - 1) : queue'[m] = k
    <3>1. queue'[n] \in Ids
      BY <1>1, <2>2, <2>5
    <3>2. k \in Ids /\ k # i /\ stage[k] = "queued"
      BY <2>1, <2>4, <2>12, <3>1 DEF TypeOK
    <3>3. CASE n = last
      BY <2>2, <2>6, <3>2, <3>3 DEF QueueInv
    <3>4. CASE n \in 1..Len(queue)
      <4>1. PICK m \in 1..(n - 1) : queue[m] = k
        BY <2>1, <2>2, <2>12, <3>2, <3>4 DEF QueueInv
      <4>2. m \in 1..Len(queue)
        BY <2>2, <3>4, <4>1 DEF TypeOK
      <4>3. QED
        BY <2>2, <4>1, <4>2
    <3>5. QED
      BY <2>5, <3>3, <3>4
  <2>13. QED
    BY <2>2, <2>8, <2>9, <2>10, <2>11, <2>12 DEF QueueInv
<1>5. ASSUME NEW i \in Ids, Take(i)
      PROVE  QueueInv'
  <2> DEFINE last == Len(queue) - 1
  <2>1. /\ stage' = [stage EXCEPT ![i] = "taken"]
        /\ before' = before /\ answered' = answered
    BY <1>5 DEF Take, Advance
  <2>2. /\ Len(queue') = last /\ last \in Nat /\ queue[1] = i
        /\ \A n \in 1..last : queue'[n] = queue[n + 1]
    BY <1>5 DEF Take, TypeOK
  <2>3. /\ 1 \in 1..Len(queue)
        /\ \A n \in 1..last : n + 1 \in 1..Len(queue) /\ n + 1 # 1
    BY <2>2
  <2>4. \A n \in 1..last : queue'[n] \in Ids /\ queue'[n] # i
    BY <1>1, <2>2, <2>3 DEF QueueInv
  <2>5. \A k \in Ids : before'[k] \subseteq answered'
    BY <2>1 DEF QueueInv
  <2>6. ASSUME NEW k \in Ids, stage'[k] = "queued"
        PROVE  \E n \in 1..last : queue'[n] = k
    <3>1. k # i /\ stage[k] = "queued"
      BY <2>1, <2>6 DEF TypeOK
    <3>2. PICK n \in 1..Len(queue) : queue[n] = k
      BY <3>1 DEF QueueInv
    <3>3. n # 1 /\ n - 1 \in 1..last /\ (n - 1) + 1 = n
      BY <2>2, <3>1, <3>2
    <3>4. QED
      BY <2>2, <3>2, <3>3
  <2>7. \A n \in 1..last : stage'[queue'[n]] = "queued"
    <3>1. ASSUME NEW n \in 1..last
          PROVE  stage[queue'[n]] = "queued"
      BY <2>2, <2>3 DEF QueueInv
    <3>2. QED
      BY <2>1, <2>4, <3>1 DEF TypeOK
  <2>8. \A m, n \in 1..last : queue'[m] = queue'[n] => m = n
    <3>1. \A m, n \in 1..last : m + 1 = n + 1 => m = n
      BY <2>2
    <3>2. QED
      BY <2>2, <2>3, <3>1 DEF QueueInv
  <2>9. ASSUME NEW n \in 1..last, NEW k \in before'[queue'[n]], stage'[k] = "queued"
        PROVE  \E m \in 1..(n - 1) : queue'[m] = k
    <3>1. k \in Ids /\ k # i /\ stage[k] = "queued"
      BY <2>1, <2>4, <2>9 DEF TypeOK
    <3>2. PICK m \in 1..n : queue[m] = k
      <4>1. n + 1 \in 1..Len(queue) /\ (n + 1) - 1 = n /\ k \in before[queue[n + 1]]
        BY <2>1, <2>2, <2>3, <2>9
      <4>2. QED
        BY <3>1, <4>1 DEF QueueInv
    <3>3. m # 1 /\ m - 1 \in 1..(n - 1) /\ m - 1 \in 1..last /\ (m - 1) + 1 = m
      BY <2>2, <3>1, <3>2
    <3>4. QED
      BY <2>2, <3>2, <3>3
  <2> HIDE DEF last
  <2>10. QED
    BY <2>2, <2>5, <2>6, <2>7, <2>8, <2>9 DEF QueueInv
<1>6. ASSUME NEW i \in Ids,
             \/ AnswerSync(i) \/ StartRun(i) \/ RunEnds(i) \/ SetExecutionTime(i)
             \/ SetFinished(i) \/ SetStatus(i) \/ SetDone(i)
      PROVE  QueueInv'
  BY <1>2, <1>6 DEF AnswerSync, StartRun, RunEnds, SetExecutionTime, SetFinished, SetStatus,
     SetDone, Advance, TypeOK, jobs
<1>7. ASSUME NEW c \in Callers, Poll(c)
      PROVE  QueueInv'
  BY <1>2, <1>7 DEF Poll, Lookup, ReadStatus, ReadField, Answer, jobs
<1>8. CASE Tick \/ UNCHANGED vars
  BY <1>2, <1>8 DEF Tick, vars, jobs
<1>9. QED
  BY <1>3, <1>4, <1>5, <1>6, <1>7, <1>8 DEF Next, JobStep

LEMMA FirstInitially == Init => FirstComeFirstServed
BY DEF Init, FirstComeFirstServed, Executing

LEMMA FirstStep ==
    TypeOK /\ TableInv /\ QueueInv /\ FirstComeFirstServed /\ [Next]_vars
        => FirstComeFirstServed'
<1> SUFFICES ASSUME TypeOK, TableInv, QueueInv, FirstComeFirstServed, [Next]_vars
             PROVE  FirstComeFirstServed'
  OBVIOUS
<1> DEFINE Begun == Executing \cup {"over"}
<1>1. ASSUME before' = before,
             \A i \in Ids : stage'[i] \in Begun <=> stage[i] \in Begun
      PROVE  FirstComeFirstServed'
  BY <1>1 DEF FirstComeFirstServed, TypeOK
<1>2. ASSUME NEW i \in Ids, Submit(i)
      PROVE  FirstComeFirstServed'
  BY <1>2 DEF Submit, Advance, FirstComeFirstServed, Executing, TypeOK
<1>3. ASSUME NEW i \in Ids, Take(i)
      PROVE  FirstComeFirstServed'
  <2>1. /\ stage' = [stage EXCEPT ![i] = "taken"] /\ before' = before
        /\ 1 \in 1..Len(queue) /\ queue[1] = i
    BY <1>3 DEF Take, Advance, TypeOK
  <2>2. \A k \in before[i] : stage[k] # "queued"
    BY <2>1 DEF QueueInv
  <2>3. \A k \in before[i] : k \in Ids /\ stage[k] \in Begun
    BY <2>2 DEF QueueInv, TableInv, TypeOK, Stages, Executing
  <2>4. QED
    BY <2>1, <2>3 DEF FirstComeFirstServed, Executing, TypeOK
<1>4. ASSUME NEW i \in Ids,
             \/ Enqueue(i) \/ AnswerSync(i) \/ StartRun(i) \/ RunEnds(i)
             \/ SetExecutionTime(i) \/ SetFinished(i) \/ SetStatus(i) \/ SetDone(i)
      PROVE  FirstComeFirstServed'
  BY <1>1, <1>4 DEF Enqueue, AnswerSync, StartRun, RunEnds, SetExecutionTime, SetFinished,
     SetStatus, SetDone, Advance, Executing, TypeOK, jobs
<1>5. ASSUME NEW c \in Callers, Poll(c)
      PROVE  FirstComeFirstServed'
  BY <1>1, <1>5 DEF Poll, Lookup, ReadStatus, ReadField, Answer, jobs
<1>6. CASE Tick \/ UNCHANGED vars
  BY <1>1, <1>6 DEF Tick, vars, jobs
<1>7. QED
  BY <1>2, <1>3, <1>4, <1>5, <1>6 DEF Next, JobStep

\* A job submitted after another one was answered is never started before it.
THEOREM QueueIsFair == Spec => []FirstComeFirstServed
BY TypeInitially, TypeStep, DictInitially, DictStep, TableInitially, TableStep,
   QueueInitially, QueueStep, FirstInitially, FirstStep, PTL DEF Spec

(***************************************************************************)
(* One answer after the other.                                             *)
(***************************************************************************)
LEMMA RankType == ASSUME NEW s PROVE Rank(s) \in 1..4
BY DEF Rank

\* A job never goes back.
LEMMA StatusGrows ==
    ASSUME TypeOK, DictInv, [Next]_vars, NEW i \in Ids
    PROVE  Rank(status[i]) <= Rank(status'[i])
<1>1. CASE status'[i] = status[i]
  BY <1>1, RankType
<1>2. ASSUME NEW k \in Ids, StartRun(k)
      PROVE  Rank(status[i]) <= Rank(status'[i])
  <2>1. status'[i] = status[i] \/ (status[i] = "IN_QUEUE" /\ status'[i] = "IN_PROGRESS")
    BY <1>2 DEF StartRun, Advance, DictInv, TypeOK
  <2>2. QED
    BY <1>1, <2>1 DEF Rank
<1>3. ASSUME NEW k \in Ids, SetStatus(k)
      PROVE  Rank(status[i]) <= Rank(status'[i])
  <2>1. \/ status'[i] = status[i]
        \/ status[i] = "IN_PROGRESS" /\ status'[i] \in Terminal
    BY <1>3 DEF SetStatus, Advance, Outcome, Terminal, DictInv, TypeOK
  <2>2. QED
    BY <1>1, <2>1 DEF Rank, Terminal
<1>4. QED
  BY <1>1, <1>2, <1>3 DEF Next, Submit, JobStep, Enqueue, AnswerSync, Take,
     RunEnds, SetExecutionTime, SetFinished, SetDone, Poll, Lookup,
     ReadStatus, ReadField, Answer, Tick, jobs, vars

\* What a caller has heard, what its open call has read and what the job has
\* reached are in this order; a job that is gone is never read again.
SeenInv ==
    \A c \in Callers :
        LET p == poll[c]
            h == heard[c]
        IN
        /\ h.id # "none" => h.status # "none"
        /\ h.status \in Statuses => Rank(h.status) <= Rank(status[h.id])
        /\ p.status # "none" => Rank(p.status) <= Rank(status[p.id])
        /\ p.id # "none" /\ p.id = h.id =>
              /\ h.status # "404"
              /\ p.status # "none" => Rank(h.status) <= Rank(p.status)

LEMMA SeenInitially == Init => SeenInv
BY DEF Init, SeenInv, NoCall, Call, Silence, Reply, Statuses, Terminal

\* An open call has a job, and it has one as long as it has read anything.
LEMMA CallNames ==
    ASSUME TypeOK, PollInv, NEW c \in Callers
    PROVE  /\ poll[c] \in Calls /\ heard[c] \in Answers
           /\ poll[c].id # "none" => poll[c].id \in Ids
           /\ poll[c].status # "none" => poll[c].id \in Ids
<1>1. poll[c] \in Calls /\ heard[c] \in Answers
  BY DEF TypeOK
<1>2. poll[c].status # "none" => poll[c].id # "none"
  BY DEF PollInv, NoCall, Call
<1>3. QED
  BY <1>1, <1>2 DEF Calls

LEMMA SeenStep ==
    TypeOK /\ DictInv /\ PollInv /\ GoneInv /\ SeenInv /\ [Next]_vars => SeenInv'
<1> SUFFICES ASSUME TypeOK, DictInv, PollInv, GoneInv, SeenInv, [Next]_vars,
                    NEW c \in Callers
             PROVE  SeenInv!(c)'
  BY DEF SeenInv
<1>1. \A i \in Ids : Rank(status[i]) <= Rank(status'[i])
  BY StatusGrows
<1>2. poll[c].status # "none" => poll[c].id \in Ids
  BY CallNames
<1>3. heard[c].status # "none" => heard[c].id \in Ids
  BY DEF GoneInv
<1>4. /\ heard[c].status \in Statuses => Rank(heard[c].status) <= Rank(status'[heard[c].id])
      /\ poll[c].status # "none" => Rank(poll[c].status) <= Rank(status'[poll[c].id])
  BY <1>1, <1>2, <1>3, RankType DEF SeenInv, Statuses, Terminal
<1>5. CASE poll'[c] = poll[c] /\ heard'[c] = heard[c]
  BY <1>4, <1>5 DEF SeenInv
<1>6. ASSUME NEW i \in Ids, Lookup(c, i)
      PROVE  SeenInv!(c)'
  <2>1. i # "none"
    BY JobsAssumption
  <2>2. CASE i \in Kept
    <3>1. poll'[c] = Call(i) /\ heard'[c] = heard[c]
      BY <1>6, <2>2 DEF Lookup, TypeOK
    <3>2. ~ (heard[c].id = i /\ heard[c].status = "404")
      BY <2>2, TerminalMeansEnded DEF Kept, Expired, GoneInv
    <3>3. QED
      BY <1>4, <3>1, <3>2 DEF SeenInv, Call
  <2>3. CASE i \notin Kept
    <3>1. poll'[c] = NoCall /\ heard'[c] = Reply(i, "404")
      BY <1>6, <2>3 DEF Lookup, TypeOK
    <3>2. QED
      BY <3>1 DEF NoCall, Call, Reply, Statuses, Terminal
  <2>4. QED
    BY <2>2, <2>3
<1>7. CASE ReadStatus(c)
  <2>1. poll[c].id \in Ids /\ poll[c] \in Calls
    BY <1>7, CallNames DEF ReadStatus
  <2>2. /\ poll'[c] = [poll[c] EXCEPT !.status = status[poll[c].id]]
        /\ heard' = heard /\ status' = status
    BY <1>7 DEF ReadStatus, TypeOK, jobs
  <2>3. poll'[c].id = poll[c].id /\ poll'[c].status = status[poll[c].id]
    BY <2>1, <2>2 DEF Calls
  <2>4. heard[c].id = poll[c].id => heard[c].status \in Statuses
    BY <2>1, JobsAssumption, CallNames DEF SeenInv, Answers
  <2>5. QED
    BY <2>1, <2>2, <2>3, <2>4, RankType DEF SeenInv
<1>8. CASE ReadField(c)
  <2>1. poll[c] \in Calls
    BY CallNames
  <2>2. poll'[c].id = poll[c].id /\ poll'[c].status = poll[c].status /\ heard' = heard
    BY <1>8, <2>1 DEF ReadField, TypeOK, Calls
  <2>3. QED
    BY <1>4, <2>2 DEF SeenInv
<1>9. CASE Answer(c)
  <2>1. /\ poll'[c] = NoCall
        /\ heard'[c].id = poll[c].id /\ heard'[c].status = poll[c].status
        /\ poll[c].status # "none"
    BY <1>9 DEF Answer, TypeOK
  <2>2. QED
    BY <1>4, <2>1 DEF NoCall, Call
<1>10. QED
  <2>1. ASSUME NEW k \in Ids, Submit(k) \/ JobStep(k)
        PROVE  poll' = poll /\ heard' = heard
    BY <2>1 DEF Submit, JobStep, Enqueue, AnswerSync, Take, StartRun, RunEnds,
       SetExecutionTime, SetFinished, SetStatus, SetDone
  <2>2. ASSUME NEW d \in Callers \ {c}, Poll(d)
        PROVE  poll'[c] = poll[c] /\ heard'[c] = heard[c]
    BY <2>2 DEF Poll, Lookup, ReadStatus, ReadField, Answer, TypeOK
  <2>3. CASE Poll(c)
    BY <1>6, <1>7, <1>8, <1>9, <2>3 DEF Poll
  <2>4. QED
    BY <1>5, <2>1, <2>2, <2>3 DEF Next, Tick, vars

LEMMA AnswerStep ==
    ASSUME TypeOK, PollInv, GoneInv, SeenInv, [Next]_vars, NEW c \in Callers,
           heard[c].id = heard'[c].id
    PROVE  Rank(heard[c].status) <= Rank(heard'[c].status)
<1>1. CASE heard'[c] = heard[c]
  BY <1>1, RankType
<1>2. ASSUME NEW i \in Ids, Lookup(c, i)
      PROVE  Rank(heard[c].status) <= Rank(heard'[c].status)
  <2>1. heard'[c] = heard[c] \/ heard'[c] = Reply(i, "404")
    BY <1>2 DEF Lookup, TypeOK
  <2>2. Rank("404") = 4
    BY DEF Rank, Terminal
  <2>3. QED
    BY <1>1, <2>1, <2>2, RankType DEF Reply
<1>3. CASE Answer(c)
  BY <1>3, CallNames, JobsAssumption DEF Answer, TypeOK, SeenInv
<1>4. QED
  <2>1. ASSUME NEW k \in Ids, Submit(k) \/ JobStep(k)
        PROVE  heard' = heard
    BY <2>1 DEF Submit, JobStep, Enqueue, AnswerSync, Take, StartRun, RunEnds,
       SetExecutionTime, SetFinished, SetStatus, SetDone
  <2>2. ASSUME NEW d \in Callers \ {c}, Poll(d)
        PROVE  heard'[c] = heard[c]
    BY <2>2 DEF Poll, Lookup, ReadStatus, ReadField, Answer, TypeOK
  <2>3. CASE Poll(c)
    BY <1>1, <1>2, <1>3, <2>3 DEF Poll, ReadStatus, ReadField
  <2>4. QED
    BY <1>1, <2>1, <2>2, <2>3 DEF Next, Tick, vars

\* Polled by one caller, a job never goes back.
THEOREM PollsGoForward == Spec => AnswersNeverGoBack
<1>1. TypeOK /\ PollInv /\ GoneInv /\ SeenInv /\ [Next]_vars =>
        [\A c \in Callers : heard[c].id = heard'[c].id =>
            Rank(heard[c].status) <= Rank(heard'[c].status)]_vars
  BY AnswerStep
<1>2. QED
  BY <1>1, TypeInitially, TypeStep, DictInitially, DictStep, PollInitially, PollStep,
     TableInitially, TableStep, GoneInitially, GoneStep, SeenInitially, SeenStep, PTL
  DEF Spec, AnswersNeverGoBack

(***************************************************************************)
(* Nobody waits on everybody.                                              *)
(***************************************************************************)
\* A job that has not ended, or whose caller waits for the answer.
Pending(i) ==
    \/ stage[i] \notin {"new", "over"}
    \/ stage[i] = "over" /\ i \notin answered

\* A thread of the job has something to do, and nothing to wait for: the guards of
\* JobStep.
Able(i) ==
    \/ stage[i] = "stored"
    \/ i \in SyncIds \ answered /\ done[i]
    \/ stage[i] \in Executing
    \/ /\ queue # << >>
       /\ i = Head(queue)
       /\ Cardinality({k \in Ids : stage[k] \in Executing}) < Workers
       /\ stage[i] = "queued"

\* The caller of a job that is over has been answered, or its event is set.
AnswerInv ==
    \A i \in Ids :
        /\ stage[i] = "over" => done[i]
        /\ i \notin SyncIds /\ stage[i] \notin {"new", "stored"} => i \in answered

LEMMA AnswerInitially == Init => AnswerInv
BY DEF Init, AnswerInv

LEMMA AnswerKept == TypeOK /\ AnswerInv /\ [Next]_vars => AnswerInv'
<1> SUFFICES ASSUME TypeOK, AnswerInv, [Next]_vars, NEW i \in Ids
             PROVE  /\ stage'[i] = "over" => done'[i]
                    /\ i \notin SyncIds /\ stage'[i] \notin {"new", "stored"} => i \in answered'
  BY DEF AnswerInv
<1>1. /\ stage[i] = "over" => done[i]
      /\ i \notin SyncIds /\ stage[i] \notin {"new", "stored"} => i \in answered
  BY DEF AnswerInv
<1>2. stage \in [Ids -> Stages] /\ done \in [Ids -> BOOLEAN]
  BY DEF TypeOK
<1>3. ASSUME NEW k \in Ids, Submit(k) \/ JobStep(k)
      PROVE  /\ stage'[i] = "over" => done'[i]
             /\ i \notin SyncIds /\ stage'[i] \notin {"new", "stored"} => i \in answered'
  BY <1>1, <1>2, <1>3 DEF Submit, JobStep, Enqueue, AnswerSync, Take, StartRun, RunEnds,
     SetExecutionTime, SetFinished, SetStatus, SetDone, Advance, jobs
<1>4. CASE UNCHANGED <<stage, done, answered>>
  BY <1>1, <1>4
<1>5. QED
  BY <1>3, <1>4 DEF Next, Poll, Lookup, ReadStatus, ReadField, Answer, Tick, jobs, vars

\* No job is stuck and none is forgotten: as long as one has not ended, or its
\* caller waits, some job has a thread that can go on, for a queued job is in the
\* queue until a worker takes it and a worker is busy only with a job that can go on
\* itself (submit(), _execute() and the event of /runsync).
THEOREM SomebodyGoesOn ==
    Spec => []((\E i \in Ids : Pending(i)) => \E k \in Ids : Able(k))
<1>1. TypeOK /\ AnswerInv /\ QueueInv => ((\E i \in Ids : Pending(i)) => \E k \in Ids : Able(k))
  <2> SUFFICES ASSUME TypeOK, AnswerInv, QueueInv, NEW i \in Ids, Pending(i)
               PROVE  \E k \in Ids : Able(k)
    OBVIOUS
  <2>1. CASE \E k \in Ids : stage[k] \in Executing
    BY <2>1 DEF Able
  <2>2. CASE stage[i] = "queued" /\ ~ \E k \in Ids : stage[k] \in Executing
    <3>1. PICK n \in 1..Len(queue) : queue[n] = i
      BY <2>2 DEF QueueInv
    <3>2. queue \in Seq(Ids) /\ queue # << >>
      BY <3>1 DEF TypeOK
    <3>3. 1 \in 1..Len(queue) /\ Head(queue) = queue[1] /\ Head(queue) \in Ids
      BY <3>2
    <3>4. stage[Head(queue)] = "queued"
      BY <3>3 DEF QueueInv
    <3>5. {k \in Ids : stage[k] \in Executing} = {}
      BY <2>2
    <3>6. Cardinality({k \in Ids : stage[k] \in Executing}) < Workers
      <4>1. Cardinality({k \in Ids : stage[k] \in Executing}) = 0
        BY <3>5, FS_EmptySet
      <4>2. 0 < Workers
        BY NumbersAssumption
      <4>3. QED
        BY <4>1, <4>2
    <3>7. QED
      BY <3>2, <3>3, <3>4, <3>6 DEF Able
  <2>3. CASE stage[i] = "stored"
    BY <2>3 DEF Able
  <2>4. CASE stage[i] = "over" /\ i \notin answered
    BY <2>4 DEF Able, AnswerInv
  <2>5. QED
    BY <2>1, <2>2, <2>3, <2>4 DEF Pending, TypeOK, Stages
<1>2. QED
  BY <1>1, TypeInitially, TypeStep, DictInitially, DictStep, TableInitially, TableStep,
     QueueInitially, QueueStep, AnswerInitially, AnswerKept, PTL DEF Spec
=============================================================================
