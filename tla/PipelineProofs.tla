--------------------------- MODULE PipelineProofs ---------------------------
(***************************************************************************)
(* Proofs about Pipeline, for every set of jobs and every value of its     *)
(* constants.                                                              *)
(***************************************************************************)
EXTENDS Pipeline, FiniteSetTheorems, TLAPS

\* The steps of a job before its encode.
BeforeEncode == {"queued", "disk", "diskRecheck", "download", "sniff", "probe", "plan"}

\* The ladder is climbed from its first rung, and the rung being tried exists.
OnLadder ==
    \A j \in Jobs :
        /\ pc[j] \in BeforeEncode => attempt[j] = 1
        /\ pc[j] = "encode" => /\ plan[j] \in VideoPlans \ {"unchanged"}
                               /\ attempt[j] <= Len(Ladder(plan[j]))

\* A file on its way to the bucket has passed the post-check, or was saved.
OutputChecked ==
    \A j \in Jobs :
        \/ pc[j] = "putOutput"
        \/ pc[j] \in {"thumbnail", "gate"} /\ plan[j] # "unchanged"
        => output[j] = "good"

LEMMA LadderLength ==
    ASSUME NEW p
    PROVE  /\ Ladder(p) \in Seq(Rungs)
           /\ Len(Ladder(p)) \in Nat
           /\ 1 <= Len(Ladder(p))
           /\ Len(Ladder(p)) <= 3
<1>1. CASE p = "remux"
  BY <1>1 DEF Ladder, Rungs
<1>2. CASE p # "remux" /\ Gpu /\ p = "encode"
  BY <1>2 DEF Ladder, Rungs
<1>3. CASE p # "remux" /\ Gpu /\ p = "tonemap"
  BY <1>3 DEF Ladder, Rungs
<1>4. CASE p # "remux" /\ ~ (Gpu /\ p \in {"encode", "tonemap"})
  BY <1>4 DEF Ladder, Rungs
<1>5. QED
  BY <1>1, <1>2, <1>3, <1>4

LEMMA JobErrorType ==
    ASSUME NEW code \in ErrorCodes, NEW retryable \in BOOLEAN
    PROVE  JobError(code, retryable) \in JobErrors
BY DEF JobError, JobErrors

LEMMA ProbeErrorType == ProbeErrors \subseteq JobErrors
BY JobErrorType DEF ProbeErrors, ErrorCodes

\* Failing with a JobError builds a result and goes to the finally block.
LEMMA FailTypes ==
    ASSUME NEW j \in Jobs, NEW err \in JobErrors, Fail(j, err), TypeOK
    PROVE  /\ result' \in [Jobs -> Results]
           /\ pc' = [pc EXCEPT ![j] = "cleanup"]
BY DEF Fail, Goto, JobErrors, Result, Results, TypeOK

\* An abandoned output file keeps the types of the directory.
LEMMA PartialFileTypes ==
    ASSUME NEW j \in Jobs, PartialFile(j), TypeOK
    PROVE  /\ output' \in [Jobs -> {"none", "partial", "good", "bad"}]
           /\ size' \in [Jobs -> 0..MaxOutput]
BY DEF PartialFile, TypeOK

\* So does a bucket that takes the file of an upload.
LEMMA StoredTypes ==
    ASSUME NEW j \in Jobs, Stored(j), pc[j] = "putOutput" => output[j] = "good", TypeOK
    PROVE  store' \in [Jobs -> Objects]
BY DEF Stored, TypeOK, Objects

TypeInv == TypeOK /\ OnLadder /\ OutputChecked

\* A job that fails is past its encode and uploads nothing.
LEMMA FailKeeps ==
    ASSUME NEW j \in Jobs, NEW err \in JobErrors, Fail(j, err), TypeInv,
           UNCHANGED <<plan, attempt>>,
           \A i \in Jobs \ {j} : output'[i] = output[i]
    PROVE  OnLadder' /\ OutputChecked'
BY DEF Fail, Goto, TypeInv, TypeOK, OnLadder, OutputChecked, BeforeEncode

LEMMA NextRung ==
    ASSUME NEW j \in Jobs, TypeInv, pc[j] = "encode", ~ LastRung(j)
    PROVE  attempt[j] + 1 \in 1..3 /\ attempt[j] + 1 <= Len(Ladder(plan[j]))
<1>1. Len(Ladder(plan[j])) \in Nat /\ Len(Ladder(plan[j])) <= 3
  BY LadderLength
<1>2. attempt[j] \in 1..3 /\ attempt[j] <= Len(Ladder(plan[j]))
  BY DEF TypeInv, TypeOK, OnLadder
<1>3. attempt[j] # Len(Ladder(plan[j]))
  BY DEF LastRung
<1>4. QED
  BY <1>1, <1>2, <1>3

LEMMA NextTry ==
    ASSUME NEW j \in Jobs, TypeOK, ~ LastTry(j)
    PROVE  tries[j] + 1 \in 0..(Attempts - 1)
<1>1. tries[j] \in 0..2 /\ tries[j] # 2
  BY DEF LastTry, Attempts, TypeOK
<1>2. QED
  BY <1>1 DEF Attempts

\* A step that does nothing but fail.
LEMMA FailStep ==
    ASSUME NEW j \in Jobs, TypeInv,
           \E err \in JobErrors : Fail(j, err),
           UNCHANGED <<late, locals, workdir, world>>
    PROVE  TypeInv'
<1> PICK err \in JobErrors : Fail(j, err)
  OBVIOUS
<1>1. TypeOK
  BY DEF TypeInv
<1>2. OnLadder' /\ OutputChecked'
  BY FailKeeps DEF locals, workdir
<1>3. /\ result' \in [Jobs -> Results]
      /\ pc' = [pc EXCEPT ![j] = "cleanup"]
  BY <1>1, FailTypes
<1>4. TypeOK'
  BY <1>1, <1>3 DEF TypeOK, Steps, TryBlock, locals, workdir, world
<1>5. QED
  BY <1>2, <1>4 DEF TypeInv

\* The JobErrors the steps of process() raise.
LEMMA RaisedErrors ==
    /\ \A code \in {"UNSUPPORTED_VERSION", "INVALID_JOB", "SOURCE_HOST_NOT_ALLOWED",
                     "UNSUPPORTED_INPUT", "DURATION_TOO_LONG"} :
          JobError(code, FALSE) \in JobErrors
    /\ JobError("INTERNAL", TRUE) \in JobErrors
    /\ JobError("TIMEOUT", TRUE) \in JobErrors
    /\ JobError("UPLOAD_FAILED", TRUE) \in JobErrors
    /\ JobError("DOWNLOAD_FAILED", TRUE) \in JobErrors
    /\ JobError("DOWNLOAD_FAILED", FALSE) \in JobErrors
    /\ JobError("INPUT_TOO_LARGE", FALSE) \in JobErrors
    /\ JobError("ENCODE_FAILED", FALSE) \in JobErrors
BY JobErrorType DEF ErrorCodes

LEMMA TypeInitially == Init => TypeInv
BY RequestsAssumption, SizesAssumption
DEF Init, TypeInv, TypeOK, OnLadder, OutputChecked, BeforeEncode, Steps, Attempts, NoResult, Result, Results, Nothing, Objects

LEMMA TypeStep == TypeInv /\ [Next]_vars => TypeInv'
<1> SUFFICES ASSUME TypeInv, [Next]_vars
             PROVE  TypeInv'
  OBVIOUS
<1> USE SizesAssumption
    DEF TypeInv, TypeOK, OnLadder, OutputChecked, BeforeEncode, 
        Goto, ErrorCodes, Steps, TryBlock, locals, workdir, world
<1>1. ASSUME NEW j \in Jobs, Accept(j)
      PROVE  TypeInv'
  BY <1>1 DEF Accept
<1>2. ASSUME NEW j \in Jobs, Reject(j)
      PROVE  TypeInv'
  <2>1. \E err \in JobErrors : Fail(j, err)
    BY <1>2, RaisedErrors DEF Reject
  <2>2. UNCHANGED <<late, locals, workdir, world>>
    BY <1>2 DEF Reject
  <2>3. QED
    BY <2>1, <2>2, FailStep
<1>3. ASSUME NEW j \in Jobs, MakeWorkdir(j)
      PROVE  TypeInv'
  BY <1>3 DEF MakeWorkdir
<1>4. ASSUME NEW j \in Jobs, WaitForDisk(j)
      PROVE  TypeInv'
  BY <1>4 DEF WaitForDisk
<1>5. ASSUME NEW j \in Jobs, DiskShort(j)
      PROVE  TypeInv'
  <2>1. \E err \in JobErrors : Fail(j, err)
    BY <1>5, RaisedErrors DEF DiskShort
  <2>2. UNCHANGED <<late, locals, workdir, world>>
    BY <1>5 DEF DiskShort
  <2>3. QED
    BY <2>1, <2>2, FailStep
<1>6. ASSUME NEW j \in Jobs, FetchRefused(j)
      PROVE  TypeInv'
  <2>1. \E err \in JobErrors : Fail(j, err)
    BY <1>6, RaisedErrors DEF FetchRefused
  <2>2. UNCHANGED <<late, locals, workdir, world>>
    BY <1>6 DEF FetchRefused
  <2>3. QED
    BY <2>1, <2>2, FailStep
<1>7. ASSUME NEW j \in Jobs, FetchBroken(j)
      PROVE  TypeInv'
  <2>1. \E err \in JobErrors : Fail(j, err)
    BY <1>7, RaisedErrors DEF FetchBroken
  <2>2. UNCHANGED <<late, locals, workdir, world>>
    BY <1>7 DEF FetchBroken
  <2>3. QED
    BY <2>1, <2>2, FailStep
<1>8. ASSUME NEW j \in Jobs, ChunkWritten(j)
      PROVE  TypeInv'
  <2>1. /\ input' = [input EXCEPT ![j] = input[j] + 1]
        /\ UNCHANGED <<pc, late, locals, result, dir, output, size, world>>
    BY <1>8 DEF ChunkWritten
  <2>2. input[j] + 1 \in 0..MaxBytes
    BY <1>8 DEF ChunkWritten, OverLimit
  <2>3. TypeOK'
    BY <2>1, <2>2
  <2>4. OnLadder' /\ OutputChecked'
    BY <2>1
  <2>5. QED
    BY <2>3, <2>4
<1>9. ASSUME NEW j \in Jobs, ChunkRefused(j)
      PROVE  TypeInv'
  <2>1. \E err \in JobErrors : Fail(j, err)
    BY <1>9, RaisedErrors DEF ChunkRefused
  <2>2. UNCHANGED <<late, locals, workdir, world>>
    BY <1>9 DEF ChunkRefused
  <2>3. QED
    BY <2>1, <2>2, FailStep
<1>10. ASSUME NEW j \in Jobs, ChunkStarves(j)
      PROVE  TypeInv'
  <2>1. /\ Fail(j, JobError("INTERNAL", TRUE))
        /\ starved' = [starved EXCEPT ![j] = TRUE]
        /\ UNCHANGED <<late, locals, workdir, leaked, store, works>>
        /\ JobError("INTERNAL", TRUE) \in JobErrors
    BY <1>10, RaisedErrors DEF ChunkStarves
  <2>2. OnLadder' /\ OutputChecked'
    BY <2>1, FailKeeps
  <2>3. result' \in [Jobs -> Results] /\ pc' = [pc EXCEPT ![j] = "cleanup"]
    BY <2>1, FailTypes
  <2>4. TypeOK'
    BY <2>1, <2>3
  <2>5. QED
    BY <2>2, <2>4
<1>11. ASSUME NEW j \in Jobs, FetchEnds(j)
      PROVE  TypeInv'
  <2>1. CASE Goto(j, "sniff") /\ UNCHANGED result
    BY <1>11, <2>1 DEF FetchEnds
  <2>2. CASE \E err \in JobErrors : Fail(j, err) /\ UNCHANGED <<probed>>
    BY <1>11, <2>2, FailStep DEF FetchEnds
  <2>3. QED
    BY <1>11, <2>1, <2>2, RaisedErrors, ProbeErrorType DEF FetchEnds
<1>12. ASSUME NEW j \in Jobs, Sniff(j)
      PROVE  TypeInv'
  <2>1. CASE Goto(j, IF request[j].media = "video" THEN "probe" ELSE "image") /\ UNCHANGED result
    BY <1>12, <2>1 DEF Sniff
  <2>2. CASE \E err \in JobErrors : Fail(j, err) /\ UNCHANGED <<probed>>
    BY <1>12, <2>2, FailStep DEF Sniff
  <2>3. QED
    BY <1>12, <2>1, <2>2, RaisedErrors, ProbeErrorType DEF Sniff
<1>13. ASSUME NEW j \in Jobs, Probe(j)
      PROVE  TypeInv'
  <2>1. CASE /\ probed' = [probed EXCEPT ![j] = TRUE]
             /\ Goto(j, "plan")
             /\ UNCHANGED result
    BY <1>13, <2>1 DEF Probe
  <2>2. CASE \E err \in JobErrors : Fail(j, err) /\ UNCHANGED <<probed>>
    BY <1>13, <2>2, FailStep DEF Probe
  <2>3. QED
    BY <1>13, <2>1, <2>2, RaisedErrors, ProbeErrorType DEF Probe
<1>14. ASSUME NEW j \in Jobs, PlanRejected(j)
      PROVE  TypeInv'
  <2>1. \E err \in JobErrors : Fail(j, err)
    BY <1>14, RaisedErrors DEF PlanRejected
  <2>2. UNCHANGED <<late, locals, workdir, world>>
    BY <1>14 DEF PlanRejected
  <2>3. QED
    BY <2>1, <2>2, FailStep
<1>15. ASSUME NEW j \in Jobs, MakePlan(j)
      PROVE  TypeInv'
  <2>1. PICK p \in VideoPlans :
          /\ plan' = [plan EXCEPT ![j] = p]
          /\ IF p = "unchanged"
             THEN Goto(j, "thumbnail") /\ UNCHANGED works
             ELSE /\ Goto(j, "encode")
                  /\ \E rungs \in SUBSET {Ladder(p)[i] : i \in DOMAIN Ladder(p)} :
                        works' = [works EXCEPT ![j] = rungs]
    BY <1>15 DEF MakePlan
  <2>2. {Ladder(p)[i] : i \in DOMAIN Ladder(p)} \subseteq Rungs
    BY LadderLength
  <2>3. works' \in [Jobs -> SUBSET Rungs]
    <3>1. CASE p = "unchanged"
      BY <2>1, <3>1
    <3>2. CASE p # "unchanged"
      <4>1. PICK rungs \in SUBSET {Ladder(p)[i] : i \in DOMAIN Ladder(p)} :
               works' = [works EXCEPT ![j] = rungs]
        BY <2>1, <3>2
      <4>2. rungs \in SUBSET Rungs
        BY <2>2, <4>1
      <4>3. QED
        BY <4>1, <4>2
    <3>3. QED
      BY <3>1, <3>2
  <2>4. pc' = [pc EXCEPT ![j] = IF p = "unchanged" THEN "thumbnail" ELSE "encode"]
    BY <2>1
  <2>5. TypeOK'
    BY <1>15, <2>1, <2>3, <2>4 DEF MakePlan
  <2>6. OnLadder'
    <3>1. attempt[j] = 1 /\ UNCHANGED attempt
      BY <1>15 DEF MakePlan
    <3>2. 1 <= Len(Ladder(p))
      BY LadderLength
    <3>3. QED
      BY <2>1, <2>4, <3>1, <3>2
  <2>7. OutputChecked'
    BY <1>15, <2>1, <2>4 DEF MakePlan
  <2>8. QED
    BY <2>5, <2>6, <2>7
<1>16. ASSUME NEW j \in Jobs, EncodeExitsZero(j)
      PROVE  TypeInv'
  BY <1>16 DEF EncodeExitsZero
<1>17. ASSUME NEW j \in Jobs, EncodeExitsNonzero(j)
      PROVE  TypeInv'
  <2>1. CASE LastRung(j)
    <3>1. /\ Fail(j, JobError("ENCODE_FAILED", FALSE))
          /\ PartialFile(j)
          /\ UNCHANGED <<attempt, plan>>
      BY <1>17, <2>1 DEF EncodeExitsNonzero
    <3>2. JobError("ENCODE_FAILED", FALSE) \in JobErrors
      BY JobErrorType
    <3>3. OnLadder' /\ OutputChecked'
      BY <3>1, <3>2, FailKeeps DEF PartialFile
    <3>4. TypeOK'
      BY <1>17, <3>1, <3>2, FailTypes, PartialFileTypes DEF EncodeExitsNonzero
    <3>5. QED
      BY <3>3, <3>4
  <2>2. CASE ~ LastRung(j)
    <3>1. attempt[j] + 1 \in 1..3 /\ attempt[j] + 1 <= Len(Ladder(plan[j]))
      BY <1>17, <2>2, NextRung DEF EncodeExitsNonzero
    <3>2. /\ attempt' = [attempt EXCEPT ![j] = attempt[j] + 1]
          /\ output' = [output EXCEPT ![j] = "none"]
          /\ size' = [size EXCEPT ![j] = 0]
          /\ UNCHANGED <<pc, result, plan>>
      BY <1>17, <2>2 DEF EncodeExitsNonzero
    <3>3. attempt' \in [Jobs -> 1..3]
      BY <3>1, <3>2
    <3>4. /\ starved' \in [Jobs -> BOOLEAN]
          /\ size' \in [Jobs -> 0..MaxOutput]
      <4>1. UNCHANGED starved \/ starved' = [starved EXCEPT ![j] = TRUE]
        BY <1>17 DEF EncodeExitsNonzero
      <4>2. 0 \in 0..MaxOutput
        OBVIOUS
      <4>3. QED
        BY <3>2, <4>1, <4>2
    <3>5. TypeOK'
      BY <1>17, <3>2, <3>3, <3>4 DEF EncodeExitsNonzero
    <3>6. OnLadder'
      BY <1>17, <3>1, <3>2 DEF EncodeExitsNonzero
    <3>7. OutputChecked'
      BY <1>17, <3>2 DEF EncodeExitsNonzero
    <3>8. QED
      BY <3>5, <3>6, <3>7
  <2>3. QED
    BY <2>1, <2>2
<1>18. ASSUME NEW j \in Jobs, EncodeTimesOut(j)
      PROVE  TypeInv'
  <2>1. /\ Fail(j, JobError("TIMEOUT", TRUE))
        /\ PartialFile(j)
        /\ JobError("TIMEOUT", TRUE) \in JobErrors
    BY <1>18, RaisedErrors DEF EncodeTimesOut
  <2>2. OnLadder' /\ OutputChecked'
    BY <1>18, <2>1, FailKeeps DEF EncodeTimesOut, PartialFile
  <2>3. TypeOK'
    BY <1>18, <2>1, FailTypes, PartialFileTypes DEF EncodeTimesOut
  <2>4. QED
    BY <2>2, <2>3
<1>19. ASSUME NEW j \in Jobs, PostCheck(j)
      PROVE  TypeInv'
  <2>1. CASE PostCheckPasses(j) /\ Goto(j, "thumbnail") /\ UNCHANGED result
    BY <1>19, <2>1 DEF PostCheck, PostCheckPasses
  <2>2. CASE \E err \in JobErrors : Fail(j, err)
    BY <1>19, <2>2, FailStep DEF PostCheck
  <2>3. QED
    BY <1>19, <2>1, <2>2, RaisedErrors, ProbeErrorType DEF PostCheck
<1>20. ASSUME NEW j \in Jobs, Thumbnail(j)
      PROVE  TypeInv'
  BY <1>20 DEF Thumbnail
<1>21. ASSUME NEW j \in Jobs, ImageRejected(j)
      PROVE  TypeInv'
  <2>1. \E err \in JobErrors : Fail(j, err)
    BY <1>21, RaisedErrors DEF ImageRejected
  <2>2. UNCHANGED <<late, locals, workdir, world>>
    BY <1>21 DEF ImageRejected
  <2>3. QED
    BY <2>1, <2>2, FailStep
<1>22. ASSUME NEW j \in Jobs, ImageUnchanged(j)
      PROVE  TypeInv'
  BY <1>22 DEF ImageUnchanged, VideoPlans
<1>23. ASSUME NEW j \in Jobs, ImageSaved(j)
      PROVE  TypeInv'
  BY <1>23 DEF ImageSaved
<1>24. ASSUME NEW j \in Jobs, ImageNotSaved(j)
      PROVE  TypeInv'
  <2>1. /\ Fail(j, JobError("ENCODE_FAILED", FALSE))
        /\ PartialFile(j)
        /\ JobError("ENCODE_FAILED", FALSE) \in JobErrors
    BY <1>24, RaisedErrors DEF ImageNotSaved
  <2>2. OnLadder' /\ OutputChecked'
    BY <1>24, <2>1, FailKeeps DEF ImageNotSaved, PartialFile
  <2>3. TypeOK'
    BY <1>24, <2>1, FailTypes, PartialFileTypes DEF ImageNotSaved
  <2>4. QED
    BY <2>2, <2>3
<1>25. ASSUME NEW j \in Jobs, Gate(j)
      PROVE  TypeInv'
  <2>1. CASE Fail(j, JobError("TIMEOUT", TRUE))
    BY <1>25, <2>1, RaisedErrors, FailStep DEF Gate
  <2>2. CASE Goto(j, "report") /\ UNCHANGED result
    BY <1>25, <2>2 DEF Gate
  <2>3. CASE Goto(j, "putThumbnail") /\ UNCHANGED result
    BY <1>25, <2>3 DEF Gate
  <2>4. CASE Goto(j, "putOutput") /\ Changed(j) /\ UNCHANGED result
    BY <1>25, <2>4 DEF Gate, Changed
  <2>5. QED
    BY <1>25, <2>1, <2>2, <2>3, <2>4 DEF Gate
<1>26. ASSUME NEW j \in Jobs, PutAccepted(j)
      PROVE  TypeInv'
  <2>1. store' \in [Jobs -> Objects]
    BY <1>26, StoredTypes DEF PutAccepted
  <2>2. pc' = [pc EXCEPT ![j] = AfterPut(j)] /\ AfterPut(j) \in {"putThumbnail", "report"}
    BY <1>26 DEF PutAccepted, AfterPut
  <2>3. tries' \in [Jobs -> 0..(Attempts - 1)]
    BY <1>26 DEF PutAccepted, Attempts
  <2>4. pc' \in [Jobs -> Steps]
    BY <2>2
  <2>5. TypeOK'
    BY <1>26, <2>1, <2>3, <2>4 DEF PutAccepted
  <2>6. OnLadder' /\ OutputChecked'
    BY <1>26, <2>2 DEF PutAccepted
  <2>7. QED
    BY <2>5, <2>6
<1>27. ASSUME NEW j \in Jobs, PutUnanswered(j)
      PROVE  TypeInv'
  <2>1. store' \in [Jobs -> Objects]
    BY <1>27, StoredTypes DEF PutUnanswered
  <2>2. CASE LastTry(j)
    BY <1>27, <2>1, <2>2, RaisedErrors, FailKeeps, FailTypes DEF PutUnanswered
  <2>3. CASE ~ LastTry(j)
    <3>1. tries[j] + 1 \in 0..(Attempts - 1)
      BY <2>3, NextTry
    <3>2. tries' = [tries EXCEPT ![j] = tries[j] + 1] /\ UNCHANGED <<pc, result>>
      BY <1>27, <2>3 DEF PutUnanswered
    <3>3. QED
      BY <1>27, <2>1, <3>1, <3>2 DEF PutUnanswered
  <2>4. QED
    BY <2>2, <2>3
<1>28. ASSUME NEW j \in Jobs, PutRefused(j)
      PROVE  TypeInv'
  <2>1. \E err \in JobErrors : Fail(j, err)
    BY <1>28, RaisedErrors DEF PutRefused
  <2>2. UNCHANGED <<late, locals, workdir, world>>
    BY <1>28 DEF PutRefused
  <2>3. QED
    BY <2>1, <2>2, FailStep
<1>29. ASSUME NEW j \in Jobs, Report(j)
      PROVE  TypeInv'
  BY <1>29 DEF Report, Changed, Result, Results
<1>30. ASSUME NEW j \in Jobs, Crash(j)
      PROVE  TypeInv'
  <2>1. \E err \in JobErrors : Fail(j, err)
    BY <1>30, RaisedErrors DEF Crash
  <2>2. UNCHANGED <<late, locals, workdir, world>>
    BY <1>30 DEF Crash
  <2>3. QED
    BY <2>1, <2>2, FailStep
<1>31. ASSUME NEW j \in Jobs, Cleanup(j)
      PROVE  TypeInv'
  BY <1>31 DEF Cleanup
<1>32. ASSUME NEW j \in Jobs, DeadlinePasses(j)
      PROVE  TypeInv'
  BY <1>32 DEF DeadlinePasses
<1>33. CASE UNCHANGED vars
  BY <1>33 DEF vars
<1>34. QED
  BY <1>1, <1>2, <1>3, <1>4, <1>5, <1>6, <1>7, <1>8, <1>9, <1>10, <1>11, <1>12, <1>13, <1>14, <1>15, <1>16, <1>17, <1>18, <1>19, <1>20, <1>21, <1>22, <1>23, <1>24, <1>25, <1>26, <1>27, <1>28, <1>29, <1>30, <1>31, <1>32, <1>33 DEF Next, Step, Idle

\* Every reachable state is well-typed, and no job is handed to a rung its
\* ladder does not have (TypeOK of Pipeline, process() and its stages).
THEOREM TypeCorrect == Spec => []TypeOK
<1>1. TypeInv => TypeOK
  BY DEF TypeInv
<1>2. QED
  BY TypeInitially, TypeStep, <1>1, PTL DEF Spec
----------------------------------------------------------------------------
(***************************************************************************)
(* What is stored behind the URLs of a job at each of its steps.           *)
(***************************************************************************)
Bucket(j) ==
    /\ pc[j] \in BeforeUpload => store[j] = Nothing
    /\ pc[j] \in BeforeUpload \ {"gate"} => ~ shot[j]
    /\ pc[j] = "putOutput" => /\ Changed(j)
                              /\ store[j].output # "bad"
                              /\ store[j].thumbnail = "absent"
    /\ pc[j] = "putThumbnail" => /\ shot[j]
                                 /\ store[j].output = IF Changed(j) THEN "good" ELSE "absent"
    /\ pc[j] = "report" => /\ store[j].output = IF Changed(j) THEN "good" ELSE "absent"
                           /\ store[j].thumbnail = "good" <=> shot[j]
    /\ pc[j] \in {"cleanup", "returned"} => Agrees(result[j], store[j])

BucketInv == \A j \in Jobs : Bucket(j)

\* A step of job j leaves every other job as it is.
LEMMA OthersKeep ==
    ASSUME NEW j \in Jobs, BucketInv, Bucket(j)',
           \A i \in Jobs \ {j} : /\ pc'[i] = pc[i] /\ plan'[i] = plan[i]
                                /\ shot'[i] = shot[i] /\ store'[i] = store[i]
                                /\ result'[i] = result[i]
    PROVE  BucketInv'
<1>1. ASSUME NEW i \in Jobs PROVE Bucket(i)'
  <2>1. CASE i = j
    BY <2>1
  <2>2. CASE i # j
    BY <2>2 DEF BucketInv, Bucket, Changed
  <2>3. QED
    BY <2>1, <2>2
<1>2. QED
  BY <1>1 DEF BucketInv

\* A step from one stage before the uploads to another stores nothing.
LEMMA StaysBelow ==
    ASSUME TypeInv, BucketInv, NEW j \in Jobs, NEW step \in BeforeUpload \ {"gate"},
           pc[j] \in BeforeUpload \ {"gate"}, pc' = [pc EXCEPT ![j] = step],
           UNCHANGED <<shot, store, result>>,
           \A i \in Jobs \ {j} : plan'[i] = plan[i]
    PROVE  BucketInv'
<1>1. pc'[j] = step /\ \A i \in Jobs \ {j} : pc'[i] = pc[i]
  BY DEF TypeInv, TypeOK
<1>2. Bucket(j)
  BY DEF BucketInv
<1>3. Bucket(j)'
  BY <1>1, <1>2 DEF Bucket, BeforeUpload, Steps, TryBlock
<1>4. QED
  BY <1>1, <1>3, OthersKeep

\* A failure the caller must not retry is met before the uploads only, and no
\* failure leaves a bad file in the bucket.
LEMMA FailsCleanly ==
    ASSUME TypeInv, BucketInv, NEW j \in Jobs, NEW err \in JobErrors, Fail(j, err),
           \/ store'[j] = Nothing
           \/ err.retryable /\ store'[j].output # "bad",
           UNCHANGED <<plan, shot>>,
           \A i \in Jobs \ {j} : store'[i] = store[i]
    PROVE  BucketInv'
<1>1. /\ pc'[j] = "cleanup"
      /\ result'[j] = Result("failed", err.code, err.retryable, source[j], FALSE)
      /\ \A i \in Jobs \ {j} : pc'[i] = pc[i] /\ result'[i] = result[i]
  BY DEF Fail, Goto, TypeInv, TypeOK
<1>2. /\ result'[j].status = "failed"
      /\ result'[j].retryable = err.retryable
      /\ result'[j].thumbnail = FALSE
  BY <1>1 DEF Result
<1>3. Agrees(result'[j], store'[j])
  BY <1>2 DEF Agrees, Nothing
<1>4. Bucket(j)'
  BY <1>1, <1>3 DEF Bucket, BeforeUpload, Steps, TryBlock
<1>5. QED
  BY <1>1, <1>4, OthersKeep

LEMMA BucketInitially == Init => BucketInv
BY DEF Init, BucketInv, Bucket, BeforeUpload, Steps, TryBlock

LEMMA BucketStep == TypeInv /\ BucketInv /\ [Next]_vars => BucketInv'
<1> SUFFICES ASSUME TypeInv, BucketInv, [Next]_vars
             PROVE  BucketInv'
  OBVIOUS
<1> USE JobErrorType, ProbeErrorType
    DEF BeforeUpload, Steps, TryBlock, ErrorCodes, Goto, locals, workdir, world
<1>0. \A j \in Jobs : Bucket(j)
  BY DEF BucketInv
<1>1. ASSUME NEW j \in Jobs, Accept(j)
      PROVE  BucketInv'
  <2>1. PICK step \in BeforeUpload \ {"gate"} : pc' = [pc EXCEPT ![j] = step]
    BY <1>1 DEF Accept
  <2>2. QED
    BY <1>1, <2>1, StaysBelow DEF Accept
<1>2. ASSUME NEW j \in Jobs, Reject(j)
      PROVE  BucketInv'
  <2>1. PICK err \in JobErrors : Fail(j, err)
    BY <1>2 DEF Reject
  <2>2. store[j] = Nothing
    BY <1>0, <1>2 DEF Bucket, Reject
  <2>3. QED
    BY <1>2, <2>1, <2>2, FailsCleanly DEF Reject
<1>3. ASSUME NEW j \in Jobs, MakeWorkdir(j)
      PROVE  BucketInv'
  <2>1. PICK step \in BeforeUpload \ {"gate"} : pc' = [pc EXCEPT ![j] = step]
    BY <1>3 DEF MakeWorkdir
  <2>2. QED
    BY <1>3, <2>1, StaysBelow DEF MakeWorkdir
<1>4. ASSUME NEW j \in Jobs, WaitForDisk(j)
      PROVE  BucketInv'
  <2>1. PICK step \in BeforeUpload \ {"gate"} : pc' = [pc EXCEPT ![j] = step]
    BY <1>4 DEF WaitForDisk
  <2>2. QED
    BY <1>4, <2>1, StaysBelow DEF WaitForDisk
<1>5. ASSUME NEW j \in Jobs, DiskShort(j)
      PROVE  BucketInv'
  <2>1. PICK err \in JobErrors : Fail(j, err)
    BY <1>5 DEF DiskShort
  <2>2. store[j] = Nothing
    BY <1>0, <1>5 DEF Bucket, DiskShort
  <2>3. QED
    BY <1>5, <2>1, <2>2, FailsCleanly DEF DiskShort
<1>6. ASSUME NEW j \in Jobs, FetchRefused(j)
      PROVE  BucketInv'
  <2>1. PICK err \in {JobError("DOWNLOAD_FAILED", TRUE), JobError("DOWNLOAD_FAILED", FALSE),
                      JobError("INPUT_TOO_LARGE", FALSE)} : Fail(j, err)
    BY <1>6, Zenon DEF FetchRefused
  <2>2. err \in JobErrors
    BY <2>1
  <2>3. store[j] = Nothing
    BY <1>0, <1>6 DEF Bucket, FetchRefused
  <2>4. QED
    BY <1>6, <2>1, <2>2, <2>3, FailsCleanly DEF FetchRefused
<1>7. ASSUME NEW j \in Jobs, FetchBroken(j)
      PROVE  BucketInv'
  <2>1. PICK err \in JobErrors : Fail(j, err)
    BY <1>7 DEF FetchBroken
  <2>2. store[j] = Nothing
    BY <1>0, <1>7 DEF Bucket, FetchBroken
  <2>3. QED
    BY <1>7, <2>1, <2>2, FailsCleanly DEF FetchBroken
<1>8. ASSUME NEW j \in Jobs, ChunkWritten(j)
      PROVE  BucketInv'
  BY <1>8 DEF ChunkWritten, BucketInv, Bucket, Changed
<1>9. ASSUME NEW j \in Jobs, ChunkRefused(j)
      PROVE  BucketInv'
  <2>1. PICK err \in JobErrors : Fail(j, err)
    BY <1>9 DEF ChunkRefused
  <2>2. store[j] = Nothing
    BY <1>0, <1>9 DEF Bucket, ChunkRefused
  <2>3. QED
    BY <1>9, <2>1, <2>2, FailsCleanly DEF ChunkRefused
<1>10. ASSUME NEW j \in Jobs, ChunkStarves(j)
      PROVE  BucketInv'
  <2>1. PICK err \in JobErrors : Fail(j, err)
    BY <1>10 DEF ChunkStarves
  <2>2. store[j] = Nothing
    BY <1>0, <1>10 DEF Bucket, ChunkStarves
  <2>3. QED
    BY <1>10, <2>1, <2>2, FailsCleanly DEF ChunkStarves
<1>11. ASSUME NEW j \in Jobs, FetchEnds(j)
      PROVE  BucketInv'
  <2>1. pc[j] \in BeforeUpload \ {"gate"} /\ store[j] = Nothing
    BY <1>0, <1>11 DEF Bucket, FetchEnds
  <2>2. CASE \E err \in JobErrors : Fail(j, err)
    BY <1>11, <2>1, <2>2, FailsCleanly DEF FetchEnds
  <2>3. CASE \E step \in BeforeUpload \ {"gate"} : pc' = [pc EXCEPT ![j] = step] /\ UNCHANGED result
    BY <1>11, <2>1, <2>3, StaysBelow DEF FetchEnds
  <2>4. QED
    BY <1>11, <2>2, <2>3 DEF FetchEnds
<1>12. ASSUME NEW j \in Jobs, Sniff(j)
      PROVE  BucketInv'
  <2>1. pc[j] \in BeforeUpload \ {"gate"} /\ store[j] = Nothing
    BY <1>0, <1>12 DEF Bucket, Sniff
  <2>2. CASE \E err \in JobErrors : Fail(j, err)
    BY <1>12, <2>1, <2>2, FailsCleanly DEF Sniff
  <2>3. CASE \E step \in BeforeUpload \ {"gate"} : pc' = [pc EXCEPT ![j] = step] /\ UNCHANGED result
    BY <1>12, <2>1, <2>3, StaysBelow DEF Sniff
  <2>4. QED
    BY <1>12, <2>2, <2>3 DEF Sniff
<1>13. ASSUME NEW j \in Jobs, Probe(j)
      PROVE  BucketInv'
  <2>1. pc[j] \in BeforeUpload \ {"gate"} /\ store[j] = Nothing
    BY <1>0, <1>13 DEF Bucket, Probe
  <2>2. CASE \E err \in JobErrors : Fail(j, err)
    BY <1>13, <2>1, <2>2, FailsCleanly DEF Probe
  <2>3. CASE \E step \in BeforeUpload \ {"gate"} : pc' = [pc EXCEPT ![j] = step] /\ UNCHANGED result
    BY <1>13, <2>1, <2>3, StaysBelow DEF Probe
  <2>4. QED
    BY <1>13, <2>2, <2>3 DEF Probe
<1>14. ASSUME NEW j \in Jobs, PlanRejected(j)
      PROVE  BucketInv'
  <2>1. PICK err \in JobErrors : Fail(j, err)
    BY <1>14 DEF PlanRejected
  <2>2. store[j] = Nothing
    BY <1>0, <1>14 DEF Bucket, PlanRejected
  <2>3. QED
    BY <1>14, <2>1, <2>2, FailsCleanly DEF PlanRejected
<1>15. ASSUME NEW j \in Jobs, MakePlan(j)
      PROVE  BucketInv'
  <2>1. PICK p \in VideoPlans :
          /\ plan' = [plan EXCEPT ![j] = p]
          /\ IF p = "unchanged" THEN Goto(j, "thumbnail") ELSE Goto(j, "encode")
    BY <1>15 DEF MakePlan
  <2>2. PICK step \in {"thumbnail", "encode"} : pc' = [pc EXCEPT ![j] = step]
    BY <2>1
  <2>3. \A i \in Jobs \ {j} : plan'[i] = plan[i]
    BY <2>1 DEF TypeInv, TypeOK
  <2>4. QED
    BY <1>15, <2>2, <2>3, StaysBelow DEF MakePlan
<1>16. ASSUME NEW j \in Jobs, EncodeExitsZero(j)
      PROVE  BucketInv'
  <2>1. PICK step \in BeforeUpload \ {"gate"} : pc' = [pc EXCEPT ![j] = step]
    BY <1>16 DEF EncodeExitsZero
  <2>2. QED
    BY <1>16, <2>1, StaysBelow DEF EncodeExitsZero
<1>17. ASSUME NEW j \in Jobs, EncodeExitsNonzero(j)
      PROVE  BucketInv'
  <2>1. pc[j] = "encode" /\ store[j] = Nothing /\ UNCHANGED <<store, plan, shot>>
    BY <1>0, <1>17 DEF Bucket, EncodeExitsNonzero
  <2>2. CASE LastRung(j)
    BY <1>17, <2>1, <2>2, FailsCleanly DEF EncodeExitsNonzero
  <2>3. CASE ~ LastRung(j)
    BY <1>17, <2>1, <2>3 DEF EncodeExitsNonzero, BucketInv, Bucket, Changed
  <2>4. QED
    BY <2>2, <2>3
<1>18. ASSUME NEW j \in Jobs, EncodeTimesOut(j)
      PROVE  BucketInv'
  <2>1. PICK err \in JobErrors : Fail(j, err)
    BY <1>18 DEF EncodeTimesOut
  <2>2. store[j] = Nothing
    BY <1>0, <1>18 DEF Bucket, EncodeTimesOut
  <2>3. QED
    BY <1>18, <2>1, <2>2, FailsCleanly DEF EncodeTimesOut
<1>19. ASSUME NEW j \in Jobs, PostCheck(j)
      PROVE  BucketInv'
  <2>1. pc[j] \in BeforeUpload \ {"gate"} /\ store[j] = Nothing
    BY <1>0, <1>19 DEF Bucket, PostCheck
  <2>2. CASE \E err \in JobErrors : Fail(j, err)
    BY <1>19, <2>1, <2>2, FailsCleanly DEF PostCheck
  <2>3. CASE \E step \in BeforeUpload \ {"gate"} : pc' = [pc EXCEPT ![j] = step] /\ UNCHANGED result
    BY <1>19, <2>1, <2>3, StaysBelow DEF PostCheck
  <2>4. QED
    BY <1>19, <2>2, <2>3 DEF PostCheck
<1>20. ASSUME NEW j \in Jobs, Thumbnail(j)
      PROVE  BucketInv'
  <2>1. pc'[j] = "gate" /\ pc[j] = "thumbnail"
    BY <1>20 DEF Thumbnail, TypeInv, TypeOK
  <2>2. Bucket(j)'
    BY <1>0, <1>20, <2>1 DEF Bucket, Thumbnail
  <2>3. QED
    BY <1>20, <2>1, <2>2, OthersKeep DEF Thumbnail, TypeInv, TypeOK
<1>21. ASSUME NEW j \in Jobs, ImageRejected(j)
      PROVE  BucketInv'
  <2>1. PICK err \in JobErrors : Fail(j, err)
    BY <1>21 DEF ImageRejected
  <2>2. store[j] = Nothing
    BY <1>0, <1>21 DEF Bucket, ImageRejected
  <2>3. QED
    BY <1>21, <2>1, <2>2, FailsCleanly DEF ImageRejected
<1>22. ASSUME NEW j \in Jobs, ImageUnchanged(j)
      PROVE  BucketInv'
  <2>1. pc'[j] = "gate" /\ pc[j] = "image"
    BY <1>22 DEF ImageUnchanged, TypeInv, TypeOK
  <2>2. Bucket(j)'
    BY <1>0, <1>22, <2>1 DEF Bucket, ImageUnchanged
  <2>3. QED
    BY <1>22, <2>1, <2>2, OthersKeep DEF ImageUnchanged, TypeInv, TypeOK
<1>23. ASSUME NEW j \in Jobs, ImageSaved(j)
      PROVE  BucketInv'
  <2>1. pc'[j] = "gate" /\ pc[j] = "image"
    BY <1>23 DEF ImageSaved, TypeInv, TypeOK
  <2>2. Bucket(j)'
    BY <1>0, <1>23, <2>1 DEF Bucket, ImageSaved
  <2>3. QED
    BY <1>23, <2>1, <2>2, OthersKeep DEF ImageSaved, TypeInv, TypeOK
<1>24. ASSUME NEW j \in Jobs, ImageNotSaved(j)
      PROVE  BucketInv'
  <2>1. PICK err \in JobErrors : Fail(j, err)
    BY <1>24 DEF ImageNotSaved
  <2>2. store[j] = Nothing
    BY <1>0, <1>24 DEF Bucket, ImageNotSaved
  <2>3. QED
    BY <1>24, <2>1, <2>2, FailsCleanly DEF ImageNotSaved
<1>25. ASSUME NEW j \in Jobs, Gate(j)
      PROVE  BucketInv'
  <2>1. pc[j] = "gate" /\ store[j] = Nothing /\ UNCHANGED <<store, plan, shot>>
    BY <1>0, <1>25 DEF Bucket, Gate
  <2>2. CASE Fail(j, JobError("TIMEOUT", TRUE))
    BY <2>1, <2>2, FailsCleanly
  <2>3. ASSUME NEW step \in {"report", "putOutput", "putThumbnail"},
               Goto(j, step), UNCHANGED result,
               step = "report" => ~ Changed(j) /\ ~ shot[j],
               step = "putOutput" => Changed(j),
               step = "putThumbnail" => ~ Changed(j) /\ shot[j]
        PROVE  BucketInv'
    <3>1. pc'[j] = step /\ \A i \in Jobs \ {j} : pc'[i] = pc[i]
      BY <2>3 DEF TypeInv, TypeOK
    <3>2. Changed(j)' <=> Changed(j)
      BY <2>1 DEF Changed
    <3>3. shot[j] \in BOOLEAN
      BY DEF TypeInv, TypeOK
    <3>4. Bucket(j)'
      BY <2>1, <2>3, <3>1, <3>2, <3>3 DEF Bucket, Nothing
    <3>5. QED
      BY <2>1, <2>3, <3>1, <3>4, OthersKeep
  <2>4. QED
    BY <1>25, <2>2, <2>3 DEF Gate, Uploads
<1>26. ASSUME NEW j \in Jobs, PutAccepted(j)
      PROVE  BucketInv'
  <2>1. /\ Putting(j) /\ pc'[j] = AfterPut(j)
        /\ UNCHANGED <<plan, shot, result>>
        /\ \A i \in Jobs \ {j} : pc'[i] = pc[i] /\ store'[i] = store[i]
        /\ Changed(j)' <=> Changed(j)
    BY <1>26 DEF PutAccepted, Stored, TypeInv, TypeOK, Changed
  <2>2. CASE pc[j] = "putOutput"
    <3>1. store'[j].output = "good" /\ store'[j].thumbnail = "absent"
      BY <1>0, <1>26, <2>2 DEF PutAccepted, Stored, Bucket, TypeInv, TypeOK, OutputChecked, Objects
    <3>2. Bucket(j)'
      BY <1>0, <2>1, <2>2, <3>1 DEF Bucket, AfterPut
    <3>3. QED
      BY <2>1, <3>2, OthersKeep
  <2>3. CASE pc[j] = "putThumbnail"
    <3>1. store'[j].output = store[j].output /\ store'[j].thumbnail = "good"
      BY <1>26, <2>3 DEF PutAccepted, Stored, TypeInv, TypeOK, Objects
    <3>2. Bucket(j)'
      BY <1>0, <2>1, <2>3, <3>1 DEF Bucket, AfterPut
    <3>3. QED
      BY <2>1, <3>2, OthersKeep
  <2>4. QED
    BY <2>1, <2>2, <2>3 DEF Putting
<1>27. ASSUME NEW j \in Jobs, PutUnanswered(j)
      PROVE  BucketInv'
  <2>1. /\ Putting(j)
        /\ UNCHANGED <<plan, shot>>
        /\ \A i \in Jobs \ {j} : store'[i] = store[i]
        /\ Changed(j)' <=> Changed(j)
    BY <1>27 DEF PutUnanswered, Stored, TypeInv, TypeOK, Changed
  <2>2. CASE UNCHANGED store
    <3>1. store'[j].output # "bad"
      BY <1>0, <2>1, <2>2 DEF Putting, Bucket
    <3>2. CASE Fail(j, JobError("UPLOAD_FAILED", TRUE))
      BY <2>1, <3>1, <3>2, FailsCleanly DEF JobError
    <3>3. CASE UNCHANGED <<pc, result>>
      BY <2>1, <2>2, <3>3 DEF BucketInv, Bucket, Changed
    <3>4. QED
      BY <1>27, <3>2, <3>3 DEF PutUnanswered
  <2>3. CASE Stored(j)
    <3>1. /\ store'[j].output # "bad"
          /\ pc[j] = "putOutput" => store'[j].thumbnail = "absent"
          /\ pc[j] = "putThumbnail" => store'[j].output = store[j].output
      BY <1>0, <2>1, <2>3 DEF Putting, Stored, Bucket, TypeInv, TypeOK, OutputChecked, Objects
    <3>2. CASE Fail(j, JobError("UPLOAD_FAILED", TRUE))
      BY <2>1, <3>1, <3>2, FailsCleanly DEF JobError
    <3>3. CASE UNCHANGED <<pc, result>>
      <4>1. Bucket(j)'
        BY <1>0, <2>1, <3>1, <3>3 DEF Bucket, Putting
      <4>2. QED
        BY <2>1, <3>3, <4>1, OthersKeep
    <3>4. QED
      BY <1>27, <3>2, <3>3 DEF PutUnanswered
  <2>4. QED
    BY <1>27, <2>2, <2>3 DEF PutUnanswered
<1>28. ASSUME NEW j \in Jobs, PutRefused(j)
      PROVE  BucketInv'
  <2>1. store[j].output # "bad"
    BY <1>0, <1>28 DEF PutRefused, Putting, Bucket
  <2>2. QED
    BY <1>28, <2>1, FailsCleanly DEF PutRefused, JobError
<1>29. ASSUME NEW j \in Jobs, Report(j)
      PROVE  BucketInv'
  <2>1. /\ pc[j] = "report" /\ pc'[j] = "cleanup"
        /\ result'[j] = Result(IF Changed(j) THEN "completed" ELSE "unchanged",
                               "none", FALSE, source[j], shot[j])
        /\ UNCHANGED <<store, plan, shot>>
        /\ \A i \in Jobs \ {j} : pc'[i] = pc[i] /\ result'[i] = result[i]
    BY <1>29 DEF Report, TypeInv, TypeOK
  <2>2. Agrees(result'[j], store[j])
    BY <1>0, <2>1 DEF Bucket, Agrees, Result
  <2>3. Bucket(j)'
    BY <2>1, <2>2 DEF Bucket
  <2>4. QED
    BY <2>1, <2>3, OthersKeep
<1>30. ASSUME NEW j \in Jobs, Crash(j)
      PROVE  BucketInv'
  <2>1. store[j].output # "bad"
    BY <1>0, <1>30 DEF Crash, Bucket, Nothing
  <2>2. QED
    BY <1>30, <2>1, FailsCleanly DEF Crash, JobError
<1>31. ASSUME NEW j \in Jobs, Cleanup(j)
      PROVE  BucketInv'
  <2>1. pc'[j] = "returned" /\ pc[j] = "cleanup"
    BY <1>31 DEF Cleanup, TypeInv, TypeOK
  <2>2. Bucket(j)'
    BY <1>0, <1>31, <2>1 DEF Bucket, Cleanup
  <2>3. QED
    BY <1>31, <2>1, <2>2, OthersKeep DEF Cleanup, TypeInv, TypeOK
<1>32. ASSUME NEW j \in Jobs, DeadlinePasses(j)
      PROVE  BucketInv'
  BY <1>32 DEF DeadlinePasses, BucketInv, Bucket, Changed
<1>33. CASE UNCHANGED vars
  BY <1>33 DEF vars, BucketInv, Bucket, Changed
<1>34. QED
  BY <1>1, <1>2, <1>3, <1>4, <1>5, <1>6, <1>7, <1>8, <1>9, <1>10, <1>11, <1>12, <1>13, <1>14, <1>15, <1>16, <1>17, <1>18, <1>19, <1>20, <1>21, <1>22, <1>23, <1>24, <1>25, <1>26, <1>27, <1>28, <1>29, <1>30, <1>31, <1>32, <1>33 DEF Next, Step, Idle

\* The result of every job tells the truth about the bucket, whatever the
\* origin, ffmpeg, the bucket and the clock do (process() and upload()).
THEOREM BucketTruth == Spec => []ResultAgreesWithBucket
<1>1. BucketInv => ResultAgreesWithBucket
  BY DEF BucketInv, Bucket, ResultAgreesWithBucket
<1>2. QED
  BY TypeInitially, TypeStep, BucketInitially, BucketStep, <1>1, PTL DEF Spec
----------------------------------------------------------------------------
(***************************************************************************)
(* The contract.  A job is queued, runs, and has returned.                 *)
(***************************************************************************)
Phase(j) == IF pc[j] \in {"queued", "returned"} THEN pc[j] ELSE "running"

Outcome(j) == IF pc[j] = "returned" THEN result[j] ELSE NoResult

\* A step inside a running job that stores nothing is invisible.
LEMMA RunsOn ==
    ASSUME TypeInv, NEW j \in Jobs, NEW step \in Steps \ {"queued", "returned"},
           pc[j] \notin {"queued", "returned"}, pc' = [pc EXCEPT ![j] = step],
           \A i \in Jobs \ {j} : result'[i] = result[i],
           UNCHANGED store
    PROVE  UNCHANGED Contract!vars
<1>1. \A i \in Jobs : Phase(i)' = Phase(i) /\ Outcome(i)' = Outcome(i)
  BY DEF TypeInv, TypeOK, Phase, Outcome
<1>2. QED
  BY <1>1 DEF Contract!vars, Phase, Outcome

\* A step of the contract: job j goes to another phase.
LEMMA Begins ==
    ASSUME TypeInv, NEW j \in Jobs, NEW step \in Steps \ {"queued", "returned"},
           pc[j] = "queued", SlotFree, pc' = [pc EXCEPT ![j] = step],
           \A i \in Jobs \ {j} : result'[i] = result[i],
           UNCHANGED store
    PROVE  Contract!Begin(j)
<1> DEFINE phase == [i \in Jobs |-> Phase(i)]
<1>1. \A i \in Jobs : /\ Phase(i)' = IF i = j THEN "running" ELSE Phase(i)
                      /\ Outcome(i)' = Outcome(i)
  BY DEF TypeInv, TypeOK, Phase, Outcome
<1>2. phase' = [phase EXCEPT ![j] = "running"]
  BY <1>1
<1>3. {i \in Jobs : Phase(i) = "running"} = Active
  BY DEF Phase, Active
<1>4. Cardinality({i \in Jobs : phase[i] = "running"}) < Concurrency
  <2>1. {i \in Jobs : phase[i] = "running"} = Active
    BY <1>3
  <2>2. QED
    BY <2>1 DEF SlotFree
<1>5. phase[j] = "queued"
  BY DEF Phase
<1>6. [i \in Jobs |-> Outcome(i)]' = [i \in Jobs |-> Outcome(i)]
  BY <1>1
<1>7. QED
  BY <1>2, <1>4, <1>5, <1>6, Zenon
  DEF Contract!Begin, Contract!Running, Contract!Cardinality, Cardinality, Phase, Outcome

\* A file reaches the bucket in a step of its own: the output while there is no
\* thumbnail, and only when it is good.
LEMMA Stores ==
    ASSUME TypeInv, BucketInv, NEW j \in Jobs, NEW step \in Steps \ {"queued", "returned"},
           Putting(j), Stored(j), pc' = [pc EXCEPT ![j] = step],
           \A i \in Jobs \ {j} : result'[i] = result[i]
    PROVE  Contract!StoreOutput(j) \/ Contract!StoreThumbnail(j)
<1>1. \A i \in Jobs : Phase(i)' = Phase(i) /\ Outcome(i)' = Outcome(i)
  BY DEF TypeInv, TypeOK, Phase, Outcome, Putting
<1>2. Phase(j) = "running"
  BY DEF Putting, Phase
<1>3. CASE pc[j] = "putOutput"
  <2>1. output[j] = "good" /\ store[j].thumbnail = "absent"
    BY <1>3 DEF TypeInv, OutputChecked, BucketInv, Bucket
  <2>2. store' = [store EXCEPT ![j].output = "good"]
    BY <1>3, <2>1 DEF Stored
  <2>3. QED
    BY <1>1, <1>2, <2>1, <2>2 DEF Contract!StoreOutput, Phase, Outcome
<1>4. CASE pc[j] = "putThumbnail"
  <2>1. store' = [store EXCEPT ![j].thumbnail = "good"]
    BY <1>4 DEF Stored
  <2>2. QED
    BY <1>1, <1>2, <2>1 DEF Contract!StoreThumbnail, Phase, Outcome
<1>5. QED
  BY <1>3, <1>4 DEF Putting

\* The finally block ends and the caller has a result that agrees.
LEMMA Returns ==
    ASSUME TypeInv, BucketInv, NEW j \in Jobs, Cleanup(j)
    PROVE  Contract!Return(j)
<1> DEFINE phase == [i \in Jobs |-> Phase(i)]
<1> DEFINE outcome == [i \in Jobs |-> Outcome(i)]
<1>1. /\ pc[j] = "cleanup" /\ pc' = [pc EXCEPT ![j] = "returned"]
      /\ UNCHANGED <<result, store>>
  BY DEF Cleanup, Goto, world
<1>2. result[j] \in Results /\ Agrees(result[j], store[j])
  BY <1>1 DEF TypeInv, TypeOK, BucketInv, Bucket
<1>3. \A i \in Jobs : /\ Phase(i)' = IF i = j THEN "returned" ELSE Phase(i)
                      /\ Outcome(i)' = IF i = j THEN result[j] ELSE Outcome(i)
  BY <1>1 DEF TypeInv, TypeOK, Phase, Outcome
<1>4. phase' = [phase EXCEPT ![j] = "returned"] /\ phase[j] = "running"
  BY <1>1, <1>3 DEF Phase
<1>5. outcome' = [outcome EXCEPT ![j] = result[j]]
  BY <1>3
<1>6. QED
  BY <1>1, <1>2, <1>4, <1>5 DEF Contract!Return, Contract!Results, Results, Contract!Agrees, Agrees,
     Contract!ErrorCodes, ErrorCodes, Contract!Nothing, Nothing, Phase, Outcome

LEMMA ContractInitially == Init => Contract!Init
BY DEF Init, Contract!Init, Contract!Nothing, Nothing, Contract!NoResult, NoResult,
       Contract!Result, Result

LEMMA ContractStep == TypeInv /\ BucketInv /\ [Next]_vars => [Contract!Next]_(Contract!vars)
<1> SUFFICES ASSUME TypeInv, BucketInv, [Next]_vars
             PROVE  Contract!Next \/ UNCHANGED Contract!vars
  OBVIOUS
<1> USE DEF Steps, TryBlock, Goto, locals, workdir, world
<1>1. ASSUME NEW j \in Jobs, Accept(j)
      PROVE  Contract!Next \/ UNCHANGED Contract!vars
  <2>1. PICK step \in {"disk", "cleanup"} : pc' = [pc EXCEPT ![j] = step]
    BY <1>1 DEF Accept, Fail
  <2>2. Contract!Begin(j)
    BY <1>1, <2>1, Begins DEF Accept, Fail, TypeInv, TypeOK
  <2>3. QED
    BY <2>2 DEF Contract!Next
<1>2. ASSUME NEW j \in Jobs, Reject(j)
      PROVE  Contract!Next \/ UNCHANGED Contract!vars
  <2>1. PICK step \in {"disk", "cleanup"} : pc' = [pc EXCEPT ![j] = step]
    BY <1>2 DEF Reject, Fail
  <2>2. Contract!Begin(j)
    BY <1>2, <2>1, Begins DEF Reject, Fail, TypeInv, TypeOK
  <2>3. QED
    BY <2>2 DEF Contract!Next
<1>3. ASSUME NEW j \in Jobs, MakeWorkdir(j)
      PROVE  Contract!Next \/ UNCHANGED Contract!vars
  <2>1. PICK step \in Steps \ {"queued", "returned"} : pc' = [pc EXCEPT ![j] = step]
    BY <1>3 DEF MakeWorkdir, Fail
  <2>2. QED
    BY <1>3, <2>1, RunsOn DEF MakeWorkdir, Fail, TypeInv, TypeOK
<1>4. ASSUME NEW j \in Jobs, WaitForDisk(j)
      PROVE  Contract!Next \/ UNCHANGED Contract!vars
  <2>1. PICK step \in Steps \ {"queued", "returned"} : pc' = [pc EXCEPT ![j] = step]
    BY <1>4 DEF WaitForDisk, Fail
  <2>2. QED
    BY <1>4, <2>1, RunsOn DEF WaitForDisk, Fail, TypeInv, TypeOK
<1>5. ASSUME NEW j \in Jobs, DiskShort(j)
      PROVE  Contract!Next \/ UNCHANGED Contract!vars
  <2>1. PICK step \in Steps \ {"queued", "returned"} : pc' = [pc EXCEPT ![j] = step]
    BY <1>5 DEF DiskShort, Fail
  <2>2. QED
    BY <1>5, <2>1, RunsOn DEF DiskShort, Fail, TypeInv, TypeOK
<1>6. ASSUME NEW j \in Jobs, FetchRefused(j)
      PROVE  Contract!Next \/ UNCHANGED Contract!vars
  <2>1. PICK step \in Steps \ {"queued", "returned"} : pc' = [pc EXCEPT ![j] = step]
    BY <1>6 DEF FetchRefused, Fail
  <2>2. QED
    BY <1>6, <2>1, RunsOn DEF FetchRefused, Fail, TypeInv, TypeOK
<1>7. ASSUME NEW j \in Jobs, FetchBroken(j)
      PROVE  Contract!Next \/ UNCHANGED Contract!vars
  <2>1. PICK step \in Steps \ {"queued", "returned"} : pc' = [pc EXCEPT ![j] = step]
    BY <1>7 DEF FetchBroken, Fail
  <2>2. QED
    BY <1>7, <2>1, RunsOn DEF FetchBroken, Fail, TypeInv, TypeOK
<1>8. ASSUME NEW j \in Jobs, ChunkWritten(j)
      PROVE  Contract!Next \/ UNCHANGED Contract!vars
  BY <1>8 DEF ChunkWritten, Contract!vars
<1>9. ASSUME NEW j \in Jobs, ChunkRefused(j)
      PROVE  Contract!Next \/ UNCHANGED Contract!vars
  <2>1. PICK step \in Steps \ {"queued", "returned"} : pc' = [pc EXCEPT ![j] = step]
    BY <1>9 DEF ChunkRefused, Fail
  <2>2. QED
    BY <1>9, <2>1, RunsOn DEF ChunkRefused, Fail, TypeInv, TypeOK
<1>10. ASSUME NEW j \in Jobs, ChunkStarves(j)
      PROVE  Contract!Next \/ UNCHANGED Contract!vars
  <2>1. PICK step \in Steps \ {"queued", "returned"} : pc' = [pc EXCEPT ![j] = step]
    BY <1>10 DEF ChunkStarves, Fail
  <2>2. QED
    BY <1>10, <2>1, RunsOn DEF ChunkStarves, Fail, TypeInv, TypeOK
<1>11. ASSUME NEW j \in Jobs, FetchEnds(j)
      PROVE  Contract!Next \/ UNCHANGED Contract!vars
  <2>1. PICK step \in Steps \ {"queued", "returned"} : pc' = [pc EXCEPT ![j] = step]
    BY <1>11 DEF FetchEnds, Fail
  <2>2. QED
    BY <1>11, <2>1, RunsOn DEF FetchEnds, Fail, TypeInv, TypeOK
<1>12. ASSUME NEW j \in Jobs, Sniff(j)
      PROVE  Contract!Next \/ UNCHANGED Contract!vars
  <2>1. PICK step \in Steps \ {"queued", "returned"} : pc' = [pc EXCEPT ![j] = step]
    BY <1>12 DEF Sniff, Fail
  <2>2. QED
    BY <1>12, <2>1, RunsOn DEF Sniff, Fail, TypeInv, TypeOK
<1>13. ASSUME NEW j \in Jobs, Probe(j)
      PROVE  Contract!Next \/ UNCHANGED Contract!vars
  <2>1. PICK step \in Steps \ {"queued", "returned"} : pc' = [pc EXCEPT ![j] = step]
    BY <1>13 DEF Probe, Fail
  <2>2. QED
    BY <1>13, <2>1, RunsOn DEF Probe, Fail, TypeInv, TypeOK
<1>14. ASSUME NEW j \in Jobs, PlanRejected(j)
      PROVE  Contract!Next \/ UNCHANGED Contract!vars
  <2>1. PICK step \in Steps \ {"queued", "returned"} : pc' = [pc EXCEPT ![j] = step]
    BY <1>14 DEF PlanRejected, Fail
  <2>2. QED
    BY <1>14, <2>1, RunsOn DEF PlanRejected, Fail, TypeInv, TypeOK
<1>15. ASSUME NEW j \in Jobs, MakePlan(j)
      PROVE  Contract!Next \/ UNCHANGED Contract!vars
  <2>1. PICK step \in Steps \ {"queued", "returned"} : pc' = [pc EXCEPT ![j] = step]
    BY <1>15 DEF MakePlan, Fail
  <2>2. QED
    BY <1>15, <2>1, RunsOn DEF MakePlan, Fail, TypeInv, TypeOK
<1>16. ASSUME NEW j \in Jobs, EncodeExitsZero(j)
      PROVE  Contract!Next \/ UNCHANGED Contract!vars
  <2>1. PICK step \in Steps \ {"queued", "returned"} : pc' = [pc EXCEPT ![j] = step]
    BY <1>16 DEF EncodeExitsZero, Fail
  <2>2. QED
    BY <1>16, <2>1, RunsOn DEF EncodeExitsZero, Fail, TypeInv, TypeOK
<1>17. ASSUME NEW j \in Jobs, EncodeExitsNonzero(j)
      PROVE  Contract!Next \/ UNCHANGED Contract!vars
  <2>1. CASE LastRung(j)
    <3>1. pc' = [pc EXCEPT ![j] = "cleanup"]
      BY <1>17, <2>1 DEF EncodeExitsNonzero, Fail
    <3>2. QED
      BY <1>17, <2>1, <3>1, RunsOn DEF EncodeExitsNonzero, Fail, TypeInv, TypeOK
  <2>2. CASE ~ LastRung(j)
    BY <1>17, <2>2 DEF EncodeExitsNonzero, Contract!vars
  <2>3. QED
    BY <2>1, <2>2
<1>18. ASSUME NEW j \in Jobs, EncodeTimesOut(j)
      PROVE  Contract!Next \/ UNCHANGED Contract!vars
  <2>1. PICK step \in Steps \ {"queued", "returned"} : pc' = [pc EXCEPT ![j] = step]
    BY <1>18 DEF EncodeTimesOut, Fail
  <2>2. QED
    BY <1>18, <2>1, RunsOn DEF EncodeTimesOut, Fail, TypeInv, TypeOK
<1>19. ASSUME NEW j \in Jobs, PostCheck(j)
      PROVE  Contract!Next \/ UNCHANGED Contract!vars
  <2>1. PICK step \in Steps \ {"queued", "returned"} : pc' = [pc EXCEPT ![j] = step]
    BY <1>19 DEF PostCheck, Fail
  <2>2. QED
    BY <1>19, <2>1, RunsOn DEF PostCheck, Fail, TypeInv, TypeOK
<1>20. ASSUME NEW j \in Jobs, Thumbnail(j)
      PROVE  Contract!Next \/ UNCHANGED Contract!vars
  <2>1. PICK step \in Steps \ {"queued", "returned"} : pc' = [pc EXCEPT ![j] = step]
    BY <1>20 DEF Thumbnail, Fail
  <2>2. QED
    BY <1>20, <2>1, RunsOn DEF Thumbnail, Fail, TypeInv, TypeOK
<1>21. ASSUME NEW j \in Jobs, ImageRejected(j)
      PROVE  Contract!Next \/ UNCHANGED Contract!vars
  <2>1. PICK step \in Steps \ {"queued", "returned"} : pc' = [pc EXCEPT ![j] = step]
    BY <1>21 DEF ImageRejected, Fail
  <2>2. QED
    BY <1>21, <2>1, RunsOn DEF ImageRejected, Fail, TypeInv, TypeOK
<1>22. ASSUME NEW j \in Jobs, ImageUnchanged(j)
      PROVE  Contract!Next \/ UNCHANGED Contract!vars
  <2>1. PICK step \in Steps \ {"queued", "returned"} : pc' = [pc EXCEPT ![j] = step]
    BY <1>22 DEF ImageUnchanged, Fail
  <2>2. QED
    BY <1>22, <2>1, RunsOn DEF ImageUnchanged, Fail, TypeInv, TypeOK
<1>23. ASSUME NEW j \in Jobs, ImageSaved(j)
      PROVE  Contract!Next \/ UNCHANGED Contract!vars
  <2>1. PICK step \in Steps \ {"queued", "returned"} : pc' = [pc EXCEPT ![j] = step]
    BY <1>23 DEF ImageSaved, Fail
  <2>2. QED
    BY <1>23, <2>1, RunsOn DEF ImageSaved, Fail, TypeInv, TypeOK
<1>24. ASSUME NEW j \in Jobs, ImageNotSaved(j)
      PROVE  Contract!Next \/ UNCHANGED Contract!vars
  <2>1. PICK step \in Steps \ {"queued", "returned"} : pc' = [pc EXCEPT ![j] = step]
    BY <1>24 DEF ImageNotSaved, Fail
  <2>2. QED
    BY <1>24, <2>1, RunsOn DEF ImageNotSaved, Fail, TypeInv, TypeOK
<1>25. ASSUME NEW j \in Jobs, Gate(j)
      PROVE  Contract!Next \/ UNCHANGED Contract!vars
  <2>1. PICK step \in Steps \ {"queued", "returned"} : pc' = [pc EXCEPT ![j] = step]
    BY <1>25 DEF Gate, Fail
  <2>2. QED
    BY <1>25, <2>1, RunsOn DEF Gate, Fail, TypeInv, TypeOK
<1>26. ASSUME NEW j \in Jobs, PutAccepted(j)
      PROVE  Contract!Next \/ UNCHANGED Contract!vars
  <2>1. PICK step \in {"putThumbnail", "report"} : pc' = [pc EXCEPT ![j] = step]
    BY <1>26 DEF PutAccepted, AfterPut
  <2>2. Contract!StoreOutput(j) \/ Contract!StoreThumbnail(j)
    BY <1>26, <2>1, Stores DEF PutAccepted
  <2>3. QED
    BY <2>2 DEF Contract!Next
<1>27. ASSUME NEW j \in Jobs, PutUnanswered(j)
      PROVE  Contract!Next \/ UNCHANGED Contract!vars
  <2>1. PICK step \in {"putOutput", "putThumbnail", "cleanup"} :
          pc' = [pc EXCEPT ![j] = step] /\ \A i \in Jobs \ {j} : result'[i] = result[i]
    <3>1. CASE LastTry(j)
      BY <1>27, <3>1 DEF PutUnanswered, Fail, TypeInv, TypeOK
    <3>2. CASE ~ LastTry(j)
      <4>1. pc' = pc /\ pc = [pc EXCEPT ![j] = pc[j]] /\ result' = result
        BY <1>27, <3>2 DEF PutUnanswered, TypeInv, TypeOK
      <4>2. QED
        BY <1>27, <4>1 DEF PutUnanswered, Putting
    <3>3. QED
      BY <3>1, <3>2
  <2>2. CASE Stored(j)
    <3>1. Contract!StoreOutput(j) \/ Contract!StoreThumbnail(j)
      BY <1>27, <2>1, <2>2, Stores DEF PutUnanswered
    <3>2. QED
      BY <3>1 DEF Contract!Next
  <2>3. CASE UNCHANGED store
    BY <1>27, <2>1, <2>3, RunsOn DEF PutUnanswered, Putting
  <2>4. QED
    BY <1>27, <2>2, <2>3 DEF PutUnanswered
<1>28. ASSUME NEW j \in Jobs, PutRefused(j)
      PROVE  Contract!Next \/ UNCHANGED Contract!vars
  <2>1. PICK step \in Steps \ {"queued", "returned"} : pc' = [pc EXCEPT ![j] = step]
    BY <1>28 DEF PutRefused, Fail, Putting
  <2>2. QED
    BY <1>28, <2>1, RunsOn DEF PutRefused, Fail, Putting, TypeInv, TypeOK
<1>29. ASSUME NEW j \in Jobs, Report(j)
      PROVE  Contract!Next \/ UNCHANGED Contract!vars
  <2>1. PICK step \in Steps \ {"queued", "returned"} : pc' = [pc EXCEPT ![j] = step]
    BY <1>29 DEF Report, Fail
  <2>2. QED
    BY <1>29, <2>1, RunsOn DEF Report, Fail, TypeInv, TypeOK
<1>30. ASSUME NEW j \in Jobs, Crash(j)
      PROVE  Contract!Next \/ UNCHANGED Contract!vars
  <2>1. PICK step \in Steps \ {"queued", "returned"} : pc' = [pc EXCEPT ![j] = step]
    BY <1>30 DEF Crash, Fail
  <2>2. QED
    BY <1>30, <2>1, RunsOn DEF Crash, Fail, TypeInv, TypeOK
<1>31. ASSUME NEW j \in Jobs, Cleanup(j)
      PROVE  Contract!Next \/ UNCHANGED Contract!vars
  BY <1>31, Returns DEF Contract!Next
<1>32. ASSUME NEW j \in Jobs, DeadlinePasses(j)
      PROVE  Contract!Next \/ UNCHANGED Contract!vars
  BY <1>32 DEF DeadlinePasses, Contract!vars
<1>33. CASE UNCHANGED vars
  BY <1>33 DEF vars, Contract!vars
<1>34. QED
  BY <1>1, <1>2, <1>3, <1>4, <1>5, <1>6, <1>7, <1>8, <1>9, <1>10, <1>11, <1>12, <1>13, <1>14, <1>15, <1>16, <1>17, <1>18, <1>19, <1>20, <1>21, <1>22, <1>23, <1>24, <1>25, <1>26, <1>27, <1>28, <1>29, <1>30, <1>31, <1>32, <1>33 DEF Next, Step, Idle

\* process() keeps its contract: every job is begun once, stores a verified
\* output and then a thumbnail, and returns one result that agrees with them.
THEOREM PipelineKeepsContract == Spec => ImplementsContract
<1>1. TypeInv /\ BucketInv /\ [Next]_vars => [Contract!Next]_(Contract!vars)
  BY ContractStep
<1>2. QED
  BY TypeInitially, TypeStep, BucketInitially, BucketStep, ContractInitially, <1>1, PTL
  DEF Spec, ImplementsContract, Contract!Spec
----------------------------------------------------------------------------
(***************************************************************************)
(* The encode ladder.                                                      *)
(***************************************************************************)
Exhausted(j) == \A i \in DOMAIN Ladder(plan[j]) : Ladder(plan[j])[i] \notin works[j]

\* While a job encodes, the rungs below the current one have failed for good; and
\* the other failures that could look like the end of the ladder do not.
Fall(j) ==
    /\ pc[j] = "encode" /\ ~ starved[j] =>
          \A i \in DOMAIN Ladder(plan[j]) :
              i < attempt[j] => Ladder(plan[j])[i] \notin works[j]
    /\ pc[j] = "postcheck" => output[j] # "partial"
    /\ pc[j] = "image" => request[j].media # "video"
    /\ (/\ pc[j] = "cleanup" /\ request[j].media = "video" /\ result[j].code = "ENCODE_FAILED"
        /\ output[j] = "partial" /\ ~ starved[j]) => Exhausted(j)

FallInv == \A j \in Jobs : Fall(j)

LEMMA ProbeCodes == \A err \in ProbeErrors : err.code # "ENCODE_FAILED"
BY DEF ProbeErrors, JobError

\* A failure with another code, or of a file that is whole.
LEMMA FailFalls ==
    ASSUME NEW j \in Jobs, NEW err, Fail(j, err), TypeInv, NEW i \in Jobs,
           UNCHANGED <<request, plan, attempt, works>>,
           \A k \in Jobs \ {j} : output'[k] = output[k] /\ starved'[k] = starved[k],
           err.code # "ENCODE_FAILED" \/ output'[j] # "partial", Fall(i)
    PROVE  Fall(i)'
<1> USE DEF Fail, Goto, TypeInv, TypeOK
<1>1. CASE i = j
  <2>1. pc'[i] = "cleanup" /\ result'[i].code = err.code
    BY <1>1 DEF Result
  <2>2. QED
    BY <1>1, <2>1 DEF Fall
<1>2. CASE i # j
  BY <1>2 DEF Fall, Exhausted
<1>3. QED
  BY <1>1, <1>2

LEMMA FallStep == TypeInv /\ FallInv /\ [Next]_vars => FallInv'
<1> SUFFICES ASSUME TypeInv, FallInv, [Next]_vars, NEW i \in Jobs
             PROVE  Fall(i)'
  BY DEF FallInv
<1>0. Fall(i)
  BY DEF FallInv
<1> USE DEF TypeInv, TypeOK, locals, workdir, world
<1>1. ASSUME NEW j \in Jobs, Accept(j) PROVE Fall(i)'
  BY <1>0, <1>1 DEF Accept, Goto, Fall, Exhausted
<1>2. ASSUME NEW j \in Jobs, Reject(j) PROVE Fall(i)'
  BY <1>0, <1>2, FailFalls DEF Reject, JobError
<1>3. ASSUME NEW j \in Jobs, MakeWorkdir(j) PROVE Fall(i)'
  BY <1>0, <1>3 DEF MakeWorkdir, Goto, Fall, Exhausted
<1>4. ASSUME NEW j \in Jobs, WaitForDisk(j) PROVE Fall(i)'
  BY <1>0, <1>4 DEF WaitForDisk, Goto, Fall, Exhausted
<1>5. ASSUME NEW j \in Jobs, DiskShort(j) PROVE Fall(i)'
  BY <1>0, <1>5, FailFalls DEF DiskShort, JobError
<1>6. ASSUME NEW j \in Jobs, FetchRefused(j) PROVE Fall(i)'
  BY <1>0, <1>6, FailFalls DEF FetchRefused, JobError
<1>7. ASSUME NEW j \in Jobs, FetchBroken(j) PROVE Fall(i)'
  BY <1>0, <1>7, FailFalls DEF FetchBroken, JobError
<1>8. ASSUME NEW j \in Jobs, ChunkWritten(j) PROVE Fall(i)'
  BY <1>0, <1>8 DEF ChunkWritten, Goto, Fall, Exhausted
<1>9. ASSUME NEW j \in Jobs, ChunkRefused(j) PROVE Fall(i)'
  BY <1>0, <1>9, FailFalls DEF ChunkRefused, JobError
<1>10. ASSUME NEW j \in Jobs, ChunkStarves(j) PROVE Fall(i)'
  <2>1. /\ Fail(j, JobError("INTERNAL", TRUE)) /\ UNCHANGED <<request, plan, attempt, works>>
        /\ \A k \in Jobs \ {j} : output'[k] = output[k] /\ starved'[k] = starved[k]
    BY <1>10 DEF ChunkStarves
  <2>2. QED
    BY <1>0, <2>1, FailFalls DEF JobError
<1>11. ASSUME NEW j \in Jobs, FetchEnds(j) PROVE Fall(i)'
  <2>1. CASE \E err : err.code # "ENCODE_FAILED" /\ Fail(j, err)
    BY <1>0, <1>11, <2>1, FailFalls DEF FetchEnds
  <2>2. CASE Goto(j, "sniff") /\ UNCHANGED result
    BY <1>0, <1>11, <2>2 DEF FetchEnds, Goto, Fall, Exhausted
  <2>3. QED
    BY <1>11, <2>1, <2>2, ProbeCodes DEF FetchEnds, JobError
<1>12. ASSUME NEW j \in Jobs, Sniff(j) PROVE Fall(i)'
  <2>1. CASE \E err : err.code # "ENCODE_FAILED" /\ Fail(j, err)
    BY <1>0, <1>12, <2>1, FailFalls DEF Sniff
  <2>2. CASE Goto(j, IF request[j].media = "video" THEN "probe" ELSE "image") /\ UNCHANGED result
    BY <1>0, <1>12, <2>2 DEF Sniff, Goto, Fall, Exhausted
  <2>3. QED
    BY <1>12, <2>1, <2>2, ProbeCodes DEF Sniff, JobError
<1>13. ASSUME NEW j \in Jobs, Probe(j) PROVE Fall(i)'
  <2>1. CASE \E err : err.code # "ENCODE_FAILED" /\ Fail(j, err)
    BY <1>0, <1>13, <2>1, FailFalls DEF Probe
  <2>2. CASE Goto(j, "plan") /\ UNCHANGED result
    BY <1>0, <1>13, <2>2 DEF Probe, Goto, Fall, Exhausted
  <2>3. QED
    BY <1>13, <2>1, <2>2, ProbeCodes DEF Probe, JobError
<1>14. ASSUME NEW j \in Jobs, PlanRejected(j) PROVE Fall(i)'
  BY <1>0, <1>14, FailFalls DEF PlanRejected, JobError
<1>15. ASSUME NEW j \in Jobs, MakePlan(j) PROVE Fall(i)'
  <2>1. attempt[j] = 1 /\ \A p : DOMAIN Ladder(p) \subseteq Nat \ {0}
    BY <1>15, LadderLength DEF MakePlan, OnLadder, BeforeEncode
  <2>2. QED
    BY <1>0, <1>15, <2>1 DEF MakePlan, Goto, Fall, Exhausted
<1>16. ASSUME NEW j \in Jobs, EncodeExitsZero(j) PROVE Fall(i)'
  BY <1>0, <1>16 DEF EncodeExitsZero, Goto, Fall, Exhausted
<1>17. ASSUME NEW j \in Jobs, EncodeExitsNonzero(j) PROVE Fall(i)'
  <2>1. CASE LastRung(j)
    <3>1. /\ pc[j] = "encode" /\ Fail(j, JobError("ENCODE_FAILED", FALSE)) /\ PartialFile(j)
          /\ UNCHANGED <<request, plan, attempt, works>>
          /\ (~ starved'[j] => ~ starved[j] /\ ~ RungWorks(j))
          /\ \A k \in Jobs \ {j} : starved'[k] = starved[k]
      BY <1>17, <2>1 DEF EncodeExitsNonzero
    <3>2. CASE i = j
      <4>1. ~ starved[j] /\ ~ RungWorks(j) => Exhausted(j)
        <5>1. DOMAIN Ladder(plan[j]) = 1..attempt[j] /\ attempt[j] \in Nat
          BY <2>1, LadderLength DEF LastRung
        <5>2. ~ starved[j] => \A k \in DOMAIN Ladder(plan[j]) :
                  k < attempt[j] => Ladder(plan[j])[k] \notin works[j]
          BY <1>0, <3>1, <3>2 DEF Fall
        <5>3. QED
          BY <5>1, <5>2 DEF Exhausted, RungWorks
      <4>2. pc'[i] = "cleanup" /\ Exhausted(i)' = Exhausted(j)
        BY <3>1, <3>2 DEF Fail, Goto, Exhausted
      <4>3. QED
        BY <3>1, <3>2, <4>1, <4>2 DEF Fall
    <3>3. CASE i # j
      BY <1>0, <3>1, <3>3 DEF Fall, Exhausted, Fail, Goto, PartialFile
    <3>4. QED
      BY <3>2, <3>3
  <2>2. CASE ~ LastRung(j)
    <3>1. /\ pc[j] = "encode" /\ attempt' = [attempt EXCEPT ![j] = @ + 1]
          /\ output' = [output EXCEPT ![j] = "none"]
          /\ UNCHANGED <<pc, request, plan, works, result>>
          /\ (~ starved'[j] => ~ starved[j] /\ ~ RungWorks(j))
          /\ \A k \in Jobs \ {j} : starved'[k] = starved[k]
      BY <1>17, <2>2 DEF EncodeExitsNonzero
    <3>2. CASE i = j
      <4>1. attempt'[j] = attempt[j] + 1 /\ attempt[j] \in Nat
        BY <3>1
      <4>2. DOMAIN Ladder(plan[j]) \subseteq Nat
        BY LadderLength
      <4>3. ~ starved[j] => \A k \in DOMAIN Ladder(plan[j]) :
                k < attempt[j] => Ladder(plan[j])[k] \notin works[j]
        BY <1>0, <3>1, <3>2 DEF Fall
      <4>4. ~ starved'[j] => \A k \in DOMAIN Ladder(plan[j]) :
                k < attempt'[j] => Ladder(plan[j])[k] \notin works[j]
        BY <3>1, <4>1, <4>2, <4>3 DEF RungWorks
      <4>5. QED
        BY <3>1, <3>2, <4>4 DEF Fall
    <3>3. CASE i # j
      BY <1>0, <3>1, <3>3 DEF Fall, Exhausted
    <3>4. QED
      BY <3>2, <3>3
  <2>3. QED
    BY <2>1, <2>2
<1>18. ASSUME NEW j \in Jobs, EncodeTimesOut(j) PROVE Fall(i)'
  BY <1>0, <1>18, FailFalls DEF EncodeTimesOut, JobError, PartialFile
<1>19. ASSUME NEW j \in Jobs, PostCheck(j) PROVE Fall(i)'
  <2>1. CASE Goto(j, "thumbnail") /\ UNCHANGED result
    BY <1>0, <1>19, <2>1 DEF PostCheck, Goto, Fall, Exhausted
  <2>2. CASE \E err : Fail(j, err)
    <3>1. i = j => output[j] # "partial"
      BY <1>0, <1>19 DEF PostCheck, Fall
    <3>2. CASE i = j
      BY <1>0, <1>19, <2>2, <3>1, <3>2, FailFalls DEF PostCheck
    <3>3. CASE i # j
      BY <1>0, <1>19, <2>2, <3>3 DEF PostCheck, Fail, Goto, Fall, Exhausted
    <3>4. QED
      BY <3>2, <3>3
  <2>3. QED
    BY <1>19, <2>1, <2>2 DEF PostCheck
<1>20. ASSUME NEW j \in Jobs, Thumbnail(j) PROVE Fall(i)'
  BY <1>0, <1>20 DEF Thumbnail, Goto, Fall, Exhausted
<1>21. ASSUME NEW j \in Jobs, ImageRejected(j) PROVE Fall(i)'
  BY <1>0, <1>21, FailFalls DEF ImageRejected, JobError
<1>22. ASSUME NEW j \in Jobs, ImageUnchanged(j) PROVE Fall(i)'
  BY <1>0, <1>22 DEF ImageUnchanged, Goto, Fall, Exhausted
<1>23. ASSUME NEW j \in Jobs, ImageSaved(j) PROVE Fall(i)'
  BY <1>0, <1>23 DEF ImageSaved, Goto, Fall, Exhausted
<1>24. ASSUME NEW j \in Jobs, ImageNotSaved(j) PROVE Fall(i)'
  <2>1. i = j => request[j].media # "video"
    BY <1>0, <1>24 DEF ImageNotSaved, Fall
  <2>2. \A k \in Jobs \ {j} : starved'[k] = starved[k] /\ output'[k] = output[k]
    BY <1>24 DEF ImageNotSaved, PartialFile
  <2>3. QED
    BY <1>0, <1>24, <2>1, <2>2 DEF ImageNotSaved, Fail, Goto, Fall, Exhausted
<1>25. ASSUME NEW j \in Jobs, Gate(j) PROVE Fall(i)'
  <2>1. CASE \E err : err.code # "ENCODE_FAILED" /\ Fail(j, err)
    BY <1>0, <1>25, <2>1, FailFalls DEF Gate
  <2>2. CASE \E step \in {"report", "putOutput", "putThumbnail"} : Goto(j, step) /\ UNCHANGED result
    BY <1>0, <1>25, <2>2 DEF Gate, Goto, Fall, Exhausted
  <2>3. QED
    BY <1>25, <2>1, <2>2, ProbeCodes DEF Gate, JobError
<1>26. ASSUME NEW j \in Jobs, PutAccepted(j) PROVE Fall(i)'
  BY <1>0, <1>26 DEF PutAccepted, Goto, Fall, Exhausted, AfterPut, Putting
<1>27. ASSUME NEW j \in Jobs, PutUnanswered(j) PROVE Fall(i)'
  <2>1. CASE \E err : err.code # "ENCODE_FAILED" /\ Fail(j, err)
    BY <1>0, <1>27, <2>1, FailFalls DEF PutUnanswered
  <2>2. CASE UNCHANGED <<pc, result>>
    BY <1>0, <1>27, <2>2 DEF PutUnanswered, Goto, Fall, Exhausted
  <2>3. QED
    BY <1>27, <2>1, <2>2, ProbeCodes DEF PutUnanswered, JobError
<1>28. ASSUME NEW j \in Jobs, PutRefused(j) PROVE Fall(i)'
  BY <1>0, <1>28, FailFalls DEF PutRefused, JobError
<1>29. ASSUME NEW j \in Jobs, Report(j) PROVE Fall(i)'
  BY <1>0, <1>29 DEF Report, Goto, Fall, Exhausted, Result
<1>30. ASSUME NEW j \in Jobs, Cleanup(j) PROVE Fall(i)'
  BY <1>0, <1>30 DEF Cleanup, Goto, Fall, Exhausted
<1>31. ASSUME NEW j \in Jobs, Crash(j) PROVE Fall(i)'
  BY <1>0, <1>31, FailFalls DEF Crash, JobError
<1>32. ASSUME NEW j \in Jobs, DeadlinePasses(j) PROVE Fall(i)'
  BY <1>0, <1>32 DEF DeadlinePasses, Goto, Fall, Exhausted
<1>33. CASE UNCHANGED vars
  BY <1>0, <1>33 DEF vars, Fall, Exhausted
<1>34. QED
  BY <1>1, <1>2, <1>3, <1>4, <1>5, <1>6, <1>7, <1>8, <1>9, <1>10, <1>11, <1>12, <1>13, <1>14, <1>15, <1>16, <1>17, <1>18, <1>19, <1>20, <1>21, <1>22, <1>23, <1>24, <1>25, <1>26, <1>27, <1>28, <1>29, <1>30, <1>31, <1>32, <1>33 DEF Next, Step, Idle

\* A video fails because ffmpeg did only when no rung of its ladder can render it,
\* or the disk was full (_run_encode).
THEOREM LadderExhausted == Spec => []FallbackExhausted
<1>1. Init => FallInv
  BY DEF Init, FallInv, Fall
<1>2. FallInv => FallbackExhausted
  BY DEF FallInv, Fall, Exhausted, FallbackExhausted
<1>3. QED
  BY TypeInitially, TypeStep, FallStep, <1>1, <1>2, PTL DEF Spec
----------------------------------------------------------------------------
(***************************************************************************)
(* The deadline.                                                           *)
(***************************************************************************)
\* The deadline has passed before the first upload.
Missed(j) == late[j] /\ store[j] = Nothing /\ ~ Putting(j)

LEMMA MissedStep ==
    ASSUME NEW i \in Jobs, TypeInv, Missed(i), [Next]_vars
    PROVE  Missed(i)'
<1> USE DEF TypeInv, TypeOK, locals, workdir, world, Missed, Putting, Goto, Fail
<1>1. ASSUME NEW j \in Jobs, Accept(j) PROVE Missed(i)'
  BY <1>1 DEF Accept
<1>2. ASSUME NEW j \in Jobs, Reject(j) PROVE Missed(i)'
  BY <1>2 DEF Reject
<1>3. ASSUME NEW j \in Jobs, MakeWorkdir(j) PROVE Missed(i)'
  BY <1>3 DEF MakeWorkdir
<1>4. ASSUME NEW j \in Jobs, WaitForDisk(j) PROVE Missed(i)'
  BY <1>4 DEF WaitForDisk
<1>5. ASSUME NEW j \in Jobs, DiskShort(j) PROVE Missed(i)'
  BY <1>5 DEF DiskShort
<1>6. ASSUME NEW j \in Jobs, FetchRefused(j) PROVE Missed(i)'
  BY <1>6 DEF FetchRefused
<1>7. ASSUME NEW j \in Jobs, FetchBroken(j) PROVE Missed(i)'
  BY <1>7 DEF FetchBroken
<1>8. ASSUME NEW j \in Jobs, ChunkWritten(j) PROVE Missed(i)'
  BY <1>8 DEF ChunkWritten
<1>9. ASSUME NEW j \in Jobs, ChunkRefused(j) PROVE Missed(i)'
  BY <1>9 DEF ChunkRefused
<1>10. ASSUME NEW j \in Jobs, ChunkStarves(j) PROVE Missed(i)'
  BY <1>10 DEF ChunkStarves
<1>11. ASSUME NEW j \in Jobs, FetchEnds(j) PROVE Missed(i)'
  BY <1>11 DEF FetchEnds
<1>12. ASSUME NEW j \in Jobs, Sniff(j) PROVE Missed(i)'
  BY <1>12 DEF Sniff
<1>13. ASSUME NEW j \in Jobs, Probe(j) PROVE Missed(i)'
  BY <1>13 DEF Probe
<1>14. ASSUME NEW j \in Jobs, PlanRejected(j) PROVE Missed(i)'
  BY <1>14 DEF PlanRejected
<1>15. ASSUME NEW j \in Jobs, MakePlan(j) PROVE Missed(i)'
  BY <1>15 DEF MakePlan
<1>16. ASSUME NEW j \in Jobs, EncodeExitsZero(j) PROVE Missed(i)'
  BY <1>16 DEF EncodeExitsZero
<1>17. ASSUME NEW j \in Jobs, EncodeExitsNonzero(j) PROVE Missed(i)'
  BY <1>17 DEF EncodeExitsNonzero
<1>18. ASSUME NEW j \in Jobs, EncodeTimesOut(j) PROVE Missed(i)'
  BY <1>18 DEF EncodeTimesOut
<1>19. ASSUME NEW j \in Jobs, PostCheck(j) PROVE Missed(i)'
  BY <1>19 DEF PostCheck
<1>20. ASSUME NEW j \in Jobs, Thumbnail(j) PROVE Missed(i)'
  BY <1>20 DEF Thumbnail
<1>21. ASSUME NEW j \in Jobs, ImageRejected(j) PROVE Missed(i)'
  BY <1>21 DEF ImageRejected
<1>22. ASSUME NEW j \in Jobs, ImageUnchanged(j) PROVE Missed(i)'
  BY <1>22 DEF ImageUnchanged
<1>23. ASSUME NEW j \in Jobs, ImageSaved(j) PROVE Missed(i)'
  BY <1>23 DEF ImageSaved
<1>24. ASSUME NEW j \in Jobs, ImageNotSaved(j) PROVE Missed(i)'
  BY <1>24 DEF ImageNotSaved
<1>25. ASSUME NEW j \in Jobs, Gate(j) PROVE Missed(i)'
  BY <1>25 DEF Gate, GateOpen
<1>26. ASSUME NEW j \in Jobs, PutAccepted(j) PROVE Missed(i)'
  BY <1>26 DEF PutAccepted, Stored, AfterPut
<1>27. ASSUME NEW j \in Jobs, PutUnanswered(j) PROVE Missed(i)'
  <2>1. i # j
    BY <1>27 DEF PutUnanswered
  <2>2. store' = store \/ store'[i] = store[i]
    BY <1>27, <2>1 DEF PutUnanswered, Stored
  <2>3. late' = late /\ (pc' = pc \/ pc'[i] = pc[i])
    BY <1>27, <2>1 DEF PutUnanswered
  <2>4. QED
    BY <2>2, <2>3
<1>28. ASSUME NEW j \in Jobs, PutRefused(j) PROVE Missed(i)'
  BY <1>28 DEF PutRefused
<1>29. ASSUME NEW j \in Jobs, Report(j) PROVE Missed(i)'
  BY <1>29 DEF Report
<1>30. ASSUME NEW j \in Jobs, Cleanup(j) PROVE Missed(i)'
  BY <1>30 DEF Cleanup
<1>31. ASSUME NEW j \in Jobs, Crash(j) PROVE Missed(i)'
  BY <1>31 DEF Crash
<1>32. ASSUME NEW j \in Jobs, DeadlinePasses(j) PROVE Missed(i)'
  BY <1>32 DEF DeadlinePasses
<1>33. CASE UNCHANGED vars
  BY <1>33 DEF vars
<1>34. QED
  BY <1>1, <1>2, <1>3, <1>4, <1>5, <1>6, <1>7, <1>8, <1>9, <1>10, <1>11, <1>12, <1>13, <1>14, <1>15, <1>16, <1>17, <1>18, <1>19, <1>20, <1>21, <1>22, <1>23, <1>24, <1>25, <1>26, <1>27, <1>28, <1>29, <1>30, <1>31, <1>32, <1>33 DEF Next, Step, Idle

\* A job whose deadline passes before its first upload never stores anything.
THEOREM LateStoresNothing == Spec => LateJobStoresNothing
<1> SUFFICES ASSUME NEW j \in Jobs
             PROVE  Spec => [](late[j] /\ pc[j] \in BeforeUpload => [](store[j] = Nothing))
  BY DEF LateJobStoresNothing
<1>1. BucketInv /\ late[j] /\ pc[j] \in BeforeUpload => Missed(j)
  BY DEF BucketInv, Bucket, BeforeUpload, Steps, TryBlock, Missed, Putting
<1>2. TypeInv /\ Missed(j) /\ [Next]_vars => Missed(j)'
  BY MissedStep
<1>3. Missed(j) => store[j] = Nothing
  BY DEF Missed
<1>4. QED
  BY <1>1, <1>2, <1>3, TypeInitially, TypeStep, BucketInitially, BucketStep, PTL DEF Spec
----------------------------------------------------------------------------
(***************************************************************************)
(* The scratch disk: what the jobs that run may have written.              *)
(***************************************************************************)
\* The worker never runs more than Concurrency jobs.
SlotsKept == IsFiniteSet(Active) /\ Cardinality(Active) <= Concurrency

\* A job owns no byte before its directory and after its cleanup, and no output
\* before an encode or a save has written one.
NotYetFetched == {"queued", "disk", "diskRecheck", "returned"}
NotYetWritten == NotYetFetched \cup {"download", "sniff", "probe", "plan", "encode", "image"}

FilesInOrder ==
    \A j \in Jobs : /\ pc[j] \in NotYetFetched => input[j] = 0
                    /\ pc[j] \in NotYetWritten => size[j] = 0

DiskInv == SlotsKept /\ FilesInOrder /\ NoJobStarves

LEMMA CountUpTo ==
    ASSUME NEW k \in Nat
    PROVE  IsFiniteSet(1..k) /\ Cardinality(1..k) = k
BY FS_Interval

\* Counting: the other running jobs fill a share each, this one what it wrote.
LEMMA ChunksCounted ==
    ASSUME TypeOK, SlotsKept, FilesInOrder, NEW j \in Active
    PROVE  /\ Cardinality(Chunks) \in Nat
           /\ Cardinality(Chunks)
                <= (Concurrency - 1) * (MaxBytes + MaxOutput) + (input[j] + size[j])
<1> DEFINE share == MaxBytes + MaxOutput
           n == input[j] + size[j]
           Others == Active \ {j}
           Grid == Others \X (1..share)
           Mine == {j} \X (1..n)
<1>1. /\ share \in Nat /\ Concurrency \in Nat \ {0}
      /\ \A i \in Jobs : input[i] + size[i] \in Nat /\ input[i] + size[i] <= share
  BY SizesAssumption DEF TypeOK
<1>2. j \in Jobs /\ n \in Nat
  BY <1>1 DEF Active
<1>3. /\ IsFiniteSet(Others) /\ Cardinality(Others) \in Nat
      /\ Cardinality(Others) <= Concurrency - 1
  <2>1. IsFiniteSet(Active) /\ Cardinality(Active) \in Nat /\ Cardinality(Active) <= Concurrency
    BY FS_CardinalityType DEF SlotsKept
  <2>2. IsFiniteSet(Others) /\ Cardinality(Others) = Cardinality(Active) - 1
    BY <2>1, FS_RemoveElement
  <2>3. Cardinality(Others) \in Nat
    BY <2>2, FS_CardinalityType
  <2>4. QED
    BY <1>1, <2>1, <2>2, <2>3
<1>4. /\ IsFiniteSet(1..share) /\ Cardinality(1..share) = share
      /\ IsFiniteSet(1..n) /\ Cardinality(1..n) = n
  BY <1>1, <1>2, CountUpTo
<1>5. IsFiniteSet(Grid) /\ Cardinality(Grid) = Cardinality(Others) * share
  BY <1>3, <1>4, FS_Product
<1>6. IsFiniteSet(Mine) /\ Cardinality(Mine) = n
  <2>1. IsFiniteSet({j}) /\ Cardinality({j}) = 1
    BY FS_Singleton
  <2>2. IsFiniteSet(Mine) /\ Cardinality(Mine) = Cardinality({j}) * Cardinality(1..n)
    BY <1>4, <2>1, FS_Product
  <2>3. QED
    <3>1. 1 * n = n
      BY <1>2
    <3>2. QED
      BY <1>4, <2>1, <2>2, <3>1
<1>7. Cardinality(Others) * share <= (Concurrency - 1) * share
  <2>1. \A a, b, k \in Nat : a <= b => a * k <= b * k
    OBVIOUS
  <2>2. QED
    BY <1>1, <1>3, <2>1
<1>8. Chunks \subseteq Grid \cup Mine
  <2>1. ASSUME NEW i \in Jobs, NEW k \in 1..(input[i] + size[i])
        PROVE  <<i, k>> \in Grid \cup Mine
    <3>1. i \in Active
      BY <1>1, <2>1 DEF FilesInOrder, Active, NotYetFetched, NotYetWritten
    <3>2. CASE i = j
      BY <3>2, <2>1
    <3>3. CASE i # j
      BY <1>1, <2>1, <3>1, <3>3
    <3>4. QED
      BY <3>2, <3>3
  <2>2. QED
    BY <2>1 DEF Chunks
<1>9. /\ IsFiniteSet(Grid \cup Mine)
      /\ Cardinality(Grid \cup Mine) \in Nat
      /\ Cardinality(Grid \cup Mine) <= Cardinality(Grid) + Cardinality(Mine)
  <2>1. /\ IsFiniteSet(Grid \cup Mine) /\ IsFiniteSet(Grid \cap Mine)
        /\ Cardinality(Grid \cup Mine) =
             Cardinality(Grid) + Cardinality(Mine) - Cardinality(Grid \cap Mine)
    BY <1>5, <1>6, FS_Union, FS_Subset
  <2>2. /\ Cardinality(Grid \cup Mine) \in Nat /\ Cardinality(Grid \cap Mine) \in Nat
        /\ Cardinality(Grid) \in Nat /\ Cardinality(Mine) \in Nat
    BY <1>5, <1>6, <2>1, FS_CardinalityType
  <2>3. QED
    BY <2>1, <2>2
<1>10. /\ Cardinality(Chunks) \in Nat
       /\ Cardinality(Chunks) <= Cardinality(Grid \cup Mine)
  BY <1>8, <1>9, FS_Subset, FS_CardinalityType
<1>11. Cardinality(Grid) \in Nat /\ (Concurrency - 1) * share \in Nat
  <2>1. \A a, b \in Nat : a * b \in Nat
    OBVIOUS
  <2>2. QED
    BY <1>1, <1>3, <1>5, <2>1
<1>12. QED
  BY <1>2, <1>5, <1>6, <1>7, <1>9, <1>10, <1>11

\* So a job that still has its share to write finds room for it.
LEMMA RoomLeft ==
    ASSUME TypeOK, SlotsKept, FilesInOrder, NEW j \in Active,
           DiskSize - leaked >= Concurrency * (MaxBytes + MaxOutput)
    PROVE  Free \in Int /\ Free >= (MaxBytes + MaxOutput) - (input[j] + size[j])
<1> DEFINE share == MaxBytes + MaxOutput
           n == input[j] + size[j]
           c == Cardinality(Chunks)
<1>1. share \in Nat /\ Concurrency \in Nat \ {0} /\ n \in Nat /\ DiskSize - leaked \in Int
  BY SizesAssumption DEF TypeOK, Active
<1>2. c \in Nat /\ c <= (Concurrency - 1) * share + n
  BY ChunksCounted
<1>3. Concurrency * share = (Concurrency - 1) * share + share
  <2>1. \A a \in Nat \ {0}, b \in Nat : a * b = (a - 1) * b + b
    OBVIOUS
  <2>2. QED
    BY <1>1, <2>1
<1>4. (Concurrency - 1) * share \in Nat
  <2>1. \A a, b \in Nat : a * b \in Nat
    OBVIOUS
  <2>2. QED
    BY <1>1, <2>1
<1>5. DiskSize - leaked - c >= share - n
  BY <1>1, <1>2, <1>3, <1>4
<1>6. Free = DiskSize - leaked - c
  BY DEF Free
<1>7. Free \in Int /\ Free >= share - n
  BY <1>1, <1>2, <1>5, <1>6
<1>8. QED
  BY <1>7

LEMMA DiskInitially == Init => DiskInv
<1> SUFFICES ASSUME Init PROVE DiskInv
  OBVIOUS
<1>1. Active = {}
  BY DEF Init, Active
<1>2. SlotsKept
  BY <1>1, FS_EmptySet, SizesAssumption DEF SlotsKept
<1>3. FilesInOrder /\ NoJobStarves
  BY DEF Init, FilesInOrder, NoJobStarves
<1>4. QED
  BY <1>2, <1>3 DEF DiskInv

LEMMA FewerSlots ==
    ASSUME NEW S, IsFiniteSet(S), Cardinality(S) <= Concurrency, NEW T \in SUBSET S
    PROVE  IsFiniteSet(T) /\ Cardinality(T) <= Concurrency
<1>1. IsFiniteSet(T) /\ Cardinality(T) <= Cardinality(S)
  BY FS_Subset
<1>2. Cardinality(S) \in Nat /\ Cardinality(T) \in Nat
  BY <1>1, FS_CardinalityType
<1>3. QED
  BY <1>1, <1>2, SizesAssumption

\* A job that is taken needs a free slot; no other step makes a job active.
LEMMA SlotTaken ==
    ASSUME SlotsKept, SlotFree, NEW j \in Jobs, NEW step, pc' = [pc EXCEPT ![j] = step]
    PROVE  SlotsKept'
<1>1. IsFiniteSet(Active \cup {j}) /\ Cardinality(Active \cup {j}) <= Concurrency
  <2>1. IsFiniteSet(Active) /\ Cardinality(Active) \in Nat /\ Cardinality(Active) < Concurrency
    BY FS_CardinalityType DEF SlotsKept, SlotFree
  <2>2. /\ IsFiniteSet(Active \cup {j})
        /\ Cardinality(Active \cup {j}) \in {Cardinality(Active), Cardinality(Active) + 1}
    BY <2>1, FS_AddElement
  <2>3. QED
    BY <2>1, <2>2, SizesAssumption
<1>2. Active' \subseteq Active \cup {j}
  BY DEF Active
<1>3. QED
  BY <1>1, <1>2, FewerSlots DEF SlotsKept

LEMMA SlotHeld ==
    ASSUME TypeOK, SlotsKept, NEW j \in Active,
           \/ UNCHANGED pc
           \/ \E step : pc' = [pc EXCEPT ![j] = step]
    PROVE  SlotsKept'
<1>1. Active' \subseteq Active
  BY DEF Active, TypeOK
<1>2. QED
  BY <1>1, FewerSlots DEF SlotsKept

\* A step that writes nothing and finds no full disk, on to a stage whose files
\* are there.
LEMMA NothingWritten ==
    ASSUME TypeOK, DiskInv, NEW j \in Jobs,
           \/ UNCHANGED pc
           \/ /\ pc' = [pc EXCEPT ![j] = pc'[j]]
              /\ pc'[j] \in NotYetFetched => input[j] = 0
              /\ pc'[j] \in NotYetWritten => size[j] = 0,
           UNCHANGED <<input, size, leaked, starved>>
    PROVE  FilesInOrder' /\ NoJobStarves'
BY DEF TypeOK, DiskInv, FilesInOrder, NoJobStarves

LEMMA DiskStep == TypeInv /\ DiskInv /\ [Next]_vars => DiskInv'
<1> SUFFICES ASSUME TypeInv, DiskInv, [Next]_vars
             PROVE  DiskInv'
  OBVIOUS
<1> USE DEF TypeInv, TypeOK, Active, NotYetFetched, NotYetWritten, Goto, Fail, DiskInv,
        locals, workdir, world
<1>1. ASSUME NEW j \in Jobs, Accept(j) PROVE DiskInv'
  <2>1. SlotsKept'
    BY <1>1, SlotTaken DEF Accept
  <2>2. FilesInOrder' /\ NoJobStarves'
    BY <1>1, NothingWritten DEF Accept, FilesInOrder
  <2>3. QED
    BY <2>1, <2>2
<1>2. ASSUME NEW j \in Jobs, Reject(j) PROVE DiskInv'
  <2>1. SlotsKept'
    BY <1>2, SlotTaken DEF Reject
  <2>2. FilesInOrder' /\ NoJobStarves'
    BY <1>2, NothingWritten DEF Reject, FilesInOrder
  <2>3. QED
    BY <2>1, <2>2
<1>3. ASSUME NEW j \in Jobs, MakeWorkdir(j) PROVE DiskInv'
  <2>1. SlotsKept'
    BY <1>3, SlotHeld DEF MakeWorkdir
  <2>2. FilesInOrder' /\ NoJobStarves'
    BY <1>3, NothingWritten DEF MakeWorkdir, FilesInOrder
  <2>3. QED
    BY <2>1, <2>2
<1>4. ASSUME NEW j \in Jobs, WaitForDisk(j) PROVE DiskInv'
  <2>1. SlotsKept'
    BY <1>4, SlotHeld DEF WaitForDisk
  <2>2. FilesInOrder' /\ NoJobStarves'
    BY <1>4, NothingWritten DEF WaitForDisk, FilesInOrder
  <2>3. QED
    BY <2>1, <2>2
<1>5. ASSUME NEW j \in Jobs, DiskShort(j) PROVE DiskInv'
  <2>1. SlotsKept'
    BY <1>5, SlotHeld DEF DiskShort
  <2>2. FilesInOrder' /\ NoJobStarves'
    BY <1>5, NothingWritten DEF DiskShort, FilesInOrder
  <2>3. QED
    BY <2>1, <2>2
<1>6. ASSUME NEW j \in Jobs, FetchRefused(j) PROVE DiskInv'
  <2>1. SlotsKept'
    BY <1>6, SlotHeld DEF FetchRefused
  <2>2. FilesInOrder' /\ NoJobStarves'
    BY <1>6, NothingWritten DEF FetchRefused, FilesInOrder
  <2>3. QED
    BY <2>1, <2>2
<1>7. ASSUME NEW j \in Jobs, FetchBroken(j) PROVE DiskInv'
  <2>1. SlotsKept'
    BY <1>7, SlotHeld DEF FetchBroken
  <2>2. FilesInOrder' /\ NoJobStarves'
    BY <1>7, NothingWritten DEF FetchBroken, FilesInOrder
  <2>3. QED
    BY <2>1, <2>2
<1>8. ASSUME NEW j \in Jobs, ChunkWritten(j) PROVE DiskInv'
  <2>1. SlotsKept'
    BY <1>8, SlotHeld DEF ChunkWritten
  <2>2. FilesInOrder'
    BY <1>8 DEF ChunkWritten, FilesInOrder, PartialFile
  <2>3. NoJobStarves'
    BY <1>8 DEF ChunkWritten, NoJobStarves
  <2>4. QED
    BY <2>1, <2>2, <2>3
<1>9. ASSUME NEW j \in Jobs, ChunkRefused(j) PROVE DiskInv'
  <2>1. SlotsKept'
    BY <1>9, SlotHeld DEF ChunkRefused
  <2>2. FilesInOrder' /\ NoJobStarves'
    BY <1>9, NothingWritten DEF ChunkRefused, FilesInOrder
  <2>3. QED
    BY <2>1, <2>2
<1>10. ASSUME NEW j \in Jobs, ChunkStarves(j) PROVE DiskInv'
  <2>1. SlotsKept'
    BY <1>10, SlotHeld DEF ChunkStarves
  <2>2. FilesInOrder'
    BY <1>10 DEF ChunkStarves, FilesInOrder, PartialFile
  <2>3. NoJobStarves'
    <3> SUFFICES ASSUME DiskSize - leaked >= Concurrency * (MaxBytes + MaxOutput)
                 PROVE  UNCHANGED starved
      BY <1>10 DEF ChunkStarves, NoJobStarves
    <3>1. j \in Active /\ input[j] \in 0..MaxBytes /\ size[j] = 0
      BY <1>10 DEF ChunkStarves, FilesInOrder
    <3>2. Free \in Int /\ Free >= (MaxBytes + MaxOutput) - input[j]
      BY <3>1, RoomLeft, SizesAssumption
    <3>3. Free # 0
      BY <1>10, <3>1, <3>2, SizesAssumption DEF ChunkStarves, OverLimit
    <3>4. QED
      BY <1>10, <3>3 DEF ChunkStarves
  <2>4. QED
    BY <2>1, <2>2, <2>3
<1>11. ASSUME NEW j \in Jobs, FetchEnds(j) PROVE DiskInv'
  <2>1. SlotsKept'
    BY <1>11, SlotHeld DEF FetchEnds
  <2>2. FilesInOrder' /\ NoJobStarves'
    BY <1>11, NothingWritten DEF FetchEnds, FilesInOrder
  <2>3. QED
    BY <2>1, <2>2
<1>12. ASSUME NEW j \in Jobs, Sniff(j) PROVE DiskInv'
  <2>1. SlotsKept'
    BY <1>12, SlotHeld DEF Sniff
  <2>2. FilesInOrder' /\ NoJobStarves'
    BY <1>12, NothingWritten DEF Sniff, FilesInOrder
  <2>3. QED
    BY <2>1, <2>2
<1>13. ASSUME NEW j \in Jobs, Probe(j) PROVE DiskInv'
  <2>1. SlotsKept'
    BY <1>13, SlotHeld DEF Probe
  <2>2. FilesInOrder' /\ NoJobStarves'
    BY <1>13, NothingWritten DEF Probe, FilesInOrder
  <2>3. QED
    BY <2>1, <2>2
<1>14. ASSUME NEW j \in Jobs, PlanRejected(j) PROVE DiskInv'
  <2>1. SlotsKept'
    BY <1>14, SlotHeld DEF PlanRejected
  <2>2. FilesInOrder' /\ NoJobStarves'
    BY <1>14, NothingWritten DEF PlanRejected, FilesInOrder
  <2>3. QED
    BY <2>1, <2>2
<1>15. ASSUME NEW j \in Jobs, MakePlan(j) PROVE DiskInv'
  <2>1. SlotsKept'
    BY <1>15, SlotHeld DEF MakePlan
  <2>2. FilesInOrder' /\ NoJobStarves'
    BY <1>15, NothingWritten DEF MakePlan, FilesInOrder
  <2>3. QED
    BY <2>1, <2>2
<1>16. ASSUME NEW j \in Jobs, EncodeExitsZero(j) PROVE DiskInv'
  <2>1. SlotsKept'
    BY <1>16, SlotHeld DEF EncodeExitsZero
  <2>2. FilesInOrder'
    BY <1>16 DEF EncodeExitsZero, FilesInOrder, PartialFile
  <2>3. NoJobStarves'
    BY <1>16 DEF EncodeExitsZero, NoJobStarves
  <2>4. QED
    BY <2>1, <2>2, <2>3
<1>17. ASSUME NEW j \in Jobs, EncodeExitsNonzero(j) PROVE DiskInv'
  <2>1. SlotsKept'
    BY <1>17, SlotHeld DEF EncodeExitsNonzero
  <2>2. FilesInOrder'
    <3>1. CASE LastRung(j)
      BY <1>17, <3>1 DEF EncodeExitsNonzero, FilesInOrder, PartialFile
    <3>2. CASE ~ LastRung(j)
      <4>1. size' = [size EXCEPT ![j] = 0] /\ UNCHANGED <<pc, input>>
        BY <1>17, <3>2 DEF EncodeExitsNonzero
      <4>2. QED
        BY <4>1 DEF FilesInOrder
    <3>3. QED
      BY <3>1, <3>2
  <2>3. NoJobStarves'
    <3> SUFFICES ASSUME DiskSize - leaked >= Concurrency * (MaxBytes + MaxOutput)
                 PROVE  UNCHANGED starved
      BY <1>17 DEF EncodeExitsNonzero, NoJobStarves
    <3>1. j \in Active /\ input[j] \in 0..MaxBytes /\ size[j] = 0
      BY <1>17 DEF EncodeExitsNonzero, FilesInOrder
    <3>2. Free \in Int /\ Free >= (MaxBytes + MaxOutput) - input[j]
      BY <3>1, RoomLeft, SizesAssumption
    <3>3. ~ (MaxOutput > Free)
      BY <1>17, <3>1, <3>2, SizesAssumption DEF EncodeExitsNonzero, OverLimit
    <3>4. QED
      BY <1>17, <3>3 DEF EncodeExitsNonzero
  <2>4. QED
    BY <2>1, <2>2, <2>3
<1>18. ASSUME NEW j \in Jobs, EncodeTimesOut(j) PROVE DiskInv'
  <2>1. SlotsKept'
    BY <1>18, SlotHeld DEF EncodeTimesOut
  <2>2. FilesInOrder'
    BY <1>18 DEF EncodeTimesOut, FilesInOrder, PartialFile
  <2>3. NoJobStarves'
    BY <1>18 DEF EncodeTimesOut, NoJobStarves
  <2>4. QED
    BY <2>1, <2>2, <2>3
<1>19. ASSUME NEW j \in Jobs, PostCheck(j) PROVE DiskInv'
  <2>1. SlotsKept'
    BY <1>19, SlotHeld DEF PostCheck
  <2>2. FilesInOrder' /\ NoJobStarves'
    BY <1>19, NothingWritten DEF PostCheck, FilesInOrder
  <2>3. QED
    BY <2>1, <2>2
<1>20. ASSUME NEW j \in Jobs, Thumbnail(j) PROVE DiskInv'
  <2>1. SlotsKept'
    BY <1>20, SlotHeld DEF Thumbnail
  <2>2. FilesInOrder' /\ NoJobStarves'
    BY <1>20, NothingWritten DEF Thumbnail, FilesInOrder
  <2>3. QED
    BY <2>1, <2>2
<1>21. ASSUME NEW j \in Jobs, ImageRejected(j) PROVE DiskInv'
  <2>1. SlotsKept'
    BY <1>21, SlotHeld DEF ImageRejected
  <2>2. FilesInOrder' /\ NoJobStarves'
    BY <1>21, NothingWritten DEF ImageRejected, FilesInOrder
  <2>3. QED
    BY <2>1, <2>2
<1>22. ASSUME NEW j \in Jobs, ImageUnchanged(j) PROVE DiskInv'
  <2>1. SlotsKept'
    BY <1>22, SlotHeld DEF ImageUnchanged
  <2>2. FilesInOrder' /\ NoJobStarves'
    BY <1>22, NothingWritten DEF ImageUnchanged, FilesInOrder
  <2>3. QED
    BY <2>1, <2>2
<1>23. ASSUME NEW j \in Jobs, ImageSaved(j) PROVE DiskInv'
  <2>1. SlotsKept'
    BY <1>23, SlotHeld DEF ImageSaved
  <2>2. FilesInOrder'
    BY <1>23 DEF ImageSaved, FilesInOrder, PartialFile
  <2>3. NoJobStarves'
    BY <1>23 DEF ImageSaved, NoJobStarves
  <2>4. QED
    BY <2>1, <2>2, <2>3
<1>24. ASSUME NEW j \in Jobs, ImageNotSaved(j) PROVE DiskInv'
  <2>1. SlotsKept'
    BY <1>24, SlotHeld DEF ImageNotSaved
  <2>2. FilesInOrder'
    BY <1>24 DEF ImageNotSaved, FilesInOrder, PartialFile
  <2>3. NoJobStarves'
    <3> SUFFICES ASSUME DiskSize - leaked >= Concurrency * (MaxBytes + MaxOutput)
                 PROVE  UNCHANGED starved
      BY <1>24 DEF ImageNotSaved, NoJobStarves
    <3>1. j \in Active /\ input[j] \in 0..MaxBytes /\ size[j] = 0
      BY <1>24 DEF ImageNotSaved, FilesInOrder
    <3>2. Free \in Int /\ Free >= (MaxBytes + MaxOutput) - input[j]
      BY <3>1, RoomLeft, SizesAssumption
    <3>3. ~ (MaxOutput > Free)
      BY <1>24, <3>1, <3>2, SizesAssumption DEF ImageNotSaved, OverLimit
    <3>4. QED
      BY <1>24, <3>3 DEF ImageNotSaved
  <2>4. QED
    BY <2>1, <2>2, <2>3
<1>25. ASSUME NEW j \in Jobs, Gate(j) PROVE DiskInv'
  <2>1. SlotsKept'
    BY <1>25, SlotHeld DEF Gate
  <2>2. FilesInOrder' /\ NoJobStarves'
    BY <1>25, NothingWritten DEF Gate, FilesInOrder
  <2>3. QED
    BY <2>1, <2>2
<1>26. ASSUME NEW j \in Jobs, PutAccepted(j) PROVE DiskInv'
  <2>1. SlotsKept'
    BY <1>26, SlotHeld DEF PutAccepted, Putting, AfterPut
  <2>2. FilesInOrder' /\ NoJobStarves'
    BY <1>26, NothingWritten DEF PutAccepted, Putting, AfterPut, FilesInOrder
  <2>3. QED
    BY <2>1, <2>2
<1>27. ASSUME NEW j \in Jobs, PutUnanswered(j) PROVE DiskInv'
  <2>1. SlotsKept'
    BY <1>27, SlotHeld DEF PutUnanswered, Putting
  <2>2. FilesInOrder' /\ NoJobStarves'
    BY <1>27, NothingWritten DEF PutUnanswered, Putting, FilesInOrder
  <2>3. QED
    BY <2>1, <2>2
<1>28. ASSUME NEW j \in Jobs, PutRefused(j) PROVE DiskInv'
  <2>1. SlotsKept'
    BY <1>28, SlotHeld DEF PutRefused, Putting
  <2>2. FilesInOrder' /\ NoJobStarves'
    BY <1>28, NothingWritten DEF PutRefused, Putting, FilesInOrder
  <2>3. QED
    BY <2>1, <2>2
<1>29. ASSUME NEW j \in Jobs, Report(j) PROVE DiskInv'
  <2>1. SlotsKept'
    BY <1>29, SlotHeld DEF Report
  <2>2. FilesInOrder' /\ NoJobStarves'
    BY <1>29, NothingWritten DEF Report, FilesInOrder
  <2>3. QED
    BY <2>1, <2>2
<1>30. ASSUME NEW j \in Jobs, Crash(j) PROVE DiskInv'
  <2>1. SlotsKept'
    BY <1>30, SlotHeld DEF Crash, TryBlock
  <2>2. FilesInOrder' /\ NoJobStarves'
    BY <1>30, NothingWritten DEF Crash, TryBlock, FilesInOrder
  <2>3. QED
    BY <2>1, <2>2
<1>31. ASSUME NEW j \in Jobs, Cleanup(j) PROVE DiskInv'
  <2>1. SlotsKept'
    BY <1>31, SlotHeld DEF Cleanup
  <2>2. FilesInOrder'
    BY <1>31 DEF Cleanup, FilesInOrder, PartialFile
  <2>3. NoJobStarves'
    BY <1>31 DEF Cleanup, NoJobStarves
  <2>4. QED
    BY <2>1, <2>2, <2>3
<1>32. ASSUME NEW j \in Jobs, DeadlinePasses(j) PROVE DiskInv'
  <2>1. SlotsKept'
    BY <1>32, SlotHeld DEF DeadlinePasses
  <2>2. FilesInOrder' /\ NoJobStarves'
    BY <1>32, NothingWritten DEF DeadlinePasses, FilesInOrder
  <2>3. QED
    BY <2>1, <2>2
<1>33. CASE UNCHANGED vars
  BY <1>33 DEF vars, SlotsKept, FilesInOrder, NoJobStarves
<1>34. QED
  BY <1>1, <1>2, <1>3, <1>4, <1>5, <1>6, <1>7, <1>8, <1>9, <1>10, <1>11, <1>12, <1>13, <1>14, <1>15, <1>16, <1>17, <1>18, <1>19, <1>20, <1>21, <1>22, <1>23, <1>24, <1>25, <1>26, <1>27, <1>28, <1>29, <1>30, <1>31, <1>32, <1>33 DEF Next, Step, Idle

\* No running job finds the scratch disk full when it is large enough for the
\* input and the output of every slot, whatever the interleaving of the checks in
\* _ensure_disk with the writes of the others.
THEOREM NoneStarves == Spec => []NoJobStarves
<1>1. DiskInv => NoJobStarves
  BY DEF DiskInv
<1>2. QED
  BY <1>1, TypeInitially, TypeStep, DiskInitially, DiskStep, PTL DEF Spec

(***************************************************************************)
(* The steps of a job are numbered.                                        *)
(***************************************************************************)
\* The steps from a stage to the end of the call, with those its own loop may
\* still make: b chunks are written, a is the rung, t puts have failed.
Rank(step, b, a, t) ==
    CASE step = "returned" -> 0
      [] step = "cleanup" -> 1
      [] step = "report" -> 2
      [] step = "putThumbnail" -> 5 - t
      [] step = "putOutput" -> 8 - t
      [] step = "gate" -> 9
      [] step \in {"thumbnail", "image"} -> 10
      [] step = "postcheck" -> 11
      [] step = "encode" -> 15 - a
      [] step = "plan" -> 15
      [] step = "probe" -> 16
      [] step = "sniff" -> 17
      [] step = "download" -> (MaxBytes - b) + 18
      [] step = "diskRecheck" -> MaxBytes + 19
      [] step = "disk" -> MaxBytes + 20
      [] OTHER -> MaxBytes + 21

StepsLeft(j) == Rank(pc[j], input[j], attempt[j], tries[j])

\* A step of job j brings it nearer to its end and no other job further away.
Nearer(j) ==
    /\ StepsLeft(j)' < StepsLeft(j)
    /\ \A i \in Jobs \ {j} : StepsLeft(i)' = StepsLeft(i)

LEMMA RankType ==
    ASSUME NEW step \in Steps, NEW b \in 0..MaxBytes, NEW a \in 1..3, NEW t \in 0..2
    PROVE  Rank(step, b, a, t) \in 0..(MaxBytes + 21)
<1>1. MaxBytes \in Nat
  BY SizesAssumption
<1>2. CASE step = "download"
  <2>1. Rank(step, b, a, t) = (MaxBytes - b) + 18
    BY <1>2 DEF Rank
  <2>2. QED
    BY <1>1, <2>1
<1>3. CASE step \in {"encode", "putOutput", "putThumbnail"}
  <2>1. \/ Rank(step, b, a, t) = 15 - a
        \/ Rank(step, b, a, t) = 8 - t
        \/ Rank(step, b, a, t) = 5 - t
    BY <1>3 DEF Rank
  <2>2. QED
    BY <1>1, <2>1
<1>4. CASE step \in {"queued", "disk", "diskRecheck"}
  <2>1. \/ Rank(step, b, a, t) = MaxBytes + 21
        \/ Rank(step, b, a, t) = MaxBytes + 20
        \/ Rank(step, b, a, t) = MaxBytes + 19
    BY <1>4 DEF Rank
  <2>2. QED
    BY <1>1, <2>1
<1>5. CASE step \in {"cleanup", "returned", "sniff", "probe", "plan", "postcheck",
                    "thumbnail", "image", "gate", "report"}
  <2>1. Rank(step, b, a, t) \in {0, 1, 2, 9, 10, 11, 15, 16, 17}
    BY <1>5 DEF Rank
  <2>2. QED
    BY <1>1, <2>1
<1>6. QED
  BY <1>2, <1>3, <1>4, <1>5 DEF Steps, TryBlock

LEMMA StepsLeftType ==
    ASSUME TypeOK, NEW j \in Jobs
    PROVE  StepsLeft(j) \in 0..(MaxBytes + 21)
<1>1. pc[j] \in Steps /\ input[j] \in 0..MaxBytes /\ attempt[j] \in 1..3 /\ tries[j] \in 0..2
  BY DEF TypeOK, Attempts
<1>2. QED
  BY <1>1, RankType DEF StepsLeft

\* Whatever a job is at before its finally block, failing is nearer to the end.
LEMMA RankAboveCleanup ==
    ASSUME NEW step \in Steps \ {"cleanup", "returned"},
           NEW b \in 0..MaxBytes, NEW a \in 1..3, NEW t \in 0..2
    PROVE  Rank("cleanup", b, a, t) < Rank(step, b, a, t)
BY SizesAssumption DEF Rank, Steps, TryBlock

\* The steps that only move one thread, failures among them.
LEMMA MoveNearer ==
    ASSUME TypeOK, NEW j \in Jobs, NEW step \in Steps, Goto(j, step),
           UNCHANGED <<input, attempt, tries>>,
           Rank(step, input[j], attempt[j], tries[j])
               < Rank(pc[j], input[j], attempt[j], tries[j])
    PROVE  Nearer(j)
<1>1. pc'[j] = step /\ \A i \in Jobs \ {j} : pc'[i] = pc[i]
  BY DEF Goto, TypeOK
<1>2. QED
  BY <1>1 DEF Nearer, StepsLeft

LEMMA FailNearer ==
    ASSUME TypeOK, NEW j \in Jobs, pc[j] \notin {"cleanup", "returned"}, NEW err, Fail(j, err),
           UNCHANGED <<input, attempt, tries>>
    PROVE  Nearer(j)
<1>1. pc[j] \in Steps /\ input[j] \in 0..MaxBytes /\ attempt[j] \in 1..3 /\ tries[j] \in 0..2
  BY DEF TypeOK, Attempts
<1>2. Rank("cleanup", input[j], attempt[j], tries[j])
          < Rank(pc[j], input[j], attempt[j], tries[j])
  BY <1>1, RankAboveCleanup
<1>3. "cleanup" \in Steps /\ Goto(j, "cleanup")
  BY DEF Steps, Fail
<1>4. QED
  BY <1>2, <1>3, MoveNearer

LEMMA NearerStep ==
    ASSUME TypeInv, NEW j \in Jobs, Accept(j) \/ Reject(j) \/ Step(j) \/ Crash(j)
    PROVE  Nearer(j)
<1> DEFINE Here(step) == Rank(step, input[j], attempt[j], tries[j])
<1>0. /\ TypeOK
      /\ pc[j] \in Steps /\ input[j] \in 0..MaxBytes /\ attempt[j] \in 1..3 /\ tries[j] \in 0..2
      /\ MaxBytes \in Nat
  BY SizesAssumption DEF TypeInv, TypeOK, Attempts
<1>a. ASSUME NEW step \in Steps, Goto(j, step), UNCHANGED <<input, attempt, tries>>,
             Here(step) < Here(pc[j])
      PROVE  Nearer(j)
  BY <1>0, <1>a, MoveNearer
<1>b. ASSUME pc[j] \notin {"cleanup", "returned"}, NEW err, Fail(j, err),
             UNCHANGED <<input, attempt, tries>>
      PROVE  Nearer(j)
  BY <1>0, <1>b, FailNearer
<1>c. Steps = {"queued", "cleanup", "returned", "disk", "diskRecheck", "download", "sniff",
               "probe", "plan", "encode", "postcheck", "thumbnail", "image", "gate",
               "putOutput", "putThumbnail", "report"}
  BY DEF Steps, TryBlock
<1>1. CASE Accept(j)
  <2>1. pc[j] = "queued" /\ Goto(j, "disk") /\ UNCHANGED <<input, attempt, tries>>
    BY <1>1 DEF Accept, locals, workdir
  <2>2. Here("disk") < Here("queued")
    BY <1>0 DEF Rank
  <2>3. QED
    BY <2>1, <2>2, <1>a, <1>c
<1>2. CASE Reject(j)
  BY <1>2, <1>b DEF Reject, locals, workdir
<1>3. CASE MakeWorkdir(j)
  <2>1. /\ pc[j] \in {"disk", "diskRecheck"} /\ Goto(j, "download")
        /\ UNCHANGED <<input, attempt, tries>>
    BY <1>3 DEF MakeWorkdir, locals
  <2>2. Here("download") < Here("disk") /\ Here("download") < Here("diskRecheck")
    BY <1>0 DEF Rank
  <2>3. QED
    BY <2>1, <2>2, <1>a, <1>c
<1>4. CASE WaitForDisk(j)
  <2>1. pc[j] = "disk" /\ Goto(j, "diskRecheck") /\ UNCHANGED <<input, attempt, tries>>
    BY <1>4 DEF WaitForDisk, locals, workdir
  <2>2. Here("diskRecheck") < Here("disk")
    BY <1>0 DEF Rank
  <2>3. QED
    BY <2>1, <2>2, <1>a, <1>c
<1>5. CASE DiskShort(j)
  BY <1>5, <1>b DEF DiskShort, locals, workdir
<1>6. CASE FetchRefused(j)
  BY <1>6, <1>b DEF FetchRefused, locals, workdir
<1>7. CASE FetchBroken(j)
  BY <1>7, <1>b DEF FetchBroken, locals, workdir
<1>8. CASE ChunkWritten(j)
  <2>1. /\ pc[j] = "download" /\ UNCHANGED <<pc, attempt, tries>>
        /\ input[j] + 1 <= MaxBytes /\ input' = [input EXCEPT ![j] = @ + 1]
    BY <1>8, <1>0 DEF ChunkWritten, OverLimit, locals
  <2>2. input'[j] = input[j] + 1 /\ \A i \in Jobs \ {j} : input'[i] = input[i]
    BY <2>1 DEF TypeInv, TypeOK
  <2>3. Rank("download", input[j] + 1, attempt[j], tries[j]) < Here("download")
    BY <1>0, <2>1 DEF Rank
  <2>4. QED
    BY <2>1, <2>2, <2>3 DEF Nearer, StepsLeft
<1>9. CASE ChunkRefused(j)
  BY <1>9, <1>b DEF ChunkRefused, locals, workdir
<1>10. CASE ChunkStarves(j)
  BY <1>10, <1>b DEF ChunkStarves, locals, workdir
<1>11. CASE FetchEnds(j)
  <2>1. pc[j] = "download" /\ UNCHANGED <<input, attempt, tries>>
    BY <1>11 DEF FetchEnds, locals, workdir
  <2>2. Here("sniff") < Here("download")
    BY <1>0 DEF Rank
  <2>3. CASE Goto(j, "sniff")
    BY <2>1, <2>2, <2>3, <1>a, <1>c
  <2>4. CASE Fail(j, JobError("DOWNLOAD_FAILED", FALSE))
    BY <2>1, <2>4, <1>b
  <2>5. QED
    BY <1>11, <2>3, <2>4 DEF FetchEnds
<1>12. CASE Sniff(j)
  <2>1. pc[j] = "sniff" /\ UNCHANGED <<input, attempt, tries>>
    BY <1>12 DEF Sniff, locals, workdir
  <2>2. Here("probe") < Here("sniff") /\ Here("image") < Here("sniff")
    BY <1>0 DEF Rank
  <2>3. CASE Goto(j, "probe") \/ Goto(j, "image")
    BY <2>1, <2>2, <2>3, <1>a, <1>c
  <2>4. CASE Fail(j, JobError("UNSUPPORTED_INPUT", FALSE))
    BY <2>1, <2>4, <1>b
  <2>5. QED
    BY <1>12, <2>3, <2>4 DEF Sniff
<1>13. CASE Probe(j)
  <2>1. pc[j] = "probe" /\ UNCHANGED <<input, attempt, tries>>
    BY <1>13 DEF Probe, workdir
  <2>2. Here("plan") < Here("probe")
    BY <1>0 DEF Rank
  <2>3. CASE Goto(j, "plan")
    BY <2>1, <2>2, <2>3, <1>a, <1>c
  <2>4. CASE \E err \in ProbeErrors : Fail(j, err)
    BY <2>1, <2>4, <1>b
  <2>5. QED
    BY <1>13, <2>3, <2>4 DEF Probe
<1>14. CASE PlanRejected(j)
  BY <1>14, <1>b DEF PlanRejected, locals, workdir
<1>15. CASE MakePlan(j)
  <2>1. /\ pc[j] = "plan" /\ UNCHANGED <<input, attempt, tries>>
        /\ Goto(j, "thumbnail") \/ Goto(j, "encode")
    BY <1>15 DEF MakePlan, workdir
  <2>2. Here("thumbnail") < Here("plan") /\ Here("encode") < Here("plan")
    BY <1>0 DEF Rank
  <2>3. QED
    BY <2>1, <2>2, <1>a, <1>c
<1>16. CASE EncodeExitsZero(j)
  <2>1. pc[j] = "encode" /\ Goto(j, "postcheck") /\ UNCHANGED <<input, attempt, tries>>
    BY <1>16 DEF EncodeExitsZero, locals
  <2>2. Here("postcheck") < Here("encode")
    BY <1>0 DEF Rank
  <2>3. QED
    BY <2>1, <2>2, <1>a, <1>c
<1>17. CASE EncodeExitsNonzero(j)
  <2>1. pc[j] = "encode" /\ UNCHANGED <<input, tries>>
    BY <1>17 DEF EncodeExitsNonzero
  <2>2. CASE LastRung(j)
    BY <1>17, <2>1, <2>2, <1>b DEF EncodeExitsNonzero
  <2>3. CASE ~ LastRung(j)
    <3>1. UNCHANGED pc /\ attempt' = [attempt EXCEPT ![j] = @ + 1]
      BY <1>17, <2>3 DEF EncodeExitsNonzero
    <3>2. attempt'[j] = attempt[j] + 1 /\ \A i \in Jobs \ {j} : attempt'[i] = attempt[i]
      BY <3>1 DEF TypeInv, TypeOK
    <3>3. Rank("encode", input[j], attempt[j] + 1, tries[j]) < Here("encode")
      BY <1>0 DEF Rank
    <3>4. QED
      BY <2>1, <3>1, <3>2, <3>3 DEF Nearer, StepsLeft
  <2>4. QED
    BY <2>2, <2>3
<1>18. CASE EncodeTimesOut(j)
  BY <1>18, <1>b DEF EncodeTimesOut, locals
<1>19. CASE PostCheck(j)
  <2>1. pc[j] = "postcheck" /\ UNCHANGED <<input, attempt, tries>>
    BY <1>19 DEF PostCheck, locals, workdir
  <2>2. Here("thumbnail") < Here("postcheck")
    BY <1>0 DEF Rank
  <2>3. CASE Goto(j, "thumbnail")
    BY <2>1, <2>2, <2>3, <1>a, <1>c
  <2>4. CASE \E err : Fail(j, err)
    BY <2>1, <2>4, <1>b
  <2>5. QED
    BY <1>19, <2>3, <2>4 DEF PostCheck
<1>20. CASE Thumbnail(j)
  <2>1. pc[j] = "thumbnail" /\ Goto(j, "gate") /\ UNCHANGED <<input, attempt, tries>>
    BY <1>20 DEF Thumbnail, workdir
  <2>2. Here("gate") < Here("thumbnail")
    BY <1>0 DEF Rank
  <2>3. QED
    BY <2>1, <2>2, <1>a, <1>c
<1>21. CASE ImageRejected(j)
  BY <1>21, <1>b DEF ImageRejected, locals, workdir
<1>22. CASE ImageUnchanged(j)
  <2>1. pc[j] = "image" /\ Goto(j, "gate") /\ UNCHANGED <<input, attempt, tries>>
    BY <1>22 DEF ImageUnchanged, workdir
  <2>2. Here("gate") < Here("image")
    BY <1>0 DEF Rank
  <2>3. QED
    BY <2>1, <2>2, <1>a, <1>c
<1>23. CASE ImageSaved(j)
  <2>1. pc[j] = "image" /\ Goto(j, "gate") /\ UNCHANGED <<input, attempt, tries>>
    BY <1>23 DEF ImageSaved, workdir
  <2>2. Here("gate") < Here("image")
    BY <1>0 DEF Rank
  <2>3. QED
    BY <2>1, <2>2, <1>a, <1>c
<1>24. CASE ImageNotSaved(j)
  BY <1>24, <1>b DEF ImageNotSaved, locals
<1>25. CASE Gate(j)
  <2>1. pc[j] = "gate" /\ UNCHANGED <<input, attempt, tries>>
    BY <1>25 DEF Gate, locals, workdir
  <2>2. /\ Here("report") < Here("gate") /\ Here("putOutput") < Here("gate")
        /\ Here("putThumbnail") < Here("gate")
    BY <1>0 DEF Rank
  <2>3. CASE Goto(j, "report") \/ Goto(j, "putOutput") \/ Goto(j, "putThumbnail")
    BY <2>1, <2>2, <2>3, <1>a, <1>c
  <2>4. CASE Fail(j, JobError("TIMEOUT", TRUE))
    BY <2>1, <2>4, <1>b
  <2>5. QED
    BY <1>25, <2>3, <2>4 DEF Gate
<1>26. CASE PutAccepted(j)
  <2>1. /\ UNCHANGED <<input, attempt>> /\ tries' = [tries EXCEPT ![j] = 0]
        /\ pc' = [pc EXCEPT ![j] = AfterPut(j)]
    BY <1>26 DEF PutAccepted, Goto, workdir
  <2>2. /\ pc'[j] = AfterPut(j) /\ tries'[j] = 0
        /\ \A i \in Jobs \ {j} : pc'[i] = pc[i] /\ tries'[i] = tries[i]
    BY <2>1 DEF TypeInv, TypeOK
  <2>3. \/ pc[j] = "putOutput" /\ AfterPut(j) \in {"putThumbnail", "report"}
        \/ pc[j] = "putThumbnail" /\ AfterPut(j) = "report"
    BY <1>26 DEF PutAccepted, Putting, AfterPut
  <2>4. Rank(AfterPut(j), input[j], attempt[j], 0) < Here(pc[j])
    BY <1>0, <2>3 DEF Rank
  <2>5. QED
    BY <2>1, <2>2, <2>4 DEF Nearer, StepsLeft
<1>27. CASE PutUnanswered(j)
  <2>1. pc[j] \in {"putOutput", "putThumbnail"} /\ UNCHANGED <<input, attempt>>
    BY <1>27 DEF PutUnanswered, Putting, workdir
  <2>2. CASE LastTry(j)
    BY <1>27, <2>1, <2>2, <1>b DEF PutUnanswered
  <2>3. CASE ~ LastTry(j)
    <3>1. UNCHANGED pc /\ tries' = [tries EXCEPT ![j] = @ + 1]
      BY <1>27, <2>3 DEF PutUnanswered
    <3>2. tries'[j] = tries[j] + 1 /\ \A i \in Jobs \ {j} : tries'[i] = tries[i]
      BY <3>1 DEF TypeInv, TypeOK
    <3>3. Rank(pc[j], input[j], attempt[j], tries[j] + 1) < Here(pc[j])
      BY <1>0, <2>1 DEF Rank
    <3>4. QED
      BY <2>1, <3>1, <3>2, <3>3 DEF Nearer, StepsLeft
  <2>4. QED
    BY <2>2, <2>3
<1>28. CASE PutRefused(j)
  BY <1>28, <1>b DEF PutRefused, Putting, locals, workdir
<1>29. CASE Report(j)
  <2>1. pc[j] = "report" /\ Goto(j, "cleanup") /\ UNCHANGED <<input, attempt, tries>>
    BY <1>29 DEF Report, locals, workdir
  <2>2. Here("cleanup") < Here("report")
    BY <1>0 DEF Rank
  <2>3. QED
    BY <2>1, <2>2, <1>a, <1>c
<1>30. CASE Crash(j)
  BY <1>30, <1>b DEF Crash, TryBlock, locals, workdir
<1>31. CASE Cleanup(j)
  <2>1. /\ pc[j] = "cleanup" /\ UNCHANGED <<attempt, tries>>
        /\ pc' = [pc EXCEPT ![j] = "returned"] /\ input' = [input EXCEPT ![j] = 0]
    BY <1>31 DEF Cleanup, Goto, locals
  <2>2. /\ pc'[j] = "returned" /\ input'[j] = 0
        /\ \A i \in Jobs \ {j} : pc'[i] = pc[i] /\ input'[i] = input[i]
    BY <2>1 DEF TypeInv, TypeOK
  <2>3. Rank("returned", 0, attempt[j], tries[j]) < Here("cleanup")
    BY DEF Rank
  <2>4. QED
    BY <2>1, <2>2, <2>3 DEF Nearer, StepsLeft
<1>32. QED
  BY <1>1, <1>2, <1>3, <1>4, <1>5, <1>6, <1>7, <1>8, <1>9, <1>10, <1>11, <1>12, <1>13, <1>14, <1>15, <1>16, <1>17, <1>18, <1>19, <1>20, <1>21, <1>22, <1>23, <1>24, <1>25, <1>26, <1>27, <1>28, <1>29, <1>30, <1>31 DEF Step

\* No ladder, retry or wait of a job goes round for ever, and no other job
\* makes it: each step of a call, whether it succeeds, fails or raises, counts
\* down from a bound that only the size limit enters, and no step of another job
\* or of the clock counts up (process(), the loops of download(), _run_encode()
\* and upload()).
THEOREM StepsRunOut ==
    Spec => /\ [](\A j \in Jobs : StepsLeft(j) \in 0..(MaxBytes + 21))
            /\ [][\A j \in Jobs :
                     /\ StepsLeft(j)' <= StepsLeft(j)
                     /\ (Accept(j) \/ Reject(j) \/ Step(j) \/ Crash(j))
                           => StepsLeft(j)' < StepsLeft(j)]_vars
<1> DEFINE Inside == \A j \in Jobs : StepsLeft(j) \in 0..(MaxBytes + 21)
           Down == \A j \in Jobs :
                     /\ StepsLeft(j)' <= StepsLeft(j)
                     /\ (Accept(j) \/ Reject(j) \/ Step(j) \/ Crash(j))
                           => StepsLeft(j)' < StepsLeft(j)
<1>1. TypeInv => Inside
  BY StepsLeftType DEF TypeInv
<1>2. TypeInv /\ Inside /\ Inside' /\ [Next]_vars => [Down]_vars
  <2> SUFFICES ASSUME TypeInv, Inside, Inside', [Next]_vars, ~ UNCHANGED vars, NEW j \in Jobs
               PROVE  /\ StepsLeft(j)' <= StepsLeft(j)
                      /\ (Accept(j) \/ Reject(j) \/ Step(j) \/ Crash(j))
                            => StepsLeft(j)' < StepsLeft(j)
    OBVIOUS
  <2>1. StepsLeft(j)' \in Int /\ StepsLeft(j) \in Int
    <3> HIDE DEF Rank
    <3>1. MaxBytes \in Nat
      BY SizesAssumption
    <3>2. QED
      BY <3>1 DEF Inside
  <2>2. ASSUME Accept(j) \/ Reject(j) \/ Step(j) \/ Crash(j)
        PROVE  StepsLeft(j)' < StepsLeft(j)
    BY <2>2, NearerStep DEF Nearer
  <2>3. ASSUME NEW i \in Jobs \ {j}, Accept(i) \/ Reject(i) \/ Step(i) \/ Crash(i)
        PROVE  StepsLeft(j)' = StepsLeft(j)
    BY <2>3, NearerStep DEF Nearer
  <2>4. ASSUME NEW i \in Jobs, DeadlinePasses(i)
        PROVE  StepsLeft(j)' = StepsLeft(j)
    BY <2>4 DEF DeadlinePasses, locals, workdir, StepsLeft
  <2>5. StepsLeft(j)' < StepsLeft(j) \/ StepsLeft(j)' = StepsLeft(j)
    BY <2>2, <2>3, <2>4 DEF Next, Idle
  <2>6. QED
    BY <2>1, <2>2, <2>5
<1>3. QED
  BY <1>1, <1>2, TypeInitially, TypeStep, PTL DEF Spec
=============================================================================
