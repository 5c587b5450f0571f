------------------------------ MODULE Pipeline ------------------------------
(***************************************************************************)
(* The normalization worker: process(raw_job) for video and image jobs     *)
(* (postiz_uploader/pipeline.py), with the stages it calls (download,      *)
(* sniff, probe, the video encode ladder and its post-check, the image     *)
(* stage, thumbnail, upload).  Every job runs on a thread of its own; the  *)
(* threads share one scratch disk and store into one bucket.               *)
(*                                                                         *)
(* A step of a thread is one call that can block or fail.  What the        *)
(* outside world answers (the origin, ffmpeg, the bucket, the clock) is    *)
(* nondeterministic.  Bytes are counted in download chunks, and the        *)
(* thumbnail's bytes are not counted.                                      *)
(***************************************************************************)
EXTENDS Naturals, Sequences, FiniteSets, JobResults

CONSTANTS
    Jobs,          \* the calls of process()
    Concurrency,   \* WORKER_CONCURRENCY, jobs the worker runs at a time
    Requests,      \* the kinds of job the callers send
    MaxBytes,      \* min(limits.max_input_bytes, MAX_INPUT_BYTES_CAP), in chunks
    MaxOutput,     \* largest file an encode or a save writes, in chunks
    DiskSize,      \* the scratch disk under WORK_DIR, in chunks
    Leaks,         \* what a killed worker's job directories may still hold of it
    Gpu            \* settings.gpu, whether ENCODER is h264_nvenc

RequestKinds == [media : {"video", "image"}, thumbnail : BOOLEAN]

ASSUME RequestsAssumption == Requests \subseteq RequestKinds
ASSUME SizesAssumption == /\ Concurrency \in Nat \ {0}
                          /\ MaxBytes \in Nat \ {0}
                          /\ MaxOutput \in Nat \ {0}
                          /\ DiskSize \in Nat
                          /\ Leaks \subseteq 0..DiskSize
                          /\ Gpu \in BOOLEAN

VARIABLES
    pc,        \* the next step of each job's thread
    late,      \* whether time.monotonic() has passed the job's deadline
    \* the local variables of process() and of the stage it is in
    request,   \* the parsed job
    probed,    \* whether probe() has returned a SourceInfo
    source,    \* whether process() has a source block to report
    plan,      \* the plan of the video stage, or what the image stage decided
    attempt,   \* the rung of the encode ladder, from 1
    tries,     \* failed attempts of the current upload()
    shot,      \* whether thumbnail_path names a file
    result,    \* what process() is about to return
    \* the job's temporary directory
    dir,       \* whether it exists
    input,     \* bytes in <workdir>/input
    output,    \* the output file: "none", "partial", "good" or "bad"
    size,      \* bytes in the output file
    \* the outside world
    leaked,    \* bytes under WORK_DIR that no running job owns
    store,     \* the objects behind output.url and thumbnail.url
    works,     \* rungs that can render this job's source on this host
    starved    \* whether a write of the job has found the disk full

locals  == <<request, probed, source, plan, attempt, tries, shot>>
workdir == <<dir, input, output, size>>
world   == <<leaked, store, works, starved>>
vars    == <<pc, late, locals, result, workdir, world>>
----------------------------------------------------------------------------

Active == {j \in Jobs : pc[j] \notin {"queued", "returned"}}

\* The chunks on the disk that a job has written, named by the job and a number.
Chunks == UNION {{j} \X (1..(input[j] + size[j])) : j \in Jobs}

\* shutil.disk_usage(work_dir).free
Free == DiskSize - leaked - Cardinality(Chunks)

Goto(j, step) == pc' = [pc EXCEPT ![j] = step]

\* A JobError leaves the try block: the result is built, then the finally
\* block removes the directory.  The source block is what process() has of it.
Fail(j, err) ==
    /\ result' = [result EXCEPT ![j] =
                     Result("failed", err.code, err.retryable, source[j], FALSE)]
    /\ Goto(j, "cleanup")

\* The JobErrors of probe(): ffprobe timed out, could not run, or exited with
\* an error; no dimensions; no video stream.
ProbeErrors == {JobError("PROBE_FAILED", TRUE), JobError("INTERNAL", TRUE),
                JobError("PROBE_FAILED", FALSE), JobError("UNSUPPORTED_INPUT", FALSE)}
----------------------------------------------------------------------------
Init ==
    /\ pc = [j \in Jobs |-> "queued"]
    /\ late = [j \in Jobs |-> FALSE]
    /\ request \in [Jobs -> Requests]
    /\ probed = [j \in Jobs |-> FALSE]
    /\ source = [j \in Jobs |-> FALSE]
    /\ plan = [j \in Jobs |-> "none"]
    /\ attempt = [j \in Jobs |-> 1]
    /\ tries = [j \in Jobs |-> 0]
    /\ shot = [j \in Jobs |-> FALSE]
    /\ result = [j \in Jobs |-> NoResult]
    /\ dir = [j \in Jobs |-> FALSE]
    /\ input = [j \in Jobs |-> 0]
    /\ output = [j \in Jobs |-> "none"]
    /\ size = [j \in Jobs |-> 0]
    /\ leaked \in Leaks
    /\ store = [j \in Jobs |-> Nothing]
    /\ works = [j \in Jobs |-> {}]
    /\ starved = [j \in Jobs |-> FALSE]

(***************************************************************************)
(* Validation.                                                             *)
(***************************************************************************)
SlotFree == Cardinality(Active) < Concurrency

\* The worker takes a job, which parses and whose host is allowed.
Accept(j) ==
    /\ pc[j] = "queued"
    /\ SlotFree
    /\ Goto(j, "disk")
    /\ UNCHANGED <<late, locals, result, workdir, world>>

\* parse_job() or host_allowed() refuses the job.
Reject(j) ==
    /\ pc[j] = "queued"
    /\ SlotFree
    /\ \E code \in {"UNSUPPORTED_VERSION", "INVALID_JOB", "SOURCE_HOST_NOT_ALLOWED"} :
          Fail(j, JobError(code, FALSE))
    /\ UNCHANGED <<late, locals, workdir, world>>

(***************************************************************************)
(* _ensure_disk() and mkdtemp().                                           *)
(***************************************************************************)
DiskReady == Free >= 2 * MaxBytes

MakeWorkdir(j) ==
    /\ pc[j] \in {"disk", "diskRecheck"}
    /\ DiskReady
    /\ dir' = [dir EXCEPT ![j] = TRUE]
    /\ Goto(j, "download")
    /\ UNCHANGED <<late, locals, result, input, output, size, world>>

\* Mutant: wait until there is room, however long that takes.
WaitForDiskForever(j) ==
    /\ pc[j] = "disk"
    /\ ~ DiskReady
    /\ UNCHANGED vars

\* The sleep of DISK_WAIT_SECONDS between the two checks.
WaitForDisk(j) ==
    /\ pc[j] = "disk"
    /\ ~ DiskReady
    /\ Goto(j, "diskRecheck")
    /\ UNCHANGED <<late, locals, result, workdir, world>>

DiskShort(j) ==
    /\ pc[j] = "diskRecheck"
    /\ ~ DiskReady
    /\ Fail(j, JobError("INTERNAL", TRUE))
    /\ UNCHANGED <<late, locals, workdir, world>>

(***************************************************************************)
(* download(): one chunk of the body at a time.                            *)
(***************************************************************************)
\* No usable response: 429, 5xx and network errors may pass, any other status
\* that is not 2xx and a body declared too large will not.
FetchRefused(j) ==
    /\ pc[j] = "download"
    /\ input[j] = 0
    /\ \E err \in {JobError("DOWNLOAD_FAILED", TRUE), JobError("DOWNLOAD_FAILED", FALSE),
                   JobError("INPUT_TOO_LARGE", FALSE)} : Fail(j, err)
    /\ UNCHANGED <<late, locals, workdir, world>>

FetchBroken(j) ==
    /\ pc[j] = "download"
    /\ input[j] > 0
    /\ Fail(j, JobError("DOWNLOAD_FAILED", TRUE))
    /\ UNCHANGED <<late, locals, workdir, world>>

\* Mutant: check the count before the chunk is added to it.
OverLimitLate(j) == input[j] > MaxBytes

OverLimit(j) == input[j] + 1 > MaxBytes

ChunkWritten(j) ==
    /\ pc[j] = "download"
    /\ ~ OverLimit(j)
    /\ ~ late[j]
    /\ Free > 0
    /\ input' = [input EXCEPT ![j] = @ + 1]
    /\ UNCHANGED <<pc, late, locals, result, dir, output, size, world>>

\* The byte count is checked before the clock, and both before the write.
ChunkRefused(j) ==
    /\ pc[j] = "download"
    /\ \/ OverLimit(j) /\ Fail(j, JobError("INPUT_TOO_LARGE", FALSE))
       \/ ~ OverLimit(j) /\ late[j] /\ Fail(j, JobError("TIMEOUT", TRUE))
    /\ UNCHANGED <<late, locals, workdir, world>>

\* The write raises OSError, which process() reports as INTERNAL.
ChunkStarves(j) ==
    /\ pc[j] = "download"
    /\ ~ OverLimit(j)
    /\ ~ late[j]
    /\ Free = 0
    /\ starved' = [starved EXCEPT ![j] = TRUE]
    /\ Fail(j, JobError("INTERNAL", TRUE))
    /\ UNCHANGED <<late, locals, workdir, leaked, store, works>>

FetchEnds(j) ==
    /\ pc[j] = "download"
    /\ \/ input[j] > 0 /\ Goto(j, "sniff") /\ UNCHANGED result
       \/ input[j] = 0 /\ Fail(j, JobError("DOWNLOAD_FAILED", FALSE))
    /\ UNCHANGED <<late, locals, workdir, world>>

(***************************************************************************)
(* sniff().                                                                *)
(***************************************************************************)
Sniff(j) ==
    /\ pc[j] = "sniff"
    /\ \/ Goto(j, IF request[j].media = "video" THEN "probe" ELSE "image")
          /\ UNCHANGED result
       \/ Fail(j, JobError("UNSUPPORTED_INPUT", FALSE))
    /\ UNCHANGED <<late, locals, workdir, world>>

(***************************************************************************)
(* process_video(): probe and plan.                                        *)
(***************************************************************************)
Probe(j) ==
    /\ pc[j] = "probe"
    /\ \/ /\ probed' = [probed EXCEPT ![j] = TRUE]
          /\ Goto(j, "plan")
          /\ UNCHANGED result
       \/ /\ \E err \in ProbeErrors : Fail(j, err)
          /\ UNCHANGED probed
    /\ UNCHANGED <<late, request, source, plan, attempt, tries, shot, workdir, world>>

\* The probed file is longer than the limit, or the job asks for an mp4 under
\* another content type.
PlanRejected(j) ==
    /\ pc[j] = "plan"
    /\ \E code \in {"DURATION_TOO_LONG", "INVALID_JOB"} : Fail(j, JobError(code, FALSE))
    /\ UNCHANGED <<late, locals, workdir, world>>

\* What plan_video() decides, as far as the stages after it can tell: "encode"
\* re-encodes the picture, "tonemap" does and maps HDR to SDR, "audio" copies
\* the picture and re-encodes the audio.
VideoPlans == {"unchanged", "remux", "audio", "encode", "tonemap"}

\* _run_encode's attempts, and the single command of a remux: a CUDA decode
\* and the configured encoder, a software decode and that encoder, libx264.
Ladder(p) ==
    IF Gpu /\ p = "encode" THEN <<"cuda", "configured", "libx264">>
    ELSE IF Gpu /\ p = "tonemap" THEN <<"configured", "libx264">>
    ELSE IF p = "remux" THEN <<"copy">> ELSE <<"configured">>

Rungs == {"cuda", "configured", "libx264", "copy"}

MakePlan(j) ==
    /\ pc[j] = "plan"
    /\ \E p \in VideoPlans :
          /\ plan' = [plan EXCEPT ![j] = p]
          /\ IF p = "unchanged"
             THEN Goto(j, "thumbnail") /\ UNCHANGED works
             ELSE /\ Goto(j, "encode")
                  /\ \E rungs \in SUBSET {Ladder(p)[i] : i \in DOMAIN Ladder(p)} :
                        works' = [works EXCEPT ![j] = rungs]
    /\ UNCHANGED <<late, request, probed, source, attempt, tries, shot, result,
                   workdir, leaked, store, starved>>

(***************************************************************************)
(* process_video(): the encode ladder.  ffmpeg.run() does not start after  *)
(* the deadline and is killed at it.                                       *)
(***************************************************************************)
\* What a write that did not finish leaves in the directory.
PartialFile(j) ==
    /\ output' = [output EXCEPT ![j] = "partial"]
    /\ \E bytes \in 0..MaxOutput :
          /\ bytes <= Free
          /\ size' = [size EXCEPT ![j] = bytes]

\* Mutant: stop one rung early.
LastRungEarly(j) == attempt[j] + 1 >= Len(Ladder(plan[j]))

LastRung(j) == attempt[j] = Len(Ladder(plan[j]))

RungWorks(j) == Ladder(plan[j])[attempt[j]] \in works[j]

\* ffmpeg exits with 0 and a file that may or may not pass the post-check.
EncodeExitsZero(j) ==
    /\ pc[j] = "encode"
    /\ ~ late[j]
    /\ RungWorks(j)
    /\ \E bytes \in 1..MaxOutput, made \in {"good", "bad"} :
          /\ bytes <= Free
          /\ size' = [size EXCEPT ![j] = bytes]
          /\ output' = [output EXCEPT ![j] = made]
    /\ Goto(j, "postcheck")
    /\ UNCHANGED <<late, locals, result, dir, input, world>>

\* The rung is refused by the host or the source, or fills the disk.  What it
\* wrote is removed before the next rung and stays behind after the last.
EncodeExitsNonzero(j) ==
    /\ pc[j] = "encode"
    /\ ~ late[j]
    /\ \/ ~ RungWorks(j) /\ UNCHANGED starved
       \/ MaxOutput > Free /\ starved' = [starved EXCEPT ![j] = TRUE]
    /\ IF LastRung(j)
       THEN /\ Fail(j, JobError("ENCODE_FAILED", FALSE))
            /\ PartialFile(j)
            /\ UNCHANGED attempt
       ELSE /\ attempt' = [attempt EXCEPT ![j] = @ + 1]
            /\ output' = [output EXCEPT ![j] = "none"]
            /\ size' = [size EXCEPT ![j] = 0]
            /\ UNCHANGED <<pc, result>>
    /\ UNCHANGED <<late, request, probed, source, plan, tries, shot, dir, input,
                   leaked, store, works>>

EncodeTimesOut(j) ==
    /\ pc[j] = "encode"
    /\ late' = [late EXCEPT ![j] = TRUE]
    /\ PartialFile(j)
    /\ Fail(j, JobError("TIMEOUT", TRUE))
    /\ UNCHANGED <<locals, dir, input, world>>

\* probe() of the output file, then _post_check().  A file ffmpeg finished
\* fails the probe for good only when it is unreadable.
PostCheckPasses(j) == output[j] = "good"

PostCheck(j) ==
    /\ pc[j] = "postcheck"
    /\ \/ PostCheckPasses(j) /\ Goto(j, "thumbnail") /\ UNCHANGED result
       \/ ~ PostCheckPasses(j) /\ Fail(j, JobError("ENCODE_FAILED", FALSE))
       \/ \E err \in ProbeErrors :
             (output[j] = "good" => err.retryable) /\ Fail(j, err)
    /\ UNCHANGED <<late, locals, workdir, world>>

(***************************************************************************)
(* process_video(): the thumbnail, which is allowed a second even after    *)
(* the deadline and whose failure is only logged.  process_video() returns *)
(* and process() learns the source block.                                  *)
(***************************************************************************)
Thumbnail(j) ==
    /\ pc[j] = "thumbnail"
    /\ \E made \in BOOLEAN :
          /\ made => request[j].thumbnail
          /\ shot' = [shot EXCEPT ![j] = made]
    /\ source' = [source EXCEPT ![j] = TRUE]
    /\ Goto(j, "gate")
    /\ UNCHANGED <<late, request, probed, plan, attempt, tries, result, workdir, world>>

(***************************************************************************)
(* process_image(), which looks at no clock.                               *)
(***************************************************************************)
\* Unreadable, too many pixels, an unknown format, or keep_format against
\* another content type.
ImageRejected(j) ==
    /\ pc[j] = "image"
    /\ \E code \in {"UNSUPPORTED_INPUT", "INVALID_JOB"} : Fail(j, JobError(code, FALSE))
    /\ UNCHANGED <<late, locals, workdir, world>>

\* A GIF, an animation, or an upright image inside the bounds.
ImageUnchanged(j) ==
    /\ pc[j] = "image"
    /\ plan' = [plan EXCEPT ![j] = "unchanged"]
    /\ source' = [source EXCEPT ![j] = TRUE]
    /\ Goto(j, "gate")
    /\ UNCHANGED <<late, request, probed, attempt, tries, shot, result, workdir, world>>

ImageSaved(j) ==
    /\ pc[j] = "image"
    /\ \E bytes \in 1..MaxOutput :
          /\ bytes <= Free
          /\ size' = [size EXCEPT ![j] = bytes]
    /\ output' = [output EXCEPT ![j] = "good"]
    /\ plan' = [plan EXCEPT ![j] = "image"]
    /\ source' = [source EXCEPT ![j] = TRUE]
    /\ Goto(j, "gate")
    /\ UNCHANGED <<late, request, probed, attempt, tries, shot, result, dir, input, world>>

\* Pillow cannot resize or save; a full disk is one more OSError to it.
ImageNotSaved(j) ==
    /\ pc[j] = "image"
    /\ \/ UNCHANGED starved
       \/ MaxOutput > Free /\ starved' = [starved EXCEPT ![j] = TRUE]
    /\ PartialFile(j)
    /\ Fail(j, JobError("ENCODE_FAILED", FALSE))
    /\ UNCHANGED <<late, locals, dir, input, leaked, store, works>>

(***************************************************************************)
(* process(): the last look at the clock, and the uploads.                 *)
(***************************************************************************)
Changed(j) == plan[j] # "unchanged"

Uploads(j) == Changed(j) \/ shot[j]

\* Mutant: no look at the clock before the uploads.
GateAlwaysOpen(j) == TRUE

GateOpen(j) == ~ late[j]

Gate(j) ==
    /\ pc[j] = "gate"
    /\ \/ /\ ~ Uploads(j)
          /\ Goto(j, "report")
          /\ UNCHANGED result
       \/ /\ Uploads(j)
          /\ GateOpen(j)
          /\ Goto(j, IF Changed(j) THEN "putOutput" ELSE "putThumbnail")
          /\ UNCHANGED result
       \/ /\ Uploads(j)
          /\ ~ GateOpen(j)
          /\ Fail(j, JobError("TIMEOUT", TRUE))
    /\ UNCHANGED <<late, locals, workdir, world>>

\* upload(): ATTEMPTS puts of the same file.
Attempts == 3

Putting(j) == pc[j] \in {"putOutput", "putThumbnail"}

\* The bucket stores the file of the current upload.
Stored(j) ==
    store' = IF pc[j] = "putOutput"
             THEN [store EXCEPT ![j].output = output[j]]
             ELSE [store EXCEPT ![j].thumbnail = "good"]

AfterPut(j) == IF pc[j] = "putOutput" /\ shot[j] THEN "putThumbnail" ELSE "report"

PutAccepted(j) ==
    /\ Putting(j)
    /\ Stored(j)
    /\ tries' = [tries EXCEPT ![j] = 0]
    /\ Goto(j, AfterPut(j))
    /\ UNCHANGED <<late, request, probed, source, plan, attempt, shot, result,
                   workdir, leaked, works, starved>>

\* Mutant: one attempt too many.
LastTryLate(j) == tries[j] = Attempts

LastTry(j) == tries[j] = Attempts - 1

\* No answer, or 3xx, 408, 429 or 5xx: worth another attempt.  Without an
\* answer the bucket may have stored the file all the same.
PutUnanswered(j) ==
    /\ Putting(j)
    /\ Stored(j) \/ UNCHANGED store
    /\ IF LastTry(j)
       THEN Fail(j, JobError("UPLOAD_FAILED", TRUE)) /\ UNCHANGED tries
       ELSE tries' = [tries EXCEPT ![j] = @ + 1] /\ UNCHANGED <<pc, result>>
    /\ UNCHANGED <<late, request, probed, source, plan, attempt, shot, workdir,
                   leaked, works, starved>>

\* Mutant: a refused signature is a permanent failure.
PutRefusedForGood(j) ==
    /\ Putting(j)
    /\ Fail(j, JobError("UPLOAD_FAILED", FALSE))
    /\ UNCHANGED <<late, locals, workdir, world>>

\* Any other 4xx: the signature or the key is wrong.
PutRefused(j) ==
    /\ Putting(j)
    /\ Fail(j, JobError("UPLOAD_FAILED", TRUE))
    /\ UNCHANGED <<late, locals, workdir, world>>

Report(j) ==
    /\ pc[j] = "report"
    /\ result' = [result EXCEPT ![j] =
                     Result(IF Changed(j) THEN "completed" ELSE "unchanged",
                            "none", FALSE, source[j], shot[j])]
    /\ Goto(j, "cleanup")
    /\ UNCHANGED <<late, locals, workdir, world>>

(***************************************************************************)
(* The handlers around the stages.                                         *)
(***************************************************************************)
TryBlock == {"disk", "diskRecheck", "download", "sniff", "probe", "plan", "encode",
             "postcheck", "thumbnail", "image", "gate", "putOutput",
             "putThumbnail", "report"}

\* Any exception that is not a JobError: an OSError of a stage, a command that
\* cannot be started, a bug.
Crash(j) ==
    /\ pc[j] \in TryBlock
    /\ Fail(j, JobError("INTERNAL", TRUE))
    /\ UNCHANGED <<late, locals, workdir, world>>

\* The finally block: rmtree of the directory, and the call returns.
Cleanup(j) ==
    /\ pc[j] = "cleanup"
    /\ dir' = [dir EXCEPT ![j] = FALSE]
    /\ input' = [input EXCEPT ![j] = 0]
    /\ output' = [output EXCEPT ![j] = "none"]
    /\ size' = [size EXCEPT ![j] = 0]
    /\ Goto(j, "returned")
    /\ UNCHANGED <<late, locals, result, world>>

\* The clock passes started + limits.timeout_seconds.
DeadlinePasses(j) ==
    /\ j \in Active
    /\ ~ late[j]
    /\ late' = [late EXCEPT ![j] = TRUE]
    /\ UNCHANGED <<pc, locals, result, workdir, world>>
----------------------------------------------------------------------------
Step(j) ==
    \/ MakeWorkdir(j) \/ WaitForDisk(j) \/ DiskShort(j)
    \/ FetchRefused(j) \/ FetchBroken(j) \/ ChunkWritten(j) \/ ChunkRefused(j)
    \/ ChunkStarves(j) \/ FetchEnds(j) \/ Sniff(j)
    \/ Probe(j) \/ PlanRejected(j) \/ MakePlan(j)
    \/ EncodeExitsZero(j) \/ EncodeExitsNonzero(j) \/ EncodeTimesOut(j)
    \/ PostCheck(j) \/ Thumbnail(j)
    \/ ImageRejected(j) \/ ImageUnchanged(j) \/ ImageSaved(j) \/ ImageNotSaved(j)
    \/ Gate(j) \/ PutAccepted(j) \/ PutUnanswered(j) \/ PutRefused(j) \/ Report(j)
    \/ Cleanup(j)

\* Every call has returned and the worker idles.
Idle ==
    /\ \A j \in Jobs : pc[j] = "returned"
    /\ UNCHANGED vars

Next ==
    \/ \E j \in Jobs : Accept(j) \/ Reject(j) \/ Step(j) \/ Crash(j) \/ DeadlinePasses(j)
    \/ Idle

\* The operating system schedules every thread, and every call it waits on has
\* a timeout of its own, so a step that stays possible is taken.  No exception
\* has to come to the rescue.
Fairness == \A j \in Jobs : WF_vars(Step(j))

Spec == Init /\ [][Next]_vars /\ Fairness
----------------------------------------------------------------------------
Steps == {"queued", "cleanup", "returned"} \cup TryBlock

TypeOK ==
    /\ pc \in [Jobs -> Steps]
    /\ late \in [Jobs -> BOOLEAN]
    /\ request \in [Jobs -> RequestKinds]
    /\ probed \in [Jobs -> BOOLEAN]
    /\ source \in [Jobs -> BOOLEAN]
    /\ plan \in [Jobs -> VideoPlans \cup {"none", "image"}]
    /\ attempt \in [Jobs -> 1..3]
    /\ tries \in [Jobs -> 0..(Attempts - 1)]
    /\ shot \in [Jobs -> BOOLEAN]
    /\ result \in [Jobs -> Results]
    /\ dir \in [Jobs -> BOOLEAN]
    /\ input \in [Jobs -> 0..MaxBytes]
    /\ output \in [Jobs -> {"none", "partial", "good", "bad"}]
    /\ size \in [Jobs -> 0..MaxOutput]
    /\ leaked \in Leaks
    /\ store \in [Jobs -> Objects]
    /\ works \in [Jobs -> SUBSET Rungs]
    /\ starved \in [Jobs -> BOOLEAN]

(***************************************************************************)
(* Safety.                                                                 *)
(***************************************************************************)
\* A returned result tells the truth about the bucket: "completed" means the
\* post-checked file is stored, and the thumbnail exactly when it is reported;
\* "unchanged" means nothing was put at output.url; and after a failure the
\* caller may not retry nothing is stored (README 4.2, 5.5, 5.8).
ResultAgreesWithBucket ==
    \A j \in Jobs : pc[j] = "returned" => Agrees(result[j], store[j])

\* A video fails because ffmpeg did only when no rung of its ladder can render
\* it here, or the disk is full: a host without CUDA decode or without NVENC
\* fails no job that libx264 can do (_run_encode).
FallbackExhausted ==
    \A j \in Jobs :
        /\ pc[j] = "cleanup"
        /\ request[j].media = "video"
        /\ result[j].code = "ENCODE_FAILED"
        /\ output[j] = "partial"
        /\ ~ starved[j]
        => \A i \in DOMAIN Ladder(plan[j]) : Ladder(plan[j])[i] \notin works[j]

\* With room for the input and the output of every job that runs, the check in
\* _ensure_disk is enough although it reserves nothing and is made before any
\* byte is written: no job ever finds the disk full, unless directories of a
\* killed worker take part of it.  The documented disk, Concurrency * 2 * MaxBytes
\* (README 5.9, 11), is that much as long as no output is larger than MaxBytes.
NoJobStarves ==
    DiskSize - leaked >= Concurrency * (MaxBytes + MaxOutput) =>
        \A j \in Jobs : ~ starved[j]

(***************************************************************************)
(* Steps and liveness.                                                     *)
(***************************************************************************)
BeforeUpload == Steps \ {"putOutput", "putThumbnail", "report", "cleanup", "returned"}

\* A job whose deadline passes before its first upload never stores anything:
\* every path on from there meets a TIMEOUT or has nothing to upload.
LateJobStoresNothing ==
    \A j \in Jobs : [](late[j] /\ pc[j] \in BeforeUpload => [](store[j] = Nothing))

\* process() always returns: no ladder, retry loop or wait goes round for ever.
EveryJobReturns == \A j \in Jobs : (pc[j] # "queued") ~> (pc[j] = "returned")

Contract == INSTANCE JobContract
              WITH phase   <- [j \in Jobs |-> IF pc[j] \in {"queued", "returned"}
                                              THEN pc[j] ELSE "running"],
                   outcome <- [j \in Jobs |-> IF pc[j] = "returned"
                                              THEN result[j] ELSE NoResult]

\* The pipeline keeps the contract step by step: one result per job, given
\* after the last store, a thumbnail only after the file it shows.
ImplementsContract == Contract!Spec

(***************************************************************************)
(* What the documents say and the code does not do.                        *)
(***************************************************************************)
\* README 4.2: "source" is present whenever the probe succeeded.
ProbedSourceReported ==
    \A j \in Jobs : pc[j] = "returned" /\ probed[j] => result[j].source
=============================================================================
