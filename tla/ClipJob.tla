------------------------------- MODULE ClipJob -------------------------------
(***************************************************************************)
(* A clip job: one downloaded source, several clips, each uploaded as soon *)
(* as it is rendered (_process_staged in postiz_uploader/pipeline.py and   *)
(* process_clips in postiz_uploader/clip.py).  The clips of a job run one  *)
(* after the other on its thread; they share the encoder ladder, which     *)
(* shrinks as rungs fail, and the process-wide answer to "does this ffmpeg *)
(* have libass".                                                           *)
(*                                                                         *)
(* What happens before the source is on disk is one step here: Pipeline    *)
(* has it call by call.                                                    *)
(***************************************************************************)
EXTENDS Naturals, JobResults

CONSTANTS
    N,         \* len(job.clips)
    Gpu,       \* settings.gpu
    Libass     \* whether ffmpeg -filters lists "ass"

ASSUME ClipsAssumption == N \in Nat \ {0} /\ Gpu \in BOOLEAN /\ Libass \in BOOLEAN

Clips == 1..N

VARIABLES
    pc,         \* the next step of the job's thread
    late,       \* whether time.monotonic() has passed the deadline
    clip,       \* index of the loop, N + 1 when it has ended
    entries,    \* the failure or success of each clip, NoResult until known
    ladder,     \* encoders.attempts, whose order is Rank
    rungs,      \* what is left of _render's copy of it
    made,       \* the file of the current clip: "none", "good" or "bad"
    shot,       \* whether thumbnail_path names a file
    tries,      \* failed attempts of the current upload()
    filter,     \* has_filter's cached answer: "unknown", "yes" or "no"
    store,      \* the objects behind the URLs of each clip
    result,     \* status, code and retryable of the job, and whether it has clips
    works,      \* rungs that can render this source on this host
    accidents   \* <<clip, rung>>: the rung works, and failed in this clip all the same

vars == <<pc, late, clip, entries, ladder, rungs, made, shot, tries, filter, store,
          result, works, accidents>>
----------------------------------------------------------------------------
JobResult(status, code, retryable, clips) ==
    [status |-> status, code |-> code, retryable |-> retryable, clips |-> clips]

NoJobResult == JobResult("none", "none", FALSE, FALSE)

\* Mutant: the clock is never looked at.
TimeLeftAlways == TRUE

\* _remaining(deadline) > 0
TimeLeft == ~ late

\* A JobError inside the loop fails its clip, and the loop goes on.
FailClip(err) ==
    /\ entries' = [entries EXCEPT ![clip] =
                      Result("failed", err.code, err.retryable, FALSE, FALSE)]
    /\ clip' = clip + 1
    /\ pc' = "next"
    /\ UNCHANGED result

\* An exception that leaves process_clips() fails the job: the result is built
\* from what "partial" holds, where no clip is.
FailJob(err) ==
    /\ result' = JobResult("failed", err.code, err.retryable, FALSE)
    /\ pc' = "cleanup"
    /\ UNCHANGED <<clip, entries>>

Onward(step) == pc' = step /\ UNCHANGED <<clip, entries, result>>

ProbeErrors == {JobError("PROBE_FAILED", TRUE), JobError("INTERNAL", TRUE),
                JobError("PROBE_FAILED", FALSE), JobError("UNSUPPORTED_INPUT", FALSE)}

\* The errors of _ensure_disk(), host_allowed(), download() and sniff().
FetchErrors == {JobError("INTERNAL", TRUE), JobError("SOURCE_HOST_NOT_ALLOWED", FALSE),
                JobError("DOWNLOAD_FAILED", TRUE), JobError("DOWNLOAD_FAILED", FALSE),
                JobError("INPUT_TOO_LARGE", FALSE), JobError("TIMEOUT", TRUE),
                JobError("UNSUPPORTED_INPUT", FALSE)}

\* The (encoder, decoder) combinations of _Encoders, best first.
Rungs == {"cuda", "configured", "libx264"}

Rank == [cuda |-> 1, configured |-> 2, libx264 |-> 3]

FullLadder(tonemap) ==
    IF ~ Gpu THEN {"configured"} ELSE IF tonemap THEN Rungs \ {"cuda"} ELSE Rungs

Best(attempts) == CHOOSE r \in attempts : \A other \in attempts : Rank[r] <= Rank[other]
----------------------------------------------------------------------------
Init ==
    /\ pc = "fetch"
    /\ late = FALSE
    /\ clip = 1
    /\ entries = [c \in Clips |-> NoResult]
    /\ ladder = {}
    /\ rungs = {}
    /\ made = "none"
    /\ shot = FALSE
    /\ tries = 0
    /\ filter = "unknown"
    /\ store = [c \in Clips |-> Nothing]
    /\ result = NoJobResult
    /\ works = {}
    /\ accidents = {}

(***************************************************************************)
(* _process_staged() up to the source, and the probe of process_clips().   *)
(***************************************************************************)
Fetch ==
    /\ pc = "fetch"
    /\ \/ Onward("probe")
       \/ \E err \in FetchErrors : FailJob(err)
    /\ UNCHANGED <<late, ladder, rungs, made, shot, tries, filter, store, works,
                   accidents>>

Probe ==
    /\ pc = "probe"
    /\ \/ /\ Onward("next")
          /\ \E tonemap \in BOOLEAN :
                /\ ladder' = FullLadder(tonemap)
                /\ works' \in SUBSET FullLadder(tonemap)
       \/ \E err \in ProbeErrors : FailJob(err) /\ UNCHANGED <<ladder, works>>
    /\ UNCHANGED <<late, rungs, made, shot, tries, filter, store, accidents>>

(***************************************************************************)
(* The loop over the clips.                                                *)
(***************************************************************************)
\* The entry of the next clip is appended to the results.
NextClip ==
    /\ pc = "next"
    /\ clip \in Clips
    /\ Onward("window")
    /\ made' = "none"
    /\ shot' = FALSE
    /\ tries' = 0
    /\ UNCHANGED <<late, ladder, rungs, filter, store, works, accidents>>

StartClip ==
    /\ pc = "window"
    /\ TimeLeft
    /\ Onward("captions")
    /\ UNCHANGED <<late, ladder, rungs, made, shot, tries, filter, store, works,
                   accidents>>

\* The deadline has passed, or the clip starts past the end of the source.  The
\* clock is looked at first.
RefuseClip ==
    /\ pc = "window"
    /\ FailClip(IF TimeLeft THEN JobError("INVALID_JOB", FALSE) ELSE JobError("TIMEOUT", TRUE))
    /\ UNCHANGED <<late, ladder, rungs, made, shot, tries, filter, store, works,
                   accidents>>

\* Mutant: a job with one finished clip is complete.
SummaryOfSome ==
    LET done == {c \in Clips : entries[c].status = "completed"} IN
    IF done # {} THEN JobResult("completed", "none", FALSE, TRUE)
    ELSE JobResult("failed", entries[1].code, entries[1].retryable, TRUE)

\* The top-level failure repeats the first clip's.
Summary ==
    LET done == {c \in Clips : entries[c].status = "completed"} IN
    IF done = Clips THEN JobResult("completed", "none", FALSE, TRUE)
    ELSE IF done # {} THEN JobResult("partial", "none", FALSE, TRUE)
    ELSE JobResult("failed", entries[1].code, entries[1].retryable, TRUE)

Summarise ==
    /\ pc = "next"
    /\ clip = N + 1
    /\ result' = Summary
    /\ pc' = "cleanup"
    /\ UNCHANGED <<late, clip, entries, ladder, rungs, made, shot, tries, filter, store,
                   works, accidents>>

(***************************************************************************)
(* _render(): captions.                                                    *)
(***************************************************************************)
\* A clip with words to burn in needs libass.  has_filter() asks ffmpeg once per
\* process and keeps the answer, which is "no" also when ffmpeg could not be
\* started or did not answer in time.
AskFilter ==
    /\ pc = "captions"
    /\ filter = "unknown"
    /\ filter' \in IF Libass THEN {"yes", "no"} ELSE {"no"}
    /\ UNCHANGED <<pc, late, clip, entries, ladder, rungs, made, shot, tries, store,
                   result, works, accidents>>

CaptionsRefused ==
    /\ pc = "captions"
    /\ filter = "no"
    /\ FailClip(JobError("INTERNAL", FALSE))
    /\ UNCHANGED <<late, ladder, rungs, made, shot, tries, filter, store, works,
                   accidents>>

\* The captions are written, or the clip has none.
CaptionsReady ==
    /\ pc = "captions"
    /\ Onward("encode")
    /\ rungs' = ladder
    /\ UNCHANGED <<late, ladder, made, shot, tries, filter, store, works, accidents>>

(***************************************************************************)
(* _render(): the ladder.                                                  *)
(***************************************************************************)
EncodeExitsZero ==
    /\ pc = "encode"
    /\ TimeLeft
    /\ Best(rungs) \in works
    /\ made' \in {"good", "bad"}
    /\ rungs' = {}
    /\ Onward("postcheck")
    /\ UNCHANGED <<late, ladder, shot, tries, filter, store, works, accidents>>

\* Mutant: the last rung is dropped in place of the one that failed.
DropLast ==
    {r \in ladder : ladder = {r} \/ \E other \in ladder : Rank[r] < Rank[other]}

\* A rung that fails for one clip is dropped for the clips after it, as long as
\* one is left.
Drop == IF ladder = {Best(rungs)} THEN ladder ELSE ladder \ {Best(rungs)}

\* The host or the source refuses the rung, or the disk is full.
EncodeExitsNonzero ==
    /\ pc = "encode"
    /\ TimeLeft
    /\ \/ Best(rungs) \notin works /\ UNCHANGED accidents
       \/ Best(rungs) \in works /\ accidents' = accidents \cup {<<clip, Best(rungs)>>}
    /\ ladder' = Drop
    /\ rungs' = rungs \ {Best(rungs)}
    /\ IF rungs' = {} THEN FailClip(JobError("ENCODE_FAILED", FALSE)) ELSE Onward("encode")
    /\ UNCHANGED <<late, made, shot, tries, filter, store, works>>

EncodeTimesOut ==
    /\ pc = "encode"
    /\ late' = TRUE
    /\ rungs' = {}
    /\ FailClip(JobError("TIMEOUT", TRUE))
    /\ UNCHANGED <<ladder, made, shot, tries, filter, store, works, accidents>>

\* Probe of the clip and the checks of its frame, codec, duration and
\* faststart.  Even past the deadline ffprobe is given a second.
PostCheckPasses == made = "good"

PostCheck ==
    /\ pc = "postcheck"
    /\ \/ PostCheckPasses /\ Onward("thumbnail")
       \/ ~ PostCheckPasses /\ FailClip(JobError("ENCODE_FAILED", FALSE))
       \/ \E err \in ProbeErrors : (made = "good" => err.retryable) /\ FailClip(err)
    /\ UNCHANGED <<late, ladder, rungs, made, shot, tries, filter, store, works,
                   accidents>>

\* A clip may ask for a thumbnail, and never fails for the lack of it.
Thumbnail ==
    /\ pc = "thumbnail"
    /\ shot' \in BOOLEAN
    /\ Onward("gate")
    /\ UNCHANGED <<late, ladder, rungs, made, tries, filter, store, works, accidents>>

(***************************************************************************)
(* _render(): the last look at the clock, and the uploads.                 *)
(***************************************************************************)
Gate ==
    /\ pc = "gate"
    /\ \/ TimeLeft /\ Onward("putOutput")
       \/ ~ TimeLeft /\ FailClip(JobError("TIMEOUT", TRUE))
    /\ UNCHANGED <<late, ladder, rungs, made, shot, tries, filter, store, works,
                   accidents>>

Attempts == 3

Putting == pc \in {"putOutput", "putThumbnail"}

\* Mutant: one attempt too many.
PutsLeftLate == Putting /\ tries <= Attempts

PutsLeft == Putting /\ tries < Attempts

Stored ==
    store' = IF pc = "putOutput" THEN [store EXCEPT ![clip].output = made]
                                 ELSE [store EXCEPT ![clip].thumbnail = "good"]

PutAccepted ==
    /\ PutsLeft
    /\ Stored
    /\ tries' = 0
    /\ Onward(IF pc = "putOutput" /\ shot THEN "putThumbnail" ELSE "finish")
    /\ UNCHANGED <<late, ladder, rungs, made, shot, filter, works, accidents>>

\* Mutant: the backoff starts the attempts over.
PutUnansweredAgain ==
    /\ PutsLeft
    /\ Stored \/ UNCHANGED store
    /\ tries' = (tries + 1) % Attempts
    /\ UNCHANGED <<pc, late, clip, entries, ladder, rungs, made, shot, filter, result,
                   works, accidents>>

PutUnanswered ==
    /\ PutsLeft
    /\ Stored \/ UNCHANGED store
    /\ tries' = tries + 1
    /\ UNCHANGED <<pc, late, clip, entries, ladder, rungs, made, shot, filter, result,
                   works, accidents>>

PutGivenUp ==
    /\ Putting
    /\ ~ PutsLeft
    /\ FailClip(JobError("UPLOAD_FAILED", TRUE))
    /\ UNCHANGED <<late, ladder, rungs, made, shot, tries, filter, store, works,
                   accidents>>

\* Mutant: a refused signature is a permanent failure of the clip.
PutRefusedForGood ==
    /\ PutsLeft
    /\ FailClip(JobError("UPLOAD_FAILED", FALSE))
    /\ UNCHANGED <<late, ladder, rungs, made, shot, tries, filter, store, works,
                   accidents>>

PutRefused ==
    /\ PutsLeft
    /\ FailClip(JobError("UPLOAD_FAILED", TRUE))
    /\ UNCHANGED <<late, ladder, rungs, made, shot, tries, filter, store, works,
                   accidents>>

\* _render() removes the clip's files and returns, and its entry is completed.
FinishClip ==
    /\ pc = "finish"
    /\ entries' = [entries EXCEPT ![clip] = Result("completed", "none", FALSE, FALSE, shot)]
    /\ clip' = clip + 1
    /\ pc' = "next"
    /\ UNCHANGED <<late, ladder, rungs, made, shot, tries, filter, store, result, works,
                   accidents>>

(***************************************************************************)
(* The handlers around the stage.                                          *)
(***************************************************************************)
TryBlock == {"fetch", "probe", "next", "window", "captions", "encode", "postcheck",
             "thumbnail", "gate", "putOutput", "putThumbnail", "finish"}

\* An exception that is not a JobError, from writing the captions on a full
\* disk to a bug: the loop catches JobError only.
Crash ==
    /\ pc \in TryBlock
    /\ FailJob(JobError("INTERNAL", TRUE))
    /\ UNCHANGED <<late, ladder, rungs, made, shot, tries, filter, store, works,
                   accidents>>

Cleanup ==
    /\ pc = "cleanup"
    /\ pc' = "returned"
    /\ UNCHANGED <<late, clip, entries, ladder, rungs, made, shot, tries, filter, store,
                   result, works, accidents>>

DeadlinePasses ==
    /\ pc \in TryBlock
    /\ ~ late
    /\ late' = TRUE
    /\ UNCHANGED <<pc, clip, entries, ladder, rungs, made, shot, tries, filter, store,
                   result, works, accidents>>

Step ==
    \/ Fetch \/ Probe
    \/ NextClip \/ StartClip \/ RefuseClip \/ Summarise
    \/ AskFilter \/ CaptionsRefused \/ CaptionsReady
    \/ EncodeExitsZero \/ EncodeExitsNonzero \/ EncodeTimesOut
    \/ PostCheck \/ Thumbnail \/ Gate
    \/ PutAccepted \/ PutUnanswered \/ PutGivenUp \/ PutRefused \/ FinishClip
    \/ Cleanup

Done == pc = "returned" /\ UNCHANGED vars

Next == Step \/ Crash \/ DeadlinePasses \/ Done

\* Every call the thread waits on has a timeout of its own; no exception has to
\* come to the rescue.
Spec == Init /\ [][Next]_vars /\ WF_vars(Step)
----------------------------------------------------------------------------
TypeOK ==
    /\ pc \in TryBlock \cup {"cleanup", "returned"}
    /\ late \in BOOLEAN
    /\ clip \in 1..(N + 1)
    /\ entries \in [Clips -> Results]
    /\ ladder \subseteq Rungs
    /\ rungs \subseteq Rungs
    /\ made \in {"none", "good", "bad"}
    /\ shot \in BOOLEAN
    /\ tries \in 0..Attempts
    /\ filter \in {"unknown", "yes", "no"}
    /\ store \in [Clips -> Objects]
    /\ result \in [status : {"none", "completed", "partial", "failed"},
                   code : ErrorCodes \cup {"none"}, retryable : BOOLEAN, clips : BOOLEAN]
    /\ works \subseteq Rungs
    /\ accidents \subseteq Clips \X Rungs

\* The summary a caller acts on is right about the bucket as a whole: a
\* "completed" job has every clip stored, a "partial" one some and not all, and
\* a "failed" one that lists its clips has none that it calls finished; it says
\* why the first one failed (README 4.5).
SummaryTellsAll ==
    pc = "returned" /\ result.clips =>
        LET good == {c \in Clips : entries[c].status = "completed"} IN
        /\ \A c \in Clips : Agrees(entries[c], store[c])
        /\ result.status = "completed" <=> good = Clips
        /\ result.status = "partial" <=> good # {} /\ good # Clips
        /\ result.status = "failed" => entries[1].code = result.code

\* The rung at the end of the ladder.
LastRung == IF Gpu THEN "libx264" ELSE "configured"

\* The shared ladder keeps a clip from a rung only for a reason.  When ffmpeg's exit
\* status fails a clip, each rung that can render this source has been tried and
\* failed by accident, in this clip or in one before it, which dropped it for all
\* that follow; the last rung is never dropped, and so failed in this very clip.
NoRungLostUntried ==
    \A c \in Clips :
        pc = "next" /\ c = clip - 1 /\ entries[c].code = "ENCODE_FAILED" /\ made = "none" =>
            /\ \A r \in works : \E k \in 1..c : <<k, r>> \in accidents
            /\ LastRung \in works => <<c, LastRung>> \in accidents

Sending == {"putOutput", "putThumbnail", "finish"}

\* No upload of the clip has begun.
Unsent(c) == c > clip \/ (c = clip /\ pc \in TryBlock \ Sending)

\* A clip none of whose uploads has begun when the deadline passes is never
\* stored, be it the current one or one the loop has not reached.
LateClipStoresNothing ==
    \A c \in Clips : [](late /\ Unsent(c) => [](store[c] = Nothing))

\* The loop always ends and the job returns.
ClipJobReturns == <>(pc = "returned")

\* Each clip is a job of its own: begun once, one at a time, stored when it is
\* verified and then its thumbnail, and reported with a result that agrees.  A
\* failure of the whole job leaves the clip it was at running for ever.
Begun(c) == c < clip \/ (c = clip /\ pc \notin {"fetch", "probe", "next"})

Phase(c) ==
    IF entries[c] # NoResult THEN "returned" ELSE IF Begun(c) THEN "running" ELSE "queued"

ClipContract == INSTANCE JobContract
                  WITH Jobs        <- Clips,
                       Concurrency <- 1,
                       phase       <- [c \in Clips |-> Phase(c)],
                       outcome     <- entries

ClipsKeepContract == ClipContract!Spec

\* clip.py, module docstring: a job that fails half way keeps what it finished.
FinishedClipsKept ==
    pc = "returned" /\ (\E c \in Clips : entries[c].status = "completed") => result.clips
=============================================================================
