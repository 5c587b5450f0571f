-------------------------------- MODULE Ingest --------------------------------
(***************************************************************************)
(* An ingest job: a long source is fetched once and stored as a video, its *)
(* speech as audio, and its captions as a transcript (process_ingest in    *)
(* postiz_uploader/ingest.py, with ytdlp.py, oxylabs.py and                *)
(* _process_staged in pipeline.py).  The source is a file ("direct"), a    *)
(* page yt-dlp fetches over one route after the other until one is not     *)
(* blocked, or a video Oxylabs delivers into a bucket of the worker's own. *)
(*                                                                         *)
(* What the platforms, ffmpeg and the buckets answer is nondeterministic.  *)
(***************************************************************************)
EXTENDS Naturals, FiniteSets, JobResults

CONSTANTS
    Routes       \* how many addresses the yt-dlp route may try

ASSUME RoutesAssumption == Routes \in Nat \ {0}

VARIABLES
    pc,         \* the next step of the job's thread
    clock,      \* "early", "near" (less than POLL_SECONDS left) or "late"
    request,    \* the parsed job
    media,      \* what the source is: over a limit, with a sound track, for adults
    \* local variables of process_ingest() and the functions it calls
    source,     \* partial["source"]
    route,      \* the route of the yt-dlp loop
    tries,      \* failed attempts of the current metadata(), transcript() or upload()
    key,        \* whether delivered_url() has found the object
    made,       \* the outputs that have a file
    sent,       \* the outputs upload() has returned for
    result,     \* what the job is about to return
    \* the work directory and the outside world
    files,      \* the media.* files download_media() can see
    blocked,    \* the routes that have answered with a block
    remote,     \* the Oxylabs job and the object it delivers
    kept,       \* whether the DELETE of that object has failed
    store       \* the outputs that are stored behind their presigned URLs

facts  == <<request, media>>
locals == <<source, route, tries, key, made, sent>>
world  == <<files, blocked, remote, kept, store>>
vars   == <<pc, clock, facts, locals, result, world>>
----------------------------------------------------------------------------
\* The order of the uploads.
Rank == [video |-> 1, audio |-> 2, transcript |-> 3]

Outputs == {"video", "audio", "transcript"}

\* What _parse_ingest() lets through: an output is asked for, and captions and
\* windows from Oxylabs only.
Requests ==
    {r \in [via : {"direct", "ytdlp", "oxylabs"}, video : BOOLEAN,
            audio : {"no", "yes", "unless_transcript"}, transcript : BOOLEAN,
            window : BOOLEAN] :
        /\ r.video \/ r.audio # "no" \/ r.transcript
        /\ r.transcript \/ r.window => r.via = "oxylabs"}

Media == [huge : BOOLEAN, long : BOOLEAN, sound : BOOLEAN, age : BOOLEAN]

\* The source block: which route its page came over, and whether it has a
\* duration.
Source(known, over, length) == [known |-> known, route |-> over, length |-> length]

NoSource == Source(FALSE, 0, FALSE)

NoIngestResult == [status |-> "none", code |-> "none", retryable |-> FALSE,
                   source |-> NoSource, outputs |-> {}]

IngestResult(status, code, retryable, outputs) ==
    [status |-> status, code |-> code, retryable |-> retryable,
     source |-> source, outputs |-> outputs]

Late == clock = "late"

Raise(err) ==
    /\ result' = IngestResult("failed", err.code, err.retryable, {})
    /\ pc' = "cleanup"

\* Raise with what is reported of the source changed in the same step.
RaiseWith(err, block) ==
    /\ source' = block
    /\ result' = [IngestResult("failed", err.code, err.retryable, {}) EXCEPT !.source = block]
    /\ pc' = "cleanup"

Onward(step) == pc' = step /\ UNCHANGED result

\* Captions replace the audio when the job says so.
WantAudio(found) ==
    \/ request.audio = "yes"
    \/ request.audio = "unless_transcript" /\ "transcript" \notin found

\* The step after the captions are known, or not asked for.
FirstFetch(found) ==
    IF ~ (request.video \/ WantAudio(found)) THEN "gate"
    ELSE IF request.via = "oxylabs" THEN "submit" ELSE request.via

ProbeErrors == {JobError("PROBE_FAILED", TRUE), JobError("INTERNAL", TRUE),
                JobError("PROBE_FAILED", FALSE), JobError("UNSUPPORTED_INPUT", FALSE)}

\* The JobErrors of download(), whose limits are the size and the deadline.
DownloadErrors ==
    {JobError("DOWNLOAD_FAILED", TRUE), JobError("DOWNLOAD_FAILED", FALSE)}
        \cup {err \in {JobError("INPUT_TOO_LARGE", FALSE)} : media.huge}
        \cup {err \in {JobError("TIMEOUT", TRUE)} : Late}

\* The tables of markers a failed yt-dlp run is searched for.
Markers == {"blocked", "unavailable", "unsupported"}

\* The tables that have a marker in what yt-dlp said last, which may be several
\* lines.  "Sign in to confirm your age" is in two of them.
Tails == {said \in SUBSET Markers : media.age => {"blocked", "unavailable"} \subseteq said}

\* The first table that has one decides.
Classify(said) ==
    IF "blocked" \in said THEN JobError("SOURCE_BLOCKED", TRUE)
    ELSE IF "unavailable" \in said THEN JobError("SOURCE_UNAVAILABLE", FALSE)
    ELSE IF "unsupported" \in said THEN JobError("UNSUPPORTED_INPUT", FALSE)
    ELSE JobError("DOWNLOAD_FAILED", TRUE)

\* _request(): no answer and 429 or 5xx may pass, any other refusal will not.
RequestErrors == {JobError("DOWNLOAD_FAILED", TRUE), JobError("DOWNLOAD_FAILED", FALSE)}

\* The result status of a query says the video is gone or restricted.
Unavailable == JobError("SOURCE_UNAVAILABLE", FALSE)
----------------------------------------------------------------------------
Init ==
    /\ request \in Requests
    /\ media \in Media
    /\ media.age => request.via = "ytdlp"
    /\ pc = IF request.via = "oxylabs" THEN "prepare" ELSE request.via
    /\ clock = "early"
    /\ source = NoSource
    /\ route = 1
    /\ tries = 0
    /\ key = FALSE
    /\ made = {}
    /\ sent = {}
    /\ result = NoIngestResult
    /\ files = {}
    /\ blocked = {}
    /\ remote = "none"
    /\ kept = FALSE
    /\ store = {}

(***************************************************************************)
(* via "direct": host_allowed(), download() and sniff().                   *)
(***************************************************************************)
FetchDirect ==
    /\ pc = "direct"
    /\ \/ /\ ~ media.huge
          /\ ~ Late
          /\ source' = Source(TRUE, 0, FALSE)
          /\ Onward("probe")
       \/ /\ \E err \in DownloadErrors \cup {JobError("SOURCE_HOST_NOT_ALLOWED", FALSE),
                                             JobError("UNSUPPORTED_INPUT", FALSE)} : Raise(err)
          /\ UNCHANGED source
    /\ UNCHANGED <<clock, facts, route, tries, key, made, sent, world>>

(***************************************************************************)
(* via "ytdlp": metadata and media over one route after the other.  The    *)
(* token server of pot.ensure() changes what yt-dlp is asked for only.     *)
(***************************************************************************)
CheckHost ==
    /\ pc = "ytdlp"
    /\ \/ Onward("metadata")
       \/ Raise(JobError("SOURCE_HOST_NOT_ALLOWED", FALSE))
    /\ UNCHANGED <<clock, facts, locals, world>>

\* Mutant: one route is never tried.
LastRouteEarly == route + 1 >= Routes

\* Mutant: the loop has no last route.
LastRouteNever == FALSE

LastRoute == route = Routes

\* A block leads to the next route, any other JobError out of the loop.
RouteFails(err) ==
    /\ blocked' = IF err.code = "SOURCE_BLOCKED" THEN blocked \cup {route} ELSE blocked
    /\ IF err.code # "SOURCE_BLOCKED" \/ LastRoute
       THEN Raise(err) /\ UNCHANGED route
       ELSE route' = route + 1 /\ Onward("metadata")

MetadataFails ==
    /\ pc = "metadata"
    /\ ~ Late
    /\ \E said \in Tails : RouteFails(Classify(said))
    /\ UNCHANGED <<clock, facts, source, tries, key, made, sent, files, remote, kept, store>>

\* The run is killed after METADATA_TIMEOUT or at the deadline, or it is too
\* late to start it.
MetadataTimesOut ==
    /\ pc = "metadata"
    /\ clock' \in {clock, "late"}
    /\ Raise(JobError("TIMEOUT", TRUE))
    /\ UNCHANGED <<facts, locals, world>>

\* Mutant: the facts of the first page that answered are kept.
PageOfFirst(length) == IF source.known THEN source ELSE Source(TRUE, route, length)

Page(length) == Source(TRUE, route, length)

\* The page is resolved.  Its facts are reported from here on, whether it is
\* refused as live, as too long or as too large, or its media is fetched.
MetadataRead ==
    /\ pc = "metadata"
    /\ ~ Late
    /\ \E length \in BOOLEAN :
          LET page == Page(length) IN
          \/ RaiseWith(JobError("UNSUPPORTED_INPUT", FALSE), page)
          \/ length /\ media.long /\ RaiseWith(JobError("DURATION_TOO_LONG", FALSE), page)
          \/ media.huge /\ RaiseWith(JobError("INPUT_TOO_LARGE", FALSE), page)
          \/ /\ ~ (length /\ media.long)
             /\ source' = page
             /\ Onward("media")
    /\ UNCHANGED <<clock, facts, route, tries, key, made, sent, world>>

\* The stream files yt-dlp writes before it merges them: which rendition a
\* route is offered is not the worker's choice.
Streams == {"media.f1", "media.f2"}

\* A stream that was complete when the run failed stays in the directory.
MediaFails ==
    /\ pc = "media"
    /\ ~ Late
    /\ \E said \in Tails : RouteFails(Classify(said))
    /\ \E left \in SUBSET Streams : Cardinality(left) <= 1 /\ files' = files \cup left
    /\ UNCHANGED <<clock, facts, source, tries, key, made, sent, remote, kept, store>>

MediaTimesOut ==
    /\ pc = "media"
    /\ clock' = "late"
    /\ Raise(JobError("TIMEOUT", TRUE))
    /\ UNCHANGED <<facts, locals, world>>

\* Exit status 0: the streams of this route are merged into one file and
\* removed, or a stream is skipped for its size.  Anything but one file is
\* taken for a source that is too large.
MediaFetched ==
    /\ pc = "media"
    /\ ~ Late
    /\ \E stream \in Streams : files' = (files \ {stream}) \cup {"media.mp4"}
    /\ IF media.huge \/ Cardinality(files') # 1
       THEN Raise(JobError("INPUT_TOO_LARGE", FALSE))
       ELSE Onward("probe")
    /\ UNCHANGED <<clock, facts, locals, blocked, remote, kept, store>>

(***************************************************************************)
(* via "oxylabs": the facts and the captions, before anything is paid for. *)
(* No step of it looks at the clock.                                       *)
(***************************************************************************)
\* host_allowed(), configured(), video_id() and trim_window().
Prepare ==
    /\ pc = "prepare"
    /\ \/ Onward("facts")
       \/ \E code \in {"SOURCE_HOST_NOT_ALLOWED", "INVALID_JOB", "UNSUPPORTED_INPUT"} :
             Raise(JobError(code, FALSE))
    /\ UNCHANGED <<clock, facts, locals, world>>

FactsRefused ==
    /\ pc = "facts"
    /\ \E err \in RequestErrors \cup {Unavailable} : Raise(err)
    /\ UNCHANGED <<clock, facts, locals, world>>

\* An answer without a parsed result is asked for again, METADATA_ATTEMPTS times.
MetadataAttempts == 3

FactsUnusable ==
    /\ pc = "facts"
    /\ IF tries + 1 < MetadataAttempts
       THEN tries' = tries + 1 /\ UNCHANGED <<pc, result>>
       ELSE Raise(JobError("DOWNLOAD_FAILED", TRUE)) /\ UNCHANGED tries
    /\ UNCHANGED <<clock, facts, source, route, key, made, sent, world>>

\* The window is what is checked when there is one, the duration otherwise.
FactsRead ==
    /\ pc = "facts"
    /\ \E length \in BOOLEAN :
          LET block == Source(TRUE, 0, length)
              tooLong == media.long /\ (request.window \/ length)
          IN
          \/ RaiseWith(JobError("UNSUPPORTED_INPUT", FALSE), block)
          \/ tooLong /\ RaiseWith(JobError("DURATION_TOO_LONG", FALSE), block)
          \/ /\ ~ tooLong
             /\ source' = block
             /\ Onward(IF request.transcript THEN "captions" ELSE FirstFetch(made))
    /\ tries' = 0
    /\ UNCHANGED <<clock, facts, route, key, made, sent, world>>

CaptionsRefused ==
    /\ pc = "captions"
    /\ \E err \in RequestErrors \cup {Unavailable} : Raise(err)
    /\ UNCHANGED <<clock, facts, locals, world>>

\* transcript() finds captions in a language and origin of the job and they are
\* written to a file, or it finds none in any.
CaptionsSettled ==
    /\ pc = "captions"
    /\ \E found \in {made, made \cup {"transcript"}} :
          made' = found /\ Onward(FirstFetch(found))
    /\ UNCHANGED <<clock, facts, source, route, tries, key, sent, world>>

(***************************************************************************)
(* via "oxylabs": the download.  The remote job runs on its own.           *)
(***************************************************************************)
\* Before the POST, the configuration of the bucket is read.  A POST that
\* failed, or was answered without a job id, may have started a job all the same.
SubmitFails ==
    /\ pc = "submit"
    /\ \/ Raise(JobError("INVALID_JOB", FALSE)) /\ UNCHANGED remote
       \/ Raise(JobError("DOWNLOAD_FAILED", FALSE)) /\ UNCHANGED remote
       \/ Raise(JobError("DOWNLOAD_FAILED", TRUE)) /\ remote' \in {remote, "running"}
    /\ UNCHANGED <<clock, facts, locals, files, blocked, kept, store>>

Submit ==
    /\ pc = "submit"
    /\ remote' = "running"
    /\ Onward("wait")
    /\ UNCHANGED <<clock, facts, locals, files, blocked, kept, store>>

\* Oxylabs ends the job, and its object becomes readable a moment later.
RemoteStep ==
    /\ \/ remote = "running" /\ remote' \in {"done", "faulted"}
       \/ remote = "done" /\ remote' = "readable"
    /\ UNCHANGED <<pc, clock, facts, locals, result, files, blocked, kept, store>>

\* Mutant: polled for as long as the remote job takes.
TooLateToPollNever == FALSE

\* The next poll would come after the deadline.
TooLateToPoll == clock # "early"

WaitTimesOut ==
    /\ pc = "wait"
    /\ TooLateToPoll
    /\ Raise(JobError("TIMEOUT", TRUE))
    /\ UNCHANGED <<clock, facts, locals, world>>

\* The sleep of POLL_SECONDS.
StartPoll ==
    /\ pc = "wait"
    /\ ~ TooLateToPoll
    /\ Onward("poll")
    /\ UNCHANGED <<clock, facts, locals, world>>

PollRefused ==
    /\ pc = "poll"
    /\ \/ \E err \in RequestErrors : Raise(err)
       \/ remote = "faulted" /\ Raise(Unavailable)
       \/ remote = "faulted" /\ Raise(JobError("DOWNLOAD_FAILED", TRUE))
    /\ UNCHANGED <<clock, facts, locals, world>>

PollAnswered ==
    /\ pc = "poll"
    /\ \/ remote = "running" /\ Onward("wait")
       \/ remote \in {"done", "readable"} /\ Onward("locate")
    /\ UNCHANGED <<clock, facts, locals, world>>

\* delivered_url(): the names the object may have are asked for, for
\* DELIVERY_WAIT_SECONDS at most.
Locate ==
    /\ pc = "locate"
    /\ remote = "readable"
    /\ key' = TRUE
    /\ Onward("deliver")
    /\ UNCHANGED <<clock, facts, source, route, tries, made, sent, world>>

LocateFails ==
    /\ pc = "locate"
    /\ \E err \in RequestErrors : Raise(err)
    /\ UNCHANGED <<clock, facts, locals, world>>

\* discard() in the finally block: the DELETE succeeds, or fails unnoticed.
Discard ==
    \/ remote' = "deleted" /\ UNCHANGED kept
    \/ kept' = TRUE /\ UNCHANGED remote

\* Mutant: what could not be fetched is not discarded.
AfterFetchOnSuccess(fetched) == IF fetched THEN Discard ELSE UNCHANGED <<remote, kept>>

AfterFetch(fetched) == Discard

Deliver ==
    /\ pc = "deliver"
    /\ \/ ~ media.huge /\ ~ Late /\ Onward("probe") /\ AfterFetch(TRUE)
       \/ /\ \E err \in DownloadErrors \cup {JobError("INTERNAL", TRUE)} : Raise(err)
          /\ AfterFetch(FALSE)
    /\ UNCHANGED <<clock, facts, locals, files, blocked, store>>

(***************************************************************************)
(* process_ingest(): probe, remux and audio.                               *)
(***************************************************************************)
\* The duration of Oxylabs' page is kept over that of the file, which may be a
\* window of it; for the other sources the file knows best.
Probe ==
    /\ pc = "probe"
    /\ \E length \in BOOLEAN :
          LET block == [source EXCEPT !.length = @ \/ length] IN
          \/ length /\ media.long /\ RaiseWith(JobError("DURATION_TOO_LONG", FALSE), block)
          \/ /\ ~ (length /\ media.long)
             /\ WantAudio(made) /\ ~ media.sound
             /\ RaiseWith(JobError("UNSUPPORTED_INPUT", FALSE), block)
          \/ /\ ~ (length /\ media.long)
             /\ ~ (WantAudio(made) /\ ~ media.sound)
             /\ source' = block
             /\ Onward(IF request.video THEN "video" ELSE IF WantAudio(made) THEN "audio" ELSE "gate")
    /\ UNCHANGED <<clock, facts, route, tries, key, made, sent, world>>

ProbeFails ==
    /\ pc = "probe"
    /\ \E err \in ProbeErrors : Raise(err)
    /\ UNCHANGED <<clock, facts, locals, world>>

\* A faststart mp4 is taken as it is, whatever the clock says; anything else is
\* remuxed and probed.
VideoReady ==
    /\ pc = "video"
    /\ made' = made \cup {"video"}
    /\ Onward(IF WantAudio(made) THEN "audio" ELSE "gate")
    /\ UNCHANGED <<clock, facts, source, route, tries, key, sent, world>>

VideoFails ==
    /\ pc = "video"
    /\ \/ ~ Late /\ Raise(JobError("ENCODE_FAILED", FALSE))
       \/ \E err \in ProbeErrors : Raise(err)
    /\ UNCHANGED <<clock, facts, locals, world>>

AudioReady ==
    /\ pc = "audio"
    /\ ~ Late
    /\ made' = made \cup {"audio"}
    /\ Onward("gate")
    /\ UNCHANGED <<clock, facts, source, route, tries, key, sent, world>>

AudioFails ==
    /\ pc = "audio"
    /\ ~ Late
    /\ Raise(JobError("ENCODE_FAILED", FALSE))
    /\ UNCHANGED <<clock, facts, locals, world>>

\* ffmpeg is killed at the deadline, or not started after it.
FfmpegTimesOut ==
    /\ pc \in {"video", "audio"}
    /\ clock' = "late"
    /\ Raise(JobError("TIMEOUT", TRUE))
    /\ UNCHANGED <<facts, locals, world>>

(***************************************************************************)
(* process_ingest(): the last look at the clock, and the uploads in order. *)
(***************************************************************************)
\* Mutant: no look at the clock before the uploads.
GateAlwaysOpen == TRUE

GateOpen == ~ Late

Gate ==
    /\ pc = "gate"
    /\ \/ GateOpen /\ Onward("put")
       \/ ~ GateOpen /\ Raise(JobError("TIMEOUT", TRUE))
    /\ UNCHANGED <<clock, facts, locals, world>>

\* Mutant: one output is uploaded, whatever else was made.
ToSendOne == {out \in made : sent = {}}

\* What is left to upload.
ToSend == made \ sent

First(outs) == {out \in outs : \A other \in outs : Rank[out] <= Rank[other]}

Attempts == 3

PutAccepted ==
    /\ pc = "put"
    /\ \E out \in First(ToSend) :
          /\ sent' = sent \cup {out}
          /\ store' = store \cup {out}
    /\ tries' = 0
    /\ UNCHANGED <<pc, clock, facts, source, route, key, made, result, files, blocked,
                   remote, kept>>

\* No answer, or one worth another attempt.  The file may be stored all the same.
PutUnanswered ==
    /\ pc = "put"
    /\ \E out \in First(ToSend) : store' \in {store, store \cup {out}}
    /\ IF tries = Attempts - 1
       THEN Raise(JobError("UPLOAD_FAILED", TRUE)) /\ UNCHANGED tries
       ELSE tries' = tries + 1 /\ UNCHANGED <<pc, result>>
    /\ UNCHANGED <<clock, facts, source, route, key, made, sent, files, blocked, remote,
                   kept>>

PutRefused ==
    /\ pc = "put"
    /\ ToSend # {}
    /\ Raise(JobError("UPLOAD_FAILED", TRUE))
    /\ UNCHANGED <<clock, facts, locals, world>>

Report ==
    /\ pc = "put"
    /\ ToSend = {}
    /\ result' = IngestResult("completed", "none", FALSE, made)
    /\ pc' = "cleanup"
    /\ UNCHANGED <<clock, facts, locals, world>>

(***************************************************************************)
(* The handlers around the stage, and the clock.                           *)
(***************************************************************************)
\* An exception in download() has to pass the finally block of "deliver" first.
TryBlock == {"direct", "ytdlp", "metadata", "media", "prepare", "facts", "captions",
             "submit", "wait", "poll", "locate", "probe", "video", "audio", "gate", "put"}

Crash ==
    /\ pc \in TryBlock
    /\ Raise(JobError("INTERNAL", TRUE))
    /\ UNCHANGED <<clock, facts, locals, world>>

Cleanup ==
    /\ pc = "cleanup"
    /\ pc' = "returned"
    /\ files' = {}
    /\ UNCHANGED <<clock, facts, locals, result, blocked, remote, kept, store>>

ClockAdvances ==
    /\ pc # "returned"
    /\ \/ clock = "early" /\ clock' = "near"
       \/ clock = "near" /\ clock' = "late"
    /\ UNCHANGED <<pc, facts, locals, result, world>>

Step ==
    \/ FetchDirect
    \/ CheckHost \/ MetadataFails \/ MetadataTimesOut \/ MetadataRead
    \/ MediaFails \/ MediaTimesOut \/ MediaFetched
    \/ Prepare \/ FactsRefused \/ FactsUnusable \/ FactsRead
    \/ CaptionsRefused \/ CaptionsSettled
    \/ SubmitFails \/ Submit \/ WaitTimesOut \/ StartPoll \/ PollRefused \/ PollAnswered
    \/ Locate \/ LocateFails \/ Deliver
    \/ Probe \/ ProbeFails \/ VideoReady \/ VideoFails \/ AudioReady \/ AudioFails
    \/ FfmpegTimesOut
    \/ Gate \/ PutAccepted \/ PutUnanswered \/ PutRefused \/ Report
    \/ Cleanup

Done == pc = "returned" /\ UNCHANGED vars

Next == Step \/ Crash \/ ClockAdvances \/ RemoteStep \/ Done

\* Every call the thread waits on has a timeout of its own, and time passes.
\* Oxylabs may take as long as it likes.
Spec == Init /\ [][Next]_vars /\ WF_vars(Step) /\ WF_vars(ClockAdvances)
----------------------------------------------------------------------------
Sources == [known : BOOLEAN, route : 0..Routes, length : BOOLEAN]

IngestResults ==
    [status : {"none", "completed", "failed"}, code : ErrorCodes \cup {"none"},
     retryable : BOOLEAN, source : Sources, outputs : SUBSET Outputs]

TypeOK ==
    /\ pc \in TryBlock \cup {"deliver", "cleanup", "returned"}
    /\ clock \in {"early", "near", "late"}
    /\ request \in Requests
    /\ media \in Media
    /\ source \in Sources
    /\ route \in 1..Routes
    /\ tries \in 0..2
    /\ key \in BOOLEAN
    /\ made \subseteq Outputs
    /\ sent \subseteq made
    /\ result \in IngestResults
    /\ files \subseteq Streams \cup {"media.mp4"}
    /\ blocked \subseteq 1..Routes
    /\ remote \in {"none", "running", "done", "readable", "faulted", "deleted"}
    /\ kept \in BOOLEAN
    /\ store \subseteq Outputs

(***************************************************************************)
(* Safety.                                                                 *)
(***************************************************************************)
\* A route is used only after every route before it was blocked, and a job says
\* SOURCE_BLOCKED only when every one was (README 4.3, 4.4).
BlockedOnEveryRoute ==
    /\ 1..(route - 1) \subseteq blocked
    /\ pc = "returned" /\ result.code = "SOURCE_BLOCKED" => blocked = 1..Routes

\* The source block of the result is the source's own: a completed job reports
\* the page of the route its media came over, although blocked routes have left
\* facts of their own, and one that is refused as too long reports the length,
\* unless it was its window that was too long (README 4.4: source.proxied says
\* which kind of route won, and a caller may meter by the length).
SourceBlockTrue ==
    /\ pc = "returned" /\ result.status = "completed" /\ request.via = "ytdlp" =>
          result.source = Source(TRUE, route, result.source.length)
    /\ pc = "returned" /\ result.code = "DURATION_TOO_LONG" =>
          result.source.length \/ request.window

\* What is paid for is used and cleared away: a completed job that has paid for a
\* download has an output from it, since captions that replace the audio are
\* found first; and an object that was found in the bucket is deleted, also when
\* it cannot be fetched, is too large or comes too late, unless the DELETE itself
\* fails (README 4.4).
PaidDeliverySettled ==
    pc = "returned" =>
        /\ result.status = "completed" /\ remote # "none" =>
              result.outputs \cap {"video", "audio"} # {}
        /\ key => remote = "deleted" \/ kept

(***************************************************************************)
(* Steps and liveness.                                                     *)
(***************************************************************************)
\* A job whose deadline passes before its uploads never stores anything,
\* although most of its stages do not look at the clock.
LateIngestStoresNothing ==
    [](Late /\ pc \in (TryBlock \cup {"deliver"}) \ {"put"} => [](store = {}))

\* The job keeps the contract of an ingest job.
Contract == INSTANCE IngestContract
              WITH outcome <- IF pc = "returned"
                              THEN [status |-> result.status, retryable |-> result.retryable,
                                    outputs |-> result.outputs]
                              ELSE [status |-> "none", retryable |-> FALSE, outputs |-> {}]

IngestKeepsContract == Contract!Spec

\* Every job returns, even when Oxylabs never ends its part.
IngestReturns == <>(pc = "returned")

(***************************************************************************)
(* What the documents say and the code does not do.                        *)
(***************************************************************************)
\* README 4.3: a video that is age restricted is SOURCE_UNAVAILABLE, which no other
\* route and no retry can help.
AgeMeansUnavailable ==
    pc = "returned" /\ media.age => result.code # "SOURCE_BLOCKED"
=============================================================================
